------------------------------ MODULE Mailbox ------------------------------
(***************************************************************************)
(* One session's mailbox and its recipient: senders write files into new/  *)
(* (SendMail), the recipient's runtime moves what it takes to cur/         *)
(* (TakeMail), queues the text for its turn (Agent::DeliverMail), puts it  *)
(* in the conversation (PushUserInput), saves, and only then removes the   *)
(* file (Agent::Save, AckMail).  A runtime may be killed anywhere; the     *)
(* next one moves cur/ back to new/ (RecoverMail) and continues from the   *)
(* saved conversation.                                                     *)
(*                                                                         *)
(* The runtime is one thread: it is between two operations ("run"), in the *)
(* loops of DeliverMail ("take", "deliver"), in those of an `agents` call  *)
(* that waits for reports ("takeReports", "report"), between a save and    *)
(* its acknowledgements ("ack"), recovering ("recover"), or not running    *)
(* ("down").  How often a text stands in the conversation is what counts,  *)
(* not where; a report a wait answers with stands there as a tool result.  *)
(***************************************************************************)
EXTENDS Naturals, Sequences, FiniteSets

CONSTANTS
    Mail,        \* the ids of the messages sent to this mailbox
    Named,       \* those whose sender names them and sends them again
    Body,        \* id -> what it says and who says it
    Blank,       \* those without text
    Permitted,   \* those the recipient accepts (MailAllowed)
    Report,      \* agents' reports, which an `agents` call may wait for
    Lasting,     \* those that do not expire while modelled
    InboxCap,    \* kMailboxPending
    Window,      \* kDeliveredIds
    MaxSends,    \* bound: files written
    MaxCrashes   \* bound: runtimes killed

ASSUME MailAssumption ==
    /\ Named \subseteq Mail /\ Blank \subseteq Mail /\ Permitted \subseteq Mail
    /\ Report \subseteq Mail /\ Lasting \subseteq Mail
    /\ InboxCap \in Nat /\ Window \in Nat \ {0}
    /\ MaxSends \in Nat /\ MaxCrashes \in Nat

VARIABLES
    new, cur,    \* the files of the two directories: [at, id], `at` in order
    writing,     \* ids whose sender has checked the inbox and not yet written
    sends,       \* files written so far
    expired,     \* ids past their lifetime
    disk,        \* the saved session: conv, answers and delivered_mail
    up,          \* what the runtime is doing
    conv,        \* id -> how often its text stands in the conversation
    answers,     \* reports a wait has answered with
    delivered,   \* delivered_mail_: id -> when it was handed on, 0 if not kept
    handed,      \* messages handed on so far
    unacked,     \* unacked_mail_: taken, the file still in cur/
    arriving,    \* arriving_mail_: handed on, the text not in the conversation
    queue,       \* the mail among the queued steering messages
    batch,       \* what TakeMail's loop has yet to look at
    taken,       \* what it moved to cur/ and its caller has yet to handle
    crashes,     \* runtimes killed
    sent,        \* history: ids committed
    dropped,     \* history: ids expired before they were taken
    forgotten,   \* history: ids the window has let go
    waited       \* history: reports a wait took

box == <<new, cur, sends>>
senders == <<writing, sent>>
memory == <<conv, answers, delivered, unacked, arriving, queue>>
loop == <<up, batch, taken>>
history == <<dropped, forgotten, waited>>
vars == <<box, senders, expired, disk, memory, loop, handed, crashes, history>>

Elements(s) == {s[i] : i \in DOMAIN s}
File == [at : Nat, id : Mail]
Ids(files) == {f.id : f \in files}
\* AckMail removes every file of cur/ that ends in the id.
Without(files, m) == {f \in files : f.id # m}
\* The ids the window keeps.
Kept(window) == {m \in Mail : window[m] > 0}
InConv(c) == {m \in Mail : c[m] > 0}

TypeOK ==
    /\ new \in SUBSET File /\ cur \in SUBSET File
    /\ writing \in SUBSET Mail /\ sends \in Nat
    /\ expired \in SUBSET Mail
    /\ disk \in [conv : [Mail -> Nat], answers : SUBSET Mail,
                 delivered : [Mail -> Nat]]
    /\ up \in {"down", "recover", "run", "take", "deliver", "takeReports",
              "report", "ack"}
    /\ conv \in [Mail -> Nat] /\ answers \in SUBSET Mail
    /\ delivered \in [Mail -> Nat] /\ handed \in Nat
    /\ unacked \in SUBSET Mail /\ arriving \in SUBSET Mail
    /\ queue \in Seq(Mail) /\ batch \in SUBSET File /\ taken \in Seq(Mail)
    /\ crashes \in Nat
    /\ sent \in SUBSET Mail /\ dropped \in SUBSET Mail
    /\ forgotten \in SUBSET Mail /\ waited \in SUBSET Mail

Nothing == [m \in Mail |-> 0]

Init ==
    /\ new = {} /\ cur = {} /\ sends = 0
    /\ writing = {} /\ sent = {} /\ expired = {}
    /\ disk = [conv |-> Nothing, answers |-> {}, delivered |-> Nothing]
    /\ conv = Nothing /\ answers = {} /\ delivered = Nothing
    /\ unacked = {} /\ arriving = {} /\ queue = <<>>
    /\ up = "down" /\ batch = {} /\ taken = <<>>
    /\ handed = 0 /\ crashes = 0
    /\ dropped = {} /\ forgotten = {} /\ waited = {}
-----------------------------------------------------------------------------
(* SendMail *)

\* The same message is still waiting: the same name, or, unnamed, the same
\* words from the same sender.
Waiting(m) == \E f \in new : IF m \in Named THEN f.id = m
                                           ELSE Body[f.id] = Body[m]

\* The checks a sender makes before it writes.  An unnamed message gets a
\* random id, so it is never sent twice under one.
CheckSend(m) ==
    /\ m \notin writing
    /\ m \notin Named => m \notin sent
    /\ ~Waiting(m)
    /\ Cardinality(new) < InboxCap
    /\ writing' = writing \cup {m}
    /\ UNCHANGED <<box, sent, expired, disk, memory, loop, handed, crashes,
                   history>>

\* The rename into new/ commits the message.
WriteMail(m) ==
    /\ m \in writing /\ sends < MaxSends
    /\ writing' = writing \ {m}
    /\ sends' = sends + 1
    /\ new' = new \cup {[at |-> sends, id |-> m]}
    /\ sent' = sent \cup {m}
    /\ UNCHANGED <<cur, expired, disk, memory, loop, handed, crashes, history>>

\* The sender dies or its write fails.
AbandonSend(m) ==
    /\ m \in writing
    /\ writing' = writing \ {m}
    /\ UNCHANGED <<box, sent, expired, disk, memory, loop, handed, crashes,
                   history>>

\* A day passes for the message.
Expire(m) ==
    /\ m \in sent \ (Lasting \cup expired)
    /\ expired' = expired \cup {m}
    /\ UNCHANGED <<box, senders, disk, memory, loop, handed, crashes, history>>

(* TakeMail *)

\* The pending messages are read first, then moved in the order they were sent.
BeginTake(loopName) ==
    /\ up = "run" /\ new # {}
    /\ up' = loopName /\ batch' = new
    /\ UNCHANGED <<box, senders, expired, disk, memory, taken, handed, crashes,
                   history>>
BeginDeliver == BeginTake("take")
BeginWait == BeginTake("takeReports")

Accepted == IF up = "take" THEN Permitted ELSE Report

DropExpired(f) ==
    /\ f.id \in expired
    /\ new' = new \ {f}
    /\ dropped' = dropped \cup {f.id}
    /\ UNCHANGED <<cur, taken>>
LeaveThere(f) ==
    /\ f.id \notin expired \cup Accepted
    /\ UNCHANGED <<new, cur, taken, dropped>>
MoveToCur(f) ==
    /\ f.id \in Accepted \ expired
    /\ new' = new \ {f}
    /\ cur' = cur \cup {f}
    /\ taken' = Append(taken, f.id)
    /\ UNCHANGED dropped

\* One message of the loop: an expired one is removed, one that is not
\* accepted stays, any other moves to cur/.
TakeOne ==
    /\ up \in {"take", "takeReports"}
    /\ \E f \in batch :
          /\ \A g \in batch : f.at <= g.at
          /\ batch' = batch \ {f}
          /\ DropExpired(f) \/ LeaveThere(f) \/ MoveToCur(f)
    /\ UNCHANGED <<sends, senders, expired, disk, memory, up, handed, crashes,
                   forgotten, waited>>

TakeDone ==
    /\ up \in {"take", "takeReports"} /\ batch = {}
    /\ up' = IF up = "take" THEN "deliver" ELSE "report"
    /\ UNCHANGED <<box, senders, expired, disk, memory, batch, taken, handed,
                   crashes, history>>

(* Agent::DeliverMail *)

Seen(m) == delivered[m] > 0
Oldest(window) == {m \in Kept(window) :
                      \A k \in Kept(window) : window[m] <= window[k]}
\* The variant that ranks from one below.
AppendedOffByOne(m) == [delivered EXCEPT ![m] = handed - 1]
\* The window with m appended, and what it lets go beyond its size.
Appended(m) == [delivered EXCEPT ![m] = handed + 1]
Overflows(m) == Cardinality(Kept(Appended(m))) > Window

\* The variant that acknowledges every repeat at once.
AckRepeats(m) ==
    /\ m \in Blank \/ Seen(m)
    /\ cur' = Without(cur, m)
    /\ UNCHANGED <<memory, handed, forgotten>>

\* Mail that changes nothing has no save to be acknowledged by.
AckAtOnce(m) ==
    /\ m \in Blank \/ Seen(m)
    /\ m \notin unacked
    /\ cur' = Without(cur, m)
    /\ UNCHANGED <<memory, handed, forgotten>>

\* A repeat of what a coming save will acknowledge.
AckWithTheSave(m) ==
    /\ Seen(m) /\ m \in unacked
    /\ UNCHANGED <<cur, memory, handed, forgotten>>

\* The text arrives: it is queued for the turn.
Arrive(m) ==
    /\ ~Seen(m) /\ m \notin Blank
    /\ unacked' = unacked \cup {m}
    /\ handed' = handed + 1
    /\ \/ /\ ~Overflows(m)
          /\ delivered' = Appended(m)
          /\ UNCHANGED forgotten
       \/ /\ Overflows(m)
          /\ \E old \in Oldest(Appended(m)) :
                /\ delivered' = [Appended(m) EXCEPT ![old] = 0]
                /\ forgotten' = forgotten \cup {old}
    /\ arriving' = arriving \cup {m}
    /\ queue' = Append(queue, m)
    /\ UNCHANGED <<cur, conv, answers>>

DeliverOne ==
    /\ up = "deliver" /\ taken # <<>>
    /\ LET m == Head(taken) IN
       AckAtOnce(m) \/ AckWithTheSave(m) \/ Arrive(m)
    /\ taken' = Tail(taken)
    /\ UNCHANGED <<new, sends, senders, expired, disk, up, batch, crashes,
                   dropped, waited>>

DeliverDone ==
    /\ up = "deliver" /\ taken = <<>>
    /\ up' = "run"
    /\ UNCHANGED <<box, senders, expired, disk, memory, batch, taken, handed,
                   crashes, history>>

(* the turn *)

\* PushUserInput: the oldest queued mail joins the conversation, as a turn of
\* its own or as guidance of the running one.
PushUserInput ==
    /\ up = "run" /\ queue # <<>>
    /\ LET m == Head(queue) IN
       /\ conv' = [conv EXCEPT ![m] = @ + 1]
       /\ arriving' = arriving \ {m}
    /\ queue' = Tail(queue)
    /\ UNCHANGED <<box, senders, expired, disk, answers, delivered, unacked,
                   loop, handed, crashes, history>>

\* The turn that would carry it does not start (no model is set, or the
\* runtime closes first): the text is gone, its id stays in arriving_mail_.
TurnRefused ==
    /\ up = "run" /\ queue # <<>>
    /\ queue' = Tail(queue)
    /\ UNCHANGED <<box, senders, expired, disk, conv, answers, delivered,
                   unacked, arriving, loop, handed, crashes, history>>

\* A wait acknowledges each report as it takes it; what it answers with is
\* its call's result.
ReportOne ==
    /\ up = "report" /\ taken # <<>>
    /\ LET m == Head(taken) IN
       /\ cur' = Without(cur, m)
       /\ answers' = answers \cup {m}
       /\ waited' = waited \cup {m}
    /\ taken' = Tail(taken)
    /\ UNCHANGED <<new, sends, senders, expired, disk, conv, delivered, unacked,
                   arriving, queue, up, batch, handed, crashes, dropped,
                   forgotten>>

ReportDone ==
    /\ up = "report" /\ taken = <<>>
    /\ up' = "run"
    /\ UNCHANGED <<box, senders, expired, disk, memory, batch, taken, handed,
                   crashes, history>>

(* Agent::Save and Agent::Load *)

\* The variant that saves every id handed on.
SaveMarksArriving ==
    /\ up = "run"
    /\ disk' = [conv |-> conv, answers |-> answers, delivered |-> delivered]
    /\ up' = "ack"
    /\ UNCHANGED <<box, senders, expired, memory, batch, taken, handed, crashes,
                   history>>

\* Mail whose text has not reached the conversation is not in the save.
WriteSave ==
    /\ up = "run"
    /\ disk' = [conv |-> conv, answers |-> answers,
                delivered |-> [m \in Mail |-> IF m \in arriving THEN 0
                                              ELSE delivered[m]]]
    /\ up' = "ack"
    /\ UNCHANGED <<box, senders, expired, memory, batch, taken, handed, crashes,
                   history>>

\* The variant that acknowledges everything taken.
AckEverything ==
    /\ up = "ack"
    /\ \E f \in cur : f.id \in unacked /\ cur' = cur \ {f}
    /\ UNCHANGED <<new, sends, senders, expired, disk, memory, loop, handed,
                   crashes, history>>

\* AckMail removes the files one after another.
AckOne ==
    /\ up = "ack"
    /\ \E f \in cur : f.id \in unacked \ arriving /\ cur' = cur \ {f}
    /\ UNCHANGED <<new, sends, senders, expired, disk, memory, loop, handed,
                   crashes, history>>

AckDone ==
    /\ up = "ack"
    /\ Ids(cur) \cap (unacked \ arriving) = {}
    /\ unacked' = unacked \cap arriving
    /\ up' = "run"
    /\ UNCHANGED <<box, senders, expired, disk, conv, answers, delivered,
                   arriving, queue, batch, taken, handed, crashes, history>>

\* The variant that does not restore delivered_mail.
StartForgetful ==
    /\ up = "down"
    /\ conv' = disk.conv /\ answers' = disk.answers
    /\ delivered' = Nothing
    /\ unacked' = {} /\ arriving' = {} /\ queue' = <<>>
    /\ up' = "recover"
    /\ UNCHANGED <<box, senders, expired, disk, batch, taken, handed, crashes,
                   history>>

\* A runtime starts from the saved session.
Start ==
    /\ up = "down"
    /\ conv' = disk.conv /\ answers' = disk.answers
    /\ delivered' = disk.delivered
    /\ unacked' = {} /\ arriving' = {} /\ queue' = <<>>
    /\ up' = "recover"
    /\ UNCHANGED <<box, senders, expired, disk, batch, taken, handed, crashes,
                   history>>

\* RecoverMail.
RecoverOne ==
    /\ up = "recover"
    /\ \E f \in cur : cur' = cur \ {f} /\ new' = new \cup {f}
    /\ UNCHANGED <<sends, senders, expired, disk, memory, loop, handed, crashes,
                   history>>

\* The variant that does not wait for cur/ to be empty.
RecoverSome ==
    /\ up = "recover"
    /\ up' = "run"
    /\ UNCHANGED <<box, senders, expired, disk, memory, batch, taken, handed,
                   crashes, history>>

RecoverDone ==
    /\ up = "recover" /\ cur = {}
    /\ up' = "run"
    /\ UNCHANGED <<box, senders, expired, disk, memory, batch, taken, handed,
                   crashes, history>>

\* The runtime is killed: what it kept in memory is lost.
Crash ==
    /\ up # "down" /\ crashes < MaxCrashes
    /\ crashes' = crashes + 1
    /\ up' = "down" /\ batch' = {} /\ taken' = <<>>
    /\ conv' = Nothing /\ answers' = {} /\ delivered' = Nothing
    /\ unacked' = {} /\ arriving' = {} /\ queue' = <<>>
    /\ UNCHANGED <<box, senders, expired, disk, handed, history>>
-----------------------------------------------------------------------------
Send == \E m \in Mail : CheckSend(m) \/ WriteMail(m) \/ AbandonSend(m)
\* The runtime's loops, each of which ends.
Loop == TakeOne \/ TakeDone \/ DeliverOne \/ DeliverDone \/ ReportOne
          \/ ReportDone \/ AckOne \/ AckDone \/ RecoverOne \/ RecoverDone

Next ==
    \/ Send \/ (\E m \in Mail : Expire(m))
    \/ Loop \/ Start \/ Crash
    \/ BeginDeliver \/ BeginWait
    \/ PushUserInput \/ TurnRefused \/ WriteSave

Spec == Init /\ [][Next]_vars

\* A runtime is started for a session with mail (Reach), its loops end, and it
\* keeps delivering, taking queued text up and saving, between turns if not
\* within one.  Nothing makes anyone send, wait or crash.
FairSpec == Spec /\ WF_vars(Loop) /\ WF_vars(Start) /\ SF_vars(BeginDeliver)
                 /\ SF_vars(PushUserInput) /\ SF_vars(WriteSave)
-----------------------------------------------------------------------------
\* Whatever crashes when, a message that SendMail committed is in the mailbox
\* or in the saved session, unless its day passed before it was taken, it says
\* nothing, or a wait took it.
NothingLost ==
    \A m \in sent :
        m \in Ids(new) \cup Ids(cur) \cup InConv(disk.conv)
              \cup dropped \cup waited \cup Blank

\* A message enters the conversation once, however often it is sent again or
\* redelivered, as long as the window of delivered ids remembers it.
AtMostOnce == \A m \in Mail \ forgotten : conv[m] <= 1 /\ disk.conv[m] <= 1

\* A saved session marks delivered only what its conversation holds: what a
\* save marks is never delivered again.
SaveIsConsistent == Kept(disk.delivered) \subseteq InConv(disk.conv)

\* No file of a message leaves the mailbox while only memory holds it: the
\* runtime would be killed with the last copy.
KeptUntilSaved ==
    \A m \in (Elements(queue) \cup arriving) \ waited :
        m \in Ids(cur) \cup InConv(disk.conv)

\* A permitted message with something to say reaches the saved conversation,
\* unless it expires, a wait takes it, or the turn for it was refused: that
\* one waits for the next runtime.
Delivered ==
    \A m \in Permitted \ Blank :
        m \in sent ~> \/ m \in InConv(disk.conv) \cup dropped \cup waited
                      \/ m \in arriving \ Elements(queue)

\* include/core/mailbox.h:6: the recipient "acknowledges it once its transcript
\* is saved, so a crash in between delivers it again".
AcknowledgedOnceSaved ==
    \A m \in sent :
        m \in Ids(new) \cup Ids(cur) \cup InConv(disk.conv) \cup disk.answers
              \cup dropped \cup Blank
=============================================================================
