--------------------------- MODULE MailboxProofs ---------------------------
(***************************************************************************)
(* That the mailbox of Mailbox loses no message and delivers none twice,   *)
(* for any messages, window, inbox size and number of crashes.             *)
(*                                                                         *)
(* The argument: a save holds whatever is unacknowledged and no longer     *)
(* arriving (SaveCovers), so what AckMail then removes is in the saved     *)
(* conversation; what delivered_mail_ remembers is there too or will be    *)
(* acknowledged by a coming save (WindowCovers), so a repeat may be        *)
(* acknowledged at once; and what is queued keeps its file until then      *)
(* (FilesCover).  For at most once, whatever is queued, arriving or in the *)
(* conversation is remembered by the window, in memory and in the save,    *)
(* until the window lets it go (Remembered).                               *)
(***************************************************************************)
EXTENDS Mailbox, TLAPS

\* A runtime that does not run, or has only loaded, has taken nothing.
Fresh ==
    up \in {"down", "recover"} =>
        unacked = {} /\ arriving = {} /\ queue = <<>> /\ taken = <<>>
\* A save only ever adds, and marks delivered what it holds.
SaveCovers ==
    /\ up # "down" => InConv(disk.conv) \subseteq InConv(conv)
    /\ Kept(disk.delivered) \subseteq InConv(disk.conv)
    /\ unacked \subseteq arriving \cup InConv(conv)
    /\ up = "ack" => unacked \ arriving \subseteq InConv(disk.conv)
\* What the window remembers is saved, or waits for its acknowledgement.
WindowCovers ==
    /\ Kept(delivered) \subseteq arriving \cup InConv(conv)
    /\ Kept(delivered) \subseteq unacked \cup InConv(disk.conv)
    /\ arriving \subseteq unacked
    /\ Elements(queue) \subseteq unacked \cup InConv(disk.conv)
\* What was taken and what is queued still has its file.
FilesCover ==
    /\ Elements(taken)
          \subseteq Ids(cur) \cup InConv(disk.conv) \cup waited \cup Blank
    /\ KeptUntilSaved

\* m stands in s at most once.
Single(s, m) == \A i, j \in DOMAIN s : s[i] = m /\ s[j] = m => i = j
\* The window remembers what it has not let go: in memory, and with the saved
\* conversation that a crash returns to.
Remembered ==
    \A m \in Mail \ forgotten :
        /\ m \in Elements(queue) \cup arriving \cup InConv(conv)
              => delivered[m] > 0
        /\ m \in Elements(queue) \cup arriving => conv[m] = 0
        /\ Single(queue, m)
        /\ disk.conv[m] > 0 => disk.delivered[m] > 0

IInv == TypeOK /\ Fresh /\ SaveCovers /\ WindowCovers /\ FilesCover
            /\ NothingLost
Once == AtMostOnce /\ Remembered
-----------------------------------------------------------------------------
\* What a sequence holds after its head is taken or an element is appended.
LEMMA TailElements ==
    ASSUME NEW s \in Seq(Mail), s # <<>>
    PROVE  /\ Head(s) \in Mail /\ Tail(s) \in Seq(Mail)
           /\ Elements(s) = {Head(s)} \cup Elements(Tail(s))
<1>1. Len(s) \in Nat \ {0} /\ DOMAIN s = 1..Len(s)
  OBVIOUS
<1>2. /\ Tail(s) \in Seq(Mail) /\ Len(Tail(s)) = Len(s) - 1
      /\ \A i \in 1..(Len(s) - 1) : Tail(s)[i] = s[i + 1]
  BY <1>1
<1>3. Head(s) = s[1] /\ Head(s) \in Mail
  BY <1>1
<1>4. ASSUME NEW x \in Elements(s) PROVE x \in {Head(s)} \cup Elements(Tail(s))
  <2>1. PICK i \in 1..Len(s) : x = s[i]
    BY <1>1, <1>4 DEF Elements
  <2>2. CASE i = 1
    BY <2>1, <2>2, <1>3
  <2>3. CASE i # 1
    <3>1. i - 1 \in DOMAIN Tail(s) /\ Tail(s)[i - 1] = x
      BY <1>1, <1>2, <2>1, <2>3
    <3> QED BY <3>1 DEF Elements
  <2> QED BY <2>2, <2>3
<1>5. ASSUME NEW x \in {Head(s)} \cup Elements(Tail(s)) PROVE x \in Elements(s)
  <2>1. CASE x = Head(s)
    BY <1>1, <1>3, <2>1 DEF Elements
  <2>2. CASE x \in Elements(Tail(s))
    <3>1. PICK i \in DOMAIN Tail(s) : x = Tail(s)[i]
      BY <2>2 DEF Elements
    <3>2. i + 1 \in DOMAIN s /\ s[i + 1] = x
      BY <1>1, <1>2, <3>1
    <3> QED BY <3>2 DEF Elements
  <2> QED BY <1>5, <2>1, <2>2
<1> QED BY <1>2, <1>3, <1>4, <1>5

LEMMA AppendElements ==
    ASSUME NEW s \in Seq(Mail), NEW m \in Mail
    PROVE  /\ Append(s, m) \in Seq(Mail)
           /\ Elements(Append(s, m)) = Elements(s) \cup {m}
<1>1. /\ Append(s, m) \in Seq(Mail) /\ Len(Append(s, m)) = Len(s) + 1
      /\ Append(s, m)[Len(s) + 1] = m
      /\ \A i \in 1..Len(s) : Append(s, m)[i] = s[i]
  OBVIOUS
<1>2. Len(s) \in Nat /\ DOMAIN s = 1..Len(s)
  OBVIOUS
<1>3. DOMAIN Append(s, m) = 1..(Len(s) + 1)
  BY <1>1, <1>2
<1>4. Elements(Append(s, m)) \subseteq Elements(s) \cup {m}
  BY <1>1, <1>2, <1>3 DEF Elements
<1>5. Elements(s) \cup {m} \subseteq Elements(Append(s, m))
  <2>1. ASSUME NEW x \in Elements(s) PROVE x \in Elements(Append(s, m))
    <3>1. PICK i \in 1..Len(s) : x = s[i]
      BY <1>2, <2>1 DEF Elements
    <3>2. i \in DOMAIN Append(s, m) /\ Append(s, m)[i] = x
      BY <1>1, <1>2, <1>3, <3>1
    <3> QED BY <3>2 DEF Elements
  <2>2. m \in Elements(Append(s, m))
    BY <1>1, <1>2, <1>3 DEF Elements
  <2> QED BY <2>1, <2>2
<1> QED BY <1>1, <1>4, <1>5

\* Where a sequence holds m at most once, so does its tail, and no longer the
\* m it began with; appending anything else keeps it so.
LEMMA TailSingle ==
    ASSUME NEW s \in Seq(Mail), s # <<>>, NEW m \in Mail, Single(s, m)
    PROVE  Single(Tail(s), m) /\ (Head(s) = m => m \notin Elements(Tail(s)))
<1>1. Len(s) \in Nat \ {0} /\ DOMAIN s = 1..Len(s) /\ Head(s) = s[1]
  OBVIOUS
<1>2. /\ DOMAIN Tail(s) = 1..(Len(s) - 1)
      /\ \A i \in 1..(Len(s) - 1) : Tail(s)[i] = s[i + 1]
  BY <1>1
<1> QED BY <1>1, <1>2 DEF Single, Elements

LEMMA AppendSingle ==
    ASSUME NEW s \in Seq(Mail), NEW m \in Mail, NEW x \in Mail,
           Single(s, x), x # m \/ x \notin Elements(s)
    PROVE  Single(Append(s, m), x)
<1>1. /\ Len(s) \in Nat /\ DOMAIN s = 1..Len(s)
      /\ DOMAIN Append(s, m) = 1..(Len(s) + 1)
      /\ Append(s, m)[Len(s) + 1] = m
      /\ \A i \in 1..Len(s) : Append(s, m)[i] = s[i]
  OBVIOUS
<1> QED BY <1>1 DEF Single, Elements

\* Whose files are left when one is added, removed, or all of one id are.
LEMMA IdsOf ==
    /\ \A A, f : Ids(A \cup {f}) = Ids(A) \cup {f.id}
    /\ \A A, f : Ids(A) \subseteq Ids(A \ {f}) \cup {f.id}
    /\ \A A, m : Ids(Without(A, m)) = Ids(A) \ {m}
  BY DEF Ids, Without

\* A message that arrives is in the window, which lets one go at most.
WindowMoves(m) ==
    /\ delivered' \in [Mail -> Nat]
    /\ \A x \in Mail : delivered'[x] > 0 => x = m \/ delivered[x] > 0
    /\ \A x \in Mail \ forgotten' :
          x = m \/ delivered[x] > 0 => delivered'[x] > 0
    /\ forgotten \subseteq forgotten' /\ forgotten' \subseteq Mail
LEMMA ArriveWindow ==
    ASSUME TypeOK, NEW m \in Mail, Arrive(m)
    PROVE  WindowMoves(m)
<1> USE DEF WindowMoves
<1>1. /\ delivered \in [Mail -> Nat] /\ handed \in Nat
      /\ forgotten \subseteq Mail
  BY DEF TypeOK
<1>2. CASE ~Overflows(m) /\ delivered' = Appended(m) /\ UNCHANGED forgotten
  BY <1>1, <1>2 DEF Appended
<1>3. ASSUME NEW old \in Oldest(Appended(m)),
             delivered' = [Appended(m) EXCEPT ![old] = 0],
             forgotten' = forgotten \cup {old}
      PROVE  WindowMoves(m)
  <2>1. old \in Mail
    BY DEF Oldest, Kept
  <2> QED BY <1>1, <1>3, <2>1 DEF Appended
<1> QED BY <1>2, <1>3 DEF Arrive

\* No message is in nothing.
LEMMA EmptyElements == Elements(<<>>) = {} /\ \A m : Single(<<>>, m)
  BY DEF Elements, Single

\* What stands in the conversation when one text is put in it.
LEMMA SpokenOnce ==
    ASSUME NEW c \in [Mail -> Nat], NEW d, NEW m \in Mail,
           \A x \in Mail : d[x] = IF x = m THEN c[x] + 1 ELSE c[x]
    PROVE  InConv(d) = InConv(c) \cup {m}
<1>1. ASSUME NEW x \in Mail PROVE d[x] > 0 <=> x = m \/ c[x] > 0
  <2>1. c[x] \in Nat
    OBVIOUS
  <2> QED BY <2>1
<1> QED BY <1>1 DEF InConv
-----------------------------------------------------------------------------
LEMMA IInvInit == Init => IInv /\ Once
<1> SUFFICES ASSUME Init PROVE IInv /\ Once
  OBVIOUS
<1> USE EmptyElements, MailAssumption DEF Init, Nothing, InConv, Kept, Ids
<1>1. TypeOK
  BY DEF TypeOK, File
<1>2. Fresh /\ SaveCovers /\ WindowCovers
  BY DEF Fresh, SaveCovers, WindowCovers
<1>3. FilesCover /\ NothingLost
  BY DEF FilesCover, KeptUntilSaved, NothingLost
<1>4. AtMostOnce /\ Remembered
  BY DEF AtMostOnce, Remembered
<1> QED BY <1>1, <1>2, <1>3, <1>4 DEF IInv, Once

\* Every step keeps the types.
LEMMA TypeStep ==
    ASSUME TypeOK, [Next]_vars
    PROVE  TypeOK'
<1> USE MailAssumption DEF TypeOK, File, Without, box, senders, memory, loop,
        history
<1>0. CASE UNCHANGED vars
  BY <1>0 DEF vars
<1>1. ASSUME NEW m \in Mail,
            CheckSend(m)
     PROVE  TypeOK'
  BY <1>1 DEF CheckSend
<1>2. ASSUME NEW m \in Mail,
            WriteMail(m)
     PROVE  TypeOK'
  <2>1. [at |-> sends, id |-> m] \in File
    OBVIOUS
  <2>2. new' \in SUBSET File /\ writing' \in SUBSET Mail
    BY <1>2, <2>1 DEF WriteMail
  <2>3. sends' \in Nat /\ sent' \in SUBSET Mail
    BY <1>2 DEF WriteMail
  <2>4. UNCHANGED <<cur, expired, disk, memory, loop, handed, crashes, history>>
    BY <1>2 DEF WriteMail
  <2> HIDE DEF File
  <2> QED BY <2>2, <2>3, <2>4
<1>3. ASSUME NEW m \in Mail,
            AbandonSend(m)
     PROVE  TypeOK'
  BY <1>3 DEF AbandonSend
<1>4. ASSUME NEW m \in Mail,
            Expire(m)
     PROVE  TypeOK'
  BY <1>4 DEF Expire
<1>5. CASE TakeOne
  <2>1. PICK f \in batch : /\ batch' = batch \ {f}
                           /\ DropExpired(f) \/ LeaveThere(f) \/ MoveToCur(f)
    BY <1>5 DEF TakeOne
  <2>2. f \in File /\ f.id \in Mail
    BY <2>1 DEF File
  <2>3. CASE DropExpired(f)
    BY <1>5, <2>1, <2>2, <2>3 DEF TakeOne, DropExpired
  <2>4. CASE LeaveThere(f)
    BY <1>5, <2>1, <2>2, <2>4 DEF TakeOne, LeaveThere
  <2>5. CASE MoveToCur(f)
    <3>1. /\ Append(taken, f.id) \in Seq(Mail)
          /\ Elements(Append(taken, f.id)) = Elements(taken) \cup {f.id}
      BY <2>2, AppendElements
    <3> QED BY <1>5, <2>1, <2>2, <2>5, <3>1 DEF TakeOne, MoveToCur
  <2> QED BY <2>1, <2>3, <2>4, <2>5
<1>6. CASE DeliverOne
  <2> DEFINE m == Head(taken)
  <2>1. /\ m \in Mail /\ Tail(taken) \in Seq(Mail)
        /\ Elements(taken) = {m} \cup Elements(Tail(taken))
    BY <1>6, TailElements DEF DeliverOne
  <2>2. AckAtOnce(m) \/ AckWithTheSave(m) \/ Arrive(m)
    BY <1>6 DEF DeliverOne
  <2>3. taken' = Tail(taken)
    BY <1>6 DEF DeliverOne
  <2> HIDE DEF m
  <2>4. CASE AckAtOnce(m)
    BY <1>6, <2>1, <2>3, <2>4 DEF DeliverOne, AckAtOnce, Without
  <2>5. CASE AckWithTheSave(m)
    BY <1>6, <2>1, <2>3, <2>5 DEF DeliverOne, AckWithTheSave
  <2>6. CASE Arrive(m)
    <3>1. /\ Append(queue, m) \in Seq(Mail)
          /\ Elements(Append(queue, m)) = Elements(queue) \cup {m}
      BY <2>1, AppendElements
    <3>2. delivered' \in [Mail -> Nat] /\ forgotten' \subseteq Mail
      BY <2>1, <2>6, ArriveWindow DEF WindowMoves
    <3>3. /\ new' = new /\ cur' = cur /\ handed' = handed + 1
          /\ unacked' = unacked \cup {m} /\ arriving' = arriving \cup {m}
          /\ queue' = Append(queue, m) /\ UNCHANGED <<conv, answers, disk>>
          /\ UNCHANGED <<sends, senders, expired, up, batch, crashes, dropped,
                         waited>>
      BY <1>6, <2>6 DEF DeliverOne, Arrive
    <3>4. /\ handed' \in Nat /\ unacked' \subseteq Mail
          /\ arriving' \subseteq Mail /\ queue' \in Seq(Mail)
          /\ conv' \in [Mail -> Nat] /\ answers' \subseteq Mail
      BY <2>1, <3>1, <3>3
    <3>5. /\ new' \subseteq File /\ cur' \subseteq File /\ batch' \subseteq File
          /\ disk' = disk
      BY <3>3
    <3>6. /\ taken' \in Seq(Mail)
          /\ writing' \subseteq Mail /\ sends' \in Nat
          /\ expired' \subseteq Mail
          /\ up' = up /\ crashes' \in Nat /\ sent' \subseteq Mail
          /\ dropped' \subseteq Mail /\ waited' \subseteq Mail
      BY <2>1, <2>3, <3>3
    <3> HIDE DEF File
    <3> QED BY <3>2, <3>4, <3>5, <3>6
  <2> QED BY <2>2, <2>4, <2>5, <2>6
<1>7. CASE PushUserInput
  <2> DEFINE m == Head(queue)
  <2>1. /\ m \in Mail /\ Tail(queue) \in Seq(Mail)
        /\ Elements(queue) = {m} \cup Elements(Tail(queue))
    BY <1>7, TailElements DEF PushUserInput
  <2>2. /\ conv' = [conv EXCEPT ![m] = conv[m] + 1]
        /\ arriving' = arriving \ {m} /\ queue' = Tail(queue)
        /\ up = "run"
        /\ UNCHANGED <<box, senders, expired, disk, answers, delivered,
                       unacked, loop, handed, crashes, history>>
    BY <1>7 DEF PushUserInput
  <2>5. /\ conv' \in [Mail -> Nat]
        /\ \A x \in Mail : conv'[x] = IF x = m THEN conv[x] + 1 ELSE conv[x]
    BY <2>1, <2>2
  <2> HIDE DEF m
  <2> HIDE DEF File
  <2> QED BY <1>7, <2>1, <2>2, <2>5 
<1>8. CASE TurnRefused
  <2> DEFINE m == Head(queue)
  <2>1. /\ m \in Mail /\ Tail(queue) \in Seq(Mail)
        /\ Elements(queue) = {m} \cup Elements(Tail(queue))
    BY <1>8, TailElements DEF TurnRefused
  <2>2. queue' = Tail(queue)
    BY <1>8 DEF TurnRefused
  <2> HIDE DEF m
  <2> QED BY <1>8, <2>1, <2>2 DEF TurnRefused
<1>9. CASE ReportOne
  <2> DEFINE m == Head(taken)
  <2>1. /\ m \in Mail /\ Tail(taken) \in Seq(Mail)
        /\ Elements(taken) = {m} \cup Elements(Tail(taken))
    BY <1>9, TailElements DEF ReportOne
  <2>2. /\ cur' = Without(cur, m) /\ taken' = Tail(taken)
        /\ answers' = answers \cup {m} /\ waited' = waited \cup {m}
    BY <1>9 DEF ReportOne
  <2> HIDE DEF m
  <2> QED BY <1>9, <2>1, <2>2 DEF ReportOne, Without
<1>10. CASE WriteSave
  BY <1>10, EmptyElements DEF WriteSave
<1>11. CASE Start
  BY <1>11, EmptyElements DEF Start
<1>12. CASE Crash
  BY <1>12, EmptyElements DEF Crash, Nothing
<1>13. CASE AckOne
  BY <1>13 DEF AckOne
<1>14. CASE AckDone
  BY <1>14 DEF AckDone
<1>15. CASE RecoverOne
  BY <1>15 DEF RecoverOne
<1>16. CASE BeginDeliver \/ BeginWait \/ TakeDone \/ DeliverDone \/ ReportDone
          \/ RecoverDone
  BY <1>16 DEF BeginDeliver, BeginTake, BeginWait, TakeDone, DeliverDone,
     ReportDone, RecoverDone
<1> QED BY <1>0, <1>1, <1>2, <1>3, <1>4, <1>5, <1>6, <1>7, <1>8, <1>9, <1>10,
     <1>11, <1>12, <1>13, <1>14, <1>15, <1>16 DEF Next, Send, Loop

\* A runtime that only recovers takes nothing.
LEMMA FreshStep ==
    ASSUME TypeOK, Fresh, [Next]_vars
    PROVE  Fresh'
<1> USE MailAssumption DEF TypeOK, Fresh, box, senders, memory, loop, history
<1>0. CASE UNCHANGED vars
  BY <1>0 DEF vars
<1>1. ASSUME NEW m \in Mail,
            CheckSend(m) \/ WriteMail(m) \/ AbandonSend(m) \/ Expire(m)
     PROVE  Fresh'
  BY <1>1 DEF CheckSend, WriteMail, AbandonSend, Expire
<1>2. CASE TakeOne
  BY <1>2, AppendElements DEF TakeOne, Accepted
<1>3. CASE DeliverOne
  BY <1>3, TailElements, AppendElements DEF DeliverOne, AckAtOnce,
     AckWithTheSave, Arrive, Appended, Overflows, Seen, Oldest
<1>4. CASE PushUserInput \/ TurnRefused
  BY <1>4, TailElements DEF PushUserInput, TurnRefused
<1>5. CASE ReportOne
  BY <1>5, TailElements DEF ReportOne
<1>6. CASE WriteSave \/ Start \/ Crash
  BY <1>6, EmptyElements DEF WriteSave, Start, Crash, Nothing
<1>7. CASE AckOne \/ AckDone \/ RecoverOne
  BY <1>7 DEF AckOne, AckDone, RecoverOne
<1>8. CASE BeginDeliver \/ BeginWait \/ TakeDone \/ DeliverDone \/ ReportDone
          \/ RecoverDone
  BY <1>8 DEF BeginDeliver, BeginTake, BeginWait, TakeDone, DeliverDone,
     ReportDone, RecoverDone
<1> QED BY <1>0, <1>1, <1>2, <1>3, <1>4, <1>5, <1>6, <1>7, <1>8 DEF Next,
     Send, Loop

\* A save covers what it will acknowledge.
LEMMA SaveStep ==
    ASSUME TypeOK, Fresh, SaveCovers, WindowCovers, [Next]_vars
    PROVE  SaveCovers'
<1> USE MailAssumption DEF TypeOK, Fresh, SaveCovers, WindowCovers, InConv,
        Kept, box, senders, memory, loop, history
<1>0. CASE UNCHANGED vars
  BY <1>0 DEF vars
<1>1. ASSUME NEW m \in Mail,
            CheckSend(m) \/ WriteMail(m) \/ AbandonSend(m) \/ Expire(m)
     PROVE  SaveCovers'
  BY <1>1 DEF CheckSend, WriteMail, AbandonSend, Expire
<1>2. CASE TakeOne
  <2>1. PICK f \in batch : /\ batch' = batch \ {f}
                           /\ DropExpired(f) \/ LeaveThere(f) \/ MoveToCur(f)
    BY <1>2 DEF TakeOne
  <2>2. f \in File /\ f.id \in Mail
    BY <2>1 DEF File
  <2>3. CASE DropExpired(f)
    BY <1>2, <2>1, <2>2, <2>3 DEF TakeOne, DropExpired
  <2>4. CASE LeaveThere(f)
    BY <1>2, <2>1, <2>2, <2>4 DEF TakeOne, LeaveThere
  <2>5. CASE MoveToCur(f)
    <3>1. /\ Append(taken, f.id) \in Seq(Mail)
          /\ Elements(Append(taken, f.id)) = Elements(taken) \cup {f.id}
      BY <2>2, AppendElements
    <3> QED BY <1>2, <2>1, <2>2, <2>5, <3>1 DEF TakeOne, MoveToCur
  <2> QED BY <2>1, <2>3, <2>4, <2>5
<1>3. CASE DeliverOne
  <2> DEFINE m == Head(taken)
  <2>1. /\ m \in Mail /\ Tail(taken) \in Seq(Mail)
        /\ Elements(taken) = {m} \cup Elements(Tail(taken))
    BY <1>3, TailElements DEF DeliverOne
  <2>2. AckAtOnce(m) \/ AckWithTheSave(m) \/ Arrive(m)
    BY <1>3 DEF DeliverOne
  <2>3. taken' = Tail(taken)
    BY <1>3 DEF DeliverOne
  <2> HIDE DEF m
  <2>4. CASE AckAtOnce(m)
    BY <1>3, <2>1, <2>3, <2>4 DEF DeliverOne, AckAtOnce
  <2>5. CASE AckWithTheSave(m)
    BY <1>3, <2>1, <2>3, <2>5 DEF DeliverOne, AckWithTheSave
  <2>6. CASE Arrive(m)
    <3>1. /\ Append(queue, m) \in Seq(Mail)
          /\ Elements(Append(queue, m)) = Elements(queue) \cup {m}
      BY <2>1, AppendElements
    <3> QED BY <1>3, <2>1, <2>3, <2>6, <3>1 DEF DeliverOne, Arrive
  <2> QED BY <2>2, <2>4, <2>5, <2>6
<1>4. CASE PushUserInput
  <2> DEFINE m == Head(queue)
  <2>1. /\ m \in Mail /\ Tail(queue) \in Seq(Mail)
        /\ Elements(queue) = {m} \cup Elements(Tail(queue))
    BY <1>4, TailElements DEF PushUserInput
  <2>2. /\ conv' = [conv EXCEPT ![m] = conv[m] + 1]
        /\ arriving' = arriving \ {m} /\ queue' = Tail(queue)
        /\ up = "run"
        /\ UNCHANGED <<box, senders, expired, disk, answers, delivered,
                       unacked, loop, handed, crashes, history>>
    BY <1>4 DEF PushUserInput
  <2>5. /\ conv' \in [Mail -> Nat]
        /\ \A x \in Mail : conv'[x] = IF x = m THEN conv[x] + 1 ELSE conv[x]
    BY <2>1, <2>2
  <2> HIDE DEF m
  <2> HIDE DEF InConv, Kept
  <2>6. InConv(conv') = InConv(conv) \cup {m}
    <3>1. conv \in [Mail -> Nat]
      OBVIOUS
    <3> HIDE DEF TypeOK, Fresh, SaveCovers, WindowCovers
    <3> QED BY <2>1, <2>5, <3>1, SpokenOnce
  <2>7. UNCHANGED <<disk, unacked>> /\ up' = "run"
    BY <2>2
  <2> QED BY <2>2, <2>6, <2>7
<1>5. CASE TurnRefused
  <2> DEFINE m == Head(queue)
  <2>1. /\ m \in Mail /\ Tail(queue) \in Seq(Mail)
        /\ Elements(queue) = {m} \cup Elements(Tail(queue))
    BY <1>5, TailElements DEF TurnRefused
  <2>2. queue' = Tail(queue)
    BY <1>5 DEF TurnRefused
  <2> HIDE DEF m
  <2> QED BY <1>5, <2>1, <2>2 DEF TurnRefused
<1>6. CASE ReportOne
  <2> DEFINE m == Head(taken)
  <2>1. /\ m \in Mail /\ Tail(taken) \in Seq(Mail)
        /\ Elements(taken) = {m} \cup Elements(Tail(taken))
    BY <1>6, TailElements DEF ReportOne
  <2>2. /\ cur' = Without(cur, m) /\ taken' = Tail(taken)
        /\ answers' = answers \cup {m} /\ waited' = waited \cup {m}
    BY <1>6 DEF ReportOne
  <2> HIDE DEF m
  <2> QED BY <1>6, <2>1, <2>2 DEF ReportOne
<1>7. CASE WriteSave
  BY <1>7, EmptyElements DEF WriteSave
<1>8. CASE Start
  BY <1>8, EmptyElements DEF Start
<1>9. CASE Crash
  BY <1>9, EmptyElements DEF Crash, Nothing
<1>10. CASE AckOne
  BY <1>10 DEF AckOne
<1>11. CASE AckDone
  BY <1>11 DEF AckDone
<1>12. CASE RecoverOne
  BY <1>12 DEF RecoverOne
<1>13. CASE BeginDeliver \/ BeginWait \/ TakeDone \/ DeliverDone \/ ReportDone
          \/ RecoverDone
  BY <1>13 DEF BeginDeliver, BeginTake, BeginWait, TakeDone, DeliverDone,
     ReportDone, RecoverDone
<1> QED BY <1>0, <1>1, <1>2, <1>3, <1>4, <1>5, <1>6, <1>7, <1>8, <1>9, <1>10,
     <1>11, <1>12, <1>13 DEF Next, Send, Loop

\* The window remembers what is saved or will be acknowledged by a save.
LEMMA WindowStep ==
    ASSUME TypeOK, Fresh, SaveCovers, WindowCovers, [Next]_vars
    PROVE  WindowCovers'
<1> USE MailAssumption DEF TypeOK, Fresh, SaveCovers, WindowCovers, InConv,
        Kept, box, senders, memory, loop, history
<1>0. CASE UNCHANGED vars
  BY <1>0 DEF vars
<1>1. ASSUME NEW m \in Mail,
            CheckSend(m) \/ WriteMail(m) \/ AbandonSend(m) \/ Expire(m)
     PROVE  WindowCovers'
  BY <1>1 DEF CheckSend, WriteMail, AbandonSend, Expire
<1>2. CASE TakeOne
  <2>1. PICK f \in batch : /\ batch' = batch \ {f}
                           /\ DropExpired(f) \/ LeaveThere(f) \/ MoveToCur(f)
    BY <1>2 DEF TakeOne
  <2>2. f \in File /\ f.id \in Mail
    BY <2>1 DEF File
  <2>3. CASE DropExpired(f)
    BY <1>2, <2>1, <2>2, <2>3 DEF TakeOne, DropExpired
  <2>4. CASE LeaveThere(f)
    BY <1>2, <2>1, <2>2, <2>4 DEF TakeOne, LeaveThere
  <2>5. CASE MoveToCur(f)
    <3>1. /\ Append(taken, f.id) \in Seq(Mail)
          /\ Elements(Append(taken, f.id)) = Elements(taken) \cup {f.id}
      BY <2>2, AppendElements
    <3> QED BY <1>2, <2>1, <2>2, <2>5, <3>1 DEF TakeOne, MoveToCur
  <2> QED BY <2>1, <2>3, <2>4, <2>5
<1>3. CASE DeliverOne
  <2> DEFINE m == Head(taken)
  <2>1. /\ m \in Mail /\ Tail(taken) \in Seq(Mail)
        /\ Elements(taken) = {m} \cup Elements(Tail(taken))
    BY <1>3, TailElements DEF DeliverOne
  <2>2. AckAtOnce(m) \/ AckWithTheSave(m) \/ Arrive(m)
    BY <1>3 DEF DeliverOne
  <2>3. taken' = Tail(taken)
    BY <1>3 DEF DeliverOne
  <2> HIDE DEF m
  <2>4. CASE AckAtOnce(m)
    BY <1>3, <2>1, <2>3, <2>4 DEF DeliverOne, AckAtOnce
  <2>5. CASE AckWithTheSave(m)
    BY <1>3, <2>1, <2>3, <2>5 DEF DeliverOne, AckWithTheSave
  <2>6. CASE Arrive(m)
    <3>1. /\ Append(queue, m) \in Seq(Mail)
          /\ Elements(Append(queue, m)) = Elements(queue) \cup {m}
      BY <2>1, AppendElements
    <3>2. \A x \in Mail : delivered'[x] > 0 => x = m \/ delivered[x] > 0
      BY <2>1, <2>6, ArriveWindow DEF WindowMoves
    <3> QED BY <1>3, <2>1, <2>3, <2>6, <3>1, <3>2 DEF DeliverOne, Arrive
  <2> QED BY <2>2, <2>4, <2>5, <2>6
<1>4. CASE PushUserInput
  <2> DEFINE m == Head(queue)
  <2>1. /\ m \in Mail /\ Tail(queue) \in Seq(Mail)
        /\ Elements(queue) = {m} \cup Elements(Tail(queue))
    BY <1>4, TailElements DEF PushUserInput
  <2>2. /\ conv' = [conv EXCEPT ![m] = conv[m] + 1]
        /\ arriving' = arriving \ {m} /\ queue' = Tail(queue)
        /\ up = "run"
        /\ UNCHANGED <<box, senders, expired, disk, answers, delivered,
                       unacked, loop, handed, crashes, history>>
    BY <1>4 DEF PushUserInput
  <2>5. /\ conv' \in [Mail -> Nat]
        /\ \A x \in Mail : conv'[x] = IF x = m THEN conv[x] + 1 ELSE conv[x]
    BY <2>1, <2>2
  <2> HIDE DEF m
  <2> HIDE DEF InConv, Kept
  <2>6. InConv(conv') = InConv(conv) \cup {m}
    <3>1. conv \in [Mail -> Nat]
      OBVIOUS
    <3> HIDE DEF TypeOK, Fresh, SaveCovers, WindowCovers
    <3> QED BY <2>1, <2>5, <3>1, SpokenOnce
  <2>7. UNCHANGED <<disk, delivered, unacked>>
    BY <2>2
  <2>8. m \in unacked \cup InConv(disk.conv)
    BY <2>1
  <2> QED BY <2>1, <2>2, <2>6, <2>7, <2>8
<1>5. CASE TurnRefused
  <2> DEFINE m == Head(queue)
  <2>1. /\ m \in Mail /\ Tail(queue) \in Seq(Mail)
        /\ Elements(queue) = {m} \cup Elements(Tail(queue))
    BY <1>5, TailElements DEF TurnRefused
  <2>2. queue' = Tail(queue)
    BY <1>5 DEF TurnRefused
  <2> HIDE DEF m
  <2> QED BY <1>5, <2>1, <2>2 DEF TurnRefused
<1>6. CASE ReportOne
  <2> DEFINE m == Head(taken)
  <2>1. /\ m \in Mail /\ Tail(taken) \in Seq(Mail)
        /\ Elements(taken) = {m} \cup Elements(Tail(taken))
    BY <1>6, TailElements DEF ReportOne
  <2>2. /\ cur' = Without(cur, m) /\ taken' = Tail(taken)
        /\ answers' = answers \cup {m} /\ waited' = waited \cup {m}
    BY <1>6 DEF ReportOne
  <2> HIDE DEF m
  <2> QED BY <1>6, <2>1, <2>2 DEF ReportOne
<1>7. CASE WriteSave
  BY <1>7, EmptyElements DEF WriteSave
<1>8. CASE Start
  BY <1>8, EmptyElements DEF Start
<1>9. CASE Crash
  BY <1>9, EmptyElements DEF Crash, Nothing
<1>10. CASE AckOne
  BY <1>10 DEF AckOne
<1>11. CASE AckDone
  BY <1>11 DEF AckDone
<1>12. CASE RecoverOne
  BY <1>12 DEF RecoverOne
<1>13. CASE BeginDeliver \/ BeginWait \/ TakeDone \/ DeliverDone \/ ReportDone
          \/ RecoverDone
  BY <1>13 DEF BeginDeliver, BeginTake, BeginWait, TakeDone, DeliverDone,
     ReportDone, RecoverDone
<1> QED BY <1>0, <1>1, <1>2, <1>3, <1>4, <1>5, <1>6, <1>7, <1>8, <1>9, <1>10,
     <1>11, <1>12, <1>13 DEF Next, Send, Loop

\* A file goes only once a save holds its text, or it has none.
LEMMA FilesStep ==
    ASSUME TypeOK, Fresh, SaveCovers, WindowCovers, FilesCover, [Next]_vars
    PROVE  FilesCover'
<1> USE MailAssumption DEF TypeOK, Fresh, SaveCovers, WindowCovers,
        FilesCover, KeptUntilSaved, InConv, Kept, File, box, senders,
        memory, loop, history
<1>0. CASE UNCHANGED vars
  BY <1>0 DEF vars
<1>1. ASSUME NEW m \in Mail,
            CheckSend(m)
     PROVE  FilesCover'
  BY <1>1 DEF CheckSend
<1>2. ASSUME NEW m \in Mail, WriteMail(m) PROVE FilesCover'
  <2>1. Ids(new \cup {[at |-> sends, id |-> m]}) = Ids(new) \cup {m}
    <3> DEFINE f == [at |-> sends, id |-> m]
    <3>1. f.id = m
      OBVIOUS
    <3> HIDE DEF f
    <3>2. Ids(new \cup {f}) = Ids(new) \cup {m}
      BY <3>1, IdsOf
    <3> QED BY <3>2 DEF f
  <2> QED BY <1>2, <2>1 DEF WriteMail
<1>3. ASSUME NEW m \in Mail,
            AbandonSend(m)
     PROVE  FilesCover'
  BY <1>3 DEF AbandonSend
<1>4. ASSUME NEW m \in Mail,
            Expire(m)
     PROVE  FilesCover'
  BY <1>4 DEF Expire
<1>5. CASE TakeOne
  <2>1. PICK f \in batch : /\ batch' = batch \ {f}
                           /\ DropExpired(f) \/ LeaveThere(f) \/ MoveToCur(f)
    BY <1>5 DEF TakeOne
  <2>2. f \in File /\ f.id \in Mail
    BY <2>1 DEF File
  <2>3. CASE DropExpired(f)
    <3>1. Ids(new) \subseteq Ids(new \ {f}) \cup {f.id}
      BY IdsOf
    <3> QED BY <1>5, <2>1, <2>2, <2>3, <3>1 DEF TakeOne, DropExpired
  <2>4. CASE LeaveThere(f)
    BY <1>5, <2>1, <2>2, <2>4 DEF TakeOne, LeaveThere
  <2>5. CASE MoveToCur(f)
    <3>1. /\ Append(taken, f.id) \in Seq(Mail)
          /\ Elements(Append(taken, f.id)) = Elements(taken) \cup {f.id}
      BY <2>2, AppendElements
    <3>2. /\ Ids(new) \subseteq Ids(new \ {f}) \cup {f.id}
          /\ Ids(cur \cup {f}) = Ids(cur) \cup {f.id}
      BY IdsOf
    <3> QED BY <1>5, <2>1, <2>2, <2>5, <3>1, <3>2 DEF TakeOne, MoveToCur
  <2> QED BY <2>1, <2>3, <2>4, <2>5
<1>6. CASE DeliverOne
  <2> DEFINE m == Head(taken)
  <2>1. /\ m \in Mail /\ Tail(taken) \in Seq(Mail)
        /\ Elements(taken) = {m} \cup Elements(Tail(taken))
    BY <1>6, TailElements DEF DeliverOne
  <2>2. AckAtOnce(m) \/ AckWithTheSave(m) \/ Arrive(m)
    BY <1>6 DEF DeliverOne
  <2>3. taken' = Tail(taken)
    BY <1>6 DEF DeliverOne
  <2> HIDE DEF m
  <2>4. CASE AckAtOnce(m)
    <3>1. Ids(Without(cur, m)) = Ids(cur) \ {m}
      BY IdsOf
    <3> QED BY <1>6, <2>1, <2>3, <2>4, <3>1 DEF DeliverOne, AckAtOnce, Seen
  <2>5. CASE AckWithTheSave(m)
    BY <1>6, <2>1, <2>3, <2>5 DEF DeliverOne, AckWithTheSave
  <2>6. CASE Arrive(m)
    <3>1. /\ Append(queue, m) \in Seq(Mail)
          /\ Elements(Append(queue, m)) = Elements(queue) \cup {m}
      BY <2>1, AppendElements
    <3> QED BY <1>6, <2>1, <2>3, <2>6, <3>1 DEF DeliverOne, Arrive
  <2> QED BY <2>2, <2>4, <2>5, <2>6
<1>7. CASE PushUserInput
  <2> DEFINE m == Head(queue)
  <2>1. /\ m \in Mail /\ Tail(queue) \in Seq(Mail)
        /\ Elements(queue) = {m} \cup Elements(Tail(queue))
    BY <1>7, TailElements DEF PushUserInput
  <2>2. /\ conv' = [conv EXCEPT ![m] = conv[m] + 1]
        /\ arriving' = arriving \ {m} /\ queue' = Tail(queue)
        /\ up = "run"
        /\ UNCHANGED <<box, senders, expired, disk, answers, delivered,
                       unacked, loop, handed, crashes, history>>
    BY <1>7 DEF PushUserInput
  <2>5. /\ conv' \in [Mail -> Nat]
        /\ \A x \in Mail : conv'[x] = IF x = m THEN conv[x] + 1 ELSE conv[x]
    BY <2>1, <2>2
  <2> HIDE DEF m
  <2> QED BY <1>7, <2>1, <2>2, <2>5 
<1>8. CASE TurnRefused
  <2> DEFINE m == Head(queue)
  <2>1. /\ m \in Mail /\ Tail(queue) \in Seq(Mail)
        /\ Elements(queue) = {m} \cup Elements(Tail(queue))
    BY <1>8, TailElements DEF TurnRefused
  <2>2. queue' = Tail(queue)
    BY <1>8 DEF TurnRefused
  <2> HIDE DEF m
  <2> QED BY <1>8, <2>1, <2>2 DEF TurnRefused
<1>9. CASE ReportOne
  <2> DEFINE m == Head(taken)
  <2>1. /\ m \in Mail /\ Tail(taken) \in Seq(Mail)
        /\ Elements(taken) = {m} \cup Elements(Tail(taken))
    BY <1>9, TailElements DEF ReportOne
  <2>2. /\ cur' = Without(cur, m) /\ taken' = Tail(taken)
        /\ answers' = answers \cup {m} /\ waited' = waited \cup {m}
    BY <1>9 DEF ReportOne
  <2>4. Ids(Without(cur, m)) = Ids(cur) \ {m}
    BY IdsOf
  <2> HIDE DEF m
  <2> QED BY <1>9, <2>1, <2>2, <2>4 DEF ReportOne
<1>10. CASE WriteSave
  BY <1>10, EmptyElements DEF WriteSave
<1>11. CASE Start
  BY <1>11, EmptyElements DEF Start
<1>12. CASE Crash
  BY <1>12, EmptyElements DEF Crash, Nothing
<1>13. CASE AckOne
  <2>1. PICK f \in cur : f.id \in unacked \ arriving /\ cur' = cur \ {f}
    BY <1>13 DEF AckOne
  <2>2. Ids(cur) \subseteq Ids(cur \ {f}) \cup {f.id}
    BY IdsOf
  <2>3. f.id \in InConv(disk.conv)
    BY <1>13, <2>1 DEF AckOne
  <2> HIDE DEF InConv, Kept
  <2>4. Ids(cur) \subseteq Ids(cur') \cup {f.id}
    BY <2>1, <2>2
  <2>5. UNCHANGED <<taken, disk, waited, queue, arriving>>
    BY <1>13 DEF AckOne
  <2> QED BY <2>3, <2>4, <2>5
<1>14. CASE AckDone
  BY <1>14 DEF AckDone
<1>15. CASE RecoverOne
  <2>1. PICK f \in cur : cur' = cur \ {f} /\ new' = new \cup {f}
    BY <1>15 DEF RecoverOne
  <2>2. /\ Ids(cur) \subseteq Ids(cur \ {f}) \cup {f.id}
        /\ Ids(new \cup {f}) = Ids(new) \cup {f.id}
    BY IdsOf
  <2> QED BY <1>15, <2>1, <2>2, EmptyElements DEF RecoverOne
<1>16. CASE BeginDeliver \/ BeginWait \/ TakeDone \/ DeliverDone \/ ReportDone
          \/ RecoverDone
  BY <1>16 DEF BeginDeliver, BeginTake, BeginWait, TakeDone, DeliverDone,
     ReportDone, RecoverDone
<1> QED BY <1>0, <1>1, <1>2, <1>3, <1>4, <1>5, <1>6, <1>7, <1>8, <1>9, <1>10,
     <1>11, <1>12, <1>13, <1>14, <1>15, <1>16 DEF Next, Send, Loop

\* No step takes the last copy of a message.
LEMMA LostStep ==
    ASSUME TypeOK, Fresh, SaveCovers, WindowCovers, NothingLost, [Next]_vars
    PROVE  NothingLost'
<1> USE MailAssumption DEF TypeOK, Fresh, SaveCovers, WindowCovers,
        NothingLost, InConv, Kept, File, box, senders, memory, loop, history
<1>0. CASE UNCHANGED vars
  BY <1>0 DEF vars
<1>1. ASSUME NEW m \in Mail,
            CheckSend(m)
     PROVE  NothingLost'
  BY <1>1 DEF CheckSend
<1>2. ASSUME NEW m \in Mail, WriteMail(m) PROVE NothingLost'
  <2>1. Ids(new \cup {[at |-> sends, id |-> m]}) = Ids(new) \cup {m}
    <3> DEFINE f == [at |-> sends, id |-> m]
    <3>1. f.id = m
      OBVIOUS
    <3> HIDE DEF f
    <3>2. Ids(new \cup {f}) = Ids(new) \cup {m}
      BY <3>1, IdsOf
    <3> QED BY <3>2 DEF f
  <2> QED BY <1>2, <2>1 DEF WriteMail
<1>3. ASSUME NEW m \in Mail,
            AbandonSend(m)
     PROVE  NothingLost'
  BY <1>3 DEF AbandonSend
<1>4. ASSUME NEW m \in Mail,
            Expire(m)
     PROVE  NothingLost'
  BY <1>4 DEF Expire
<1>5. CASE TakeOne
  <2>1. PICK f \in batch : /\ batch' = batch \ {f}
                           /\ DropExpired(f) \/ LeaveThere(f) \/ MoveToCur(f)
    BY <1>5 DEF TakeOne
  <2>2. f \in File /\ f.id \in Mail
    BY <2>1 DEF File
  <2>3. CASE DropExpired(f)
    <3>1. Ids(new) \subseteq Ids(new \ {f}) \cup {f.id}
      BY IdsOf
    <3> QED BY <1>5, <2>1, <2>2, <2>3, <3>1 DEF TakeOne, DropExpired
  <2>4. CASE LeaveThere(f)
    BY <1>5, <2>1, <2>2, <2>4 DEF TakeOne, LeaveThere
  <2>5. CASE MoveToCur(f)
    <3>1. /\ Append(taken, f.id) \in Seq(Mail)
          /\ Elements(Append(taken, f.id)) = Elements(taken) \cup {f.id}
      BY <2>2, AppendElements
    <3>2. /\ Ids(new) \subseteq Ids(new \ {f}) \cup {f.id}
          /\ Ids(cur \cup {f}) = Ids(cur) \cup {f.id}
      BY IdsOf
    <3> QED BY <1>5, <2>1, <2>2, <2>5, <3>1, <3>2 DEF TakeOne, MoveToCur
  <2> QED BY <2>1, <2>3, <2>4, <2>5
<1>6. CASE DeliverOne
  <2> DEFINE m == Head(taken)
  <2>1. /\ m \in Mail /\ Tail(taken) \in Seq(Mail)
        /\ Elements(taken) = {m} \cup Elements(Tail(taken))
    BY <1>6, TailElements DEF DeliverOne
  <2>2. AckAtOnce(m) \/ AckWithTheSave(m) \/ Arrive(m)
    BY <1>6 DEF DeliverOne
  <2>3. taken' = Tail(taken)
    BY <1>6 DEF DeliverOne
  <2> HIDE DEF m
  <2>4. CASE AckAtOnce(m)
    <3>1. Ids(Without(cur, m)) = Ids(cur) \ {m}
      BY IdsOf
    <3> QED BY <1>6, <2>1, <2>3, <2>4, <3>1 DEF DeliverOne, AckAtOnce, Seen
  <2>5. CASE AckWithTheSave(m)
    BY <1>6, <2>1, <2>3, <2>5 DEF DeliverOne, AckWithTheSave
  <2>6. CASE Arrive(m)
    <3>1. /\ Append(queue, m) \in Seq(Mail)
          /\ Elements(Append(queue, m)) = Elements(queue) \cup {m}
      BY <2>1, AppendElements
    <3> QED BY <1>6, <2>1, <2>3, <2>6, <3>1 DEF DeliverOne, Arrive
  <2> QED BY <2>2, <2>4, <2>5, <2>6
<1>7. CASE PushUserInput
  <2> DEFINE m == Head(queue)
  <2>1. /\ m \in Mail /\ Tail(queue) \in Seq(Mail)
        /\ Elements(queue) = {m} \cup Elements(Tail(queue))
    BY <1>7, TailElements DEF PushUserInput
  <2>2. /\ conv' = [conv EXCEPT ![m] = conv[m] + 1]
        /\ arriving' = arriving \ {m} /\ queue' = Tail(queue)
        /\ up = "run"
        /\ UNCHANGED <<box, senders, expired, disk, answers, delivered,
                       unacked, loop, handed, crashes, history>>
    BY <1>7 DEF PushUserInput
  <2>5. /\ conv' \in [Mail -> Nat]
        /\ \A x \in Mail : conv'[x] = IF x = m THEN conv[x] + 1 ELSE conv[x]
    BY <2>1, <2>2
  <2> HIDE DEF m
  <2> QED BY <1>7, <2>1, <2>2, <2>5 
<1>8. CASE TurnRefused
  <2> DEFINE m == Head(queue)
  <2>1. /\ m \in Mail /\ Tail(queue) \in Seq(Mail)
        /\ Elements(queue) = {m} \cup Elements(Tail(queue))
    BY <1>8, TailElements DEF TurnRefused
  <2>2. queue' = Tail(queue)
    BY <1>8 DEF TurnRefused
  <2> HIDE DEF m
  <2> QED BY <1>8, <2>1, <2>2 DEF TurnRefused
<1>9. CASE ReportOne
  <2> DEFINE m == Head(taken)
  <2>1. /\ m \in Mail /\ Tail(taken) \in Seq(Mail)
        /\ Elements(taken) = {m} \cup Elements(Tail(taken))
    BY <1>9, TailElements DEF ReportOne
  <2>2. /\ cur' = Without(cur, m) /\ taken' = Tail(taken)
        /\ answers' = answers \cup {m} /\ waited' = waited \cup {m}
    BY <1>9 DEF ReportOne
  <2>4. Ids(Without(cur, m)) = Ids(cur) \ {m}
    BY IdsOf
  <2> HIDE DEF m
  <2> QED BY <1>9, <2>1, <2>2, <2>4 DEF ReportOne
<1>10. CASE WriteSave
  BY <1>10, EmptyElements DEF WriteSave
<1>11. CASE Start
  BY <1>11, EmptyElements DEF Start
<1>12. CASE Crash
  BY <1>12, EmptyElements DEF Crash, Nothing
<1>13. CASE AckOne
  <2>1. PICK f \in cur : f.id \in unacked \ arriving /\ cur' = cur \ {f}
    BY <1>13 DEF AckOne
  <2>2. Ids(cur) \subseteq Ids(cur \ {f}) \cup {f.id}
    BY IdsOf
  <2>3. f.id \in InConv(disk.conv)
    BY <1>13, <2>1 DEF AckOne
  <2> HIDE DEF InConv, Kept
  <2>4. Ids(cur) \subseteq Ids(cur') \cup {f.id}
    BY <2>1, <2>2
  <2>5. UNCHANGED <<new, sent, disk, dropped, waited>>
    BY <1>13 DEF AckOne
  <2> QED BY <2>3, <2>4, <2>5
<1>14. CASE AckDone
  BY <1>14 DEF AckDone
<1>15. CASE RecoverOne
  <2>1. PICK f \in cur : cur' = cur \ {f} /\ new' = new \cup {f}
    BY <1>15 DEF RecoverOne
  <2>2. /\ Ids(cur) \subseteq Ids(cur \ {f}) \cup {f.id}
        /\ Ids(new \cup {f}) = Ids(new) \cup {f.id}
    BY IdsOf
  <2> QED BY <1>15, <2>1, <2>2, EmptyElements DEF RecoverOne
<1>16. CASE BeginDeliver \/ BeginWait \/ TakeDone \/ DeliverDone \/ ReportDone
          \/ RecoverDone
  BY <1>16 DEF BeginDeliver, BeginTake, BeginWait, TakeDone, DeliverDone,
     ReportDone, RecoverDone
<1> QED BY <1>0, <1>1, <1>2, <1>3, <1>4, <1>5, <1>6, <1>7, <1>8, <1>9, <1>10,
     <1>11, <1>12, <1>13, <1>14, <1>15, <1>16 DEF Next, Send, Loop

\* What the window still remembers is not queued again.
LEMMA OnceStep ==
    ASSUME TypeOK, Once, [Next]_vars
    PROVE  Once'
<1> USE MailAssumption DEF TypeOK, Once, AtMostOnce, Remembered, InConv, box,
        senders, memory, loop, history
<1>0. CASE UNCHANGED vars
  BY <1>0 DEF vars
<1>1. ASSUME NEW m \in Mail,
            CheckSend(m)
     PROVE  Once'
  BY <1>1 DEF CheckSend
<1>2. ASSUME NEW m \in Mail,
            WriteMail(m)
     PROVE  Once'
  BY <1>2 DEF WriteMail
<1>3. ASSUME NEW m \in Mail,
            AbandonSend(m)
     PROVE  Once'
  BY <1>3 DEF AbandonSend
<1>4. ASSUME NEW m \in Mail,
            Expire(m)
     PROVE  Once'
  BY <1>4 DEF Expire
<1>5. CASE TakeOne
  <2>1. PICK f \in batch : /\ batch' = batch \ {f}
                           /\ DropExpired(f) \/ LeaveThere(f) \/ MoveToCur(f)
    BY <1>5 DEF TakeOne
  <2>2. f \in File /\ f.id \in Mail
    BY <2>1 DEF File
  <2>3. CASE DropExpired(f)
    BY <1>5, <2>1, <2>2, <2>3 DEF TakeOne, DropExpired
  <2>4. CASE LeaveThere(f)
    BY <1>5, <2>1, <2>2, <2>4 DEF TakeOne, LeaveThere
  <2>5. CASE MoveToCur(f)
    <3>1. /\ Append(taken, f.id) \in Seq(Mail)
          /\ Elements(Append(taken, f.id)) = Elements(taken) \cup {f.id}
      BY <2>2, AppendElements
    <3> QED BY <1>5, <2>1, <2>2, <2>5, <3>1 DEF TakeOne, MoveToCur
  <2> QED BY <2>1, <2>3, <2>4, <2>5
<1>6. CASE DeliverOne
  <2> DEFINE m == Head(taken)
  <2>1. /\ m \in Mail /\ Tail(taken) \in Seq(Mail)
        /\ Elements(taken) = {m} \cup Elements(Tail(taken))
    BY <1>6, TailElements DEF DeliverOne
  <2>2. AckAtOnce(m) \/ AckWithTheSave(m) \/ Arrive(m)
    BY <1>6 DEF DeliverOne
  <2>3. taken' = Tail(taken)
    BY <1>6 DEF DeliverOne
  <2> HIDE DEF m
  <2>4. CASE AckAtOnce(m)
    BY <1>6, <2>1, <2>3, <2>4 DEF DeliverOne, AckAtOnce
  <2>5. CASE AckWithTheSave(m)
    BY <1>6, <2>1, <2>3, <2>5 DEF DeliverOne, AckWithTheSave
  <2>6. CASE Arrive(m)
    <3>1. /\ Append(queue, m) \in Seq(Mail)
          /\ Elements(Append(queue, m)) = Elements(queue) \cup {m}
      BY <2>1, AppendElements
    <3>2. /\ \A x \in Mail \ forgotten' :
                x = m \/ delivered[x] > 0 => delivered'[x] > 0
          /\ forgotten \subseteq forgotten'
      BY <2>1, <2>6, ArriveWindow DEF WindowMoves
    <3>3. /\ arriving' = arriving \cup {m} /\ queue' = Append(queue, m)
          /\ UNCHANGED <<conv, disk>>
      BY <1>6, <2>6 DEF DeliverOne, Arrive
    <3>4. ASSUME NEW x \in Mail \ forgotten'
          PROVE  Single(queue', x) /\ (x = m => conv[x] = 0)
      <4>1. x = m => x \notin Elements(queue) /\ conv[x] = 0
        <5>1. ~(delivered[m] > 0)
          BY <2>6 DEF Arrive, Seen
        <5> QED BY <5>1, <3>2
      <4>2. Single(queue, x)
        BY <3>2
      <4> QED BY <2>1, <3>3, <4>1, <4>2, AppendSingle
    <3> QED BY <2>1, <3>1, <3>2, <3>3, <3>4
  <2> QED BY <2>2, <2>4, <2>5, <2>6
<1>7. CASE PushUserInput
  <2> DEFINE m == Head(queue)
  <2>1. /\ m \in Mail /\ Tail(queue) \in Seq(Mail)
        /\ Elements(queue) = {m} \cup Elements(Tail(queue))
    BY <1>7, TailElements DEF PushUserInput
  <2>2. /\ conv' = [conv EXCEPT ![m] = conv[m] + 1]
        /\ arriving' = arriving \ {m} /\ queue' = Tail(queue)
        /\ UNCHANGED <<disk, delivered, forgotten>>
    BY <1>7 DEF PushUserInput
  <2>3. ASSUME NEW x \in Mail, Single(queue, x)
        PROVE  /\ Single(Tail(queue), x)
               /\ m = x => x \notin Elements(Tail(queue))
    BY <1>7, <2>3, TailSingle DEF PushUserInput
  <2> HIDE DEF m
  <2>4. ASSUME NEW x \in Mail \ forgotten
        PROVE  /\ conv'[x] = (IF x = m THEN 1 ELSE conv[x])
               /\ conv'[x] <= 1 /\ Single(queue', x)
               /\ x = m => x \notin Elements(queue') /\ delivered[x] > 0
    <3>1. x = m => conv[x] = 0 /\ delivered[x] > 0
      BY <2>1
    <3>2. /\ queue' = Tail(queue) /\ delivered[x] = delivered'[x]
          /\ conv' = [conv EXCEPT ![m] = conv[m] + 1]
          /\ conv \in [Mail -> Nat] /\ conv[x] <= 1 /\ Single(queue, x)
      BY <2>2
    <3>3. Single(queue', x) /\ (x = m => x \notin Elements(queue'))
      BY <2>3, <3>2
    <3> HIDE DEF Single, Elements
    <3>4. CASE x = m
      BY <2>1, <3>1, <3>2, <3>3, <3>4
    <3>5. CASE x # m
      BY <2>1, <3>2, <3>3, <3>5
    <3> QED BY <3>4, <3>5
  <2> QED BY <2>1, <2>2, <2>4
<1>8. CASE TurnRefused
  <2> DEFINE m == Head(queue)
  <2>1. /\ m \in Mail /\ Tail(queue) \in Seq(Mail)
        /\ Elements(queue) = {m} \cup Elements(Tail(queue))
    BY <1>8, TailElements DEF TurnRefused
  <2>2. queue' = Tail(queue)
    BY <1>8 DEF TurnRefused
  <2>3. ASSUME NEW x \in Mail, Single(queue, x)
        PROVE  /\ Single(Tail(queue), x)
               /\ m = x => x \notin Elements(Tail(queue))
    BY <1>8, <2>3, TailSingle DEF TurnRefused
  <2> HIDE DEF m
  <2> QED BY <1>8, <2>1, <2>2, <2>3 DEF TurnRefused
<1>9. CASE ReportOne
  BY <1>9 DEF ReportOne
<1>10. CASE WriteSave
  BY <1>10, EmptyElements DEF WriteSave
<1>11. CASE Start
  BY <1>11, EmptyElements DEF Start
<1>12. CASE Crash
  BY <1>12, EmptyElements DEF Crash, Nothing
<1>13. CASE AckOne
  BY <1>13 DEF AckOne
<1>14. CASE AckDone
  BY <1>14 DEF AckDone
<1>15. CASE RecoverOne
  BY <1>15 DEF RecoverOne
<1>16. CASE BeginDeliver \/ BeginWait \/ TakeDone \/ DeliverDone \/ ReportDone
          \/ RecoverDone
  BY <1>16 DEF BeginDeliver, BeginTake, BeginWait, TakeDone, DeliverDone,
     ReportDone, RecoverDone
<1> QED BY <1>0, <1>1, <1>2, <1>3, <1>4, <1>5, <1>6, <1>7, <1>8, <1>9, <1>10,
     <1>11, <1>12, <1>13, <1>14, <1>15, <1>16 DEF Next, Send, Loop

\* Every step keeps the invariant.
LEMMA IInvNext == IInv /\ Once /\ [Next]_vars => IInv' /\ Once'
<1> SUFFICES ASSUME IInv, Once, [Next]_vars PROVE IInv' /\ Once'
  OBVIOUS
<1>1. TypeOK' /\ Fresh' /\ Once'
  BY TypeStep, FreshStep, OnceStep DEF IInv
<1>2. SaveCovers' /\ WindowCovers'
  BY SaveStep, WindowStep DEF IInv
<1>3. FilesCover' /\ NothingLost'
  BY FilesStep, LostStep DEF IInv
<1> QED BY <1>1, <1>2, <1>3 DEF IInv

\* The inductive invariant holds throughout, whatever is sent and whenever
\* runtimes are killed.
THEOREM Invariant == Spec => [](IInv /\ Once)
<1> QED BY IInvInit, IInvNext, PTL DEF Spec
-----------------------------------------------------------------------------
\* Every variable keeps its type.
THEOREM TypeCorrect == Spec => []TypeOK
<1>1. IInv => TypeOK
  BY DEF IInv
<1> QED BY <1>1, Invariant, PTL

\* No message SendMail committed is lost, however often runtimes are killed
\* between TakeMail, Agent::Save and AckMail.
THEOREM NoMessageLost == Spec => []NothingLost
<1>1. IInv => NothingLost
  BY DEF IInv
<1> QED BY <1>1, Invariant, PTL

\* Agent::DeliverMail puts a message in the conversation once, as long as
\* delivered_mail_ remembers it, across saves, kills and repeated sends.
THEOREM DeliveredOnce == Spec => []AtMostOnce
<1>1. Once => AtMostOnce
  BY DEF Once
<1> QED BY <1>1, Invariant, PTL

\* Agent::Save marks delivered only what the saved conversation holds.
THEOREM SaveCorrect == Spec => []SaveIsConsistent
<1>1. IInv => SaveIsConsistent
  BY DEF IInv, SaveCovers, SaveIsConsistent
<1> QED BY <1>1, Invariant, PTL

\* AckMail removes no file whose text only the runtime's memory holds.
THEOREM FileKept == Spec => []KeptUntilSaved
<1>1. IInv => KeptUntilSaved
  BY DEF IInv, FilesCover
<1> QED BY <1>1, Invariant, PTL
=============================================================================
