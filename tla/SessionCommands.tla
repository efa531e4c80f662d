-------------------------- MODULE SessionCommands --------------------------
(***************************************************************************)
(* A command's way from the browser to a session's runtime and its         *)
(* receipt's way back.  The master keeps a receipt per request of a device *)
(* (requests_), the host one per command it sent (outcomes_), the runtime  *)
(* one per command it took (ReceiptLog); each log is bounded and forgets   *)
(* its oldest completed receipt first.  The browser repeats a request      *)
(* under its id whenever it is in doubt; the host's connection breaks or   *)
(* is let go, the runtime's queue to the host overflows, the runtime ends, *)
(* the host restarts.                                                      *)
(*                                                                         *)
(* In the runtime a decision waits for a reply, of the person (through the *)
(* host) or of the parent agent (over a connection of its own), and is the *)
(* parent's until it is escalated.                                         *)
(*                                                                         *)
(* A request is handled in the steps its thread takes between locks:       *)
(* "routing" once its receipt is reserved, "checked" past the router's     *)
(* checks, "registered" in the store, "sent" while it waits.  Attachments, *)
(* fingerprints (a request id is used for one command) and commands that   *)
(* queue input are left out: SessionWorker models what becomes of those.   *)
(***************************************************************************)
EXTENDS Naturals, Sequences, FiniteSets, SequencesExt

CONSTANTS
    Reply,          \* the person's replies to decisions, sent through the host
    Control,        \* controls of an idle session, sent through the host
    Named,          \* of these, the requests that name a runtime
    ParentReply,    \* the parent agent's replies
    Yield,          \* escalations: the parent yields or cannot be reached
    About,          \* the decision a reply or an escalation names
    StoreLimit,     \* kMaxOutcomes
    PendingLimit,   \* kMaxPendingSessionCommands
    LogLimit,       \* kReceiptEntries
    MaxPosts, MaxRuns, MaxFaults, MaxDecisions, MaxDirect,
    None

Posted == Reply \cup Control
Direct == ParentReply \cup Yield
Request == Posted \cup Direct
Run == 1 .. MaxRuns
Decision == 1 .. MaxDecisions

ASSUME RequestAssumption ==
    /\ Named \subseteq Posted /\ None \notin Request
    /\ Reply \cap Control = {} /\ Posted \cap Direct = {}
    /\ ParentReply \cap Yield = {}
    /\ About \in [Reply \cup Direct -> Decision]
    /\ {StoreLimit, PendingLimit, LogLimit, MaxRuns} \subseteq Nat \ {0}
    /\ {MaxPosts, MaxFaults, MaxDecisions, MaxDirect} \subseteq Nat

VARIABLES
    posts,      \* how often the browser has posted
    name,       \* the runtime a request names, 0 for none
    web,        \* requests_: the master's receipts
    call,       \* what a request's thread is doing
    receipt,    \* the receipts SendCommand shares with its callers
    order,      \* order_: the ones outcomes_ holds, oldest first
    awaiting,   \* HostSession::awaiting
    gen,        \* the runtime the host has, 0 for none
    link,       \* its connection: "open", "broken" (not yet noticed), "none"
    ending,     \* its reader, the host's mutex_ in hand, has failed what was
                \*   awaited and has not put the socket away yet
    toWorker,   \* commands on their way, as they were stamped
    toHost,     \* outcomes on their way
    faults,     \* breaks, lettings go, overflows, restarts and ends so far
    run,        \* the runtime that serves the session, 0 for none
    last,       \* the latest one there was
    closed,     \* closed_
    log,        \* ReceiptLog::receipts_: each command's outcome
    logOrder,   \* ReceiptLog::order_
    replaying,  \* the outcome Command has read and not yet sent again
    controls,   \* controls_ and the input slot: what waits to be run
    sentDirect, \* commands the parent has sent
    deciding,   \* the application is in a turn that waits for a decision
    asked,      \* how many decisions were asked; the last is pending_
    route,      \* decision_'s route
    routed,     \* ReadInteraction's copy of it, from before its poll
    reply,      \* reply_
    answer,     \* history: what each decision was answered with
    accepted,   \* history: the replies each decision's runtime accepted
    notified,   \* history: a person was told the decision is theirs
    late,       \* history: parent's replies accepted after that
    ran,        \* history: how often a command ran in a runtime
    forgotten,  \* history: commands a runtime's log forgot
    slipped,    \* history: sent over a later connection than was checked
    overtaken,  \* history: a replay overtaken by the outcome it lacks
    stranded,   \* history: sent, and taken, as the connection was ending
    unheard,    \* history: the runtime's answer was dropped from its queue
    assured     \* history: requests the browser was told are accepted

webVars == <<posts, name, web, call>>
endVars == <<ending, stranded, unheard>>
hostVars == <<receipt, order, awaiting, gen, link, faults, endVars>>
wires == <<toWorker, toHost>>
workerVars == <<run, last, closed, log, logOrder, replaying, controls, sentDirect>>
decisionVars == <<deciding, asked, route, routed, reply, answer, accepted, notified, late>>
history == <<ran, forgotten, slipped, overtaken, assured>>
vars == <<webVars, hostVars, wires, workerVars, decisionVars, history>>

Outcome == {"pending", "accepted", "refused"}
Receipt == Outcome \cup {"none", "unknown"}

(* Everything has the type the code gives it and every log keeps to its    *)
(* bound.                                                                  *)
TypeOK ==
    /\ posts \in 0 .. MaxPosts /\ name \in [Posted -> 0 .. MaxRuns]
    /\ web \in [Posted -> Receipt]
    /\ call \in [Posted -> {"none", "routing", "checked", "registered", "sent"}]
    /\ receipt \in [Posted -> Outcome \cup {"none"}]
    /\ order \in Seq(Posted) /\ Len(order) <= StoreLimit
    /\ awaiting \subseteq Posted
    /\ gen \in 0 .. MaxRuns /\ link \in {"open", "broken", "none"}
    /\ ending \in BOOLEAN /\ stranded \subseteq Posted /\ unheard \subseteq Posted
    /\ toWorker \in Seq(Posted \X Run)
    /\ toHost \in Seq(Posted \X Outcome)
    /\ faults \in 0 .. MaxFaults
    /\ last \in 0 .. MaxRuns /\ run \in {0, last} /\ closed \in BOOLEAN
    /\ log \in [Request -> Outcome \cup {"none"}]
    /\ logOrder \in Seq(Request) /\ Len(logOrder) <= LogLimit
    /\ ToSet(logOrder) = {r \in Request : log[r] # "none"}
    /\ replaying \in {None} \cup (Posted \X Outcome)
    /\ controls \in Seq(Control) /\ sentDirect \subseteq Direct
    /\ deciding \in BOOLEAN /\ asked \in 0 .. MaxDecisions
    /\ route \in {"parent", "human"} /\ routed \in BOOLEAN
    /\ reply \in Reply \cup ParentReply \cup {None}
    /\ answer \in [Decision -> Reply \cup ParentReply \cup {None}]
    /\ accepted \in [Decision -> SUBSET (Reply \cup ParentReply)]
    /\ notified \in BOOLEAN /\ late \subseteq ParentReply
    /\ ran \in [Posted -> [Run -> Nat]]
    /\ forgotten \subseteq Request \X Run
    /\ slipped \subseteq Posted /\ overtaken \subseteq Posted
    /\ assured \subseteq Posted

Init ==
    /\ posts = 0 /\ name = [r \in Posted |-> 0]
    /\ web = [r \in Posted |-> "none"]
    /\ call = [r \in Posted |-> "none"]
    /\ receipt = [r \in Posted |-> "none"] /\ order = <<>> /\ awaiting = {}
    /\ gen = 1 /\ link = "open" /\ toWorker = <<>> /\ toHost = <<>>
    /\ faults = 0 /\ ending = FALSE /\ stranded = {} /\ unheard = {}
    /\ run = 1 /\ last = 1 /\ closed = FALSE
    /\ log = [r \in Request |-> "none"] /\ logOrder = <<>>
    /\ replaying = None /\ controls = <<>> /\ sentDirect = {}
    /\ deciding = FALSE /\ asked = 0 /\ route = "human" /\ routed = FALSE
    /\ reply = None /\ answer = [d \in Decision |-> None]
    /\ accepted = [d \in Decision |-> {}]
    /\ notified = FALSE /\ late = {}
    /\ ran = [r \in Posted |-> [g \in Run |-> 0]] /\ forgotten = {}
    /\ slipped = {} /\ overtaken = {} /\ assured = {}

(* The variant that takes every command in.                                *)
RoomUnbounded(held, limit, done) == {held}

(* The variant that forgets the oldest entry, completed or not.            *)
RoomForAll(held, limit, done) ==
    IF Len(held) < limit THEN {held} ELSE {Tail(held)}

(* A bounded log with room for one more: as it is, or without the oldest   *)
(* of the completed entries; with none of those it takes no more.          *)
Room(held, limit, done) ==
    LET old == {i \in DOMAIN held : held[i] \in done} IN
    IF Len(held) < limit THEN {held}
    ELSE {RemoveAt(held, i) : i \in {j \in old : \A k \in old : j <= k}}

(***************************************************************************)
(* The browser and the master                                              *)
(***************************************************************************)
Tell(r, told) ==
    /\ web' = [web EXCEPT ![r] = told]
    /\ assured' = IF told = "accepted" THEN assured \cup {r} ELSE assured

(* A pending receipt asks the host whether its worker has answered.        *)
RefreshReceipt(r) ==
    IF call[r] # "none" \/ web[r] # "pending" THEN web[r]
    ELSE IF r \in ToSet(order) THEN receipt[r] ELSE "unknown"

Repeat(r) ==
    /\ posts < MaxPosts /\ web[r] # "none"
    /\ posts' = posts + 1
    /\ Tell(r, RefreshReceipt(r))
    /\ UNCHANGED <<name, call, hostVars, wires, workerVars,
                   decisionVars, ran, forgotten, slipped, overtaken>>

(* A decision is answered by one who has heard of it.                      *)
Asked(r) == r \notin Control => About[r] <= asked

(* The browser fixes what a request names as it first sends it: a runtime  *)
(* it knows of, or none.                                                   *)
Reserve(r) ==
    /\ posts < MaxPosts /\ web[r] = "none" /\ Asked(r)
    /\ posts' = posts + 1
    /\ IF r \in Named /\ name[r] = 0
         THEN \E g \in 1 .. last : name' = [name EXCEPT ![r] = g]
         ELSE name' = name
    /\ web' = [web EXCEPT ![r] = "pending"]
    /\ call' = [call EXCEPT ![r] = "routing"]
    /\ UNCHANGED <<hostVars, wires, workerVars, decisionVars, history>>

(* Requests for other sessions fill the log: a completed receipt goes.     *)
(* (Bound: only while the browser may still post.)                         *)
Displace(r) ==
    /\ posts < MaxPosts /\ web[r] \notin {"none", "pending"} /\ call[r] = "none"
    /\ web' = [web EXCEPT ![r] = "none"]
    /\ UNCHANGED <<posts, name, call, hostVars, wires, workerVars, decisionVars, history>>

(* The request's thread is done: its receipt is what it answers.           *)
Finish(r, told) ==
    /\ Tell(r, told)
    /\ call' = [call EXCEPT ![r] = "none"]
    /\ UNCHANGED <<posts, name>>

(***************************************************************************)
(* The host                                                                *)
(***************************************************************************)
(* A request that names no runtime is for whichever serves the session: it *)
(* waits for one (Activate) or fails as none can be started.  A handler    *)
(* holds mutex_ before and after SendCommand, not during it.               *)
Served(r) == gen # 0 /\ (r \in Named => name[r] = gen)

ExecuteCommand(r) ==
    /\ call[r] = "routing" /\ ~ending
    /\ IF Served(r) /\ Cardinality(awaiting) < PendingLimit
         THEN call' = [call EXCEPT ![r] = "checked"]
              /\ UNCHANGED <<posts, name, web, assured>>
         ELSE Finish(r, "refused")
    /\ UNCHANGED <<hostVars, wires, workerVars, decisionVars, ran, forgotten,
                   slipped, overtaken>>

Register(r, held) ==
    /\ order' = held
    /\ receipt' = [q \in Posted |->
                     IF q = r THEN "pending"
                     ELSE IF q \in ToSet(held) \/ call[q] # "none" THEN receipt[q]
                     ELSE "none"]
    /\ awaiting' = awaiting \cup {r}
    /\ call' = [call EXCEPT ![r] = "registered"]
    /\ stranded' = stranded \ {r} /\ unheard' = unheard \ {r}
    /\ UNCHANGED <<posts, name, web, assured, gen, link, faults, ending>>

SendCommand(r) ==
    LET room == Room(order, StoreLimit, {q \in Posted : receipt[q] # "pending"})
        held == ToSet(order) IN
    /\ call[r] = "checked"
    /\ \/ r \in held /\ Register(r, order)
       \/ r \notin held /\ \E h \in room : Register(r, Append(h, r))
       \/ r \notin held /\ room = {} /\ Finish(r, "refused") /\ UNCHANGED hostVars
    /\ UNCHANGED <<wires, workerVars, decisionVars, ran, forgotten, slipped, overtaken>>

(* The frame is stamped with the runtime the connection is to, whatever    *)
(* was checked.  A write to a connection that has just broken may succeed; *)
(* one to a live runtime does until the reader has put the socket away.    *)
Send(r) ==
    /\ call[r] = "registered"
    /\ \/ /\ link = "open" \/ (link = "broken" /\ ~ending)
          /\ toWorker' = IF link = "open" THEN Append(toWorker, <<r, gen>>) ELSE toWorker
          /\ slipped' = IF (r \in Named /\ name[r] # gen) \/ r \notin awaiting
                          THEN slipped \cup {r} ELSE slipped
          /\ stranded' = IF ending THEN stranded \cup {r} ELSE stranded
          /\ call' = [call EXCEPT ![r] = "sent"]
          /\ UNCHANGED <<posts, name, web, assured, awaiting, receipt>>
       \/ /\ link # "open"
          /\ awaiting' = awaiting \ {r}
          /\ receipt' = [receipt EXCEPT ![r] = "refused"]
          /\ Finish(r, "refused")
          /\ UNCHANGED <<toWorker, slipped, stranded>>
    /\ UNCHANGED <<order, gen, link, faults, ending, unheard, toHost, workerVars,
                   decisionVars, ran, forgotten, overtaken>>

(* The wait ends with the outcome, the session, or after kOutcomeWait.     *)
Return(r) ==
    /\ call[r] = "sent" /\ ~ending
    /\ Finish(r, receipt[r])
    /\ UNCHANGED <<hostVars, wires, workerVars, decisionVars, ran, forgotten,
                   slipped, overtaken>>

ResolveOutcome(r, outcome) ==
    IF r \in ToSet(order)
      THEN /\ receipt' = [receipt EXCEPT ![r] = outcome]
           /\ awaiting' = IF outcome = "pending" THEN awaiting ELSE awaiting \ {r}
      ELSE UNCHANGED <<receipt, awaiting>>

Received ==
    /\ link # "none" /\ ~ending /\ toHost # <<>>
    /\ ResolveOutcome(Head(toHost)[1], Head(toHost)[2])
    /\ toHost' = Tail(toHost)
    /\ UNCHANGED <<webVars, order, gen, link, faults, endVars, toWorker,
                   workerVars, decisionVars, history>>

(* The variant that only forgets what was awaited.                         *)
FailNothing == awaiting' = {} /\ UNCHANGED receipt

FailPending ==
    /\ receipt' = [r \in Posted |-> IF r \in awaiting /\ r \in ToSet(order)
                                      THEN "refused" ELSE receipt[r]]
    /\ awaiting' = {}

(* The connection's reader ends, and what it has not read is lost.  It     *)
(* fails what is awaited under the store's own mutex_ ...                  *)
ReaderFails ==
    /\ FailPending
    /\ ending' = TRUE /\ stranded' = {} /\ unheard' = {} /\ toHost' = <<>>
    /\ UNCHANGED <<webVars, order, gen, link, toWorker, workerVars,
                   decisionVars, history>>

LinkLost == link = "broken" /\ ~ending /\ ReaderFails /\ UNCHANGED faults

(* ... and puts the connection away under send_mutex.  (One that broke in  *)
(* the middle of work stays, and takes no more either.)                    *)
DeactivateLocked ==
    /\ ending /\ ending' = FALSE
    /\ gen' = 0 /\ link' = "none"
    /\ UNCHANGED <<webVars, receipt, order, awaiting, faults, stranded, unheard,
                   wires, workerVars, decisionVars, history>>

Fault == faults < MaxFaults /\ faults' = faults + 1

(* The runtime, with nothing to do, has said that it retires, and the host *)
(* stops its reader.  Both processes live; by now the runtime may have got *)
(* more to do.                                                             *)
LetGo == link = "open" /\ run # 0 /\ ~ending /\ ReaderFails /\ Fault

(* The connection breaks: part of what was sent may still be read.         *)
Break ==
    /\ link = "open" /\ Fault
    /\ link' = "broken"
    /\ toWorker' \in Prefixes(toWorker)
    /\ UNCHANGED <<webVars, receipt, order, awaiting, gen, endVars, toHost, workerVars,
                   decisionVars, history>>

(* The runtime's queue to its clients is over its bytes: what it has not   *)
(* written goes, outcomes with the rest.  The host refreshes its view of   *)
(* the session, which has no outcomes in it.                               *)
Overflow ==
    /\ link = "open" /\ run # 0 /\ Fault
    /\ \E n \in 0 .. Len(toHost) - 1 :
         /\ toHost' = SubSeq(toHost, 1, n)
         /\ unheard' = unheard \cup {toHost[i][1] : i \in n + 1 .. Len(toHost)}
    /\ UNCHANGED <<webVars, receipt, order, awaiting, gen, link, ending, stranded,
                   toWorker, workerVars, decisionVars, history>>

(* The thread that reads commands also accepts: it has read a closed       *)
(* connection to its end, and answered, before it takes the next one.      *)
Activate ==
    /\ link = "none" /\ toWorker = <<>> /\ replaying = None
    /\ IF run # 0 THEN UNCHANGED <<run, last, closed>>
                  ELSE /\ last < MaxRuns /\ run' = last + 1 /\ last' = last + 1
                       /\ closed' = FALSE
    /\ gen' = run' /\ link' = "open"
    /\ UNCHANGED <<webVars, receipt, order, awaiting, faults, endVars, wires,
                   log, logOrder, replaying, controls, sentDirect, decisionVars,
                   history>>

HostRestarts ==
    /\ Fault
    /\ web' = [r \in Posted |-> "none"]
    /\ call' = [r \in Posted |-> "none"]
    /\ receipt' = [r \in Posted |-> "none"] /\ order' = <<>> /\ awaiting' = {}
    /\ gen' = 0 /\ link' = "none" /\ toHost' = <<>>
    /\ ending' = FALSE /\ stranded' = {} /\ unheard' = {}
    /\ toWorker' \in Prefixes(toWorker)
    /\ UNCHANGED <<posts, name, workerVars, decisionVars, history>>

(***************************************************************************)
(* The runtime: its server's thread                                        *)
(***************************************************************************)
Known(r) == log[r] # "none"
DoneInLog == {q \in Request : log[q] \in {"accepted", "refused"}}

(* Check: a new command takes a place in the log, pending.                 *)
Logged(r, held, outcome) ==
    /\ logOrder' = Append(held, r)
    /\ log' = [q \in Request |-> IF q = r THEN outcome
                                 ELSE IF q \in ToSet(held) THEN log[q] ELSE "none"]
    /\ forgotten' = forgotten \cup {<<q, run>> : q \in ToSet(logOrder) \ ToSet(held)}

(* What the host is sent, if it reads; a client of its own takes no notice *)
(* of it.                                                                  *)
ToHost(r, outcome) ==
    toHost' = IF r \in Posted /\ link = "open" /\ ~ending
                THEN Append(toHost, <<r, outcome>>) ELSE toHost

Ran(r) == ran' = [ran EXCEPT ![r][run] = @ + 1]

(* The variant that lets a second reply replace the first.                 *)
StaleIfOver(r) == ~deciding \/ About[r] # asked

StaleLocked(r) == ~deciding \/ About[r] # asked \/ reply # None

ReplyRefused(r) == StaleLocked(r) \/ (r \in ParentReply /\ route # "parent")

(* The first reply is the decision's; the parent's only while it is routed *)
(* to the parent.                                                          *)
ReplyLocked(r) ==
    /\ reply' = r
    /\ accepted' = [accepted EXCEPT ![asked] = @ \cup {r}]
    /\ late' = IF r \in ParentReply /\ notified THEN late \cup {r} ELSE late
    /\ IF r \in Posted THEN Ran(r) ELSE ran' = ran
    /\ UNCHANGED <<deciding, asked, route, routed, answer, notified, controls>>

(* The routed decision becomes the person's, who is notified.              *)
EscalateLocked ==
    /\ route' = "human"
    /\ notified' = TRUE

Yielded == /\ EscalateLocked
           /\ UNCHANGED <<deciding, asked, routed, reply, answer, accepted, late, controls, ran>>

(* A control waits its turn; its outcome comes as it completes.            *)
QueueIdleControl(r) == controls' = Append(controls, r) /\ UNCHANGED <<decisionVars, ran>>

Refused(r) ==
    CASE r \in Reply \cup ParentReply -> ReplyRefused(r)
      [] r \in Yield -> StaleLocked(r) \/ route # "parent"
      [] r \in Control -> deciding

(* A new command: refused, carried out at once, or queued unanswered.      *)
Command(r, held) ==
    LET outcome == IF Refused(r) THEN "refused"
                   ELSE IF r \in Control THEN "pending" ELSE "accepted" IN
    /\ Logged(r, held, outcome)
    /\ IF outcome = "pending" THEN UNCHANGED toHost ELSE ToHost(r, outcome)
    /\ IF Refused(r) THEN UNCHANGED <<decisionVars, controls, ran>>
       ELSE \/ r \in Reply \cup ParentReply /\ ReplyLocked(r)
            \/ r \in Yield /\ Yielded
            \/ r \in Control /\ QueueIdleControl(r)

LogRoom == Room(logOrder, LogLimit, DoneInLog)
Listening == run # 0 /\ replaying = None

(* The variant that passes over a command it will not take.                *)
SkipCommand == toWorker' = Tail(toWorker) /\ UNCHANGED link

(* A command the runtime will not take drops the client that sent it.      *)
DropClient ==
    /\ toWorker' = <<>>
    /\ link' = IF link = "open" THEN "broken" ELSE link

Take ==
    LET r == Head(toWorker)[1] IN
    /\ Listening /\ toWorker # <<>>
    /\ Head(toWorker)[2] = run /\ ~Known(r) /\ ~closed
    /\ \E held \in LogRoom : Command(r, held)
    /\ toWorker' = Tail(toWorker)
    /\ UNCHANGED <<webVars, hostVars, run, last, closed, replaying, sentDirect,
                   slipped, overtaken, assured>>

(* For another runtime, or the log is full of pending commands.            *)
Reject ==
    LET r == Head(toWorker)[1] IN
    /\ Listening /\ toWorker # <<>>
    /\ Head(toWorker)[2] # run \/ (~Known(r) /\ LogRoom = {})
    /\ DropClient
    /\ UNCHANGED <<webVars, receipt, order, awaiting, gen, faults, endVars, toHost,
                   workerVars, decisionVars, history>>

(* A closed runtime has logged the command before it sees that it is.      *)
RejectClosed ==
    LET r == Head(toWorker)[1] IN
    /\ Listening /\ toWorker # <<>>
    /\ Head(toWorker)[2] = run /\ ~Known(r) /\ closed
    /\ \E held \in LogRoom : Logged(r, held, "pending")
    /\ DropClient
    /\ UNCHANGED <<webVars, receipt, order, awaiting, gen, faults, endVars, toHost,
                   run, last, closed, replaying, controls, sentDirect,
                   decisionVars, ran, slipped, overtaken, assured>>

(* A repeated command: the outcome is read, then sent and recorded again.  *)
Replay ==
    LET r == Head(toWorker)[1] IN
    /\ Listening /\ toWorker # <<>>
    /\ Head(toWorker)[2] = run /\ Known(r)
    /\ replaying' = <<r, log[r]>>
    /\ toWorker' = Tail(toWorker)
    /\ UNCHANGED <<webVars, hostVars, toHost, run, last, closed, log, logOrder,
                   controls, sentDirect, decisionVars, history>>

SendAgain ==
    LET r == replaying[1] IN
    /\ replaying # None
    /\ ToHost(r, replaying[2])
    /\ log' = [log EXCEPT ![r] = IF Known(r) THEN replaying[2] ELSE @]
    /\ overtaken' = IF log[r] # replaying[2] THEN overtaken \cup {r} ELSE overtaken
    /\ replaying' = None
    /\ UNCHANGED <<webVars, hostVars, toWorker, run, last, closed, logOrder, controls,
                   sentDirect, decisionVars, ran, forgotten, slipped, assured>>

(* The parent's command, under an id of its own on its own connection.     *)
SendToRunning(r) ==
    /\ Listening /\ ~closed /\ Asked(r)
    /\ r \notin sentDirect /\ Cardinality(sentDirect) < MaxDirect
    /\ sentDirect' = sentDirect \cup {r}
    /\ \E held \in LogRoom : Command(r, held)
    /\ UNCHANGED <<webVars, hostVars, toWorker, run, last, closed, replaying,
                   slipped, overtaken, assured>>

(***************************************************************************)
(* The runtime: the application                                            *)
(***************************************************************************)
AppOnly == UNCHANGED <<webVars, hostVars, toWorker, run, last, closed, logOrder,
                       replaying, sentDirect, forgotten, slipped, overtaken, assured>>

(* The application takes a queued control and completes it.                *)
CompleteControl ==
    LET r == Head(controls) IN
    /\ run # 0 /\ ~deciding /\ controls # <<>>
    /\ controls' = Tail(controls)
    /\ Ran(r)
    /\ ToHost(r, "accepted")
    /\ log' = [log EXCEPT ![r] = IF Known(r) THEN "accepted" ELSE @]
    /\ AppOnly /\ UNCHANGED decisionVars

(* A turn asks for a decision; an agent's goes to its parent first.        *)
Ask ==
    /\ run # 0 /\ ~closed /\ ~deciding /\ controls = <<>> /\ asked < MaxDecisions
    /\ deciding' = TRUE /\ asked' = asked + 1
    /\ route' \in {"parent", "human"} /\ routed' = (route' = "parent")
    /\ AppOnly /\ UNCHANGED <<toHost, log, controls, ran, reply, answer, accepted,
                              notified, late>>

(* There is no decision any more.                                          *)
NoDecision == route' = "human" /\ notified' = FALSE /\ reply' = None

(* ReadInteraction's poll returns, the decision's time over or the turn    *)
(* interrupted or neither.  It acts on the route it saw before the poll: a *)
(* decision answered or escalated since is escalated all the same, which   *)
(* changes neither its reply nor, as it ends, anything that lasts.         *)
Look(over, abort) ==
    LET done == closed \/ reply # None \/ abort IN
    /\ run # 0 /\ deciding /\ deciding' = ~done
    /\ IF done THEN NoDecision
       ELSE /\ reply' = reply
            /\ IF routed /\ over THEN EscalateLocked ELSE UNCHANGED <<route, notified>>
    /\ routed' = (~done /\ route' = "parent")
    /\ answer' = IF done /\ ~closed THEN [answer EXCEPT ![asked] = reply] ELSE answer
    /\ AppOnly /\ UNCHANGED <<toHost, log, controls, ran, asked, accepted, late>>

(* An idle runtime nobody holds, and nothing has reached, ends.            *)
Retire ==
    /\ run # 0 /\ ~closed /\ link # "open"
    /\ toWorker = <<>> /\ replaying = None /\ controls = <<>> /\ ~deciding
    /\ closed' = TRUE
    /\ UNCHANGED <<webVars, hostVars, wires, run, last, log, logOrder, replaying,
                   controls, sentDirect, decisionVars, history>>

(* A client closes the runtime, or it is asked to end.                     *)
Close ==
    /\ run # 0 /\ ~closed /\ Fault
    /\ closed' = TRUE
    /\ UNCHANGED <<webVars, receipt, order, awaiting, gen, link, endVars, wires,
                   run, last, log, logOrder, replaying, controls, sentDirect,
                   decisionVars, history>>

Ends ==
    /\ run # 0
    /\ run' = 0 /\ closed' = FALSE
    /\ log' = [r \in Request |-> "none"] /\ logOrder' = <<>>
    /\ replaying' = None /\ controls' = <<>> /\ toWorker' = <<>>
    /\ link' = IF link = "open" THEN "broken" ELSE link
    /\ deciding' = FALSE /\ routed' = FALSE /\ NoDecision
    /\ UNCHANGED <<webVars, receipt, order, awaiting, gen, endVars, toHost, last,
                   sentDirect, asked, answer, accepted, late, history>>

EndsClosed == closed /\ Ends /\ UNCHANGED faults
Crash == ~closed /\ Ends /\ Fault

(***************************************************************************)
(* The system                                                              *)
(***************************************************************************)
Browser == \E r \in Posted : Repeat(r) \/ Reserve(r) \/ Displace(r)
Handlers == \E r \in Posted : ExecuteCommand(r) \/ SendCommand(r) \/ Send(r) \/ Return(r)
Reader == Received \/ LinkLost \/ DeactivateLocked
Serve == Take \/ Reject \/ RejectClosed \/ Replay \/ SendAgain
Parent == \E r \in Direct : SendToRunning(r)
Application == \/ CompleteControl \/ Ask
               \/ \E over, abort \in BOOLEAN : Look(over, abort)
               \/ Retire
Faults == Break \/ LetGo \/ Overflow \/ HostRestarts \/ Close \/ EndsClosed \/ Crash

Next == \/ Browser \/ Handlers \/ Reader \/ Activate \/ Serve \/ Parent
        \/ Application \/ Faults

Spec == Init /\ [][Next]_vars

(* The threads go on while they have something to do: the handlers, the    *)
(* reader, the server; and a runtime that was told to close ends.          *)
Threads == Handlers \/ Reader \/ Serve \/ EndsClosed
FairSpec == Spec /\ WF_vars(Threads)

(***************************************************************************)
(* Properties                                                              *)
(***************************************************************************)
(* A command runs at most once in a runtime, however often it is sent,     *)
(* unless the runtime's log has forgotten it, and waits there only once;   *)
(* one that names a runtime runs in no other (docs/ARCHITECTURE.md:98-100, *)
(* 123), unless the session got another between the check and the send.    *)
(* And what the browser was told is accepted, and no longer pending, has   *)
(* run, whatever was lost, repeated or restarted since it was posted.      *)
RunsOnce ==
    /\ \A r \in Posted, g \in Run : ran[r][g] <= 1 \/ <<r, g>> \in forgotten
    /\ IsInjective(controls)
    /\ \A r \in Named, g \in Run :
         ran[r][g] > 0 => g = name[r] \/ r \in slipped
    /\ \A r \in assured : \E g \in Run : ran[r][g] > 0

(* The first accepted reply is the decision's answer, and its only one;    *)
(* the parent answers none a person was told is theirs                     *)
(* (docs/ARCHITECTURE.md:102-104, ReplyLocked).                            *)
FirstReplyWins ==
    /\ \A d \in Decision :
         /\ Cardinality(accepted[d]) <= 1
         /\ answer[d] # None => accepted[d] = {answer[d]}
         /\ d = asked /\ deciding => accepted[d] = {reply} \ {None}
    /\ late = {}

(* A receipt the host shows as pending is one its session awaits, and what *)
(* it awaits is pending and held in the store; a disconnect fails all of   *)
(* it (outcome_store.h:7-8), so what is awaited without a connection has   *)
(* yet to be sent.  Excepted are the replay that was overtaken by the      *)
(* outcome it did not have, the command sent over a connection that has    *)
(* replaced the one it was registered for, and, of the last claim, the     *)
(* command that was sent between the two steps of the reader's end: that   *)
(* one waits for the end of a connection after it.                         *)
PendingIsAwaited ==
    /\ \A r \in Posted :
         receipt[r] = "pending" => r \in awaiting \cup overtaken \cup slipped
    /\ \A r \in awaiting : r \in ToSet(order) /\ receipt[r] = "pending"
    /\ link = "none" \/ ending =>
         \A r \in awaiting : call[r] = "registered" \/ r \in stranded

(* A reply that was sent is answered for, by the runtime or as its         *)
(* connection ends: unless it was sent as the connection was ending, or    *)
(* the runtime's answer went with its queue to a host that fell behind     *)
(* (Server::Publish), which nothing makes up for while the connection      *)
(* lasts.                                                                  *)
RepliesSettle ==
    \A r \in Reply : r \in awaiting ~> r \notin awaiting \/ r \in unheard \cup stranded
=============================================================================
