-------------------------- MODULE ActivitiesProofs --------------------------
(***************************************************************************)
(* That the end of a command is told once, that each chunk it printed has  *)
(* one fate, and that the commands in flight keep to their limit, for any  *)
(* number of commands and calls and any plan of batches.                   *)
(*                                                                         *)
(* The argument follows one command through the lists.  A run's call holds *)
(* it alone until it leaves it in the background (PlaceInv); from there    *)
(* whoever moves it to the retained list is the one that takes its end     *)
(* (ToldInv).  Whatever the I/O thread read is in the buffer, with one     *)
(* poll or one wait, given or thrown away (AccountInv, CarriedInv), it has *)
(* read all the process itself printed when it calls the command drained   *)
(* (ReadInv), and a transcript is given again only after that (ReplayInv). *)
(***************************************************************************)
EXTENDS Activities, FiniteSetTheorems, TLAPS

Ops == {"none", "run", "wait", "poll"}
StopSteps == {"idle", "kill", "mark", "take"}

JobType == [place : Place, state : State, reaped : BOOLEAN, eof : BOOLEAN,
            stopping : BOOLEAN]
ProcType == [dead : BOOLEAN, held : BOOLEAN, written : Nat, own : Nat]
OutType == [read : Nat, unread : Nat, carried : Nat, given : Nat, lost : Nat,
            replayed : BOOLEAN]
CallType == [op : Ops, ids : SUBSET Command, step : Step, taken : SUBSET Command,
             result : {"none", "final", "running", "cancelled"}, got : Nat]
StopType == [ids : SUBSET Command, step : StopSteps]

Types ==
    /\ job \in [Command -> JobType]
    /\ proc \in [Command -> ProcType]
    /\ out \in [Command -> OutType]
    /\ \A c \in Command : out[c].read <= proc[c].written
    /\ io \in [Command -> {"none", "read", "reap", "reapLate", "off"}]
    /\ calls \in [Calls -> CallType]
    /\ agent \in {"free", "calls"} /\ abort \in BOOLEAN
    /\ stop \in [Stopper -> StopType]
    /\ row \in [Command -> {"none", "running", "finished"}]
    /\ told \in [Command -> Nat]
    /\ stopped \subseteq Command /\ missed \subseteq Command
    /\ plan \in Plans /\ batches \in Nat

\* The call that starts a command holds it, and nobody else does.
InHand(i) ==
    /\ calls[i].op = "run"
    /\ calls[i].step \in {"spawn", "io", "watch", "exited", "cancel", "timeout",
                          "move"}
PlaceInv ==
    /\ \A i \in Calls : InHand(i) => \A c \in calls[i].ids :
            /\ calls[i].ids = {c}
            /\ job[c].place = IF calls[i].step = "spawn" THEN "reserved"
                              ELSE "foreground"
    /\ \A i, j \in Calls : InHand(i) /\ InHand(j) /\ i # j =>
            \A c \in calls[i].ids : c \notin calls[j].ids

InFlight == In("reserved") \cup In("foreground") \cup In("background")
LimitInv == IsFiniteSet(InFlight) /\ Cardinality(InFlight) <= plan.limit

\* An end that is taken and not yet told is with one wait, or stopped_.
OpenWait(i) == calls[i].op = "wait" /\ calls[i].step = "open"
ToldInv ==
    /\ \A c \in Command : told[c] = 0 \/ told[c] = 1
    /\ \A c \in Command : told[c] = 1 => job[c].place \in {"retained", "gone"}
    /\ \A c \in stopped : told[c] = 0 /\ job[c].place = "retained"
    /\ \A i \in Calls : OpenWait(i) => \A c \in calls[i].taken :
            told[c] = 0 /\ job[c].place = "retained" /\ c \notin stopped
    /\ \A i, j \in Calls : OpenWait(i) /\ OpenWait(j) /\ i # j =>
            \A c \in calls[i].taken : c \notin calls[j].taken
    /\ \A i \in Calls : calls[i].step = "begin" => calls[i].taken = {}

\* What was read is in the buffer, with the one poll that drains it, or out.
OpenPoll(i) == calls[i].op = "poll" /\ calls[i].step = "open"
PollOn(i, c) == OpenPoll(i) /\ c \in calls[i].ids
Counted(c) == out[c].given + out[c].carried + out[c].lost + out[c].unread
PollInv ==
    /\ \A i \in Calls : calls[i].step = "begin" => calls[i].got = 0
    /\ \A i \in Calls, c \in Command : PollOn(i, c) =>
            calls[i].ids = {c} /\ job[c].place \in {"background", "retained"}
    /\ \A i, j \in Calls, c \in Command : PollOn(i, c) /\ PollOn(j, c) => i = j
AccountOf(c) ==
    /\ (\A i \in Calls : ~PollOn(i, c)) => Counted(c) = out[c].read
    /\ \A i \in Calls : PollOn(i, c) => Counted(c) + calls[i].got = out[c].read
AccountInv == \A c \in Command : AccountOf(c)

\* Between two batches no call is at work.
FreeInv == agent = "free" => \A i \in Calls : calls[i].step = "done"

\* A command that is drained was reaped, and all it printed itself was read.
ReadOf(c) ==
    /\ proc[c].own <= proc[c].written /\ proc[c].written <= plan.chunks
    /\ job[c].place \in {"none", "reserved"} => io[c] = "none"
    /\ io[c] = "none" => job[c].state \in {"starting", "stopped"}
    /\ job[c].reaped => proc[c].dead
    /\ job[c].eof \/ io[c] = "reapLate" \/ job[c].state \in {"drained", "delivered"}
            => proc[c].dead /\ proc[c].own <= out[c].read
    /\ job[c].state \in {"drained", "delivered"} => io[c] = "off" /\ ~job[c].stopping
    /\ job[c].state = "delivered" => job[c].place = "retained"
ReadInv == \A c \in Command : ReadOf(c)

\* The I/O thread does not know a command before its call registers it.
IoInv ==
    \A i \in Calls : calls[i].op = "run" /\ calls[i].step = "io" =>
        \A c \in calls[i].ids : io[c] = "none"

\* Whoever stops a command told the I/O thread so before it could be drained.
StopInv ==
    \A s \in Stopper : stop[s].step # "idle" =>
        \A c \in stop[s].ids : job[c].stopping

\* Nothing is left to give of a command whose end was taken.
GivenInv ==
    \A c \in Command : job[c].state = "delivered" =>
        /\ out[c].unread = 0
        /\ \A i \in Calls : PollOn(i, c) => calls[i].got = 0

\* Only an open wait carries output, ...
Carries(i, c) == OpenWait(i) /\ c \in calls[i].taken
CarriedInv ==
    \A c \in Command : out[c].carried > 0 => \E i \in Calls : Carries(i, c)

\* ... only a command whose end was taken is given again, and only an
\* interrupt throws anything away.
ReplayInv == \A c \in Command : out[c].replayed => job[c].state = "delivered"
LostInv ==
    /\ interrupts \in Nat
    /\ abort => interrupts > 0
    /\ \A c \in Command : out[c].lost > 0 => interrupts > 0

IInv == /\ Types /\ PlaceInv /\ LimitInv /\ ToldInv /\ PollInv /\ AccountInv
        /\ FreeInv /\ ReadInv /\ IoInv /\ StopInv /\ GivenInv
        /\ CarriedInv /\ ReplayInv /\ LostInv
-----------------------------------------------------------------------------
\* The records the helpers make have their types.
LEMMA TakenTyped ==
    ASSUME NEW j \in JobType
    PROVE  /\ Taken(j) \in JobType
           /\ \A s \in State : [j EXCEPT !.state = Moved(j.state, s)] \in JobType
<1>1. Taken(j) \in JobType
  BY DEF Taken, JobType, Place, State
<1>2. ASSUME NEW s \in State PROVE [j EXCEPT !.state = Moved(j.state, s)] \in JobType
  BY DEF Moved, JobType
<1> QED BY <1>1, <1>2

\* A session's state that moves keeps the table of sessions typed.
LEMMA MovedStored ==
    ASSUME job \in [Command -> JobType], NEW c \in Command, NEW s \in State,
           job' = [job EXCEPT ![c].state = Moved(job[c].state, s)]
    PROVE  job' \in [Command -> JobType]
<1>1. job' = [job EXCEPT ![c] = [job[c] EXCEPT !.state = Moved(job[c].state, s)]]
  OBVIOUS
<1>2. [job[c] EXCEPT !.state = Moved(job[c].state, s)] \in JobType
  BY TakenTyped
<1> HIDE DEF Moved
<1> QED BY <1>1, <1>2

\* Emptying the buffer reads nothing.
LEMMA DrainedTyped ==
    ASSUME NEW o \in OutType
    PROVE  Drained(o) \in OutType /\ Drained(o).read = o.read
<1>1. o.given + o.unread \in Nat
  BY DEF OutType
<1> QED BY <1>1 DEF Drained, OutType

\* ... nor does handing it to a wait, which takes the buffer, ...
LEMMA CarriedFields ==
    ASSUME NEW o \in OutType
    PROVE  /\ Carried(o) \in OutType /\ Carried(o).read = o.read
           /\ Carried(o).given = o.given
           /\ Carried(o).lost = o.lost /\ Carried(o).replayed = o.replayed
           /\ Carried(o).unread = 0 /\ Carried(o).carried = o.carried + o.unread
<1>1. o.carried + o.unread \in Nat
  BY DEF OutType
<1> QED BY <1>1 DEF Carried, OutType

\* ... and reports it ...
LEMMA ReportedFields ==
    ASSUME NEW o \in OutType
    PROVE  /\ Reported(o) \in OutType /\ Reported(o).read = o.read
           /\ Reported(o).unread = o.unread
           /\ Reported(o).lost = o.lost /\ Reported(o).replayed = o.replayed
           /\ Reported(o).carried = 0 /\ Reported(o).given = o.given + o.carried
<1>1. o.given + o.carried \in Nat
  BY DEF OutType
<1> QED BY <1>1 DEF Reported, OutType

\* ... or drops it.
LEMMA DroppedFields ==
    ASSUME NEW o \in OutType
    PROVE  /\ Dropped(o) \in OutType /\ Dropped(o).read = o.read
           /\ Dropped(o).unread = o.unread
           /\ Dropped(o).given = o.given /\ Dropped(o).replayed = o.replayed
           /\ Dropped(o).carried = 0 /\ Dropped(o).lost = o.lost + o.carried
<1>1. o.lost + o.carried \in Nat
  BY DEF OutType
<1> QED BY <1>1 DEF Dropped, OutType

\* A poll's report gives what it drained, and says whether it gave all again.
LEMMA PolledFields ==
    ASSUME NEW o \in OutType, NEW n \in Nat, NEW again \in BOOLEAN
    PROVE  /\ Polled(o, n, again) \in OutType
           /\ Polled(o, n, again).read = o.read
           /\ Polled(o, n, again).unread = o.unread
           /\ Polled(o, n, again).carried = o.carried
           /\ Polled(o, n, again).lost = o.lost
           /\ Polled(o, n, again).given = o.given + n
           /\ Polled(o, n, again).replayed => o.replayed \/ again
<1>1. o.given + n \in Nat
  BY DEF OutType
<1>2. (o.replayed \/ again) \in BOOLEAN
  OBVIOUS
<1>3. PICK m \in Nat : m = o.given + n
  BY <1>1
<1>4. PICK b \in BOOLEAN : b = (o.replayed \/ again)
  BY <1>2
<1>5. Polled(o, n, again) = [o EXCEPT !.given = m, !.replayed = b]
  BY <1>3, <1>4 DEF Polled
<1>6. LET q == [o EXCEPT !.given = m, !.replayed = b]
      IN  /\ q \in OutType /\ q.read = o.read /\ q.unread = o.unread
          /\ q.carried = o.carried /\ q.lost = o.lost /\ q.given = m
          /\ q.replayed = b
  BY DEF OutType
<1> QED BY <1>3, <1>4, <1>5, <1>6

\* What a poll does with an output, in one form.
PollOuts(i, c) ==
    \/ out' = [out EXCEPT ![c].unread = 0]
    \/ \E again \in BOOLEAN :
            /\ again => job[c].state = "delivered"
            /\ out' = [out EXCEPT ![c] = Polled(out[c], calls[i].got, again)]
    \/ out' = [out EXCEPT ![c].lost = out[c].lost + calls[i].got]

LEMMA PollOutsOf ==
    ASSUME NEW i \in Calls,
           PollDrains(i) \/ PollReturns(i) \/ PollCancelled(i)
    PROVE  \E c \in calls[i].ids : PollOuts(i, c)
<1>1. CASE PollDrains(i)
  BY <1>1 DEF PollDrains, PollOuts
<1>2. CASE PollReturns(i)
  <2>1. PICK c \in calls[i].ids :
            out' = [out EXCEPT ![c] = Polled(out[c], calls[i].got,
                                             Replays(c, calls[i].got))]
    BY <1>2 DEF PollReturns
  <2>2. Replays(c, calls[i].got) \in BOOLEAN
    BY DEF Replays
  <2>3. Replays(c, calls[i].got) => job[c].state = "delivered"
    BY DEF Replays
  <2> QED BY <2>1, <2>2, <2>3 DEF PollOuts
<1>3. CASE PollCancelled(i)
  BY <1>3 DEF PollCancelled, PollOuts
<1> QED BY <1>1, <1>2, <1>3

\* Its fields.
LEMMA PollOutsFields ==
    ASSUME out \in [Command -> OutType], NEW i \in Calls, calls[i].got \in Nat,
           NEW c \in Command, PollOuts(i, c)
    PROVE  /\ out' \in [Command -> OutType]
           /\ \A d \in Command : out'[d].read = out[d].read
           /\ \A d \in Command : out'[d].carried = out[d].carried
           /\ \A d \in Command : out[d].unread = 0 => out'[d].unread = 0
           /\ \A d \in Command : out'[d].replayed =>
                    out[d].replayed \/ job[d].state = "delivered"
           /\ \A d \in Command : d # c => out'[d] = out[d]
<1>a. out[c] \in OutType /\ \A d \in Command : out[d] \in OutType
  OBVIOUS
<1>1. CASE out' = [out EXCEPT ![c].unread = 0]
  BY <1>1 DEF OutType
<1>2. ASSUME NEW again \in BOOLEAN, again => job[c].state = "delivered",
             out' = [out EXCEPT ![c] = Polled(out[c], calls[i].got, again)]
      PROVE  /\ out' \in [Command -> OutType]
             /\ \A d \in Command : /\ out'[d].read = out[d].read
                                   /\ out'[d].carried = out[d].carried
                                   /\ out'[d].unread = out[d].unread
                                   /\ out'[d].replayed =>
                                        out[d].replayed \/ job[d].state = "delivered"
                                   /\ d # c => out'[d] = out[d]
  <2>1. PICK o \in OutType :
            /\ o = Polled(out[c], calls[i].got, again)
            /\ o.read = out[c].read /\ o.unread = out[c].unread
            /\ o.carried = out[c].carried
            /\ o.replayed => out[c].replayed \/ again
    BY <1>a, PolledFields
  <2>2. out' = [out EXCEPT ![c] = o]
    BY <1>2, <2>1
  <2> QED BY <1>2, <2>1, <2>2
<1>3. ASSUME out' = [out EXCEPT ![c].lost = out[c].lost + calls[i].got]
      PROVE  /\ out' \in [Command -> OutType]
             /\ \A d \in Command : /\ out'[d].read = out[d].read
                                   /\ out'[d].carried = out[d].carried
                                   /\ out'[d].unread = out[d].unread
                                   /\ out'[d].replayed = out[d].replayed
                                   /\ d # c => out'[d] = out[d]
  <2>1. PICK n \in Nat : n = out[c].lost + calls[i].got
    BY <1>a DEF OutType
  <2>2. out' = [out EXCEPT ![c].lost = n]
    BY <1>3, <2>1
  <2> QED BY <2>2 DEF OutType
<1> QED BY <1>1, <1>2, <1>3 DEF PollOuts

\* A process that ends wrote no more, and what it wrote itself is then fixed.
LEMMA EndedTyped ==
    ASSUME NEW p \in ProcType, NEW held \in BOOLEAN
    PROVE  /\ Ended(p, held) \in ProcType /\ Ended(p, held).dead
           /\ Ended(p, held).written = p.written
           /\ Ended(p, held).written >= p.written
           /\ Ended(p, held).own = IF p.dead THEN p.own ELSE p.written
<1>1. p.written \in Nat
  BY DEF ProcType
<1>2. CASE p.dead
  BY <1>1, <1>2 DEF Ended, ProcType
<1>3. CASE ~p.dead
  <2>1. Ended(p, held) = [p EXCEPT !.dead = TRUE, !.held = held, !.own = p.written]
    BY <1>3 DEF Ended
  <2>2. Ended(p, held) = [dead |-> TRUE, held |-> held, written |-> p.written,
                          own |-> p.written]
    BY <2>1 DEF ProcType
  <2> QED BY <1>1, <1>3, <2>2 DEF ProcType
<1> QED BY <1>2, <1>3

\* What the steps make of each variable's type, one variable at a time.
LEMMA JobTyped ==
    ASSUME Types, [Next]_vars
    PROVE  job' \in [Command -> JobType]
<1>a. job \in [Command -> JobType]
  BY DEF Types
<1>1. ASSUME NEW c \in Command, IoRead(c) PROVE job' \in [Command -> JobType]
  <2> DEFINE eof == job[c].eof \/ (proc[c].dead /\ ~proc[c].held)
             state == IF proc[c].written > out[c].read
                      THEN Moved(job[c].state, "running") ELSE job[c].state
  <2>1. job' = [job EXCEPT ![c].eof = eof, ![c].state = state]
    BY <1>a, <1>1 DEF IoRead, JobType
  <2>2. eof \in BOOLEAN
    BY DEF Types, JobType, ProcType
  <2>3. job[c] \in JobType /\ job[c].state \in State
    BY <1>a DEF JobType
  <2>4. state \in State
    BY <2>3 DEF Moved, State
  <2> HIDE DEF eof, state
  <2> QED BY <1>a, <2>1, <2>2, <2>3, <2>4 DEF JobType
<1>2. ASSUME NEW c \in Command, IoReap(c) PROVE job' \in [Command -> JobType]
  <2> DEFINE reaped == job[c].reaped \/ proc[c].dead
             exited == IF reaped /\ ~job[c].reaped
                       THEN Moved(job[c].state, "exited") ELSE job[c].state
             state == IF OutputOver(c, reaped)
                      THEN Moved(exited, IF job[c].stopping THEN "stopped"
                                         ELSE "drained")
                      ELSE exited
  <2>1. job' = [job EXCEPT ![c].reaped = reaped, ![c].state = state]
    BY <1>2 DEF IoReap
  <2>2. reaped \in BOOLEAN
    BY DEF Types, JobType, ProcType
  <2>3. job[c] \in JobType /\ job[c].state \in State
    BY <1>a DEF JobType
  <2>4. exited \in State
    BY <2>3 DEF Moved, State
  <2>5. state \in State
    BY <2>4 DEF Moved, State
  <2> HIDE DEF reaped, state
  <2> QED BY <1>a, <2>1, <2>2, <2>3, <2>5 DEF JobType
<1>3. CASE DrainActivities
  BY <1>a, <1>3, TakenTyped DEF DrainActivities
<1>4. ASSUME NEW i \in Calls, Reserve(i) \/ Spawn(i) \/ RegisterIo(i)
      PROVE  job' \in [Command -> JobType]
  <2>a. "running" \in State
    BY DEF State
  <2>1. \/ job' = job
        \/ \E c \in Command, to \in Place : job' = [job EXCEPT ![c].place = to]
        \/ \E c \in Command :
                job' = [job EXCEPT ![c].state = Moved(job[c].state, "running")]
    <3>1. calls[i].ids \subseteq Command
      BY DEF Types, CallType
    <3>2. CASE Reserve(i)
      BY <3>2 DEF Reserve, In, Place
    <3>3. CASE Spawn(i)
      BY <3>1, <3>3 DEF Spawn, Place
    <3>4. CASE RegisterIo(i)
      <4>1. PICK c \in calls[i].ids : job' = [job EXCEPT ![c].state = Moved(@, "running")]
        BY <3>4 DEF RegisterIo
      <4>2. job' = [job EXCEPT ![c].state = Moved(job[c].state, "running")]
        BY <1>a, <3>1, <4>1 DEF JobType
      <4> QED BY <3>1, <4>2
    <3> QED BY <1>4, <3>2, <3>3, <3>4
  <2>2. ASSUME NEW c \in Command, NEW to \in Place,
               job' = [job EXCEPT ![c].place = to]
        PROVE  job' \in [Command -> JobType]
    BY <1>a, <2>2 DEF JobType
  <2>3. ASSUME NEW c \in Command,
               job' = [job EXCEPT ![c].state = Moved(job[c].state, "running")]
        PROVE  job' \in [Command -> JobType]
    BY <1>a, <2>a, <2>3, MovedStored
  <2> QED BY <1>a, <2>1, <2>2, <2>3
<1>5. ASSUME NEW i \in Calls, Keeps(i) PROVE job' \in [Command -> JobType]
  <2>1. PICK c \in calls[i].ids : job' = [job EXCEPT ![c].place = "gone"]
    BY <1>5 DEF Keeps
  <2>2. "gone" \in Place
    BY DEF Place
  <2> QED BY <1>a, <2>1, <2>2 DEF JobType
<1>6. ASSUME NEW i \in Calls, MoveForegroundToBackground(i)
      PROVE  job' \in [Command -> JobType]
  <2>1. PICK c \in calls[i].ids : job' = [job EXCEPT ![c].place = "background"]
    BY <1>6 DEF MoveForegroundToBackground
  <2>2. "background" \in Place
    BY DEF Place
  <2> QED BY <1>a, <2>1, <2>2 DEF JobType
<1>7. ASSUME NEW i \in Calls, WaitTakes(i) PROVE job' \in [Command -> JobType]
  <2>1. \E c \in calls[i].ids : job' = [job EXCEPT ![c] = Taken(job[c])]
    BY <1>7 DEF WaitTakes
  <2> QED BY <1>a, <2>1, TakenTyped
<1>8. ASSUME NEW c \in Command, NEW s \in Stopper, Request(s, c)
      PROVE  job' \in [Command -> JobType]
  <2>1. job' = job \/ job' = [job EXCEPT ![c].stopping = TRUE]
    BY <1>8 DEF Request
  <2> QED BY <1>a, <2>1 DEF JobType
<1>9. CASE PersonStops
  BY <1>8, <1>9 DEF PersonStops, Stopper
<1>10. ASSUME NEW i \in Calls, CallStops(i) PROVE job' \in [Command -> JobType]
  <2>1. calls[i].ids \subseteq Command
    BY DEF Types, CallType
  <2> QED BY <1>8, <1>10, <2>1 DEF CallStops, Stopper
<1>11. ASSUME NEW s \in Stopper, MarkStopped(s) PROVE job' \in [Command -> JobType]
  <2>1. PICK c \in stop[s].ids : job' = [job EXCEPT ![c].state = Moved(@, "stopped")]
    BY <1>11 DEF MarkStopped
  <2>2. c \in Command
    BY DEF Types, StopType
  <2>3. job' = [job EXCEPT ![c].state = Moved(job[c].state, "stopped")]
    BY <1>a, <2>1, <2>2 DEF JobType
  <2>4. "stopped" \in State
    BY DEF State
  <2> QED BY <1>a, <2>2, <2>3, <2>4, MovedStored
<1>12. ASSUME NEW s \in Stopper, TakeStopped(s) PROVE job' \in [Command -> JobType]
  BY <1>a, <1>12, TakenTyped DEF TakeStopped
<1>13. CASE UNCHANGED job
  BY <1>a, <1>13
<1> QED
  BY <1>1, <1>2, <1>3, <1>4, <1>5, <1>6, <1>7, <1>9, <1>10, <1>11, <1>12, <1>13
  DEF Next, Threads, World, RunCall, ReadCall, StopCall, Stops, IoLoop, vars,
      Writes, Ends, Batch, Interrupt, Integrate, Cancelled, Look, Leaves,
      WaitBegins, WaitReturns, WaitCancelled, PollBegins, PollDrains,
      PollReturns, PollCancelled, TerminateGroup, StopReturns

\* No more is read than was written.
LEMMA OutputTyped ==
    ASSUME Types, [Next]_vars
    PROVE  /\ proc' \in [Command -> ProcType] /\ out' \in [Command -> OutType]
           /\ \A c \in Command : out'[c].read <= proc'[c].written
<1>a. /\ proc \in [Command -> ProcType] /\ out \in [Command -> OutType]
      /\ \A c \in Command : out[c].read <= proc[c].written
  BY DEF Types
<1> DEFINE Goal == /\ proc' \in [Command -> ProcType]
                   /\ out' \in [Command -> OutType]
                   /\ \A c \in Command : out'[c].read <= proc'[c].written
\* Only the counts of one command change.
<1>b. ASSUME out' = out, NEW c \in Command, NEW p \in ProcType,
             p.written >= proc[c].written, proc' = [proc EXCEPT ![c] = p]
      PROVE  Goal
  <2>1. proc' \in [Command -> ProcType]
    BY <1>a, <1>b
  <2>2. \A d \in Command : proc[d].written \in Nat /\ out[d].read \in Nat
    BY <1>a DEF ProcType, OutType
  <2>3. \A d \in Command : proc'[d] = IF d = c THEN p ELSE proc[d]
    BY <1>a, <1>b
  <2>4. p.written \in Nat
    BY DEF ProcType
  <2>5. ASSUME NEW d \in Command PROVE out'[d].read <= proc'[d].written
    <3>1. CASE d = c
      BY <3>1, <1>a, <1>b, <2>2, <2>3, <2>4
    <3>2. CASE d # c
      BY <3>2, <1>a, <1>b, <2>3
    <3> QED BY <3>1, <3>2
  <2> QED BY <1>a, <1>b, <2>1, <2>5
<1>c. ASSUME proc' = proc, out' \in [Command -> OutType],
             \A c \in Command : out'[c].read = out[c].read
      PROVE  Goal
  BY <1>a, <1>c
<1>1. ASSUME NEW c \in Command, Writes(c) PROVE Goal
  <2>1. /\ out' = out
        /\ proc' = [proc EXCEPT ![c] = [proc[c] EXCEPT !.written = proc[c].written + 1]]
    BY <1>a, <1>1 DEF Writes
  <2>2. /\ [proc[c] EXCEPT !.written = proc[c].written + 1] \in ProcType
        /\ [proc[c] EXCEPT !.written = proc[c].written + 1].written >= proc[c].written
    BY <1>a DEF ProcType
  <2> QED BY <1>b, <2>1, <2>2
<1>2. ASSUME NEW c \in Command, Ends(c) PROVE Goal
  <2>1. out' = out /\ \E held \in BOOLEAN : proc' = [proc EXCEPT ![c] = Ended(proc[c], held)]
    <3>1. {FALSE, (c \in Talks)} \subseteq BOOLEAN
      OBVIOUS
    <3> QED BY <1>2, <3>1 DEF Ends
  <2>2. \A held \in BOOLEAN : Ended(proc[c], held) \in ProcType
                            /\ Ended(proc[c], held).written >= proc[c].written
    BY <1>a, EndedTyped
  <2> QED BY <1>b, <2>1, <2>2
<1>3. ASSUME NEW c \in Command, IoRead(c) PROVE Goal
  <2> DEFINE o == [out[c] EXCEPT !.unread = out[c].unread + proc[c].written
                                            - out[c].read,
                                 !.read = proc[c].written]
  <2>1. proc' = proc /\ out' = [out EXCEPT ![c] = o]
    BY <1>a, <1>3 DEF IoRead
  <2>2. /\ out[c] \in OutType /\ proc[c].written \in Nat
        /\ out[c].read <= proc[c].written
    BY <1>a DEF ProcType
  <2>3. out[c].unread + proc[c].written - out[c].read \in Nat
    BY <2>2 DEF OutType
  <2>4. o \in OutType /\ o.read = proc[c].written
    BY <2>2, <2>3 DEF OutType
  <2> HIDE DEF o
  <2> QED BY <1>a, <2>1, <2>2, <2>4
<1>4. CASE DrainActivities
  BY <1>a, <1>c, <1>4, DrainedTyped DEF DrainActivities
<1>5. ASSUME NEW i \in Calls, Keeps(i) PROVE Goal
  <2>1. \E c \in calls[i].ids :
            /\ proc' = [proc EXCEPT ![c] = [NoProcess EXCEPT !.dead = TRUE]]
            /\ out' = [out EXCEPT ![c] = NoOutput]
    BY <1>5 DEF Keeps
  <2>2. /\ NoOutput \in OutType /\ NoOutput.read = 0
        /\ [NoProcess EXCEPT !.dead = TRUE] \in ProcType
        /\ [NoProcess EXCEPT !.dead = TRUE].written = 0
    BY DEF NoOutput, NoProcess, OutType, ProcType
  <2>3. /\ proc' \in [Command -> ProcType] /\ out' \in [Command -> OutType]
    BY <1>a, <2>1, <2>2
  <2>4. ASSUME NEW d \in Command PROVE out'[d].read <= proc'[d].written
    <3>1. PICK c \in calls[i].ids :
            /\ proc' = [proc EXCEPT ![c] = [NoProcess EXCEPT !.dead = TRUE]]
            /\ out' = [out EXCEPT ![c] = NoOutput]
      BY <2>1
    <3>2. CASE d = c
      BY <1>a, <2>2, <3>1, <3>2
    <3>3. CASE d # c
      BY <1>a, <3>1, <3>3
    <3> QED BY <3>2, <3>3
  <2> QED BY <2>3, <2>4
<1>6. ASSUME NEW i \in Calls, Leaves(i) PROVE Goal
  BY <1>a, <1>c, <1>6, DrainedTyped DEF Leaves
<1>7. ASSUME NEW i \in Calls, WaitTakes(i) PROVE Goal
  <2>1. PICK c \in calls[i].ids : out' = [out EXCEPT ![c] = Carried(out[c])]
    BY <1>7 DEF WaitTakes
  <2>2. proc' = proc /\ c \in Command
    BY <1>7 DEF WaitTakes, Types, CallType
  <2>3. PICK o \in OutType : o = Carried(out[c]) /\ o.read = out[c].read
    BY <1>a, <2>2, CarriedFields
  <2>4. /\ out' \in [Command -> OutType]
        /\ \A d \in Command : out'[d].read = out[d].read
    BY <1>a, <2>1, <2>2, <2>3
  <2> QED BY <1>c, <2>2, <2>4
<1>13. ASSUME NEW i \in Calls, WaitReturns(i) \/ WaitCancelled(i) PROVE Goal
  <2>1. /\ proc' = proc
        /\ \/ out' = [c \in Command |-> IF c \in calls[i].taken
                                       THEN Reported(out[c]) ELSE out[c]]
           \/ out' = [c \in Command |-> IF c \in calls[i].taken
                                       THEN Dropped(out[c]) ELSE out[c]]
    BY <1>13 DEF WaitReturns, WaitCancelled
  <2> QED BY <1>a, <1>c, <2>1, ReportedFields, DroppedFields
<1>8. ASSUME NEW i \in Calls, PollDrains(i) \/ PollReturns(i) \/ PollCancelled(i)
      PROVE  Goal
  <2>1. calls[i].got \in Nat
    BY DEF Types, CallType
  <2>2. proc' = proc /\ \E c \in calls[i].ids : PollOuts(i, c)
    BY <1>8, PollOutsOf DEF PollDrains, PollReturns, PollCancelled
  <2>3. calls[i].ids \subseteq Command
    BY DEF Types, CallType
  <2>4. /\ out' \in [Command -> OutType]
        /\ \A c \in Command : out'[c].read = out[c].read
    BY <1>a, <2>1, <2>2, <2>3, PollOutsFields
  <2> QED BY <1>c, <2>2, <2>4
<1>9. ASSUME NEW s \in Stopper, TerminateGroup(s) PROVE Goal
  <2>1. /\ out' = out
        /\ \/ proc' = proc
           \/ \E c \in stop[s].ids : proc' = [proc EXCEPT ![c] = Ended(proc[c], FALSE)]
    BY <1>9 DEF TerminateGroup
  <2>2. stop[s].ids \subseteq Command
    BY DEF Types, StopType
  <2>3. \A c \in Command : Ended(proc[c], FALSE) \in ProcType
                            /\ Ended(proc[c], FALSE).written >= proc[c].written
    BY <1>a, EndedTyped
  <2> QED BY <1>a, <1>b, <2>1, <2>2, <2>3
<1>10. CASE UNCHANGED <<proc, out>>
  BY <1>a, <1>10
<1>11. ASSUME \/ Batch \/ Interrupt \/ Integrate \/ PersonStops \/ UNCHANGED vars
              \/ \E c \in Command : IoReap(c)
              \/ \E s \in Stopper : MarkStopped(s) \/ TakeStopped(s)
       PROVE  UNCHANGED <<proc, out>>
  BY <1>11 DEF Batch, Interrupt, Integrate, PersonStops, vars, IoReap,
     MarkStopped, TakeStopped
<1>12. ASSUME NEW i \in Calls,
              \/ Cancelled(i) \/ Reserve(i) \/ Spawn(i) \/ RegisterIo(i) \/ Look(i)
              \/ MoveForegroundToBackground(i) \/ WaitBegins(i)
              \/ PollBegins(i) \/ CallStops(i) \/ StopReturns(i)
       PROVE  UNCHANGED <<proc, out>>
  BY <1>12 DEF Cancelled, Reserve, Spawn, RegisterIo, Look,
     MoveForegroundToBackground, WaitBegins, PollBegins, CallStops, StopReturns
<1> QED
  BY <1>1, <1>2, <1>3, <1>4, <1>5, <1>6, <1>7, <1>8, <1>9, <1>10, <1>11, <1>12,
     <1>13
  DEF Next, Threads, World, RunCall, ReadCall, StopCall, Stops, IoLoop

\* The call that ends is typed,
LEMMA OverTyped ==
    ASSUME Types, NEW i \in Calls, NEW taken \in SUBSET Command
    PROVE  Over(i, taken) \in CallType
<1>1. calls[i].op \in Ops
  BY DEF Types, CallType
<1> QED BY <1>1 DEF Over, Free, CallType, Step

\* ... so is one that takes a step with a result,
LEMMA ResultTyped ==
    ASSUME Types, NEW i \in Calls, NEW step \in Step,
           NEW result \in {"none", "final", "running", "cancelled"},
           calls' = [calls EXCEPT ![i].step = step, ![i].result = result]
    PROVE  calls' \in [Calls -> CallType]
<1>a. calls \in [Calls -> CallType]
  BY DEF Types
<1> QED BY <1>a, ZenonT(40) DEF CallType

\* ... and one that takes a step with the commands it is about.
LEMMA IdsTyped ==
    ASSUME Types, NEW i \in Calls, NEW step \in Step, NEW ids \in SUBSET Command,
           calls' = [calls EXCEPT ![i].ids = ids, ![i].step = step]
    PROVE  calls' \in [Calls -> CallType]
<1>a. calls \in [Calls -> CallType]
  BY DEF Types
<1> QED BY <1>a, ZenonT(40) DEF CallType

\* Every step keeps the type of the calls.
LEMMA CallsTyped ==
    ASSUME Types, [Next]_vars
    PROVE  calls' \in [Calls -> CallType]
<1>a. /\ calls \in [Calls -> CallType]
      /\ \A i \in Calls : calls[i].ids \subseteq Command
                          /\ calls[i].taken \subseteq Command
  BY DEF Types, CallType
<1>1. ASSUME NEW i \in Calls,
             Cancelled(i) \/ Spawn(i) \/ RegisterIo(i) \/ Look(i) \/ Keeps(i)
      PROVE  calls' \in [Calls -> CallType]
  <2>1. \E step \in Step : \E result \in {"none", "final", "running", "cancelled"} :
            calls' = [calls EXCEPT ![i].step = step, ![i].result = result]
    <3>1. CASE Keeps(i)
      BY <3>1, <1>a DEF Keeps, Step
    <3>2. \/ \E step \in Step : calls' = [calls EXCEPT ![i].step = step]
          \/ Keeps(i)
      BY <1>1 DEF Cancelled, Spawn, RegisterIo, Look, Step
    <3>3. ASSUME NEW step \in Step, calls' = [calls EXCEPT ![i].step = step]
          PROVE  calls' = [calls EXCEPT ![i].step = step,
                                        ![i].result = calls[i].result]
      BY <3>3, <1>a DEF CallType
    <3>4. calls[i].result \in {"none", "final", "running", "cancelled"}
      BY <1>a DEF CallType
    <3> QED BY <3>1, <3>2, <3>3, <3>4
  <2>2. PICK step \in Step, result \in {"none", "final", "running", "cancelled"} :
            calls' = [calls EXCEPT ![i].step = step, ![i].result = result]
    BY <2>1
  <2> QED BY <2>2, ResultTyped
<1>2. ASSUME NEW i \in Calls,
             \/ MoveForegroundToBackground(i) \/ Leaves(i) \/ CallStops(i)
             \/ StopReturns(i)
      PROVE  calls' \in [Calls -> CallType]
  <2>1. \/ calls' = [calls EXCEPT ![i].step = "moved"]
        \/ calls' = [calls EXCEPT ![i].step = "done", ![i].result = "running"]
        \/ calls' = [calls EXCEPT ![i].step = "stopping"]
        \/ calls' = [calls EXCEPT ![i].step = "done", ![i].result = "cancelled"]
    BY <1>2 DEF MoveForegroundToBackground, Leaves, CallStops, StopReturns
  <2> QED BY <1>a, <2>1 DEF CallType, Step
<1>3. ASSUME NEW i \in Calls, Reserve(i) PROVE calls' \in [Calls -> CallType]
  BY <1>a, <1>3 DEF Reserve, CallType, Step, In
<1>4. ASSUME NEW i \in Calls, WaitBegins(i) PROVE calls' \in [Calls -> CallType]
  <2>1. PICK ids \in SUBSET Command :
            calls' = [calls EXCEPT ![i].ids = ids,
                        ![i].step = IF ids = {} THEN "done" ELSE "open"]
    BY <1>4 DEF WaitBegins, In
  <2>2. (IF ids = {} THEN "done" ELSE "open") \in Step
    BY DEF Step
  <2> QED BY <2>1, <2>2, IdsTyped
<1>5. ASSUME NEW i \in Calls, WaitTakes(i) PROVE calls' \in [Calls -> CallType]
  <2>1. \E c \in Command : calls' = [calls EXCEPT ![i].taken = calls[i].taken \cup {c}]
    BY <1>a, <1>5 DEF WaitTakes
  <2> QED BY <1>a, <2>1 DEF CallType
<1>6. ASSUME NEW i \in Calls, WaitReturns(i) \/ WaitCancelled(i)
             \/ PollReturns(i) \/ PollCancelled(i)
      PROVE  calls' \in [Calls -> CallType]
  <2>1. \E taken \in SUBSET Command : calls' = [calls EXCEPT ![i] = Over(i, taken)]
    BY <1>a, <1>6 DEF WaitReturns, WaitCancelled, PollReturns, PollCancelled
  <2> QED BY <1>a, <2>1, OverTyped
<1>7. ASSUME NEW i \in Calls, PollBegins(i) PROVE calls' \in [Calls -> CallType]
  <2>1. \/ \E ids \in SUBSET Command :
            calls' = [calls EXCEPT ![i].ids = ids, ![i].step = "open"]
        \/ calls' = [calls EXCEPT ![i].step = "done"]
    BY <1>7 DEF PollBegins, In
  <2>2. CASE calls' = [calls EXCEPT ![i].step = "done"]
    BY <1>a, <2>2 DEF CallType, Step
  <2>3. ASSUME NEW ids \in SUBSET Command,
               calls' = [calls EXCEPT ![i].ids = ids, ![i].step = "open"]
        PROVE  calls' \in [Calls -> CallType]
    BY <2>3, IdsTyped DEF Step
  <2> QED BY <2>1, <2>2, <2>3
<1>8. ASSUME NEW i \in Calls, PollDrains(i) PROVE calls' \in [Calls -> CallType]
  <2>1. \E c \in Command : calls' = [calls EXCEPT ![i].got = calls[i].got + out[c].unread]
    BY <1>a, <1>8 DEF PollDrains
  <2>2. \A c \in Command : calls[i].got + out[c].unread \in Nat
    BY <1>a DEF Types, CallType, OutType
  <2> QED BY <1>a, <2>1, <2>2 DEF CallType
<1>9. CASE Batch
  <2>1. plan.batches \in Batches /\ batches + 1 \in 1 .. Len(plan.batches)
    BY <1>9, ActivitiesAssumption DEF Batch, Types, Batches
  <2>2. \A i \in Calls : plan.batches[batches + 1][i] \in Ops
    BY <2>1 DEF Batches, Ops
  <2>3. \A i \in Calls : \A op \in Ops : [Free("begin") EXCEPT !.op = op] \in CallType
    BY DEF Free, CallType, Step
  <2> QED BY <1>9, <2>2, <2>3 DEF Batch
<1>10. CASE Integrate
  <2>1. Free("done") \in CallType
    BY DEF Free, CallType, Step, Ops
  <2> QED BY <1>10, <2>1 DEF Integrate
<1>11. CASE UNCHANGED calls
  BY <1>a, <1>11
<1>12. ASSUME \/ Interrupt \/ DrainActivities \/ PersonStops \/ UNCHANGED vars
              \/ \E c \in Command : Writes(c) \/ Ends(c) \/ IoRead(c) \/ IoReap(c)
              \/ \E s \in Stopper : TerminateGroup(s) \/ MarkStopped(s)
                                    \/ TakeStopped(s)
       PROVE  UNCHANGED calls
  BY <1>12 DEF Interrupt, DrainActivities, PersonStops, vars, Writes, Ends,
     IoRead, IoReap, TerminateGroup, MarkStopped, TakeStopped
<1> QED
  BY <1>1, <1>2, <1>3, <1>4, <1>5, <1>6, <1>7, <1>8, <1>9, <1>10, <1>11, <1>12
  DEF Next, Threads, World, RunCall, ReadCall, StopCall, Stops, IoLoop

\* Types are kept by every step.
\* Only the agent's own steps and an interrupt change its batch.
LEMMA AgentSteps ==
    ASSUME [Next]_vars
    PROVE  \/ Batch \/ Interrupt \/ Integrate
           \/ UNCHANGED <<agent, abort, plan, batches>>
<1> DEFINE Kept == UNCHANGED <<agent, abort, plan, batches>>
<1>1. ASSUME NEW i \in Calls, RunCall(i) PROVE Kept
  BY <1>1 DEF RunCall, Cancelled, Reserve, Spawn, RegisterIo, Look, Keeps,
     MoveForegroundToBackground, Leaves, counters
<1>2. ASSUME NEW i \in Calls, ReadCall(i) PROVE Kept
  BY <1>2 DEF ReadCall, WaitBegins, WaitTakes, WaitReturns, WaitCancelled,
     PollBegins, PollDrains, PollReturns, PollCancelled, counters
<1>3. ASSUME NEW i \in Calls, StopCall(i) PROVE Kept
  BY <1>3 DEF StopCall, CallStops, StopReturns, counters
<1>4. ASSUME NEW s \in Stopper, Stops(s) PROVE Kept
  BY <1>4 DEF Stops, TerminateGroup, MarkStopped, TakeStopped, counters
<1>5. ASSUME NEW c \in Command, IoLoop(c) \/ Writes(c) \/ Ends(c) PROVE Kept
  BY <1>5 DEF IoLoop, IoRead, IoReap, Writes, Ends, counters
<1>6. ASSUME DrainActivities PROVE Kept
  BY <1>6 DEF DrainActivities, counters
<1>7. ASSUME PersonStops PROVE Kept
  BY <1>7 DEF PersonStops, counters
<1>8. ASSUME UNCHANGED vars PROVE Kept
  BY <1>8 DEF vars, counters
<1> HIDE DEF Kept
<1>9. Batch \/ Interrupt \/ Integrate \/ Kept
  BY <1>1, <1>2, <1>3, <1>4, <1>5, <1>6, <1>7, <1>8 DEF Next, Threads, World
<1> QED BY <1>9 DEF Kept

LEMMA TypesStep ==
    ASSUME Types, [Next]_vars
    PROVE  Types'
<1>1. io' \in [Command -> {"none", "read", "reap", "reapLate", "off"}]
  <2>a. io \in [Command -> {"none", "read", "reap", "reapLate", "off"}]
    BY DEF Types
  <2>1. ASSUME NEW c \in Command, IoRead(c) \/ IoReap(c)
        PROVE  io' \in [Command -> {"none", "read", "reap", "reapLate", "off"}]
    BY <2>a, <2>1 DEF IoRead, IoReap
  <2>2. ASSUME NEW i \in Calls, RegisterIo(i) \/ Keeps(i)
        PROVE  io' \in [Command -> {"none", "read", "reap", "reapLate", "off"}]
    BY <2>a, <2>2 DEF RegisterIo, Keeps
  <2>3. CASE UNCHANGED io
    BY <2>a, <2>3
  <2> QED
    BY <2>1, <2>2, <2>3
    DEF Next, Threads, World, RunCall, ReadCall, StopCall, Stops, IoLoop, vars,
        Writes, Ends, Batch, Interrupt, Integrate, DrainActivities, PersonStops,
        Cancelled, Reserve, Spawn, Look, MoveForegroundToBackground, Leaves,
        WaitBegins, WaitTakes, WaitReturns, WaitCancelled, PollBegins,
        PollDrains, PollReturns, PollCancelled, CallStops, StopReturns,
        TerminateGroup, MarkStopped, TakeStopped
<1>2. stop' \in [Stopper -> StopType]
  <2>a. stop \in [Stopper -> StopType]
    BY DEF Types
  <2>1. ASSUME NEW c \in Command, NEW s \in Stopper, Request(s, c)
        PROVE  stop' \in [Stopper -> StopType]
    BY <2>a, <2>1 DEF Request, StopType, StopSteps
  <2>2. ASSUME PersonStops PROVE stop' \in [Stopper -> StopType]
    BY <2>1, <2>2 DEF PersonStops, Stopper
  <2>3. ASSUME NEW i \in Calls, CallStops(i) PROVE stop' \in [Stopper -> StopType]
    <3>1. calls[i].ids \subseteq Command
      BY DEF Types, CallType
    <3> QED BY <2>1, <2>3, <3>1 DEF CallStops, Stopper
  <2>4. ASSUME NEW s \in Stopper,
               TerminateGroup(s) \/ MarkStopped(s) \/ TakeStopped(s)
        PROVE  stop' \in [Stopper -> StopType]
    <3>1. \E step \in StopSteps : stop' = [stop EXCEPT ![s].step = step]
      BY <2>4 DEF TerminateGroup, MarkStopped, TakeStopped, StopSteps
    <3> QED BY <2>a, <3>1 DEF StopType
  <2>5. CASE UNCHANGED stop
    BY <2>a, <2>5
  <2> QED
    BY <2>2, <2>3, <2>4, <2>5, ZenonT(40)
    DEF Next, Threads, World, RunCall, ReadCall, StopCall, Stops, IoLoop, vars,
        Writes, Ends, Batch, Interrupt, Integrate, DrainActivities, IoRead,
        IoReap, Cancelled, Reserve, Spawn, RegisterIo, Look, Keeps,
        MoveForegroundToBackground, Leaves, WaitBegins, WaitTakes, WaitReturns,
        WaitCancelled, PollBegins, PollDrains, PollReturns, PollCancelled,
        StopReturns
<1>3. told' \in [Command -> Nat] /\ stopped' \subseteq Command
  <2>a. told \in [Command -> Nat] /\ stopped \subseteq Command
        /\ \A i \in Calls : calls[i].taken \subseteq Command
    BY DEF Types, CallType
  <2>b. \A s \in Stopper : stop[s].ids \subseteq Command
    BY DEF Types, StopType
  <2>1. ASSUME NEW i \in Calls, Keeps(i) \/ WaitReturns(i)
        PROVE  told' \in [Command -> Nat] /\ stopped' = stopped
    BY <2>a, <2>1 DEF Keeps, WaitReturns
  <2>2. ASSUME DrainActivities PROVE told' \in [Command -> Nat] /\ stopped' = {}
    BY <2>a, <2>2 DEF DrainActivities
  <2>3. ASSUME NEW s \in Stopper, TakeStopped(s)
        PROVE  told' = told /\ stopped' \subseteq Command
    BY <2>a, <2>b, <2>3 DEF TakeStopped
  <2>4. CASE UNCHANGED <<told, stopped>>
    BY <2>a, <2>4
  <2> QED
    BY <2>a, <2>1, <2>2, <2>3, <2>4
    DEF Next, Threads, World, RunCall, ReadCall, StopCall, Stops, IoLoop, vars,
        Writes, Ends, Batch, Interrupt, Integrate, PersonStops, IoRead,
        IoReap, Cancelled, Reserve, Spawn, RegisterIo, Look,
        MoveForegroundToBackground, Leaves, WaitBegins, WaitTakes,
        WaitCancelled, PollBegins, PollDrains, PollReturns, PollCancelled,
        CallStops, StopReturns, TerminateGroup, MarkStopped
<1>4. /\ row' \in [Command -> {"none", "running", "finished"}]
      /\ missed' \subseteq Command
  <2>a. /\ row \in [Command -> {"none", "running", "finished"}]
        /\ missed \subseteq Command
        /\ \A i \in Calls : calls[i].taken \subseteq Command
    BY DEF Types, CallType
  <2>1. CASE Integrate
    BY <2>a, <2>1 DEF Integrate
  <2>2. CASE DrainActivities
    BY <2>a, <2>2 DEF DrainActivities
  <2>3. ASSUME NEW i \in Calls, WaitCancelled(i)
        PROVE  row' = row /\ missed' \subseteq Command
    BY <2>a, <2>3 DEF WaitCancelled
  <2>4. CASE UNCHANGED <<row, missed>>
    BY <2>a, <2>4
  <2> QED
    BY <2>a, <2>1, <2>2, <2>3, <2>4, ZenonT(40)
    DEF Next, Threads, World, RunCall, ReadCall, StopCall, Stops, IoLoop, vars,
        Writes, Ends, Batch, Interrupt, PersonStops, IoRead,
        IoReap, Cancelled, Reserve, Spawn, RegisterIo, Look, Keeps,
        MoveForegroundToBackground, Leaves, WaitBegins, WaitTakes, WaitReturns,
        PollBegins, PollDrains, PollReturns, PollCancelled,
        CallStops, StopReturns, TerminateGroup, MarkStopped, TakeStopped
<1>5. /\ agent' \in {"free", "calls"} /\ abort' \in BOOLEAN
      /\ plan' \in Plans /\ batches' \in Nat
  <2>a. /\ agent \in {"free", "calls"} /\ abort \in BOOLEAN
        /\ plan \in Plans /\ batches \in Nat
    BY DEF Types
  <2>1. CASE Batch \/ Interrupt \/ Integrate
    <3>1. /\ agent' \in {"free", "calls"} /\ abort' \in BOOLEAN /\ plan' = plan
          /\ batches' = batches \/ batches' = batches + 1
      BY <2>a, <2>1 DEF Batch, Interrupt, Integrate, counters
    <3> QED BY <2>a, <3>1
  <2>2. CASE UNCHANGED <<agent, abort, plan, batches>>
    BY <2>a, <2>2
  <2> QED
    BY <2>1, <2>2, AgentSteps
<1> QED
  BY <1>1, <1>2, <1>3, <1>4, <1>5, JobTyped, OutputTyped, CallsTyped DEF Types
-----------------------------------------------------------------------------
\* How each step moves commands between the lists, and nothing else of it.
SamePlaces == \A c \in Command : job'[c].place = job[c].place
Retains(S) ==
    \A c \in Command : job'[c].place = IF c \in S THEN "retained" ELSE job[c].place

\* Most steps move no command between the lists.
LEMMA QuietSteps ==
    ASSUME Types,
           \/ Batch \/ Interrupt \/ Integrate \/ PersonStops \/ UNCHANGED vars
           \/ \E c \in Command : Writes(c) \/ Ends(c) \/ IoRead(c) \/ IoReap(c)
           \/ \E s \in Stopper : TerminateGroup(s) \/ MarkStopped(s)
           \/ \E i \in Calls : \/ Cancelled(i) \/ RegisterIo(i) \/ Look(i) \/ Leaves(i)
                               \/ WaitBegins(i) \/ WaitReturns(i) \/ WaitCancelled(i)
                               \/ PollBegins(i) \/ PollDrains(i) \/ PollReturns(i)
                               \/ PollCancelled(i) \/ CallStops(i) \/ StopReturns(i)
    PROVE  SamePlaces
<1>a. job \in [Command -> JobType]
  BY DEF Types
<1>1. CASE UNCHANGED job
  BY <1>1 DEF SamePlaces
<1>2. ASSUME NEW c \in Command, IoRead(c) \/ IoReap(c) PROVE SamePlaces
  <2>1. \E closed, reaped, state :
            \/ job' = [job EXCEPT ![c].eof = closed, ![c].state = state]
            \/ job' = [job EXCEPT ![c].reaped = reaped, ![c].state = state]
    <3>1. CASE IoRead(c)
      <4>1. job' = [job EXCEPT
                ![c].eof = @ \/ (proc[c].dead /\ ~proc[c].held),
                ![c].state = IF proc[c].written > out[c].read
                             THEN Moved(@, "running") ELSE @]
        BY <3>1 DEF IoRead
      <4> QED BY <1>a, <4>1 DEF JobType
    <3>2. CASE IoReap(c)
      BY <3>2 DEF IoReap
    <3> QED BY <1>2, <3>1, <3>2
  <2> QED BY <1>a, <2>1 DEF JobType, SamePlaces
<1>3. ASSUME NEW c, NEW s, Request(s, c) PROVE SamePlaces
  <2>1. job' = job \/ job' = [job EXCEPT ![c].stopping = TRUE]
    BY <1>3 DEF Request
  <2> QED BY <1>a, <2>1 DEF JobType, SamePlaces
<1>4. CASE PersonStops \/ \E i \in Calls : CallStops(i)
  BY <1>3, <1>4 DEF PersonStops, CallStops
<1>5. ASSUME NEW s \in Stopper, MarkStopped(s) PROVE SamePlaces
  BY <1>a, <1>5 DEF MarkStopped, JobType, SamePlaces
<1>6. ASSUME NEW i \in Calls, RegisterIo(i) PROVE SamePlaces
  BY <1>a, <1>6 DEF RegisterIo, JobType, SamePlaces
<1> QED
  BY <1>1, <1>2, <1>4, <1>5, <1>6
  DEF Batch, Interrupt, Integrate, vars, Writes, Ends, TerminateGroup, Cancelled,
      Look, Leaves, WaitBegins, WaitReturns, WaitCancelled, PollBegins,
      PollDrains, PollReturns, PollCancelled, StopReturns

\* Take with retain puts a command into the retained list.
LEMMA TakenPlace ==
    ASSUME NEW j \in JobType
    PROVE  Taken(j).place = "retained"
  BY DEF Taken, JobType

\* Whoever takes an end takes it from the background.
LEMMA TakingSteps ==
    ASSUME Types
    PROVE  /\ DrainActivities => Retains({c \in Command : Complete(c)})
           /\ \A i \in Calls : WaitTakes(i) =>
                \E c \in calls[i].ids :
                    /\ Complete(c) /\ Retains({c})
                    /\ calls' = [calls EXCEPT ![i].taken = calls[i].taken \cup {c}]
           /\ \A s \in Stopper : TakeStopped(s) =>
                \/ SamePlaces /\ stopped' = stopped
                \/ \E c \in stop[s].ids : /\ Takeable(c) /\ Retains({c})
                                          /\ stopped' = stopped \cup {c}
<1>a. job \in [Command -> JobType]
  BY DEF Types
<1>b. ASSUME NEW c \in Command, job' = [job EXCEPT ![c] = Taken(job[c])]
      PROVE  Retains({c})
  <2>1. Taken(job[c]).place = "retained"
    BY <1>a, TakenPlace
  <2> QED BY <1>a, <1>b, <2>1 DEF Retains
<1>1. ASSUME DrainActivities PROVE Retains({c \in Command : Complete(c)})
  <2>1. job' = [c \in Command |-> IF c \in {d \in Command : Complete(d)}
                                  THEN Taken(job[c]) ELSE job[c]]
    BY <1>1 DEF DrainActivities
  <2>2. \A c \in Command : Taken(job[c]).place = "retained"
    BY <1>a, TakenPlace
  <2> QED BY <2>1, <2>2 DEF Retains
<1>2. ASSUME NEW i \in Calls, WaitTakes(i)
      PROVE  \E c \in calls[i].ids :
                /\ Complete(c) /\ Retains({c})
                /\ calls' = [calls EXCEPT ![i].taken = calls[i].taken \cup {c}]
  <2>1. calls[i].ids \subseteq Command
    BY DEF Types, CallType
  <2>2. PICK c \in calls[i].ids :
            /\ Complete(c) /\ job' = [job EXCEPT ![c] = Taken(job[c])]
            /\ calls' = [calls EXCEPT ![i].taken = calls[i].taken \cup {c}]
    BY <1>2 DEF WaitTakes
  <2> QED BY <1>b, <2>1, <2>2
<1>3. ASSUME NEW s \in Stopper, TakeStopped(s)
      PROVE  \/ SamePlaces /\ stopped' = stopped
             \/ \E c \in stop[s].ids : /\ Takeable(c) /\ Retains({c})
                                       /\ stopped' = stopped \cup {c}
  <2>1. stop[s].ids \subseteq Command
    BY DEF Types, StopType
  <2>2. PICK c \in stop[s].ids :
            IF Takeable(c)
            THEN /\ job' = [job EXCEPT ![c] = Taken(job[c])]
                 /\ stopped' = stopped \cup {c}
            ELSE UNCHANGED <<job, stopped>>
    BY <1>3 DEF TakeStopped
  <2>3. CASE Takeable(c)
    BY <1>b, <2>1, <2>2, <2>3
  <2>4. CASE ~Takeable(c)
    BY <2>2, <2>4 DEF SamePlaces
  <2> QED BY <2>3, <2>4
<1> QED BY <1>1, <1>2, <1>3

\* What a run's call does with the place of its command.
Moves(c, from, to) ==
    /\ job[c].place = from
    /\ \A d \in Command : job'[d].place = IF d = c THEN to ELSE job[d].place

\* A run's call moves its own command: reserved, in the foreground, left behind
\* or gone.
LEMMA HandSteps ==
    ASSUME Types, NEW i \in Calls
    PROVE  /\ Reserve(i) =>
                \/ /\ SamePlaces /\ calls' = [calls EXCEPT ![i].step = "done"]
                \/ \E c \in Command :
                    /\ Room /\ Moves(c, "none", "reserved")
                    /\ calls' = [calls EXCEPT ![i].step = "spawn", ![i].ids = {c}]
           /\ Spawn(i) => \E c \in calls[i].ids : \E to \in {"foreground", "gone"} :
                /\ \A d \in Command :
                        job'[d].place = IF d = c THEN to ELSE job[d].place
                /\ calls' = [calls EXCEPT ![i].step =
                                IF to = "gone" THEN "done" ELSE "io"]
           /\ Keeps(i) => \E c \in calls[i].ids :
                \A d \in Command :
                    job'[d].place = IF d = c THEN "gone" ELSE job[d].place
           /\ MoveForegroundToBackground(i) => \E c \in calls[i].ids :
                \A d \in Command :
                    job'[d].place = IF d = c THEN "background" ELSE job[d].place
<1>a. job \in [Command -> JobType] /\ calls[i].ids \subseteq Command
  BY DEF Types, CallType
<1>b. ASSUME NEW c \in Command, NEW to, job' = [job EXCEPT ![c].place = to]
      PROVE  \A d \in Command : job'[d].place = IF d = c THEN to ELSE job[d].place
  BY <1>a, <1>b DEF JobType
<1>1. ASSUME Reserve(i)
      PROVE  \/ /\ SamePlaces /\ calls' = [calls EXCEPT ![i].step = "done"]
             \/ \E c \in Command :
                    /\ Room /\ Moves(c, "none", "reserved")
                    /\ calls' = [calls EXCEPT ![i].step = "spawn", ![i].ids = {c}]
  <2>1. CASE ~Room
    BY <1>1, <2>1 DEF Reserve, SamePlaces
  <2>2. CASE Room
    <3>1. PICK c \in In("none") :
            /\ job' = [job EXCEPT ![c].place = "reserved"]
            /\ calls' = [calls EXCEPT ![i].step = "spawn", ![i].ids = {c}]
      BY <1>1, <2>2 DEF Reserve
    <3>2. c \in Command /\ job[c].place = "none"
      BY DEF In
    <3>3. \A d \in Command :
                job'[d].place = IF d = c THEN "reserved" ELSE job[d].place
      BY <1>a, <3>1, <3>2 DEF JobType
    <3>4. Moves(c, "none", "reserved")
      BY <3>2, <3>3 DEF Moves
    <3> QED BY <2>2, <3>1, <3>2, <3>4
  <2> QED BY <2>1, <2>2
<1>2. ASSUME Spawn(i)
      PROVE  \E c \in calls[i].ids : \E to \in {"foreground", "gone"} :
                /\ \A d \in Command :
                        job'[d].place = IF d = c THEN to ELSE job[d].place
                /\ calls' = [calls EXCEPT ![i].step =
                                IF to = "gone" THEN "done" ELSE "io"]
  <2>1. PICK c \in calls[i].ids :
            \/ /\ job' = [job EXCEPT ![c].place = "foreground"]
               /\ calls' = [calls EXCEPT ![i].step = "io"]
            \/ /\ job' = [job EXCEPT ![c].place = "gone"]
               /\ calls' = [calls EXCEPT ![i].step = "done"]
    BY <1>2 DEF Spawn
  <2>2. CASE job' = [job EXCEPT ![c].place = "foreground"]
             /\ calls' = [calls EXCEPT ![i].step = "io"]
    <3>1. \A d \in Command :
                job'[d].place = IF d = c THEN "foreground" ELSE job[d].place
      BY <1>a, <1>b, <2>2
    <3> QED BY <2>2, <3>1
  <2>3. CASE job' = [job EXCEPT ![c].place = "gone"]
             /\ calls' = [calls EXCEPT ![i].step = "done"]
    <3>1. \A d \in Command :
                job'[d].place = IF d = c THEN "gone" ELSE job[d].place
      BY <1>a, <1>b, <2>3
    <3> QED BY <2>3, <3>1
  <2> QED BY <2>1, <2>2, <2>3
<1>3. ASSUME Keeps(i)
      PROVE  \E c \in calls[i].ids : \A d \in Command :
                    job'[d].place = IF d = c THEN "gone" ELSE job[d].place
  <2>1. PICK c \in calls[i].ids : job' = [job EXCEPT ![c].place = "gone"]
    BY <1>3 DEF Keeps
  <2> QED BY <1>a, <1>b, <2>1
<1>4. ASSUME MoveForegroundToBackground(i)
      PROVE  \E c \in calls[i].ids : \A d \in Command :
                    job'[d].place = IF d = c THEN "background" ELSE job[d].place
  <2>1. PICK c \in calls[i].ids : job' = [job EXCEPT ![c].place = "background"]
    BY <1>4 DEF MoveForegroundToBackground
  <2> QED BY <1>a, <1>b, <2>1
<1> QED BY <1>1, <1>2, <1>3, <1>4

\* A command stays with the call that started it until that lets go of it.
LEMMA PlaceStep ==
    ASSUME Types, PlaceInv, [Next]_vars
    PROVE  PlaceInv'
<1>a. /\ calls \in [Calls -> CallType]
      /\ \A i \in Calls : calls[i].ids \subseteq Command
  BY DEF Types, CallType
<1>b. \A i \in Calls : InHand(i) => \A c \in calls[i].ids :
            /\ calls[i].ids = {c}
            /\ job[c].place = IF calls[i].step = "spawn" THEN "reserved"
                              ELSE "foreground"
  BY DEF PlaceInv
<1>c. \A i, j \in Calls : InHand(i) /\ InHand(j) /\ i # j =>
            \A c \in calls[i].ids : c \notin calls[j].ids
  BY DEF PlaceInv
\* Nothing in hand is moved, and no call takes anything in hand.
<1>d. ASSUME \A c \in Command : job'[c].place # job[c].place =>
                    \A i \in Calls : InHand(i)' => c \notin calls[i].ids,
             \A i \in Calls : InHand(i)' =>
                    /\ InHand(i) /\ calls'[i].ids = calls[i].ids
                    /\ calls'[i].step = "spawn" <=> calls[i].step = "spawn"
      PROVE  PlaceInv'
  BY <1>a, <1>b, <1>c, <1>d DEF PlaceInv
<1>2. CASE Batch \/ Integrate
  <2>1. \A i \in Calls : ~InHand(i)'
    <3>1. CASE Batch
      BY <3>1 DEF Batch, Free, InHand
    <3>2. CASE Integrate
      BY <3>2 DEF Integrate, Free, InHand
    <3> QED BY <1>2, <3>1, <3>2
  <2> QED BY <2>1 DEF PlaceInv
<1>3. ASSUME calls' = calls, SamePlaces PROVE PlaceInv'
  BY <1>a, <1>b, <1>c, <1>3 DEF PlaceInv, InHand, SamePlaces
<1>4. ASSUME NEW i \in Calls, SamePlaces,
             \/ Cancelled(i) \/ RegisterIo(i) \/ Look(i) \/ Leaves(i)
             \/ WaitBegins(i) \/ WaitReturns(i) \/ WaitCancelled(i)
             \/ PollBegins(i) \/ PollDrains(i) \/ PollReturns(i)
             \/ PollCancelled(i) \/ CallStops(i) \/ StopReturns(i)
      PROVE  PlaceInv'
  <2>1. \A j \in Calls : j # i => calls'[j] = calls[j]
    BY <1>4, <1>a DEF Cancelled, RegisterIo, Look, Leaves, WaitBegins, WaitReturns,
       WaitCancelled, PollBegins, PollDrains, PollReturns, PollCancelled,
       CallStops, StopReturns
  <2>2. InHand(i)' => /\ InHand(i) /\ calls'[i].ids = calls[i].ids
                      /\ calls'[i].step = "spawn" <=> calls[i].step = "spawn"
    <3>1. CASE RegisterIo(i) \/ Look(i)
      BY <3>1, <1>a DEF RegisterIo, Look, At, InHand, CallType
    <3>2. CASE \/ WaitReturns(i) \/ WaitCancelled(i) \/ PollReturns(i)
               \/ PollCancelled(i)
      <4>1. \E taken : calls' = [calls EXCEPT ![i] = Over(i, taken)]
        BY <3>2 DEF WaitReturns, WaitCancelled, PollReturns, PollCancelled
      <4>2. calls'[i].step = "done"
        BY <1>a, <4>1 DEF Over, Free
      <4> QED BY <4>2 DEF InHand
    <3>3. CASE Cancelled(i) \/ Leaves(i) \/ CallStops(i) \/ StopReturns(i)
      BY <3>3, <1>a DEF Cancelled, Leaves, CallStops, StopReturns, InHand, CallType
    <3>4. CASE WaitBegins(i) \/ PollBegins(i) \/ PollDrains(i)
      <4>1. calls'[i].op = calls[i].op /\ calls[i].op # "run"
        <5>1. CASE WaitBegins(i)
          BY <5>1, <1>a DEF WaitBegins, At, CallType
        <5>2. CASE PollBegins(i)
          BY <5>2, <1>a DEF PollBegins, At, CallType
        <5>3. CASE PollDrains(i)
          BY <5>3, <1>a DEF PollDrains, At, CallType
        <5> QED BY <3>4, <5>1, <5>2, <5>3
      <4> QED BY <4>1 DEF InHand
    <3> QED BY <1>4, <3>1, <3>2, <3>3, <3>4
  <2> QED BY <1>4, <1>d, <2>1, <2>2 DEF SamePlaces, InHand
<1>5. ASSUME NEW S, Retains(S), S \subseteq In("background"),
             \A i \in Calls : InHand(i)' =>
                    /\ InHand(i) /\ calls'[i].ids = calls[i].ids
                    /\ calls'[i].step = calls[i].step
      PROVE  PlaceInv'
  <2>1. \A c \in Command : job'[c].place # job[c].place =>
                \A i \in Calls : InHand(i)' => c \notin calls[i].ids
    BY <1>b, <1>5 DEF Retains, In
  <2> QED BY <1>d, <1>5, <2>1
<1>6. CASE DrainActivities
  <2>1. {c \in Command : Complete(c)} \subseteq In("background")
    BY DEF Complete, Takeable, In
  <2>2. calls' = calls /\ Retains({c \in Command : Complete(c)})
    BY <1>6, TakingSteps DEF DrainActivities
  <2> QED BY <1>5, <2>1, <2>2 DEF InHand
<1>7. ASSUME NEW i \in Calls, WaitTakes(i) PROVE PlaceInv'
  <2>1. PICK c \in calls[i].ids :
                    /\ Complete(c) /\ Retains({c})
                    /\ calls' = [calls EXCEPT ![i].taken = calls[i].taken \cup {c}]
    BY <1>7, TakingSteps
  <2>2. {c} \subseteq In("background")
    BY <1>a, <2>1 DEF Complete, Takeable, In
  <2>3. \A j \in Calls : InHand(j)' =>
                    /\ InHand(j) /\ calls'[j].ids = calls[j].ids
                    /\ calls'[j].step = calls[j].step
    BY <1>a, <2>1 DEF InHand, CallType
  <2> QED BY <1>5, <2>1, <2>2, <2>3
<1>8. ASSUME NEW s \in Stopper, TakeStopped(s) PROVE PlaceInv'
  <2>1. calls' = calls /\ stop[s].ids \subseteq Command
    BY <1>8 DEF TakeStopped, Types, StopType
  <2>2. CASE SamePlaces
    BY <1>3, <2>1, <2>2
  <2>3. ASSUME NEW c \in stop[s].ids, Takeable(c), Retains({c}) PROVE PlaceInv'
    <3>1. {c} \subseteq In("background")
      BY <2>1, <2>3 DEF Takeable, In
    <3> QED BY <1>5, <2>1, <2>3, <3>1 DEF InHand
  <2> QED BY <1>8, <2>2, <2>3, TakingSteps
<1>9. ASSUME NEW i \in Calls, Reserve(i) PROVE PlaceInv'
  <2>1. CASE SamePlaces /\ calls' = [calls EXCEPT ![i].step = "done"]
    <3>1. \A j \in Calls : InHand(j)' => InHand(j) /\ calls'[j] = calls[j]
      BY <1>a, <2>1 DEF InHand, CallType
    <3> QED BY <1>d, <2>1, <3>1 DEF SamePlaces
  <2>2. ASSUME NEW c \in Command, Moves(c, "none", "reserved"),
               calls' = [calls EXCEPT ![i].step = "spawn", ![i].ids = {c}]
        PROVE  PlaceInv'
    <3>1. \A j \in Calls : j # i => calls'[j] = calls[j]
      BY <1>a, <2>2
    <3>2. calls'[i].step = "spawn" /\ calls'[i].ids = {c}
      BY <1>a, <2>2 DEF CallType
    <3>3. \A j \in Calls : j # i /\ InHand(j) => c \notin calls[j].ids
      BY <1>b, <2>2 DEF Moves
    <3>4. \A j \in Calls : j # i => (InHand(j)' <=> InHand(j))
      BY <3>1 DEF InHand
    <3>5. ASSUME NEW j \in Calls, InHand(j)', NEW d \in calls'[j].ids
          PROVE  /\ calls'[j].ids = {d}
                 /\ job'[d].place = IF calls'[j].step = "spawn" THEN "reserved"
                                    ELSE "foreground"
      <4>1. CASE j = i
        BY <4>1, <2>2, <3>2, <3>5 DEF Moves
      <4>2. CASE j # i
        BY <4>2, <1>a, <1>b, <2>2, <3>1, <3>3, <3>4, <3>5 DEF Moves
      <4> QED BY <4>1, <4>2
    <3>6. \A j, k \in Calls : InHand(j)' /\ InHand(k)' /\ j # k =>
                \A d \in calls'[j].ids : d \notin calls'[k].ids
      BY <1>c, <3>1, <3>2, <3>3, <3>4
    <3> QED BY <3>5, <3>6 DEF PlaceInv
  <2> QED BY <1>9, <2>1, <2>2, HandSteps
<1>10. ASSUME NEW i \in Calls, Spawn(i) PROVE PlaceInv'
  <2>1. PICK c \in calls[i].ids, to \in {"foreground", "gone"} :
                /\ \A d \in Command :
                        job'[d].place = IF d = c THEN to ELSE job[d].place
                /\ calls' = [calls EXCEPT ![i].step =
                                IF to = "gone" THEN "done" ELSE "io"]
    BY <1>10, HandSteps
  <2>2. InHand(i) /\ calls[i].step = "spawn"
    BY <1>10 DEF Spawn, At, InHand
  <2>3. /\ \A j \in Calls : j # i => calls'[j] = calls[j]
        /\ calls'[i].ids = calls[i].ids
        /\ calls'[i].step = IF to = "gone" THEN "done" ELSE "io"
    BY <1>a, <2>1 DEF CallType
  <2>4. \A j \in Calls : j # i => (InHand(j)' <=> InHand(j))
    BY <2>3 DEF InHand
  <2>5. \A j \in Calls : j # i /\ InHand(j) => c \notin calls[j].ids
    BY <1>c, <2>2
  <2>6. InHand(i)' => to = "foreground" /\ calls'[i].step = "io"
    BY <2>3 DEF InHand
  <2>7. ASSUME NEW j \in Calls, InHand(j)', NEW d \in calls'[j].ids
        PROVE  /\ calls'[j].ids = {d}
               /\ job'[d].place = IF calls'[j].step = "spawn" THEN "reserved"
                                  ELSE "foreground"
    <3>1. CASE j = i
      BY <3>1, <1>a, <1>b, <2>1, <2>2, <2>3, <2>6, <2>7
    <3>2. CASE j # i
      BY <3>2, <1>a, <1>b, <2>1, <2>3, <2>4, <2>5, <2>7
    <3> QED BY <3>1, <3>2
  <2>8. \A j, k \in Calls : InHand(j)' /\ InHand(k)' /\ j # k =>
              \A d \in calls'[j].ids : d \notin calls'[k].ids
    BY <1>c, <2>2, <2>3, <2>4
  <2> QED BY <2>7, <2>8 DEF PlaceInv
<1>11. ASSUME NEW i \in Calls, Keeps(i) \/ MoveForegroundToBackground(i)
       PROVE  PlaceInv'
  <2>1. PICK c \in calls[i].ids : \A d \in Command :
                d # c => job'[d].place = job[d].place
    BY <1>11, HandSteps
  <2>2. InHand(i)
    BY <1>11 DEF Keeps, MoveForegroundToBackground, At, InHand
  <2>3. /\ \A j \in Calls : j # i => calls'[j] = calls[j]
        /\ ~InHand(i)'
    BY <1>a, <1>11 DEF Keeps, MoveForegroundToBackground, InHand, CallType
  <2>4. \A j \in Calls : j # i /\ InHand(j) => c \notin calls[j].ids
    BY <1>c, <2>2
  <2> QED BY <1>d, <2>1, <2>3, <2>4 DEF InHand
<1>12. ASSUME \/ Interrupt \/ PersonStops \/ UNCHANGED vars
              \/ \E c \in Command : Writes(c) \/ Ends(c) \/ IoRead(c) \/ IoReap(c)
              \/ \E s \in Stopper : TerminateGroup(s) \/ MarkStopped(s)
       PROVE  PlaceInv'
  <2>1. calls' = calls
    BY <1>12 DEF Interrupt, PersonStops, vars, Writes, Ends, IoRead, IoReap,
       TerminateGroup, MarkStopped
  <2>2. SamePlaces
    BY <1>12, QuietSteps
  <2> QED BY <1>3, <2>1, <2>2
<1>13. ASSUME NEW i \in Calls,
             \/ Cancelled(i) \/ RegisterIo(i) \/ Look(i) \/ Leaves(i)
             \/ WaitBegins(i) \/ WaitReturns(i) \/ WaitCancelled(i)
             \/ PollBegins(i) \/ PollDrains(i) \/ PollReturns(i)
             \/ PollCancelled(i) \/ CallStops(i) \/ StopReturns(i)
       PROVE PlaceInv'
  <2>1. SamePlaces
    BY <1>13, QuietSteps
  <2> QED BY <1>4, <1>13, <2>1
<1> QED
  BY <1>2, <1>6, <1>7, <1>8, <1>9, <1>10, <1>11, <1>12, <1>13
  DEF Next, Threads, World, RunCall, ReadCall, StopCall, Stops, IoLoop
-----------------------------------------------------------------------------
\* The plan of batches does not change.
LEMMA PlanKept ==
    ASSUME [Next]_vars
    PROVE  plan' = plan
<1>1. Batch \/ Interrupt \/ Integrate => plan' = plan
  BY DEF Batch, Interrupt, Integrate, counters
<1> QED BY <1>1, AgentSteps

\* Every step but Reserve leaves the commands in flight, or lets some go; and
\* Reserve adds one where there is room.
LEMMA LimitStep ==
    ASSUME Types, PlaceInv, LimitInv, [Next]_vars
    PROVE  LimitInv'
<1>a. /\ IsFiniteSet(InFlight) /\ Cardinality(InFlight) \in Nat
      /\ Cardinality(InFlight) <= plan.limit /\ plan.limit \in Nat
  BY FS_CardinalityType, ActivitiesAssumption DEF LimitInv, Types
<1>b. plan' = plan
  BY PlanKept
<1>c. ASSUME InFlight' \subseteq InFlight PROVE LimitInv'
  <2>1. IsFiniteSet(InFlight') /\ Cardinality(InFlight') <= Cardinality(InFlight)
    BY <1>a, <1>c, FS_Subset
  <2>2. Cardinality(InFlight') \in Nat
    BY <2>1, FS_CardinalityType
  <2> QED BY <1>a, <1>b, <2>1, <2>2 DEF LimitInv
<1>d. ASSUME SamePlaces PROVE LimitInv'
  BY <1>c, <1>d DEF SamePlaces, InFlight, In
<1>e. ASSUME NEW S, Retains(S) PROVE LimitInv'
  BY <1>c, <1>e DEF Retains, InFlight, In
<1>1. CASE DrainActivities
  BY <1>1, <1>e, TakingSteps
<1>2. ASSUME NEW i \in Calls, WaitTakes(i) PROVE LimitInv'
  BY <1>2, <1>e, TakingSteps
<1>3. ASSUME NEW s \in Stopper, TakeStopped(s) PROVE LimitInv'
  BY <1>3, <1>d, <1>e, TakingSteps
<1>4. ASSUME NEW i \in Calls, Reserve(i) PROVE LimitInv'
  <2>1. CASE SamePlaces
    BY <1>d, <2>1
  <2>2. ASSUME NEW c \in Command, Room, Moves(c, "none", "reserved")
        PROVE  LimitInv'
    <3>1. InFlight' = InFlight \cup {c} /\ c \notin InFlight
      BY <2>2 DEF Moves, InFlight, In
    <3>2. Cardinality(InFlight) < plan.limit
      BY <2>2 DEF Room, InFlight
    <3>3. /\ IsFiniteSet(InFlight \cup {c})
          /\ Cardinality(InFlight \cup {c}) = Cardinality(InFlight) + 1
      BY <1>a, <3>1, FS_AddElement
    <3> QED BY <1>a, <1>b, <3>1, <3>2, <3>3 DEF LimitInv
  <2> QED BY <1>4, <2>1, <2>2, HandSteps
<1>5. ASSUME NEW i \in Calls,
             Spawn(i) \/ Keeps(i) \/ MoveForegroundToBackground(i)
      PROVE  LimitInv'
  <2>1. PICK c \in calls[i].ids : \A d \in Command :
                d # c => job'[d].place = job[d].place
    BY <1>5, HandSteps
  <2>2. c \in Command /\ InHand(i)
    BY <1>5 DEF Spawn, Keeps, MoveForegroundToBackground, At, InHand, Types, CallType
  <2>3. c \in InFlight
    BY <2>2 DEF PlaceInv, InFlight, In
  <2> QED BY <1>c, <2>1, <2>3 DEF InFlight, In
<1> QED
  BY <1>d, <1>1, <1>2, <1>3, <1>4, <1>5, QuietSteps
  DEF Next, Threads, World, RunCall, ReadCall, StopCall, Stops, IoLoop

\* The end of a command is told where its place ends: with the call that held
\* it, or by the one that moved it to the retained list.
LEMMA ToldStep ==
    ASSUME Types, PlaceInv, ToldInv, [Next]_vars
    PROVE  ToldInv'
<1>a. /\ calls \in [Calls -> CallType]
      /\ \A i \in Calls : calls[i].ids \subseteq Command
                          /\ calls[i].taken \subseteq Command
      /\ told \in [Command -> Nat] /\ stopped \subseteq Command
  BY DEF Types, CallType
<1>b. /\ \A c \in Command : told[c] = 0 \/ told[c] = 1
      /\ \A c \in Command : told[c] = 1 => job[c].place \in {"retained", "gone"}
      /\ \A c \in stopped : told[c] = 0 /\ job[c].place = "retained"
      /\ \A i \in Calls : OpenWait(i) => \A c \in calls[i].taken :
            told[c] = 0 /\ job[c].place = "retained" /\ c \notin stopped
      /\ \A i, j \in Calls : OpenWait(i) /\ OpenWait(j) /\ i # j =>
            \A c \in calls[i].taken : c \notin calls[j].taken
      /\ \A i \in Calls : calls[i].step = "begin" => calls[i].taken = {}
  BY DEF ToldInv
\* Steps that tell nothing, take nothing and leave what was taken with its wait.
<1>c. ASSUME told' = told, stopped' = stopped,
             \A c \in Command : job[c].place \in {"retained", "gone"} =>
                    job'[c].place = job[c].place,
             \A i \in Calls : OpenWait(i)' =>
                    (OpenWait(i) /\ calls'[i].taken = calls[i].taken)
                    \/ calls'[i].taken = {},
             \A i \in Calls : calls'[i].step = "begin" => calls'[i].taken = {}
      PROVE  ToldInv'
  <2>1. \A c \in Command : told'[c] = 1 => job'[c].place \in {"retained", "gone"}
    BY <1>b, <1>c
  <2>2. \A c \in stopped' : told'[c] = 0 /\ job'[c].place = "retained"
    BY <1>a, <1>b, <1>c
  <2>3. \A i \in Calls : OpenWait(i)' => \A c \in calls'[i].taken :
            told'[c] = 0 /\ job'[c].place = "retained" /\ c \notin stopped'
    BY <1>a, <1>b, <1>c
  <2>4. \A i, j \in Calls : OpenWait(i)' /\ OpenWait(j)' /\ i # j =>
            \A c \in calls'[i].taken : c \notin calls'[j].taken
    BY <1>b, <1>c
  <2> QED BY <1>b, <1>c, <2>1, <2>2, <2>3, <2>4 DEF ToldInv
<1>1. CASE Batch \/ Integrate
  <2>1. \A i \in Calls : ~OpenWait(i)' /\ calls'[i].taken = {}
    <3>1. CASE Batch
      BY <3>1 DEF Batch, Free, OpenWait
    <3>2. CASE Integrate
      BY <3>2 DEF Integrate, Free, OpenWait
    <3> QED BY <1>1, <3>1, <3>2
  <2>2. SamePlaces /\ told' = told /\ stopped' = stopped
    BY <1>1, QuietSteps DEF Batch, Integrate
  <2> QED BY <1>c, <2>1, <2>2 DEF SamePlaces
<1>2. ASSUME \/ Interrupt \/ PersonStops \/ UNCHANGED vars
             \/ \E c \in Command : Writes(c) \/ Ends(c) \/ IoRead(c) \/ IoReap(c)
             \/ \E s \in Stopper : TerminateGroup(s) \/ MarkStopped(s)
      PROVE  ToldInv'
  <2>1. calls' = calls /\ told' = told /\ stopped' = stopped
    BY <1>2 DEF Interrupt, PersonStops, vars, Writes, Ends, IoRead, IoReap,
       TerminateGroup, MarkStopped
  <2>2. SamePlaces
    BY <1>2, QuietSteps
  <2> QED BY <1>b, <1>c, <2>1, <2>2 DEF SamePlaces, OpenWait
<1>3. ASSUME NEW i \in Calls,
             \/ Cancelled(i) \/ RegisterIo(i) \/ Look(i) \/ Leaves(i)
             \/ WaitBegins(i) \/ WaitCancelled(i) \/ PollBegins(i)
             \/ PollDrains(i) \/ PollReturns(i) \/ PollCancelled(i)
             \/ CallStops(i) \/ StopReturns(i)
      PROVE  ToldInv'
  <2>1. SamePlaces
    BY <1>3, QuietSteps
  <2>2. told' = told /\ stopped' = stopped
    BY <1>3 DEF Cancelled, RegisterIo, Look, Leaves, WaitBegins, WaitCancelled,
       PollBegins, PollDrains, PollReturns, PollCancelled, CallStops, StopReturns
  <2>3. \A j \in Calls : j # i => calls'[j] = calls[j]
    BY <1>3, <1>a DEF Cancelled, RegisterIo, Look, Leaves, WaitBegins,
       WaitCancelled, PollBegins, PollDrains, PollReturns, PollCancelled,
       CallStops, StopReturns
  <2>4. /\ calls'[i].step # "begin"
        /\ OpenWait(i)' => (OpenWait(i) /\ calls'[i].taken = calls[i].taken)
                           \/ calls'[i].taken = {}
    <3>1. CASE Cancelled(i) \/ RegisterIo(i) \/ Look(i) \/ Leaves(i)
               \/ CallStops(i) \/ StopReturns(i)
      BY <3>1, <1>a DEF Cancelled, RegisterIo, Look, Leaves, CallStops,
         StopReturns, OpenWait, CallType
    <3>2. CASE WaitCancelled(i) \/ PollReturns(i) \/ PollCancelled(i)
      BY <3>2, <1>a DEF WaitCancelled, PollReturns, PollCancelled, Over, Free,
         OpenWait
    <3>3. CASE WaitBegins(i)
      BY <3>3, <1>a, <1>b DEF WaitBegins, At, OpenWait, CallType
    <3>4. CASE PollBegins(i)
      <4>1. calls[i].op = "poll" /\
            \/ \E c \in Command : calls' = [calls EXCEPT ![i].ids = {c},
                                                          ![i].step = "open"]
            \/ calls' = [calls EXCEPT ![i].step = "done"]
        BY <3>4 DEF PollBegins, At, In
      <4>2. calls'[i].op = "poll" /\ calls'[i].step # "begin"
        BY <1>a, <4>1 DEF CallType
      <4> QED BY <4>2 DEF OpenWait
    <3>5. CASE PollDrains(i)
      BY <3>5, <1>a DEF PollDrains, At, OpenWait, CallType
    <3> QED BY <1>3, <3>1, <3>2, <3>3, <3>4, <3>5
  <2> QED BY <1>b, <1>c, <2>1, <2>2, <2>3, <2>4 DEF SamePlaces, OpenWait
<1>4. ASSUME NEW i \in Calls,
             Reserve(i) \/ Spawn(i) \/ MoveForegroundToBackground(i)
      PROVE  ToldInv'
  <2>1. told' = told /\ stopped' = stopped
    BY <1>4 DEF Reserve, Spawn, MoveForegroundToBackground
  <2>2. \A j \in Calls : j # i => calls'[j] = calls[j]
    BY <1>4, <1>a DEF Reserve, Spawn, MoveForegroundToBackground
  <2>3. calls'[i].step # "begin" /\ ~OpenWait(i)'
    <3>1. calls'[i].op = "run"
      BY <1>4, <1>a DEF Reserve, Spawn, MoveForegroundToBackground, At, CallType
    <3>2. calls'[i].step # "begin"
      BY <1>4, <1>a DEF Reserve, Spawn, MoveForegroundToBackground, At, CallType
    <3> QED BY <3>1, <3>2 DEF OpenWait
  <2>4. \A c \in Command : job[c].place \in {"retained", "gone"} =>
                    job'[c].place = job[c].place
    <3>1. CASE Reserve(i)
      BY <3>1, HandSteps DEF Moves, SamePlaces
    <3>2. CASE Spawn(i) \/ MoveForegroundToBackground(i)
      <4>1. PICK c \in calls[i].ids : \A d \in Command :
                d # c => job'[d].place = job[d].place
        BY <3>2, HandSteps
      <4>2. InHand(i)
        BY <3>2 DEF Spawn, MoveForegroundToBackground, At, InHand
      <4>3. job[c].place \in {"reserved", "foreground"}
        BY <4>2 DEF PlaceInv
      <4> QED BY <4>1, <4>3
    <3> QED BY <1>4, <3>1, <3>2
  <2> QED BY <1>b, <1>c, <2>1, <2>2, <2>3, <2>4 DEF OpenWait
<1>5. ASSUME NEW i \in Calls, Keeps(i) PROVE ToldInv'
  <2>1. PICK c \in calls[i].ids :
            /\ told' = [told EXCEPT ![c] = IF calls[i].step = "cancel" THEN told[c]
                                          ELSE told[c] + 1]
            /\ job' = [job EXCEPT ![c].place = "gone"]
    BY <1>5 DEF Keeps
  <2>2. job \in [Command -> JobType] /\ c \in Command
    BY <1>a DEF Types
  <2>3. \A d \in Command : job'[d].place = IF d = c THEN "gone" ELSE job[d].place
    BY <2>1, <2>2 DEF JobType
  <2>4. InHand(i)
    BY <1>5 DEF Keeps, InHand
  <2>5. job[c].place \in {"reserved", "foreground"}
    BY <2>4 DEF PlaceInv
  <2>6. told[c] = 0 /\ c \notin stopped
        /\ \A j \in Calls : OpenWait(j) => c \notin calls[j].taken
    BY <1>b, <2>2, <2>5
  <2>7. stopped' = stopped /\ \A j \in Calls : j # i => calls'[j] = calls[j]
    BY <1>5, <1>a DEF Keeps
  <2>8. calls'[i].step = "done"
    BY <1>5, <1>a DEF Keeps, CallType
  <2>9. \A d \in Command : /\ d # c => told'[d] = told[d]
                           /\ told'[c] \in {0, 1}
    BY <1>a, <2>1, <2>2, <2>6
  <2>10. \A j \in Calls : OpenWait(j)' => OpenWait(j) /\ calls'[j] = calls[j]
    BY <2>7, <2>8 DEF OpenWait
  <2>11. \A d \in Command : told'[d] = 1 => job'[d].place \in {"retained", "gone"}
    BY <1>b, <2>3, <2>9
  <2>12. \A d \in stopped' : told'[d] = 0 /\ job'[d].place = "retained"
    BY <1>a, <1>b, <2>3, <2>6, <2>7, <2>9
  <2>13. \A j \in Calls : OpenWait(j)' => \A d \in calls'[j].taken :
            told'[d] = 0 /\ job'[d].place = "retained" /\ d \notin stopped'
    BY <1>a, <1>b, <2>3, <2>6, <2>7, <2>9, <2>10
  <2>14. /\ \A d \in Command : told'[d] = 0 \/ told'[d] = 1
         /\ \A j \in Calls : calls'[j].step = "begin" => calls'[j].taken = {}
    BY <1>b, <2>7, <2>8, <2>9
  <2>15. \A j, k \in Calls : OpenWait(j)' /\ OpenWait(k)' /\ j # k =>
            \A d \in calls'[j].taken : d \notin calls'[k].taken
    BY <1>b, <2>10
  <2> QED BY <2>11, <2>12, <2>13, <2>14, <2>15 DEF ToldInv
<1>6. ASSUME NEW i \in Calls, WaitTakes(i) PROVE ToldInv'
  <2>1. PICK c \in calls[i].ids :
                    /\ Complete(c) /\ Retains({c})
                    /\ calls' = [calls EXCEPT ![i].taken = calls[i].taken \cup {c}]
    BY <1>6, TakingSteps
  <2>2. c \in Command /\ job[c].place = "background"
    BY <1>a, <2>1 DEF Complete, Takeable
  <2>3. told' = told /\ stopped' = stopped /\ OpenWait(i)
    BY <1>6 DEF WaitTakes, At, OpenWait
  <2>4. told[c] = 0 /\ c \notin stopped
        /\ \A j \in Calls : OpenWait(j) => c \notin calls[j].taken
    BY <1>b, <2>2
  <2>5. /\ \A j \in Calls : j # i => calls'[j] = calls[j]
        /\ calls'[i].taken = calls[i].taken \cup {c}
        /\ calls'[i].step = "open" /\ OpenWait(i)'
    BY <1>a, <2>1, <2>3 DEF CallType, OpenWait
  <2>6. \A d \in Command : job'[d].place = IF d = c THEN "retained"
                                           ELSE job[d].place
    BY <2>1 DEF Retains
  <2>7. \A j \in Calls : OpenWait(j)' => OpenWait(j)
    BY <2>3, <2>5 DEF OpenWait
  <2>8. /\ \A d \in Command : told'[d] = 1 => job'[d].place \in {"retained", "gone"}
        /\ \A d \in stopped' : told'[d] = 0 /\ job'[d].place = "retained"
    BY <1>a, <1>b, <2>3, <2>4, <2>6
  <2>9. \A j \in Calls : OpenWait(j)' => \A d \in calls'[j].taken :
            told'[d] = 0 /\ job'[d].place = "retained" /\ d \notin stopped'
    BY <1>a, <1>b, <2>2, <2>3, <2>4, <2>5, <2>6, <2>7
  <2>10. \A j, k \in Calls : OpenWait(j)' /\ OpenWait(k)' /\ j # k =>
            \A d \in calls'[j].taken : d \notin calls'[k].taken
    BY <1>b, <2>4, <2>5, <2>7
  <2>11. \A j \in Calls : calls'[j].step = "begin" => calls'[j].taken = {}
    BY <1>b, <2>5
  <2> QED BY <1>b, <2>3, <2>8, <2>9, <2>10, <2>11 DEF ToldInv
<1>7. ASSUME NEW i \in Calls, WaitReturns(i) PROVE ToldInv'
  <2>1. SamePlaces
    BY <1>7, QuietSteps
  <2>2. /\ stopped' = stopped /\ OpenWait(i)
        /\ told' = [c \in Command |->
                        IF c \in calls[i].taken THEN told[c] + 1 ELSE told[c]]
    BY <1>7 DEF WaitReturns, At, OpenWait
  <2>3. /\ \A j \in Calls : j # i => calls'[j] = calls[j]
        /\ calls'[i].step = "done"
    BY <1>7, <1>a DEF WaitReturns, Over, Free
  <2>4. \A j \in Calls : OpenWait(j)' => j # i /\ OpenWait(j) /\ calls'[j] = calls[j]
    BY <2>3 DEF OpenWait
  <2>5. \A c \in Command : told'[c] = IF c \in calls[i].taken THEN 1 ELSE told[c]
    BY <1>b, <2>2
  <2>6. /\ \A d \in Command : told'[d] = 0 \/ told'[d] = 1
        /\ \A d \in Command : told'[d] = 1 => job'[d].place \in {"retained", "gone"}
        /\ \A d \in stopped' : told'[d] = 0 /\ job'[d].place = "retained"
    BY <1>a, <1>b, <2>1, <2>2, <2>5 DEF SamePlaces
  <2>7. \A j \in Calls : OpenWait(j)' => \A d \in calls'[j].taken :
            told'[d] = 0 /\ job'[d].place = "retained" /\ d \notin stopped'
    BY <1>a, <1>b, <2>1, <2>2, <2>4, <2>5 DEF SamePlaces
  <2>8. \A j, k \in Calls : OpenWait(j)' /\ OpenWait(k)' /\ j # k =>
            \A d \in calls'[j].taken : d \notin calls'[k].taken
    BY <1>b, <2>4
  <2>9. \A j \in Calls : calls'[j].step = "begin" => calls'[j].taken = {}
    BY <1>b, <2>3
  <2> QED BY <2>6, <2>7, <2>8, <2>9 DEF ToldInv
<1>8. CASE DrainActivities
  <2> DEFINE completed == {c \in Command : Complete(c)}
             ends == {c \in stopped : row[c] = "running"}
  <2>1. /\ Retains(completed) /\ calls' = calls /\ stopped' = {}
        /\ told' = [c \in Command |->
                    told[c] + (IF c \in completed THEN 1 ELSE 0)
                            + (IF c \in ends THEN 1 ELSE 0)]
    BY <1>8, TakingSteps DEF DrainActivities
  <2>2. \A c \in completed : job[c].place = "background"
    BY DEF Complete, Takeable
  <2>3. \A c \in completed : told[c] = 0 /\ c \notin stopped
    BY <1>b, <2>2
  <2>4. \A c \in ends : told[c] = 0 /\ job[c].place = "retained"
    BY <1>b
  <2>5. \A i \in Calls : OpenWait(i) => \A c \in calls[i].taken :
                c \notin completed /\ c \notin ends
    BY <1>b, <2>2
  <2>6. \A c \in Command : told'[c] = IF c \in completed \cup ends THEN 1 ELSE told[c]
    <3>1. ASSUME NEW c \in Command
          PROVE  told'[c] = IF c \in completed \cup ends THEN 1 ELSE told[c]
      <4>1. told'[c] = told[c] + (IF c \in completed THEN 1 ELSE 0)
                               + (IF c \in ends THEN 1 ELSE 0)
        BY <2>1
      <4>2. told[c] \in Nat
        BY <1>a
      <4>3. c \in completed => c \notin ends /\ told[c] = 0
        BY <2>3
      <4>4. c \in ends => told[c] = 0
        BY <2>4
      <4> HIDE DEF completed, ends
      <4> QED BY <4>1, <4>2, <4>3, <4>4
    <3> QED BY <3>1
  <2>7. \A c \in Command : job'[c].place = IF c \in completed THEN "retained"
                                           ELSE job[c].place
    BY <2>1 DEF Retains
  <2> HIDE DEF completed, ends
  <2>8. /\ \A c \in Command : told'[c] = 0 \/ told'[c] = 1
        /\ \A c \in Command : told'[c] = 1 => job'[c].place \in {"retained", "gone"}
    BY <1>b, <2>4, <2>6, <2>7
  <2>9. \A i \in Calls : OpenWait(i)' => \A c \in calls'[i].taken :
            told'[c] = 0 /\ job'[c].place = "retained" /\ c \notin stopped'
    BY <1>a, <1>b, <2>1, <2>5, <2>6, <2>7 DEF OpenWait
  <2> QED BY <1>b, <2>1, <2>8, <2>9 DEF ToldInv, OpenWait
<1>9. ASSUME NEW s \in Stopper, TakeStopped(s) PROVE ToldInv'
  <2>1. /\ calls' = calls /\ told' = told /\ stop[s].ids \subseteq Command
    BY <1>9 DEF TakeStopped, Types, StopType
  <2>2. CASE SamePlaces /\ stopped' = stopped
    BY <1>b, <1>c, <2>1, <2>2 DEF SamePlaces, OpenWait
  <2>3. ASSUME NEW c \in stop[s].ids, Takeable(c), Retains({c}),
               stopped' = stopped \cup {c}
        PROVE  ToldInv'
    <3>1. c \in Command /\ job[c].place = "background"
      BY <2>1, <2>3 DEF Takeable
    <3>2. told[c] = 0 /\ \A i \in Calls : OpenWait(i) => c \notin calls[i].taken
      BY <1>b, <3>1
    <3>3. \A d \in Command : job'[d].place = IF d = c THEN "retained"
                                             ELSE job[d].place
      BY <2>3 DEF Retains
    <3>4. /\ \A d \in Command : told'[d] = 1 =>
                    job'[d].place \in {"retained", "gone"}
          /\ \A d \in stopped' : told'[d] = 0 /\ job'[d].place = "retained"
      BY <1>a, <1>b, <2>1, <2>3, <3>1, <3>2, <3>3
    <3>5. \A i \in Calls : OpenWait(i)' => \A d \in calls'[i].taken :
            told'[d] = 0 /\ job'[d].place = "retained" /\ d \notin stopped'
      BY <1>a, <1>b, <2>1, <2>3, <3>2, <3>3 DEF OpenWait
    <3> QED BY <1>b, <2>1, <3>4, <3>5 DEF ToldInv, OpenWait
  <2> QED BY <1>9, <2>2, <2>3, TakingSteps
<1> QED
  BY <1>1, <1>2, <1>3, <1>4, <1>5, <1>6, <1>7, <1>8, <1>9
  DEF Next, Threads, World, RunCall, ReadCall, StopCall, Stops, IoLoop
-----------------------------------------------------------------------------
\* A stop is requested of a session that is not over, and never taken back.
LEMMA RequestEffect ==
    ASSUME Types, NEW s \in Stopper, NEW c \in Command, Request(s, c)
    PROVE  \/ job' = job /\ stop' = stop
           \/ /\ ~Terminal(c) /\ job' = [job EXCEPT ![c].stopping = TRUE]
              /\ stop'[s].ids = {c}
              /\ \A t \in Stopper : t # s => stop'[t] = stop[t]
<1>a. stop \in [Stopper -> StopType]
  BY DEF Types
<1>1. CASE Terminal(c)
  BY <1>1 DEF Request
<1>2. CASE ~Terminal(c)
  <2>1. /\ job' = [job EXCEPT ![c].stopping = TRUE]
        /\ stop' = [stop EXCEPT ![s] = [ids |-> {c},
                            step |-> IF Live(c) THEN "kill" ELSE "mark"]]
    BY <1>2 DEF Request
  <2> QED BY <1>a, <1>2, <2>1
<1> QED BY <1>1, <1>2

\* What Take changes of a command, ...
LEMMA TakenFields ==
    ASSUME NEW j \in JobType
    PROVE  /\ Taken(j).place = "retained" /\ Taken(j).reaped = j.reaped
           /\ Taken(j).eof = j.eof /\ Taken(j).stopping = j.stopping
           /\ Taken(j).state = IF j.state = "stopped" THEN "stopped" ELSE "delivered"
  BY DEF Taken, JobType

\* ... and what emptying its buffer changes.
LEMMA DrainedFields ==
    ASSUME NEW o \in OutType
    PROVE  /\ Drained(o).read = o.read /\ Drained(o).lost = o.lost
           /\ Drained(o).unread = 0 /\ Drained(o).given = o.given + o.unread
           /\ Drained(o).carried = o.carried /\ Drained(o).replayed = o.replayed
<1>1. o.given + o.unread \in Nat
  BY DEF OutType
<1> QED BY <1>1 DEF Drained, OutType

\* What is left as it is read stays read.
LEMMA ReadStep ==
    ASSUME Types, PlaceInv, ReadInv, IoInv, StopInv, [Next]_vars
    PROVE  ReadInv'
<1>a. /\ job \in [Command -> JobType] /\ proc \in [Command -> ProcType]
      /\ out \in [Command -> OutType]
      /\ io \in [Command -> {"none", "read", "reap", "reapLate", "off"}]
      /\ \A i \in Calls : calls[i].ids \subseteq Command
      /\ \A s \in Stopper : stop[s].ids \subseteq Command
  BY DEF Types, CallType, StopType
<1>b. plan' = plan /\ plan.chunks \in Nat
  BY PlanKept, ActivitiesAssumption DEF Types
<1>c. \A c \in Command : /\ job[c] \in JobType /\ proc[c] \in ProcType
                         /\ out[c] \in OutType /\ ReadOf(c)
                         /\ out[c].read <= proc[c].written
                         /\ proc[c].own \in Nat /\ proc[c].written \in Nat
                         /\ out[c].read \in Nat
  BY <1>a DEF ReadInv, Types, ProcType, OutType
\* Only one command changes, or none.
<1>d. ASSUME NEW c \in Command, ReadOf(c)',
             \A d \in Command : d # c =>
                /\ job'[d] = job[d] /\ proc'[d] = proc[d] /\ io'[d] = io[d]
                /\ out'[d].read = out[d].read
      PROVE  ReadInv'
  <2>1. ASSUME NEW d \in Command, d # c PROVE ReadOf(d)'
    BY <1>b, <1>c, <1>d, <2>1 DEF ReadOf
  <2> QED BY <1>d, <2>1 DEF ReadInv
<1>e. ASSUME \A d \in Command :
                /\ job'[d] = job[d] /\ proc'[d] = proc[d] /\ io'[d] = io[d]
                /\ out'[d].read = out[d].read
      PROVE  ReadInv'
  <2>1. ASSUME NEW d \in Command PROVE ReadOf(d)'
    BY <1>b, <1>c, <1>e, <2>1 DEF ReadOf
  <2> QED BY <2>1 DEF ReadInv
<1>1. ASSUME NEW c \in Command, Writes(c) PROVE ReadInv'
  <2>1. /\ job' = job /\ out' = out /\ io' = io
        /\ proc' = [proc EXCEPT ![c].written = proc[c].written + 1]
        /\ proc[c].written < plan.chunks
    BY <1>1 DEF Writes
  <2>2. /\ proc'[c].written = proc[c].written + 1
        /\ proc'[c].own = proc[c].own /\ proc'[c].dead = proc[c].dead
        /\ \A d \in Command : d # c => proc'[d] = proc[d]
    BY <1>a, <2>1 DEF ProcType
  <2>3. ReadOf(c)'
    BY <1>b, <1>c, <2>1, <2>2 DEF ReadOf
  <2> QED BY <1>d, <2>1, <2>2, <2>3
\* The end of a process fixes what it printed itself.
<1>f. ASSUME NEW c \in Command, NEW held \in BOOLEAN, job' = job, out' = out, io' = io,
             proc' = [proc EXCEPT ![c] = Ended(proc[c], held)]
      PROVE  ReadInv'
  <2>1. proc'[c] = Ended(proc[c], held) /\ \A d \in Command : d # c => proc'[d] = proc[d]
    BY <1>a, <1>f
  <2>2. /\ proc'[c].dead /\ proc'[c].written = proc[c].written
        /\ proc'[c].own = IF proc[c].dead THEN proc[c].own ELSE proc[c].written
    BY <1>c, <2>1, EndedTyped
  <2>3. ReadOf(c)'
    BY <1>b, <1>c, <1>f, <2>2 DEF ReadOf
  <2> QED BY <1>d, <1>f, <2>1, <2>3
<1>2. ASSUME NEW c \in Command, Ends(c) PROVE ReadInv'
  <2>1. {FALSE, (c \in Talks)} \subseteq BOOLEAN
    OBVIOUS
  <2>2. /\ job' = job /\ out' = out /\ io' = io
        /\ \E held \in BOOLEAN : proc' = [proc EXCEPT ![c] = Ended(proc[c], held)]
    BY <1>2, <2>1 DEF Ends
  <2> QED BY <1>f, <2>2
<1>3. ASSUME NEW s \in Stopper, TerminateGroup(s) PROVE ReadInv'
  <2>1. /\ job' = job /\ out' = out /\ io' = io
        /\ \/ proc' = proc
           \/ \E c \in stop[s].ids : proc' = [proc EXCEPT ![c] = Ended(proc[c], FALSE)]
    BY <1>3 DEF TerminateGroup
  <2> QED BY <1>a, <1>e, <1>f, <2>1
<1>4. ASSUME NEW c \in Command, IoRead(c) PROVE ReadInv'
  <2> DEFINE eof == job[c].eof \/ (proc[c].dead /\ ~proc[c].held)
             state == IF proc[c].written > out[c].read
                      THEN Moved(job[c].state, "running") ELSE job[c].state
  <2>1. /\ job' = [job EXCEPT ![c].eof = eof, ![c].state = state]
        /\ proc' = proc /\ io[c] = "read"
        /\ \E late \in {FALSE, job[c].reaped} :
                io' = [io EXCEPT ![c] = IF late THEN "reapLate" ELSE "reap"]
    BY <1>4 DEF IoRead
  <2>2. /\ job'[c].eof = eof /\ job'[c].state = state
        /\ job'[c].place = job[c].place /\ job'[c].reaped = job[c].reaped
        /\ job'[c].stopping = job[c].stopping
        /\ \A d \in Command : d # c => job'[d] = job[d]
    BY <1>a, <2>1 DEF JobType
  <2>3. out' = [out EXCEPT ![c] =
                    [out[c] EXCEPT !.unread = out[c].unread + proc[c].written
                                                            - out[c].read,
                                   !.read = proc[c].written]]
    BY <1>a, <1>4 DEF IoRead
  <2>4. out'[c].read = proc[c].written /\ \A d \in Command : d # c => out'[d] = out[d]
    BY <1>a, <1>c, <2>3 DEF OutType
  <2>5. /\ io'[c] \in {"reap", "reapLate"} /\ (io'[c] = "reapLate" => job[c].reaped)
        /\ \A d \in Command : d # c => io'[d] = io[d]
    BY <1>a, <2>1
  <2>6. job[c].state \notin {"drained", "delivered"}
    BY <1>c, <2>1 DEF ReadOf
  <2>7. state \notin {"drained", "delivered"}
    BY <2>6 DEF Moved
  <2>8. eof => job[c].eof \/ proc[c].dead
    OBVIOUS
  <2> HIDE DEF eof, state
  <2>9. job[c].place \notin {"none", "reserved"}
    BY <1>c, <2>1 DEF ReadOf
  <2>10. ReadOf(c)'
    BY <1>b, <1>c, <2>1, <2>2, <2>4, <2>5, <2>7, <2>8, <2>9 DEF ReadOf
  <2> QED BY <1>d, <2>1, <2>2, <2>4, <2>5, <2>10
<1>5. ASSUME NEW c \in Command, IoReap(c) PROVE ReadInv'
  <2> DEFINE reaped == job[c].reaped \/ proc[c].dead
             exited == IF reaped /\ ~job[c].reaped
                       THEN Moved(job[c].state, "exited") ELSE job[c].state
             state == IF OutputOver(c, reaped)
                      THEN Moved(exited, IF job[c].stopping THEN "stopped"
                                         ELSE "drained")
                      ELSE exited
  <2>1. /\ job' = [job EXCEPT ![c].reaped = reaped, ![c].state = state]
        /\ proc' = proc /\ out' = out /\ io[c] \in {"reap", "reapLate"}
        /\ io' = [io EXCEPT ![c] =
                    IF state \in {"drained", "delivered", "stopped"}
                    THEN "off" ELSE "read"]
    BY <1>5 DEF IoReap
  <2>2. /\ job'[c].reaped = reaped /\ job'[c].state = state
        /\ job'[c].place = job[c].place /\ job'[c].eof = job[c].eof
        /\ job'[c].stopping = job[c].stopping
        /\ \A d \in Command : d # c => job'[d] = job[d]
    BY <1>a, <2>1 DEF JobType
  <2>3. /\ io'[c] = IF state \in {"drained", "delivered", "stopped"}
                    THEN "off" ELSE "read"
        /\ \A d \in Command : d # c => io'[d] = io[d]
    BY <1>a, <2>1
  <2>4. job[c].state \notin {"drained", "delivered"}
    BY <1>c, <2>1 DEF ReadOf
  <2>5. exited \notin {"drained", "delivered"}
    BY <2>4 DEF Moved
  <2>6. /\ state # "delivered"
        /\ state = "drained" => /\ reaped /\ (job[c].eof \/ io[c] = "reapLate")
                                /\ ~job[c].stopping
    BY <2>5 DEF Moved, OutputOver
  <2>7. reaped => proc[c].dead
    BY <1>c DEF ReadOf
  <2>8. job[c].place \notin {"none", "reserved"}
    BY <1>c, <2>1 DEF ReadOf
  <2> HIDE DEF reaped, state
  <2>9. ReadOf(c)'
    BY <1>b, <1>c, <2>1, <2>2, <2>3, <2>6, <2>7, <2>8 DEF ReadOf
  <2> QED BY <1>d, <2>1, <2>2, <2>3, <2>9
\* An end that is taken belongs to a drained command, or to a stopped one.
<1>g. ASSUME NEW c \in Command, Takeable(c), job[c].state \in {"drained", "stopped"},
             job'[c] = Taken(job[c]), proc'[c] = proc[c], io'[c] = io[c],
             out'[c].read = out[c].read
      PROVE  ReadOf(c)'
  <2>1. /\ job'[c].place = "retained" /\ job'[c].reaped = job[c].reaped
        /\ job'[c].eof = job[c].eof /\ job'[c].stopping = job[c].stopping
        /\ job'[c].state = IF job[c].state = "stopped" THEN "stopped" ELSE "delivered"
    BY <1>c, <1>g, TakenFields
  <2> QED BY <1>b, <1>c, <1>g, <2>1 DEF ReadOf, Takeable
<1>6. CASE DrainActivities
  <2>1. /\ job' = [c \in Command |-> IF c \in {d \in Command : Complete(d)}
                                     THEN Taken(job[c]) ELSE job[c]]
        /\ out' = [c \in Command |-> IF c \in {d \in Command : Complete(d)}
                                     THEN Drained(out[c]) ELSE out[c]]
        /\ proc' = proc /\ io' = io
    BY <1>6 DEF DrainActivities
  <2>2. ASSUME NEW c \in Command PROVE ReadOf(c)'
    <3>1. out'[c].read = out[c].read
      BY <1>c, <2>1, DrainedFields
    <3>2. CASE Complete(c)
      BY <1>g, <2>1, <3>1, <3>2 DEF Complete
    <3>3. CASE ~Complete(c)
      BY <1>b, <1>c, <2>1, <3>1, <3>3 DEF ReadOf
    <3> QED BY <3>2, <3>3
  <2> QED BY <2>2 DEF ReadInv
<1>7. ASSUME NEW i \in Calls, WaitTakes(i) PROVE ReadInv'
  <2>1. PICK c \in calls[i].ids :
            /\ Complete(c) /\ job' = [job EXCEPT ![c] = Taken(job[c])]
            /\ out' = [out EXCEPT ![c] = Carried(out[c])]
    BY <1>7 DEF WaitTakes
  <2>2. c \in Command /\ proc' = proc /\ io' = io
    BY <1>a, <1>7 DEF WaitTakes
  <2>3. out'[c].read = out[c].read
    BY <1>a, <1>c, <2>1, <2>2, CarriedFields
  <2>4. job'[c] = Taken(job[c]) /\ \A d \in Command : d # c =>
            job'[d] = job[d] /\ out'[d] = out[d]
    BY <1>a, <2>1, <2>2
  <2> QED BY <1>d, <1>g, <2>1, <2>2, <2>3, <2>4 DEF Complete
<1>8. ASSUME NEW s \in Stopper, TakeStopped(s) PROVE ReadInv'
  <2>1. PICK c \in stop[s].ids :
            IF Takeable(c) THEN job' = [job EXCEPT ![c] = Taken(job[c])]
            ELSE UNCHANGED job
    BY <1>8 DEF TakeStopped
  <2>2. c \in Command /\ proc' = proc /\ io' = io /\ out' = out
    BY <1>a, <1>8 DEF TakeStopped
  <2>3. job[c].stopping
    BY <1>8 DEF TakeStopped, StopInv
  <2>4. CASE Takeable(c)
    <3>1. job[c].state = "stopped"
      BY <1>c, <2>2, <2>3, <2>4 DEF Takeable, Allowed, ReadOf
    <3>2. job'[c] = Taken(job[c]) /\ \A d \in Command : d # c => job'[d] = job[d]
      BY <1>a, <2>1, <2>2, <2>4
    <3> QED BY <1>d, <1>g, <2>2, <2>4, <3>1, <3>2
  <2>5. CASE ~Takeable(c)
    BY <1>e, <2>1, <2>2, <2>5
  <2> QED BY <2>4, <2>5
<1>9. ASSUME NEW s \in Stopper, NEW c \in Command, Request(s, c), proc' = proc,
             io' = io, out' = out
      PROVE  ReadInv'
  <2>1. CASE job' = job
    BY <1>e, <1>9, <2>1
  <2>2. CASE ~Terminal(c) /\ job' = [job EXCEPT ![c].stopping = TRUE]
    <3>1. /\ job'[c].place = job[c].place /\ job'[c].reaped = job[c].reaped
          /\ job'[c].eof = job[c].eof /\ job'[c].state = job[c].state
          /\ \A d \in Command : d # c => job'[d] = job[d]
      BY <1>a, <2>2 DEF JobType
    <3>2. ReadOf(c)'
      BY <1>b, <1>c, <1>9, <2>2, <3>1 DEF ReadOf, Terminal
    <3> QED BY <1>d, <1>9, <3>1, <3>2
  <2> QED BY <1>9, <2>1, <2>2, RequestEffect
<1>10. CASE PersonStops
  <2>1. Person \in Stopper /\ proc' = proc /\ io' = io /\ out' = out
    BY <1>10 DEF PersonStops, Stopper
  <2> QED BY <1>9, <1>10, <2>1 DEF PersonStops
<1>11. ASSUME NEW i \in Calls, CallStops(i) PROVE ReadInv'
  <2>1. i \in Stopper /\ proc' = proc /\ io' = io /\ out' = out
    BY <1>11 DEF CallStops, Stopper
  <2> QED BY <1>a, <1>9, <1>11, <2>1 DEF CallStops
<1>12. ASSUME NEW s \in Stopper, MarkStopped(s) PROVE ReadInv'
  <2>1. PICK c \in stop[s].ids :
            job' = [job EXCEPT ![c].state = Moved(job[c].state, "stopped")]
    BY <1>12 DEF MarkStopped
  <2>2. c \in Command /\ proc' = proc /\ io' = io /\ out' = out
    BY <1>a, <1>12 DEF MarkStopped
  <2>3. /\ job'[c].place = job[c].place /\ job'[c].reaped = job[c].reaped
        /\ job'[c].eof = job[c].eof /\ job'[c].stopping = job[c].stopping
        /\ job'[c].state = job[c].state \/ job'[c].state = "stopped"
        /\ \A d \in Command : d # c => job'[d] = job[d]
    BY <1>a, <2>1, <2>2 DEF JobType, Moved
  <2>4. ReadOf(c)'
    BY <1>b, <1>c, <2>2, <2>3 DEF ReadOf
  <2> QED BY <1>d, <2>2, <2>3, <2>4
\* The steps of a run's call.
<1>13. ASSUME NEW i \in Calls, Reserve(i) \/ Spawn(i) \/ MoveForegroundToBackground(i)
       PROVE  ReadInv'
  <2>1. /\ proc' = proc /\ io' = io /\ out' = out
        /\ \/ job' = job
           \/ \E c \in In("none") : job' = [job EXCEPT ![c].place = "reserved"]
           \/ InHand(i) /\ \E c \in calls[i].ids :
                \E to \in {"foreground", "background", "gone"} :
                    job' = [job EXCEPT ![c].place = to]
    BY <1>13 DEF Reserve, Spawn, MoveForegroundToBackground, At, InHand
  <2>2. ASSUME NEW c \in Command, NEW to \in Place,
               to = "reserved" => job[c].place = "none", to # "none",
               job[c].place # "retained",
               job' = [job EXCEPT ![c].place = to]
        PROVE  ReadInv'
    <3>1. /\ job'[c].place = to /\ job'[c].reaped = job[c].reaped
          /\ job'[c].eof = job[c].eof /\ job'[c].state = job[c].state
          /\ job'[c].stopping = job[c].stopping
          /\ \A d \in Command : d # c => job'[d] = job[d]
      BY <1>a, <2>2 DEF JobType
    <3>2. ReadOf(c)'
      BY <1>b, <1>c, <2>1, <2>2, <3>1 DEF ReadOf
    <3> QED BY <1>d, <2>1, <3>1, <3>2
  <2>3. CASE \E c \in In("none") : job' = [job EXCEPT ![c].place = "reserved"]
    BY <2>2, <2>3 DEF In, Place
  <2>4. CASE InHand(i) /\ \E c \in calls[i].ids :
                \E to \in {"foreground", "background", "gone"} :
                    job' = [job EXCEPT ![c].place = to]
    <3>1. \A c \in calls[i].ids : c \in Command /\ job[c].place # "retained"
      BY <1>a, <2>4 DEF PlaceInv
    <3> QED BY <2>2, <2>4, <3>1 DEF Place
  <2> QED BY <1>e, <2>1, <2>3, <2>4
<1>14. ASSUME NEW i \in Calls, RegisterIo(i) PROVE ReadInv'
  <2>1. PICK c \in calls[i].ids :
            /\ job' = [job EXCEPT ![c].state = Moved(job[c].state, "running")]
            /\ io' = [io EXCEPT ![c] = "read"]
    BY <1>14 DEF RegisterIo
  <2>2. /\ c \in Command /\ proc' = proc /\ out' = out
        /\ InHand(i) /\ calls[i].step = "io" /\ calls[i].op = "run"
    BY <1>a, <1>14 DEF RegisterIo, At, InHand
  <2>3. job[c].place = "foreground" /\ io[c] = "none"
    BY <2>2 DEF PlaceInv, IoInv
  <2>4. /\ job'[c].place = job[c].place /\ job'[c].reaped = job[c].reaped
        /\ job'[c].eof = job[c].eof /\ job'[c].stopping = job[c].stopping
        /\ job'[c].state = job[c].state \/ job'[c].state = "running"
        /\ \A d \in Command : d # c => job'[d] = job[d]
    BY <1>a, <2>1, <2>2 DEF JobType, Moved
  <2>5. io'[c] = "read" /\ \A d \in Command : d # c => io'[d] = io[d]
    BY <1>a, <2>1, <2>2
  <2>6. ReadOf(c)'
    BY <1>b, <1>c, <2>2, <2>3, <2>4, <2>5 DEF ReadOf
  <2> QED BY <1>d, <2>2, <2>4, <2>5, <2>6
<1>15. ASSUME NEW i \in Calls, Keeps(i) PROVE ReadInv'
  <2>1. PICK c \in calls[i].ids :
            /\ job' = [job EXCEPT ![c].place = "gone"]
            /\ proc' = [proc EXCEPT ![c] = [NoProcess EXCEPT !.dead = TRUE]]
            /\ out' = [out EXCEPT ![c] = NoOutput]
            /\ io' = [io EXCEPT ![c] = "off"]
    BY <1>15 DEF Keeps
  <2>2. c \in Command /\ InHand(i)
    BY <1>a, <1>15 DEF Keeps, InHand
  <2>3. job[c].place # "retained"
    BY <2>2 DEF PlaceInv
  <2>4. /\ job'[c].place = "gone" /\ job'[c].reaped = job[c].reaped
        /\ job'[c].eof = job[c].eof /\ job'[c].state = job[c].state
        /\ job'[c].stopping = job[c].stopping
        /\ \A d \in Command : d # c => job'[d] = job[d]
    BY <1>a, <2>1, <2>2 DEF JobType
  <2>5. /\ proc'[c].dead /\ proc'[c].own = 0 /\ proc'[c].written = 0
        /\ out'[c].read = 0 /\ io'[c] = "off"
    BY <1>a, <2>1, <2>2 DEF NoProcess, NoOutput
  <2>6. \A d \in Command : d # c => proc'[d] = proc[d] /\ out'[d] = out[d]
                                    /\ io'[d] = io[d]
    BY <1>a, <2>1, <2>2
  <2>7. ReadOf(c)'
    BY <1>b, <1>c, <2>2, <2>3, <2>4, <2>5 DEF ReadOf
  <2> QED BY <1>d, <2>2, <2>4, <2>6, <2>7
\* Giving output, or throwing it away, is not reading it.
<1>16. ASSUME NEW i \in Calls,
              Leaves(i) \/ PollDrains(i) \/ PollReturns(i) \/ PollCancelled(i)
       PROVE  ReadInv'
  <2>1. job' = job /\ proc' = proc /\ io' = io
    BY <1>16 DEF Leaves, PollDrains, PollReturns, PollCancelled
  <2>2. CASE Leaves(i)
    <3>1. PICK c \in calls[i].ids : out' = [out EXCEPT ![c] = Drained(out[c])]
      BY <2>2 DEF Leaves
    <3> QED BY <1>a, <1>c, <1>e, <2>1, <3>1, DrainedFields
  <2>3. CASE PollDrains(i) \/ PollReturns(i) \/ PollCancelled(i)
    <3>1. PICK c \in calls[i].ids : PollOuts(i, c)
      BY <2>3, PollOutsOf
    <3>2. c \in Command /\ calls[i].got \in Nat
      BY <1>a DEF Types, CallType
    <3>3. \A d \in Command : out'[d].read = out[d].read
      BY <1>a, <3>1, <3>2, PollOutsFields
    <3> QED BY <1>e, <2>1, <3>3
  <2> QED BY <1>16, <2>2, <2>3
<1>18. ASSUME NEW i \in Calls, WaitReturns(i) \/ WaitCancelled(i) PROVE ReadInv'
  <2>1. /\ job' = job /\ proc' = proc /\ io' = io
        /\ \/ out' = [c \in Command |-> IF c \in calls[i].taken
                                       THEN Reported(out[c]) ELSE out[c]]
           \/ out' = [c \in Command |-> IF c \in calls[i].taken
                                       THEN Dropped(out[c]) ELSE out[c]]
    BY <1>18 DEF WaitReturns, WaitCancelled
  <2>2. \A d \in Command : out'[d].read = out[d].read
    BY <1>c, <2>1, ReportedFields, DroppedFields
  <2> QED BY <1>e, <2>1, <2>2
<1>17. ASSUME \/ Batch \/ Interrupt \/ Integrate \/ UNCHANGED vars
              \/ \E i \in Calls : \/ Cancelled(i) \/ Look(i) \/ WaitBegins(i)
                                  \/ PollBegins(i) \/ StopReturns(i)
       PROVE  ReadInv'
  <2>1. job' = job /\ proc' = proc /\ io' = io /\ out' = out
    BY <1>17 DEF Batch, Interrupt, Integrate, vars, Cancelled, Look, WaitBegins,
       PollBegins, StopReturns
  <2> QED BY <1>e, <2>1
<1> QED
  BY <1>1, <1>2, <1>3, <1>4, <1>5, <1>6, <1>7, <1>8, <1>10, <1>11, <1>12, <1>13,
     <1>14, <1>15, <1>16, <1>17, <1>18
  DEF Next, Threads, World, RunCall, ReadCall, StopCall, Stops, IoLoop
-----------------------------------------------------------------------------
\* TerminateGroup, MarkStopped and TakeStopped follow a request, and nothing
\* clears the request.
LEMMA StopStep ==
    ASSUME Types, StopInv, [Next]_vars
    PROVE  StopInv'
<1>a. /\ job \in [Command -> JobType] /\ stop \in [Stopper -> StopType]
      /\ \A i \in Calls : calls[i].ids \subseteq Command
      /\ \A s \in Stopper : stop[s].ids \subseteq Command
  BY DEF Types, CallType, StopType
<1>b. ASSUME \A c \in Command : job'[c].stopping = job[c].stopping,
             \A s \in Stopper : /\ stop'[s].ids = stop[s].ids
                                /\ stop'[s].step # "idle" => stop[s].step # "idle"
      PROVE  StopInv'
  BY <1>a, <1>b DEF StopInv
<1>1. ASSUME NEW s \in Stopper, NEW c \in Command, Request(s, c) PROVE StopInv'
  <2>1. CASE job' = job /\ stop' = stop
    BY <1>b, <2>1
  <2>2. CASE /\ job' = [job EXCEPT ![c].stopping = TRUE]
             /\ stop'[s].ids = {c}
             /\ \A t \in Stopper : t # s => stop'[t] = stop[t]
    <3>1. \A d \in Command : job'[d].stopping = IF d = c THEN TRUE
                                                ELSE job[d].stopping
      BY <1>a, <2>2 DEF JobType
    <3> QED BY <1>a, <2>2, <3>1 DEF StopInv
  <2> QED BY <1>1, <2>1, <2>2, RequestEffect
<1>2. CASE PersonStops
  BY <1>1, <1>2 DEF PersonStops, Stopper
<1>3. ASSUME NEW i \in Calls, CallStops(i) PROVE StopInv'
  BY <1>a, <1>1, <1>3 DEF CallStops, Stopper
<1>4. ASSUME NEW s \in Stopper,
             TerminateGroup(s) \/ MarkStopped(s) \/ TakeStopped(s)
      PROVE  StopInv'
  <2>1. \E step \in {"idle", "mark", "take"} : stop' = [stop EXCEPT ![s].step = step]
    BY <1>4 DEF TerminateGroup, MarkStopped, TakeStopped
  <2>2. stop[s].step # "idle"
    BY <1>4 DEF TerminateGroup, MarkStopped, TakeStopped
  <2>3. \A t \in Stopper : /\ stop'[t].ids = stop[t].ids
                           /\ stop'[t].step # "idle" => stop[t].step # "idle"
    BY <1>a, <2>1, <2>2 DEF StopType
  <2>4. \A c \in Command : job'[c].stopping = job[c].stopping
    <3>1. CASE TerminateGroup(s)
      BY <3>1 DEF TerminateGroup
    <3>2. CASE MarkStopped(s)
      BY <3>2, <1>a DEF MarkStopped, JobType
    <3>3. CASE TakeStopped(s)
      <4>1. \E c \in stop[s].ids : \/ job' = job
                                   \/ job' = [job EXCEPT ![c] = Taken(job[c])]
        BY <3>3 DEF TakeStopped
      <4> QED BY <1>a, <4>1, TakenFields
    <3> QED BY <1>4, <3>1, <3>2, <3>3
  <2> QED BY <1>b, <2>3, <2>4
<1>5. ASSUME stop' = stop, \A c \in Command : job'[c].stopping = job[c].stopping
      PROVE  StopInv'
  BY <1>b, <1>5
<1>6. ASSUME NEW c \in Command, IoRead(c) \/ IoReap(c) PROVE StopInv'
  <2>1. stop' = stop
    BY <1>6 DEF IoRead, IoReap
  <2>2. \A d \in Command : job'[d].stopping = job[d].stopping
    BY <1>a, <1>6 DEF IoRead, IoReap, JobType
  <2> QED BY <1>5, <2>1, <2>2
<1>7. CASE DrainActivities
  <2>1. /\ job' = [c \in Command |-> IF c \in {d \in Command : Complete(d)}
                                     THEN Taken(job[c]) ELSE job[c]]
        /\ stop' = stop
    BY <1>7 DEF DrainActivities
  <2> QED BY <1>a, <1>5, <2>1, TakenFields
<1>8. ASSUME NEW i \in Calls,
             \/ Reserve(i) \/ Spawn(i) \/ MoveForegroundToBackground(i) \/ Keeps(i)
      PROVE  StopInv'
  <2>1. /\ stop' = stop
        /\ job' = job \/ \E c \in Command : \E to \in Place :
                                job' = [job EXCEPT ![c].place = to]
    BY <1>a, <1>8 DEF Reserve, Spawn, MoveForegroundToBackground, Keeps, In, Place
  <2>2. \A d \in Command : job'[d].stopping = job[d].stopping
    BY <1>a, <2>1 DEF JobType
  <2> QED BY <1>5, <2>1, <2>2
<1>9. ASSUME NEW i \in Calls, RegisterIo(i) PROVE StopInv'
  <2>1. stop' = stop /\ \A d \in Command : job'[d].stopping = job[d].stopping
    BY <1>a, <1>9 DEF RegisterIo, JobType
  <2> QED BY <1>5, <2>1
<1>10. ASSUME NEW i \in Calls, WaitTakes(i) PROVE StopInv'
  <2>1. stop' = stop /\ \E c \in calls[i].ids :
                job' = [job EXCEPT ![c] = Taken(job[c])]
    BY <1>10 DEF WaitTakes
  <2> QED BY <1>a, <1>5, <2>1, TakenFields
<1>11. CASE UNCHANGED <<job, stop>>
  BY <1>5, <1>11
<1> QED
  BY <1>2, <1>3, <1>4, <1>6, <1>7, <1>8, <1>9, <1>10, <1>11
  DEF Next, Threads, World, RunCall, ReadCall, StopCall, Stops, IoLoop, vars,
      Writes, Ends, Batch, Interrupt, Integrate, Cancelled, Look, Leaves,
      WaitBegins, WaitReturns, WaitCancelled, PollBegins, PollDrains,
      PollReturns, PollCancelled, StopReturns

\* IoLoop gets a session from the call that holds it, and from no other.
LEMMA IoStep ==
    ASSUME Types, PlaceInv, ReadInv, IoInv, [Next]_vars
    PROVE  IoInv'
<1>a. /\ calls \in [Calls -> CallType]
      /\ io \in [Command -> {"none", "read", "reap", "reapLate", "off"}]
      /\ \A i \in Calls : calls[i].ids \subseteq Command
  BY DEF Types, CallType
<1> DEFINE Unregistered(i) == calls[i].op = "run" /\ calls[i].step = "io"
<1>b. \A i \in Calls : Unregistered(i) => InHand(i)
  BY DEF InHand
<1>1. ASSUME io' = io,
             \A i \in Calls : Unregistered(i)' =>
                    Unregistered(i) /\ calls'[i].ids = calls[i].ids
      PROVE  IoInv'
  BY <1>1 DEF IoInv
<1>2. ASSUME NEW c \in Command, IoRead(c) \/ IoReap(c) PROVE IoInv'
  <2>1. calls' = calls /\ io[c] # "none" /\ \A d \in Command : d # c => io'[d] = io[d]
    BY <1>a, <1>2 DEF IoRead, IoReap
  <2> QED BY <1>a, <2>1 DEF IoInv
<1>3. ASSUME NEW i \in Calls, RegisterIo(i) \/ Keeps(i) PROVE IoInv'
  <2>1. InHand(i)
    BY <1>3 DEF RegisterIo, Keeps, At, InHand
  <2>2. PICK c \in calls[i].ids : \A d \in Command : d # c => io'[d] = io[d]
    BY <1>a, <1>3 DEF RegisterIo, Keeps
  <2>3. /\ \A j \in Calls : j # i => calls'[j] = calls[j]
        /\ calls'[i].step # "io"
    BY <1>a, <1>3 DEF RegisterIo, Keeps, CallType
  <2>4. \A j \in Calls : j # i /\ Unregistered(j) => c \notin calls[j].ids
    BY <1>b, <2>1, <2>2 DEF PlaceInv
  <2> QED BY <1>a, <2>2, <2>3, <2>4 DEF IoInv
<1>4. ASSUME NEW i \in Calls, Spawn(i) PROVE IoInv'
  <2>1. InHand(i) /\ calls[i].step = "spawn"
    BY <1>4 DEF Spawn, At, InHand
  <2>2. \A c \in calls[i].ids : io[c] = "none"
    BY <1>a, <2>1 DEF PlaceInv, ReadInv, ReadOf
  <2>3. /\ io' = io /\ calls'[i].ids = calls[i].ids
        /\ \A j \in Calls : j # i => calls'[j] = calls[j]
    BY <1>a, <1>4 DEF Spawn, CallType
  <2> QED BY <2>2, <2>3 DEF IoInv
<1>5. ASSUME NEW i \in Calls, io' = io, \A j \in Calls : j # i => calls'[j] = calls[j],
             calls'[i].step # "io"
      PROVE  IoInv'
  BY <1>5 DEF IoInv
<1>6. ASSUME NEW i \in Calls,
             \/ Cancelled(i) \/ Reserve(i) \/ Look(i) \/ Leaves(i) \/ CallStops(i)
             \/ MoveForegroundToBackground(i) \/ StopReturns(i) \/ WaitBegins(i)
      PROVE  IoInv'
  <2>1. io' = io /\ \A j \in Calls : j # i => calls'[j] = calls[j]
    BY <1>a, <1>6 DEF Cancelled, Reserve, Look, Leaves, CallStops,
       MoveForegroundToBackground, StopReturns, WaitBegins
  <2>2. calls'[i].step # "io"
    <3>1. CASE Cancelled(i) \/ Leaves(i) \/ CallStops(i) \/ StopReturns(i)
      BY <1>a, <3>1 DEF Cancelled, Leaves, CallStops, StopReturns, CallType
    <3>2. CASE Reserve(i)
      BY <1>a, <3>2 DEF Reserve, CallType
    <3>3. CASE Look(i) \/ MoveForegroundToBackground(i)
      BY <1>a, <3>3 DEF Look, MoveForegroundToBackground, CallType
    <3>4. CASE WaitBegins(i)
      BY <1>a, <3>4 DEF WaitBegins, CallType
    <3> QED BY <1>6, <3>1, <3>2, <3>3, <3>4
  <2> QED BY <1>5, <2>1, <2>2
<1>7. ASSUME NEW i \in Calls,
             \/ WaitReturns(i) \/ WaitCancelled(i) \/ PollReturns(i)
             \/ PollCancelled(i) \/ PollBegins(i)
      PROVE  IoInv'
  <2>1. io' = io /\ \A j \in Calls : j # i => calls'[j] = calls[j]
    BY <1>a, <1>7 DEF WaitReturns, WaitCancelled, PollReturns, PollCancelled,
       PollBegins
  <2>2. calls'[i].step # "io"
    <3>1. CASE PollBegins(i)
      <4>1. \/ \E c \in Command : calls' = [calls EXCEPT ![i].ids = {c},
                                                        ![i].step = "open"]
            \/ calls' = [calls EXCEPT ![i].step = "done"]
        BY <3>1 DEF PollBegins, In
      <4> QED BY <1>a, <4>1 DEF CallType
    <3>2. CASE \/ WaitReturns(i) \/ WaitCancelled(i) \/ PollReturns(i)
               \/ PollCancelled(i)
      BY <1>a, <3>2 DEF WaitReturns, WaitCancelled, PollReturns, PollCancelled,
         Over, Free
    <3> QED BY <1>7, <3>1, <3>2
  <2> QED BY <1>5, <2>1, <2>2
<1>8. ASSUME NEW i \in Calls, WaitTakes(i) \/ PollDrains(i) PROVE IoInv'
  <2>1. io' = io /\ \A j \in Calls : j # i => calls'[j] = calls[j]
    BY <1>a, <1>8 DEF WaitTakes, PollDrains
  <2>2. calls'[i].step = "open"
    BY <1>a, <1>8 DEF WaitTakes, PollDrains, At, CallType
  <2> QED BY <1>5, <2>1, <2>2
<1>9. CASE Batch \/ Integrate
  <2>1. \A i \in Calls : calls'[i].step \in {"begin", "done"}
    <3>1. CASE Batch
      BY <3>1 DEF Batch, Free
    <3>2. CASE Integrate
      BY <3>2 DEF Integrate, Free
    <3> QED BY <1>9, <3>1, <3>2
  <2> QED BY <2>1 DEF IoInv
<1>10. CASE UNCHANGED <<calls, io>>
  BY <1>1, <1>10
<1> QED
  BY <1>2, <1>3, <1>4, <1>6, <1>7, <1>8, <1>9, <1>10
  DEF Next, Threads, World, RunCall, ReadCall, StopCall, Stops, IoLoop, vars,
      Writes, Ends, Interrupt, DrainActivities, PersonStops, TerminateGroup,
      MarkStopped, TakeStopped
-----------------------------------------------------------------------------
\* One poll at a time drains a command, and only one left in the background.
LEMMA PollStep ==
    ASSUME Types, PlaceInv, PollInv, [Next]_vars
    PROVE  PollInv'
<1>a. /\ calls \in [Calls -> CallType]
      /\ \A i \in Calls : calls[i].ids \subseteq Command
  BY DEF Types, CallType
<1>b. /\ \A i \in Calls : calls[i].step = "begin" => calls[i].got = 0
      /\ \A i \in Calls, c \in Command : PollOn(i, c) =>
            calls[i].ids = {c} /\ job[c].place \in {"background", "retained"}
      /\ \A i, j \in Calls, c \in Command : PollOn(i, c) /\ PollOn(j, c) => i = j
  BY DEF PollInv
<1>c. ASSUME \A c \in Command : job[c].place \in {"background", "retained"} =>
                    job'[c].place \in {"background", "retained"},
             \A i \in Calls : OpenPoll(i)' =>
                    OpenPoll(i) /\ calls'[i].ids = calls[i].ids,
             \A i \in Calls : calls'[i].step = "begin" => calls'[i].got = 0
      PROVE  PollInv'
  BY <1>b, <1>c DEF PollInv, PollOn
<1>1. CASE Batch \/ Integrate
  <2>1. \A i \in Calls : ~OpenPoll(i)' /\ calls'[i].got = 0
    <3>1. CASE Batch
      BY <3>1 DEF Batch, Free, OpenPoll
    <3>2. CASE Integrate
      BY <3>2 DEF Integrate, Free, OpenPoll
    <3> QED BY <1>1, <3>1, <3>2
  <2>2. SamePlaces
    BY <1>1, QuietSteps
  <2> QED BY <1>c, <2>1, <2>2 DEF SamePlaces
<1>2. ASSUME \/ Interrupt \/ PersonStops \/ UNCHANGED vars
             \/ \E c \in Command : Writes(c) \/ Ends(c) \/ IoRead(c) \/ IoReap(c)
             \/ \E s \in Stopper : TerminateGroup(s) \/ MarkStopped(s)
      PROVE  PollInv'
  <2>1. calls' = calls
    BY <1>2 DEF Interrupt, PersonStops, vars, Writes, Ends, IoRead, IoReap,
       TerminateGroup, MarkStopped
  <2>2. SamePlaces
    BY <1>2, QuietSteps
  <2> QED BY <1>b, <1>c, <2>1, <2>2 DEF SamePlaces, OpenPoll
<1>3. ASSUME NEW S, Retains(S), calls' = calls PROVE PollInv'
  BY <1>b, <1>c, <1>3 DEF Retains, OpenPoll
<1>4. CASE DrainActivities
  <2>1. calls' = calls
    BY <1>4 DEF DrainActivities
  <2> QED BY <1>3, <1>4, <2>1, TakingSteps
<1>5. ASSUME NEW s \in Stopper, TakeStopped(s) PROVE PollInv'
  <2>1. calls' = calls
    BY <1>5 DEF TakeStopped
  <2>2. CASE SamePlaces
    BY <1>b, <1>c, <2>1, <2>2 DEF SamePlaces, OpenPoll
  <2> QED BY <1>3, <1>5, <2>1, <2>2, TakingSteps
\* A call that does not open a poll.
<1>6. ASSUME NEW i \in Calls, calls'[i].step # "begin",
             \A j \in Calls : j # i => calls'[j] = calls[j],
             OpenPoll(i)' => OpenPoll(i) /\ calls'[i].ids = calls[i].ids,
             \A c \in Command : job[c].place \in {"background", "retained"} =>
                    job'[c].place \in {"background", "retained"}
      PROVE  PollInv'
  BY <1>b, <1>c, <1>6 DEF OpenPoll
<1>7. ASSUME NEW i \in Calls, WaitTakes(i) PROVE PollInv'
  <2>1. PICK c \in calls[i].ids :
            /\ Retains({c})
            /\ calls' = [calls EXCEPT ![i].taken = calls[i].taken \cup {c}]
    BY <1>7, TakingSteps
  <2>2. calls[i].op = "wait" /\ calls[i].step = "open"
    BY <1>7 DEF WaitTakes, At
  <2>3. /\ calls'[i].op = "wait" /\ calls'[i].step = "open"
        /\ \A j \in Calls : j # i => calls'[j] = calls[j]
    BY <1>a, <2>1, <2>2 DEF CallType
  <2> QED BY <1>6, <2>1, <2>3 DEF Retains, OpenPoll
<1>8. ASSUME NEW i \in Calls,
             \/ Cancelled(i) \/ RegisterIo(i) \/ Look(i) \/ Leaves(i)
             \/ WaitBegins(i) \/ WaitReturns(i) \/ WaitCancelled(i)
             \/ PollDrains(i) \/ PollReturns(i) \/ PollCancelled(i)
             \/ CallStops(i) \/ StopReturns(i)
      PROVE  PollInv'
  <2>1. SamePlaces
    BY <1>8, QuietSteps
  <2>2. \A j \in Calls : j # i => calls'[j] = calls[j]
    BY <1>8, <1>a DEF Cancelled, RegisterIo, Look, Leaves, WaitBegins, WaitReturns,
       WaitCancelled, PollDrains, PollReturns, PollCancelled, CallStops,
       StopReturns
  <2>3. /\ calls'[i].step # "begin"
        /\ OpenPoll(i)' => OpenPoll(i) /\ calls'[i].ids = calls[i].ids
    <3>1. CASE Cancelled(i) \/ RegisterIo(i) \/ Look(i) \/ Leaves(i)
               \/ CallStops(i) \/ StopReturns(i)
      <4>1. calls'[i].step \notin {"begin", "open"}
        BY <3>1, <1>a DEF Cancelled, RegisterIo, Look, Leaves, CallStops,
           StopReturns, CallType
      <4> QED BY <4>1 DEF OpenPoll
    <3>2. CASE \/ WaitReturns(i) \/ WaitCancelled(i) \/ PollReturns(i)
               \/ PollCancelled(i)
      BY <3>2, <1>a DEF WaitReturns, WaitCancelled, PollReturns, PollCancelled,
         Over, Free, OpenPoll
    <3>3. CASE WaitBegins(i)
      BY <3>3, <1>a DEF WaitBegins, At, OpenPoll, CallType
    <3>4. CASE PollDrains(i)
      BY <3>4, <1>a DEF PollDrains, At, OpenPoll, CallType
    <3> QED BY <1>8, <3>1, <3>2, <3>3, <3>4
  <2> QED BY <1>6, <2>1, <2>2, <2>3 DEF SamePlaces
<1>9. ASSUME NEW i \in Calls,
             Reserve(i) \/ Spawn(i) \/ Keeps(i) \/ MoveForegroundToBackground(i)
      PROVE  PollInv'
  <2>1. \A j \in Calls : j # i => calls'[j] = calls[j]
    BY <1>9, <1>a DEF Reserve, Spawn, Keeps, MoveForegroundToBackground
  <2>2. calls'[i].step \notin {"begin", "open"}
    BY <1>9, <1>a DEF Reserve, Spawn, Keeps, MoveForegroundToBackground, CallType
  <2>3. \A c \in Command : job[c].place \in {"background", "retained"} =>
                    job'[c].place = job[c].place
    <3>1. CASE Reserve(i)
      BY <3>1, HandSteps DEF Moves, SamePlaces
    <3>2. CASE Spawn(i) \/ Keeps(i) \/ MoveForegroundToBackground(i)
      <4>1. PICK c \in calls[i].ids : \A d \in Command :
                d # c => job'[d].place = job[d].place
        BY <3>2, HandSteps
      <4>2. InHand(i)
        BY <3>2 DEF Spawn, Keeps, MoveForegroundToBackground, At, InHand
      <4>3. job[c].place \in {"reserved", "foreground"}
        BY <4>2 DEF PlaceInv
      <4> QED BY <4>1, <4>3
    <3> QED BY <1>9, <3>1, <3>2
  <2> QED BY <1>6, <2>1, <2>2, <2>3 DEF OpenPoll
<1>10. ASSUME NEW i \in Calls, PollBegins(i) PROVE PollInv'
  <2>1. SamePlaces
    BY <1>10, QuietSteps
  <2>2. CASE calls' = [calls EXCEPT ![i].step = "done"]
    <3>1. calls'[i].step = "done" /\ \A j \in Calls : j # i => calls'[j] = calls[j]
      BY <1>a, <2>2 DEF CallType
    <3> QED BY <1>6, <2>1, <3>1 DEF OpenPoll, SamePlaces
  <2>3. ASSUME NEW c \in Command, job[c].place \in {"background", "retained"},
               ~Interacting(c),
               calls' = [calls EXCEPT ![i].ids = {c}, ![i].step = "open"]
        PROVE  PollInv'
    <3>1. /\ calls'[i].step = "open" /\ calls'[i].ids = {c}
          /\ \A j \in Calls : j # i => calls'[j] = calls[j]
      BY <1>a, <2>3 DEF CallType
    <3>2. \A j \in Calls : ~PollOn(j, c)
      BY <2>3 DEF Interacting, PollOn, OpenPoll
    <3>3. ASSUME NEW j \in Calls, NEW d \in Command, PollOn(j, d)'
          PROVE  IF j = i THEN d = c ELSE PollOn(j, d)
      BY <3>1, <3>3 DEF PollOn, OpenPoll
    <3>4. \A j \in Calls : calls'[j].step = "begin" => calls'[j].got = 0
      BY <1>b, <3>1
    <3>5. ASSUME NEW j \in Calls, NEW d \in Command, PollOn(j, d)'
          PROVE  calls'[j].ids = {d} /\ job'[d].place \in {"background", "retained"}
      <4>1. CASE j = i
        BY <2>1, <2>3, <3>1, <3>3, <3>5, <4>1 DEF SamePlaces
      <4>2. CASE j # i
        BY <1>b, <2>1, <3>1, <3>3, <3>5, <4>2 DEF SamePlaces
      <4> QED BY <4>1, <4>2
    <3>6. \A j, k \in Calls, d \in Command : PollOn(j, d)' /\ PollOn(k, d)' => j = k
      BY <1>b, <3>2, <3>3
    <3> QED BY <3>4, <3>5, <3>6 DEF PollInv
  <2>4. \/ calls' = [calls EXCEPT ![i].step = "done"]
        \/ \E c \in Command : /\ job[c].place \in {"background", "retained"}
                              /\ ~Interacting(c)
                              /\ calls' = [calls EXCEPT ![i].ids = {c},
                                                        ![i].step = "open"]
    BY <1>10 DEF PollBegins, In
  <2> QED BY <2>2, <2>3, <2>4
<1> QED
  BY <1>1, <1>2, <1>4, <1>5, <1>7, <1>8, <1>9, <1>10
  DEF Next, Threads, World, RunCall, ReadCall, StopCall, Stops, IoLoop
-----------------------------------------------------------------------------
\* The agent is free only while no call of a batch is at work.
LEMMA FreeStep ==
    ASSUME Types, FreeInv, [Next]_vars
    PROVE  FreeInv'
<1>1. ASSUME NEW i \in Calls, RunCall(i) \/ ReadCall(i) \/ StopCall(i)
      PROVE  FreeInv'
  <2>1. calls[i].step # "done"
    BY <1>1 DEF RunCall, ReadCall, StopCall, Cancelled, Reserve, Spawn, RegisterIo,
       Look, Keeps, MoveForegroundToBackground, Leaves, WaitBegins, WaitTakes,
       WaitReturns, WaitCancelled, PollBegins, PollDrains, PollReturns,
       PollCancelled, CallStops, StopReturns, At
  <2>2. agent' = agent
    BY <1>1 DEF RunCall, ReadCall, StopCall, Cancelled, Reserve, Spawn, RegisterIo,
       Look, Keeps, MoveForegroundToBackground, Leaves, WaitBegins, WaitTakes,
       WaitReturns, WaitCancelled, PollBegins, PollDrains, PollReturns,
       PollCancelled, CallStops, StopReturns
  <2> QED BY <2>1, <2>2 DEF FreeInv
<1>2. CASE Batch
  BY <1>2 DEF Batch, FreeInv
<1>3. CASE Integrate
  BY <1>3 DEF Integrate, Free, FreeInv
<1>4. CASE UNCHANGED <<agent, calls>>
  BY <1>4 DEF FreeInv
<1> QED
  BY <1>1, <1>2, <1>3, <1>4
  DEF Next, Threads, World, Stops, IoLoop, vars, Writes, Ends, Interrupt,
      DrainActivities, PersonStops, IoRead, IoReap, TerminateGroup, MarkStopped,
      TakeStopped

\* Who holds a poll open, and what it has drained so far.
SamePolls ==
    \A i \in Calls : /\ OpenPoll(i)' <=> OpenPoll(i)
                     /\ OpenPoll(i) => /\ calls'[i].ids = calls[i].ids
                                       /\ calls'[i].got = calls[i].got

\* Only the steps of polls change who holds a poll open.
LEMMA PollsKept ==
    ASSUME Types, FreeInv,
           \/ Batch \/ Interrupt \/ Integrate \/ PersonStops \/ UNCHANGED vars
           \/ DrainActivities
           \/ \E c \in Command : Writes(c) \/ Ends(c) \/ IoRead(c) \/ IoReap(c)
           \/ \E s \in Stopper : TerminateGroup(s) \/ MarkStopped(s) \/ TakeStopped(s)
           \/ \E i \in Calls : \/ RunCall(i) \/ StopCall(i) \/ WaitBegins(i)
                               \/ WaitTakes(i) \/ WaitReturns(i) \/ WaitCancelled(i)
    PROVE  SamePolls
<1>a. calls \in [Calls -> CallType]
  BY DEF Types
<1>1. CASE UNCHANGED calls
  BY <1>1 DEF SamePolls, OpenPoll
<1>2. CASE Batch
  <2>1. \A i \in Calls : calls[i].step = "done" /\ calls'[i].step = "begin"
    BY <1>2 DEF Batch, FreeInv, Free
  <2> QED BY <2>1 DEF SamePolls, OpenPoll
<1>3. CASE Integrate
  <2>1. \A i \in Calls : calls[i].step = "done" /\ calls'[i].step = "done"
    BY <1>3 DEF Integrate, Free
  <2> QED BY <2>1 DEF SamePolls, OpenPoll
<1>4. ASSUME NEW i \in Calls, \A j \in Calls : j # i => calls'[j] = calls[j],
             ~OpenPoll(i), ~OpenPoll(i)'
      PROVE  SamePolls
  BY <1>4 DEF SamePolls, OpenPoll
<1>5. ASSUME NEW i \in Calls, RunCall(i) \/ StopCall(i) PROVE SamePolls
  <2>1. \A j \in Calls : j # i => calls'[j] = calls[j]
    BY <1>a, <1>5 DEF RunCall, StopCall, Cancelled, Reserve, Spawn, RegisterIo,
       Look, Keeps, MoveForegroundToBackground, Leaves, CallStops, StopReturns
  <2>2. calls[i].step # "open"
    BY <1>5 DEF RunCall, StopCall, Cancelled, Reserve, Spawn, RegisterIo,
       Look, Keeps, MoveForegroundToBackground, Leaves, CallStops, StopReturns, At
  <2>3. calls'[i].step # "open"
    <3>1. CASE Cancelled(i) \/ Reserve(i) \/ Spawn(i) \/ RegisterIo(i) \/ Look(i)
      BY <1>a, <3>1 DEF Cancelled, Reserve, Spawn, RegisterIo, Look, CallType
    <3>2. CASE \/ Keeps(i) \/ MoveForegroundToBackground(i) \/ Leaves(i)
               \/ CallStops(i) \/ StopReturns(i)
      BY <1>a, <3>2 DEF Keeps, MoveForegroundToBackground, Leaves, CallStops,
         StopReturns, CallType
    <3> QED BY <1>5, <3>1, <3>2 DEF RunCall, StopCall
  <2> QED BY <1>4, <2>1, <2>2, <2>3 DEF OpenPoll
<1>6. ASSUME NEW i \in Calls,
             WaitBegins(i) \/ WaitTakes(i) \/ WaitReturns(i) \/ WaitCancelled(i)
      PROVE  SamePolls
  <2>1. \A j \in Calls : j # i => calls'[j] = calls[j]
    BY <1>a, <1>6 DEF WaitBegins, WaitTakes, WaitReturns, WaitCancelled
  <2>2. calls[i].op = "wait"
    BY <1>6 DEF WaitBegins, WaitTakes, WaitReturns, WaitCancelled, At
  <2>3. calls'[i].op = "wait"
    <3>1. CASE WaitBegins(i) \/ WaitTakes(i)
      BY <1>a, <2>2, <3>1 DEF WaitBegins, WaitTakes, CallType
    <3>2. CASE WaitReturns(i) \/ WaitCancelled(i)
      <4>1. \E taken \in SUBSET Command : calls' = [calls EXCEPT ![i] = Over(i, taken)]
        <5>1. CASE WaitReturns(i)
          <6>1. calls[i].taken \in SUBSET Command
            BY <1>a DEF CallType
          <6> QED BY <5>1, <6>1 DEF WaitReturns
        <5>2. CASE WaitCancelled(i)
          BY <5>2 DEF WaitCancelled
        <5> QED BY <3>2, <5>1, <5>2
      <4>2. \A taken : Over(i, taken).op = calls[i].op
        BY DEF Over, Free
      <4> QED BY <1>a, <2>2, <4>1, <4>2
    <3> QED BY <1>6, <3>1, <3>2
  <2> QED BY <1>4, <2>1, <2>2, <2>3 DEF OpenPoll
<1> QED
  BY <1>1, <1>2, <1>3, <1>5, <1>6
  DEF Interrupt, PersonStops, vars, DrainActivities, Writes, Ends, IoRead, IoReap,
      TerminateGroup, MarkStopped, TakeStopped

\* What a poll does with the buffer.
LEMMA PollSteps ==
    ASSUME Types, PollInv, NEW i \in Calls
    PROVE  /\ PollBegins(i) => /\ out' = out /\ job' = job
                               /\ \/ SamePolls
                                  \/ \E c \in Command :
                                        /\ ~Interacting(c) /\ calls'[i].got = 0
                                        /\ calls'[i].ids = {c} /\ OpenPoll(i)'
                                        /\ ~OpenPoll(i)
           /\ PollDrains(i) => \E c \in Command :
                /\ job' = job /\ PollOn(i, c) /\ OpenPoll(i)'
                /\ out[c].unread > 0 /\ out' = [out EXCEPT ![c].unread = 0]
                /\ calls'[i].ids = calls[i].ids
                /\ calls'[i].got = calls[i].got + out[c].unread
           /\ PollReturns(i) \/ PollCancelled(i) => \E c \in Command :
                /\ job' = job /\ PollOn(i, c) /\ ~OpenPoll(i)'
                /\ \/ \E again \in BOOLEAN :
                        out' = [out EXCEPT ![c] = Polled(out[c], calls[i].got, again)]
                   \/ out' = [out EXCEPT ![c].lost = out[c].lost + calls[i].got]
<1>a. /\ calls \in [Calls -> CallType] /\ calls[i].ids \subseteq Command
  BY DEF Types, CallType
<1>1. ASSUME PollBegins(i)
      PROVE  /\ out' = out /\ job' = job
             /\ \/ SamePolls
                \/ \E c \in Command : /\ ~Interacting(c) /\ calls'[i].got = 0
                                      /\ calls'[i].ids = {c} /\ OpenPoll(i)'
                                      /\ ~OpenPoll(i)
  <2>1. /\ out' = out /\ job' = job /\ calls[i].op = "poll"
        /\ calls[i].step = "begin" /\ calls[i].got = 0
    BY <1>1 DEF PollBegins, At, PollInv
  <2>2. CASE calls' = [calls EXCEPT ![i].step = "done"]
    <3>1. calls'[i].step = "done" /\ \A j \in Calls : j # i => calls'[j] = calls[j]
      BY <1>a, <2>2 DEF CallType
    <3> QED BY <2>1, <3>1 DEF SamePolls, OpenPoll
  <2>3. ASSUME NEW c \in Command, ~Interacting(c),
               calls' = [calls EXCEPT ![i].ids = {c}, ![i].step = "open"]
        PROVE  /\ ~Interacting(c) /\ calls'[i].got = 0
               /\ calls'[i].ids = {c} /\ OpenPoll(i)' /\ ~OpenPoll(i)
    <3>1. /\ calls'[i].got = 0 /\ calls'[i].ids = {c}
          /\ calls'[i].op = "poll" /\ calls'[i].step = "open"
      BY <1>a, <2>1, <2>3 DEF CallType
    <3> QED BY <2>1, <2>3, <3>1 DEF OpenPoll
  <2>4. \/ calls' = [calls EXCEPT ![i].step = "done"]
        \/ \E c \in Command : /\ ~Interacting(c)
                              /\ calls' = [calls EXCEPT ![i].ids = {c},
                                                        ![i].step = "open"]
    BY <1>1 DEF PollBegins, In
  <2> QED BY <2>1, <2>2, <2>3, <2>4
<1>2. ASSUME PollDrains(i)
      PROVE  \E c \in Command :
                /\ job' = job /\ PollOn(i, c) /\ OpenPoll(i)'
                /\ out[c].unread > 0 /\ out' = [out EXCEPT ![c].unread = 0]
                /\ calls'[i].ids = calls[i].ids
                /\ calls'[i].got = calls[i].got + out[c].unread
  <2>1. PICK c \in calls[i].ids :
                /\ out[c].unread > 0 /\ out' = [out EXCEPT ![c].unread = 0]
                /\ calls' = [calls EXCEPT ![i].got = calls[i].got + out[c].unread]
    BY <1>2 DEF PollDrains
  <2>2. job' = job /\ OpenPoll(i) /\ c \in Command
    BY <1>a, <1>2 DEF PollDrains, At, OpenPoll
  <2>3. /\ calls'[i].op = calls[i].op /\ calls'[i].step = calls[i].step
        /\ calls'[i].ids = calls[i].ids
        /\ calls'[i].got = calls[i].got + out[c].unread
    BY <1>a, <2>1 DEF CallType
  <2> QED BY <2>1, <2>2, <2>3 DEF PollOn, OpenPoll
<1>3. ASSUME PollReturns(i) \/ PollCancelled(i)
      PROVE  \E c \in Command :
                /\ job' = job /\ PollOn(i, c) /\ ~OpenPoll(i)'
                /\ \/ \E again \in BOOLEAN :
                        out' = [out EXCEPT ![c] = Polled(out[c], calls[i].got, again)]
                   \/ out' = [out EXCEPT ![c].lost = out[c].lost + calls[i].got]
  <2>1. PICK c \in calls[i].ids :
                \/ \E again \in BOOLEAN :
                        out' = [out EXCEPT ![c] = Polled(out[c], calls[i].got, again)]
                \/ out' = [out EXCEPT ![c].lost = out[c].lost + calls[i].got]
    <3>1. \A c \in calls[i].ids : Replays(c, calls[i].got) \in BOOLEAN
      BY DEF Replays
    <3> QED BY <1>3, <3>1 DEF PollReturns, PollCancelled
  <2>2. job' = job /\ OpenPoll(i) /\ c \in Command /\ calls'[i].step = "done"
    BY <1>a, <1>3 DEF PollReturns, PollCancelled, At, OpenPoll, Over, Free
  <2> QED BY <2>1, <2>2 DEF PollOn, OpenPoll
<1> QED BY <1>1, <1>2, <1>3

\* A poll leaves the other calls alone.
LEMMA OthersKept ==
    ASSUME Types, NEW i \in Calls,
           PollBegins(i) \/ PollDrains(i) \/ PollReturns(i) \/ PollCancelled(i)
    PROVE  \A j \in Calls : j # i => calls'[j] = calls[j]
<1>a. calls \in [Calls -> CallType]
  BY DEF Types
<1> QED BY <1>a DEF PollBegins, PollDrains, PollReturns, PollCancelled

\* Output only moves from the buffer to a poll, and from both to what is given
\* or lost.
LEMMA AccountStep ==
    ASSUME Types, PlaceInv, PollInv, FreeInv, AccountInv, [Next]_vars
    PROVE  AccountInv'
<1>a. /\ out \in [Command -> OutType]
      /\ \A c \in Command : /\ out[c] \in OutType /\ AccountOf(c)
                            /\ out[c].read \in Nat /\ out[c].unread \in Nat
                            /\ out[c].given \in Nat /\ out[c].lost \in Nat
                            /\ out[c].carried \in Nat
      /\ \A i \in Calls : calls[i].ids \subseteq Command /\ calls[i].got \in Nat
  BY DEF Types, OutType, CallType, AccountInv
<1>b. \A c \in Command : Counted(c) \in Nat
  BY <1>a DEF Counted
\* What is out and what is in the buffer grow together with what was read.
<1>c. ASSUME SamePolls,
             \A c \in Command : /\ out'[c] \in OutType
                                /\ Counted(c)' + out[c].read = Counted(c) + out'[c].read
      PROVE  AccountInv'
  <2>1. ASSUME NEW c \in Command PROVE AccountOf(c)'
    <3>1. \A i \in Calls : PollOn(i, c)' <=> PollOn(i, c)
      BY <1>c DEF SamePolls, PollOn
    <3>2. \A i \in Calls : PollOn(i, c) => calls'[i].got = calls[i].got
      BY <1>c DEF SamePolls, PollOn
    <3>3. /\ Counted(c)' + out[c].read = Counted(c) + out'[c].read
          /\ out'[c].read \in Nat /\ Counted(c)' \in Nat
      BY <1>c DEF OutType, Counted
    <3>4. ASSUME \A i \in Calls : ~PollOn(i, c)' PROVE Counted(c)' = out'[c].read
      <4>1. Counted(c) = out[c].read
        BY <1>a, <3>1, <3>4 DEF AccountOf
      <4> QED BY <1>a, <1>b, <3>3, <4>1
    <3>5. ASSUME NEW i \in Calls, PollOn(i, c)'
          PROVE  Counted(c)' + calls'[i].got = out'[c].read
      <4>1. Counted(c) + calls[i].got = out[c].read /\ calls'[i].got = calls[i].got
        BY <1>a, <3>1, <3>2, <3>5 DEF AccountOf
      <4> QED BY <1>a, <1>b, <3>3, <4>1
    <3> QED BY <3>4, <3>5 DEF AccountOf
  <2> QED BY <2>1 DEF AccountInv
<1>d. ASSUME SamePolls, out' = out PROVE AccountInv'
  <2>1. \A c \in Command : Counted(c)' = Counted(c)
    BY <1>d DEF Counted
  <2> QED BY <1>a, <1>b, <1>c, <1>d, <2>1
\* A hand-over gives, carries, reports or drops, and loses no count.
<1>h. ASSUME NEW o \in OutType, NEW q \in {Drained(o), Carried(o), Reported(o), Dropped(o)}
      PROVE  /\ q \in OutType /\ q.read = o.read
             /\ q.given + q.carried + q.lost + q.unread
                    = o.given + o.carried + o.lost + o.unread
  <2>1. /\ o.given \in Nat /\ o.carried \in Nat /\ o.lost \in Nat /\ o.unread \in Nat
    BY DEF OutType
  <2>2. CASE q = Drained(o)
    BY <2>1, <2>2, DrainedFields, DrainedTyped
  <2>3. CASE q = Carried(o)
    BY <2>1, <2>3, CarriedFields
  <2>4. CASE q = Reported(o)
    BY <2>1, <2>4, ReportedFields
  <2>5. CASE q = Dropped(o)
    BY <2>1, <2>5, DroppedFields
  <2> QED BY <1>h, <2>2, <2>3, <2>4, <2>5
<1>e. ASSUME SamePolls,
             \A c \in Command : out'[c] \in {out[c], Drained(out[c]), Carried(out[c]),
                                           Reported(out[c]), Dropped(out[c])}
      PROVE  AccountInv'
  <2>1. ASSUME NEW c \in Command
        PROVE  /\ out'[c] \in OutType
               /\ Counted(c)' + out[c].read = Counted(c) + out'[c].read
    <3>1. CASE out'[c] = out[c]
      BY <1>a, <1>b, <3>1 DEF Counted
    <3>2. CASE out'[c] # out[c]
      <4>1. PICK q \in {Drained(out[c]), Carried(out[c]), Reported(out[c]),
                        Dropped(out[c])} : q = out'[c]
        BY <1>e, <3>2
      <4>2. /\ q \in OutType /\ q.read = out[c].read
            /\ q.given + q.carried + q.lost + q.unread = Counted(c)
        BY <1>a, <1>h, <4>1 DEF Counted
      <4>3. Counted(c)' = Counted(c) /\ out'[c].read = out[c].read
        BY <4>1, <4>2 DEF Counted
      <4> QED BY <4>1, <4>2, <4>3
    <3> QED BY <3>1, <3>2
  <2> QED BY <1>c, <1>e, <2>1
<1>1. ASSUME NEW c \in Command, IoRead(c) PROVE AccountInv'
  <2>1. out' = [out EXCEPT ![c] =
                    [out[c] EXCEPT !.unread = out[c].unread + proc[c].written
                                                            - out[c].read,
                                   !.read = proc[c].written]]
    BY <1>a, <1>1 DEF IoRead
  <2>2. /\ out'[c].read = proc[c].written /\ out'[c].given = out[c].given
        /\ out'[c].lost = out[c].lost /\ out'[c].carried = out[c].carried
        /\ out'[c].unread = out[c].unread + proc[c].written - out[c].read
        /\ \A d \in Command : d # c => out'[d] = out[d]
    BY <1>a, <2>1 DEF OutType
  <2>3. proc[c].written \in Nat /\ \A d \in Command : out'[d] \in OutType
    BY OutputTyped DEF Types, ProcType
  <2>4. Counted(c)' + out[c].read = Counted(c) + out'[c].read
    BY <1>a, <2>2, <2>3 DEF Counted
  <2>5. \A d \in Command : d # c => Counted(d)' = Counted(d)
    BY <2>2 DEF Counted
  <2>6. SamePolls
    BY <1>1, PollsKept
  <2>7. ASSUME NEW d \in Command
        PROVE  Counted(d)' + out[d].read = Counted(d) + out'[d].read
    BY <1>b, <2>2, <2>4, <2>5
  <2> QED BY <1>c, <2>3, <2>6, <2>7
<1>2. CASE DrainActivities
  <2>1. out' = [c \in Command |-> IF c \in {d \in Command : Complete(d)}
                                  THEN Drained(out[c]) ELSE out[c]]
    BY <1>2 DEF DrainActivities
  <2>2. SamePolls
    BY <1>2, PollsKept
  <2> QED BY <1>e, <2>1, <2>2
<1>3. ASSUME NEW i \in Calls,
             WaitTakes(i) \/ Leaves(i) \/ WaitReturns(i) \/ WaitCancelled(i)
      PROVE  AccountInv'
  <2>1. SamePolls
    BY <1>3, PollsKept DEF RunCall
  <2>2. CASE WaitTakes(i)
    <3>1. PICK c \in calls[i].ids : out' = [out EXCEPT ![c] = Carried(out[c])]
      BY <2>2 DEF WaitTakes
    <3>2. \A d \in Command : out'[d] = Carried(out[d]) \/ out'[d] = out[d]
      BY <1>a, <3>1
    <3> QED BY <1>e, <2>1, <3>2
  <2>3. CASE Leaves(i)
    <3>1. PICK c \in calls[i].ids : out' = [out EXCEPT ![c] = Drained(out[c])]
      BY <2>3 DEF Leaves
    <3>2. \A d \in Command : out'[d] = Drained(out[d]) \/ out'[d] = out[d]
      BY <1>a, <3>1
    <3> QED BY <1>e, <2>1, <3>2
  <2>4. CASE WaitReturns(i)
    <3>1. \A d \in Command : out'[d] = Reported(out[d]) \/ out'[d] = out[d]
      BY <2>4 DEF WaitReturns
    <3> QED BY <1>e, <2>1, <3>1
  <2>5. CASE WaitCancelled(i)
    <3>1. \A d \in Command : out'[d] = Dropped(out[d]) \/ out'[d] = out[d]
      BY <2>5 DEF WaitCancelled
    <3> QED BY <1>e, <2>1, <3>1
  <2> QED BY <1>3, <2>2, <2>3, <2>4, <2>5
<1>4. ASSUME NEW i \in Calls, Keeps(i) PROVE AccountInv'
  <2>1. PICK c \in calls[i].ids : out' = [out EXCEPT ![c] = NoOutput]
    BY <1>4 DEF Keeps
  <2>2. InHand(i) /\ c \in Command
    BY <1>a, <1>4 DEF Keeps, InHand
  <2>3. \A j \in Calls : ~PollOn(j, c)
    BY <2>2 DEF PlaceInv, PollInv
  <2>4. /\ out'[c] = NoOutput /\ \A d \in Command : d # c => out'[d] = out[d]
    BY <1>a, <2>1, <2>2
  <2>5. Counted(c) = out[c].read
    BY <1>a, <2>2, <2>3 DEF AccountOf
  <2>6. /\ NoOutput \in OutType /\ NoOutput.read = 0 /\ NoOutput.given = 0
        /\ NoOutput.lost = 0 /\ NoOutput.unread = 0 /\ NoOutput.carried = 0
    BY DEF NoOutput, OutType
  <2>7. ASSUME NEW d \in Command
        PROVE  /\ out'[d] \in OutType
               /\ Counted(d)' + out[d].read = Counted(d) + out'[d].read
    <3>1. CASE d = c
      BY <1>a, <2>4, <2>5, <2>6, <3>1 DEF Counted
    <3>2. CASE d # c
      BY <1>a, <2>4, <3>2 DEF Counted
    <3> QED BY <3>1, <3>2
  <2>8. SamePolls
    BY <1>4, PollsKept DEF RunCall
  <2> QED BY <1>c, <2>7, <2>8
\* A poll that opens, drains or closes changes the account of one command.
<1>f. ASSUME NEW i \in Calls, NEW c \in Command, AccountOf(c)',
             \A d \in Command : d # c => out'[d] = out[d],
             \A d \in Command : PollOn(i, d) \/ PollOn(i, d)' => d = c,
             \A j \in Calls : j # i => calls'[j] = calls[j]
      PROVE  AccountInv'
  <2>1. ASSUME NEW d \in Command, d # c PROVE AccountOf(d)'
    <3>1. out'[d] = out[d] /\ Counted(d)' = Counted(d)
      BY <1>f, <2>1 DEF Counted
    <3>2. \A j \in Calls : PollOn(j, d)' <=> PollOn(j, d)
      BY <1>f, <2>1 DEF PollOn, OpenPoll
    <3>3. \A j \in Calls : PollOn(j, d) => calls'[j] = calls[j]
      BY <1>f, <2>1
    <3> QED BY <1>a, <2>1, <3>1, <3>2, <3>3 DEF AccountOf
  <2> QED BY <1>f, <2>1 DEF AccountInv
<1>5. ASSUME NEW i \in Calls, PollBegins(i) PROVE AccountInv'
  <2>1. out' = out /\ \A j \in Calls : j # i => calls'[j] = calls[j]
    BY <1>5, PollSteps, OthersKept
  <2>2. CASE SamePolls
    BY <1>d, <2>1, <2>2
  <2>3. ASSUME NEW c \in Command, ~Interacting(c), calls'[i].got = 0,
               calls'[i].ids = {c}, OpenPoll(i)', ~OpenPoll(i)
        PROVE  AccountInv'
    <3>1. \A j \in Calls : ~PollOn(j, c)
      BY <2>3 DEF Interacting, PollOn, OpenPoll
    <3>2. Counted(c) = out[c].read /\ Counted(c)' = Counted(c)
      BY <1>a, <2>1, <3>1 DEF AccountOf, Counted
    <3>3. \A j \in Calls : PollOn(j, c)' => j = i
      BY <2>1, <3>1 DEF PollOn, OpenPoll
    <3>4. PollOn(i, c)'
      BY <2>3 DEF PollOn
    <3>5. AccountOf(c)'
      BY <1>a, <1>b, <2>1, <2>3, <3>2, <3>3, <3>4 DEF AccountOf
    <3>6. \A d \in Command : PollOn(i, d) \/ PollOn(i, d)' => d = c
      BY <2>3 DEF PollOn
    <3> QED BY <1>f, <2>1, <3>5, <3>6
  <2> QED BY <1>5, <2>2, <2>3, PollSteps
<1>6. ASSUME NEW i \in Calls, PollDrains(i) PROVE AccountInv'
  <2>1. PICK c \in Command :
                /\ PollOn(i, c) /\ OpenPoll(i)'
                /\ out' = [out EXCEPT ![c].unread = 0]
                /\ calls'[i].ids = calls[i].ids
                /\ calls'[i].got = calls[i].got + out[c].unread
    BY <1>6, PollSteps
  <2>2. \A j \in Calls : j # i => calls'[j] = calls[j]
    BY <1>6, OthersKept
  <2>3. calls[i].ids = {c} /\ \A j \in Calls : PollOn(j, c) => j = i
    BY <2>1 DEF PollInv
  <2>4. /\ out'[c].read = out[c].read /\ out'[c].given = out[c].given
        /\ out'[c].lost = out[c].lost /\ out'[c].unread = 0
        /\ out'[c].carried = out[c].carried
        /\ \A d \in Command : d # c => out'[d] = out[d]
    BY <1>a, <2>1 DEF OutType
  <2>5. Counted(c) + calls[i].got = out[c].read
    BY <1>a, <2>1 DEF AccountOf
  <2>6. Counted(c)' + calls'[i].got = out'[c].read
    BY <1>a, <2>1, <2>4, <2>5 DEF Counted
  <2>7. PollOn(i, c)' /\ \A j \in Calls : PollOn(j, c)' => j = i
    BY <2>1, <2>2, <2>3 DEF PollOn, OpenPoll
  <2>8. AccountOf(c)'
    BY <2>6, <2>7 DEF AccountOf
  <2>9. \A d \in Command : PollOn(i, d) \/ PollOn(i, d)' => d = c
    BY <2>1, <2>3 DEF PollOn
  <2> QED BY <1>f, <2>2, <2>4, <2>8, <2>9
<1>7. ASSUME NEW i \in Calls, PollReturns(i) \/ PollCancelled(i) PROVE AccountInv'
  <2>1. PICK c \in Command :
                /\ PollOn(i, c) /\ ~OpenPoll(i)'
                /\ \/ \E again \in BOOLEAN :
                        out' = [out EXCEPT ![c] = Polled(out[c], calls[i].got, again)]
                   \/ out' = [out EXCEPT ![c].lost = out[c].lost + calls[i].got]
    BY <1>7, PollSteps
  <2>2. \A j \in Calls : j # i => calls'[j] = calls[j]
    BY <1>7, OthersKept
  <2>3. calls[i].ids = {c} /\ \A j \in Calls : PollOn(j, c) => j = i
    BY <2>1 DEF PollInv
  <2>4. /\ out'[c].read = out[c].read /\ out'[c].unread = out[c].unread
        /\ out'[c].carried = out[c].carried
        /\ out'[c].given + out'[c].lost = out[c].given + out[c].lost + calls[i].got
        /\ \A d \in Command : d # c => out'[d] = out[d]
    <3>1. ASSUME NEW again \in BOOLEAN,
                 out' = [out EXCEPT ![c] = Polled(out[c], calls[i].got, again)]
          PROVE  /\ out'[c].read = out[c].read /\ out'[c].unread = out[c].unread
                 /\ out'[c].carried = out[c].carried
                 /\ out'[c].given + out'[c].lost
                        = out[c].given + out[c].lost + calls[i].got
                 /\ \A d \in Command : d # c => out'[d] = out[d]
      <4>a. calls[i].got \in Nat /\ out[c] \in OutType
        BY <1>a
      <4>1. PICK q \in OutType :
                /\ q = Polled(out[c], calls[i].got, again)
                /\ q.read = out[c].read /\ q.unread = out[c].unread
                /\ q.carried = out[c].carried /\ q.lost = out[c].lost
                /\ q.given = out[c].given + calls[i].got
        BY <4>a, PolledFields
      <4>b. out'[c] = q
        BY <1>a, <3>1, <4>1
      <4>2. /\ out'[c].read = out[c].read /\ out'[c].unread = out[c].unread
            /\ out'[c].carried = out[c].carried
            /\ out'[c].given = out[c].given + calls[i].got
            /\ out'[c].lost = out[c].lost
        BY <4>1, <4>b
      <4>3. \A d \in Command : d # c => out'[d] = out[d]
        BY <1>a, <3>1
      <4> QED BY <1>a, <4>2, <4>3
    <3>2. CASE out' = [out EXCEPT ![c].lost = out[c].lost + calls[i].got]
      <4>1. /\ out'[c].read = out[c].read /\ out'[c].unread = out[c].unread
            /\ out'[c].lost = out[c].lost + calls[i].got
            /\ out'[c].given = out[c].given /\ out'[c].carried = out[c].carried
            /\ \A d \in Command : d # c => out'[d] = out[d]
        BY <1>a, <3>2 DEF OutType
      <4> QED BY <1>a, <4>1
    <3> QED BY <2>1, <3>1, <3>2
  <2>5. Counted(c) + calls[i].got = out[c].read
    BY <1>a, <2>1 DEF AccountOf
  <2>6. out'[c].given \in Nat /\ out'[c].lost \in Nat
    BY OutputTyped DEF OutType
  <2>7. Counted(c)' = out'[c].read
    BY <1>a, <2>4, <2>5, <2>6 DEF Counted
  <2>8. \A j \in Calls : ~PollOn(j, c)'
    BY <2>1, <2>2, <2>3 DEF PollOn, OpenPoll
  <2>9. AccountOf(c)'
    BY <2>7, <2>8 DEF AccountOf
  <2>10. \A d \in Command : PollOn(i, d) \/ PollOn(i, d)' => d = c
    BY <2>1, <2>3 DEF PollOn
  <2> QED BY <1>f, <2>2, <2>4, <2>9, <2>10
<1>8. ASSUME \/ Batch \/ Interrupt \/ Integrate \/ PersonStops \/ UNCHANGED vars
             \/ \E c \in Command : Writes(c) \/ Ends(c) \/ IoReap(c)
             \/ \E s \in Stopper : TerminateGroup(s) \/ MarkStopped(s) \/ TakeStopped(s)
             \/ \E i \in Calls : \/ Cancelled(i) \/ Reserve(i) \/ Spawn(i)
                                 \/ RegisterIo(i) \/ Look(i) \/ StopCall(i)
                                 \/ MoveForegroundToBackground(i) \/ WaitBegins(i)
      PROVE  AccountInv'
  <2>1. out' = out
    BY <1>8 DEF Batch, Interrupt, Integrate, PersonStops, vars, Writes, Ends, IoReap,
       TerminateGroup, MarkStopped, TakeStopped, Cancelled, Reserve, Spawn,
       RegisterIo, Look, StopCall, CallStops, StopReturns,
       MoveForegroundToBackground, WaitBegins
  <2>2. SamePolls
    BY <1>8, PollsKept DEF RunCall
  <2> QED BY <1>d, <2>1, <2>2
<1> QED
  BY <1>1, <1>2, <1>3, <1>4, <1>5, <1>6, <1>7, <1>8
  DEF Next, Threads, World, RunCall, ReadCall, Stops, IoLoop
-----------------------------------------------------------------------------
\* Only the agent and a wait deliver the end of a command, with its output.
LEMMA DeliveredSteps ==
    ASSUME Types, StopInv, ReadInv, [Next]_vars,
           NEW c \in Command, job'[c].state = "delivered"
    PROVE  \/ job[c].state = "delivered"
           \/ DrainActivities /\ Complete(c)
           \/ \E i \in Calls : /\ WaitTakes(i) /\ Complete(c)
                               /\ out' = [out EXCEPT ![c] = Carried(out[c])]
<1>a. /\ job \in [Command -> JobType] /\ job[c] \in JobType
      /\ \A i \in Calls : calls[i].ids \subseteq Command
      /\ \A s \in Stopper : stop[s].ids \subseteq Command
  BY DEF Types, CallType, StopType
<1>1. CASE job'[c].state = job[c].state
  BY <1>1
<1>2. CASE DrainActivities
  <2>1. job' = [d \in Command |-> IF d \in {e \in Command : Complete(e)}
                                  THEN Taken(job[d]) ELSE job[d]]
    BY <1>2 DEF DrainActivities
  <2>2. CASE Complete(c)
    BY <1>2, <2>2
  <2>3. CASE ~Complete(c)
    BY <2>1, <2>3
  <2> QED BY <2>2, <2>3
<1>3. ASSUME NEW i \in Calls, WaitTakes(i)
      PROVE  \/ job[c].state = "delivered"
             \/ /\ Complete(c) /\ out' = [out EXCEPT ![c] = Carried(out[c])]
  <2>1. PICK d \in calls[i].ids : /\ Complete(d)
                                  /\ job' = [job EXCEPT ![d] = Taken(job[d])]
                                  /\ out' = [out EXCEPT ![d] = Carried(out[d])]
    BY <1>3 DEF WaitTakes
  <2>2. d # c => job'[c] = job[c]
    BY <1>a, <2>1
  <2> QED BY <2>1, <2>2
<1>4. ASSUME NEW s \in Stopper, TakeStopped(s) PROVE job'[c].state = job[c].state
  <2>1. \/ job' = job
        \/ \E d \in stop[s].ids : /\ Takeable(d) /\ stop[s].step # "idle"
                                  /\ job' = [job EXCEPT ![d] = Taken(job[d])]
    BY <1>4 DEF TakeStopped
  <2>2. ASSUME NEW d \in stop[s].ids, Takeable(d), stop[s].step # "idle",
               job' = [job EXCEPT ![d] = Taken(job[d])]
        PROVE  job'[c].state = job[c].state
    <3>1. job[d].stopping /\ d \in Command
      BY <1>a, <2>2 DEF StopInv
    <3>2. job[d].state = "stopped"
      <4>1. job[d].state \notin {"drained", "delivered"}
        BY <3>1 DEF ReadInv, ReadOf
      <4> QED BY <2>2, <4>1 DEF Takeable, Allowed
    <3>3. Taken(job[d]).state = job[d].state
      BY <1>a, <3>1, <3>2, TakenFields
    <3> QED BY <1>a, <2>2, <3>1, <3>3
  <2> QED BY <2>1, <2>2
<1>5. ASSUME NEW d \in Command, IoRead(d) \/ IoReap(d)
      PROVE  job[c].state = "delivered"
  <2>1. CASE IoRead(d)
    <3>1. job'[c].state = job[c].state \/ job'[c].state = "running"
      BY <1>a, <2>1 DEF IoRead, Moved, JobType
    <3> QED BY <3>1
  <2>2. CASE IoReap(d)
    <3>1. job'[c].state \in {job[c].state, "exited", "stopped", "drained"}
      BY <1>a, <2>2 DEF IoReap, Moved, JobType
    <3> QED BY <3>1
  <2> QED BY <1>5, <2>1, <2>2
<1>6. ASSUME NEW s \in Stopper, NEW d \in Command, Request(s, d)
      PROVE  job'[c].state = job[c].state
  <2>1. job' = job \/ job' = [job EXCEPT ![d].stopping = TRUE]
    BY <1>6 DEF Request
  <2> QED BY <1>a, <2>1 DEF JobType
<1>7. CASE PersonStops
  BY <1>1, <1>6, <1>7 DEF PersonStops, Stopper
<1>8. ASSUME NEW i \in Calls, CallStops(i) PROVE job'[c].state = job[c].state
  BY <1>a, <1>6, <1>8 DEF CallStops, Stopper
<1>9. ASSUME NEW s \in Stopper, MarkStopped(s)
      PROVE  job'[c].state \in {job[c].state, "stopped"}
  <2>1. \E d \in stop[s].ids :
            job' = [job EXCEPT ![d].state = Moved(job[d].state, "stopped")]
    BY <1>a, <1>9 DEF MarkStopped
  <2> QED BY <1>a, <2>1 DEF Moved, JobType
<1>10. ASSUME NEW i \in Calls, RegisterIo(i)
       PROVE  job'[c].state \in {job[c].state, "running"}
  <2>1. \E d \in calls[i].ids :
            job' = [job EXCEPT ![d].state = Moved(job[d].state, "running")]
    BY <1>a, <1>10 DEF RegisterIo
  <2> QED BY <1>a, <2>1 DEF Moved, JobType
<1>11. ASSUME NEW i \in Calls,
              \/ Reserve(i) \/ Spawn(i) \/ MoveForegroundToBackground(i) \/ Keeps(i)
       PROVE  job'[c].state = job[c].state
  <2>1. job' = job \/ \E d \in Command : \E to \in Place :
                                job' = [job EXCEPT ![d].place = to]
    BY <1>a, <1>11 DEF Reserve, Spawn, MoveForegroundToBackground, Keeps, In, Place
  <2> QED BY <1>a, <2>1 DEF JobType
<1>12. CASE job' = job
  BY <1>1, <1>12
<1> QED
  BY <1>1, <1>2, <1>3, <1>4, <1>5, <1>7, <1>8, <1>9, <1>10, <1>11, <1>12
  DEF Next, Threads, World, RunCall, ReadCall, StopCall, Stops, IoLoop, vars,
      Writes, Ends, Batch, Interrupt, Integrate, Cancelled, Look, Leaves,
      TerminateGroup, WaitBegins, WaitReturns, WaitCancelled, PollBegins,
      PollDrains, PollReturns, PollCancelled, StopReturns

\* An empty buffer fills again only while the I/O thread reads.
LEMMA UnreadSteps ==
    ASSUME Types, PollInv, [Next]_vars, NEW c \in Command,
           out[c].unread = 0, io[c] # "read"
    PROVE  out'[c].unread = 0
<1>a. /\ out \in [Command -> OutType] /\ out[c] \in OutType
      /\ \A i \in Calls : calls[i].ids \subseteq Command
  BY DEF Types, CallType
<1>1. CASE out' = out
  BY <1>1
<1>2. ASSUME NEW d \in Command, IoRead(d) PROVE out'[c].unread = 0
  <2>1. d # c
    BY <1>2 DEF IoRead
  <2>2. out'[c] = out[c]
    BY <1>a, <1>2, <2>1 DEF IoRead
  <2> QED BY <2>2
<1>3. CASE DrainActivities
  <2>1. out' = [d \in Command |-> IF d \in {e \in Command : Complete(e)}
                                  THEN Drained(out[d]) ELSE out[d]]
    BY <1>3 DEF DrainActivities
  <2> QED BY <1>a, <2>1, DrainedFields
<1>4. ASSUME NEW i \in Calls,
             WaitTakes(i) \/ Leaves(i) \/ WaitReturns(i) \/ WaitCancelled(i)
      PROVE  out'[c].unread = 0
  <2>1. out'[c] \in {out[c], Drained(out[c]), Carried(out[c]), Reported(out[c]),
                    Dropped(out[c])}
    <3>1. CASE WaitTakes(i)
      BY <1>a, <3>1 DEF WaitTakes
    <3>2. CASE Leaves(i)
      BY <1>a, <3>2 DEF Leaves
    <3>3. CASE WaitReturns(i) \/ WaitCancelled(i)
      BY <3>3 DEF WaitReturns, WaitCancelled
    <3> QED BY <1>4, <3>1, <3>2, <3>3
  <2> QED BY <1>a, <2>1, DrainedFields, CarriedFields, ReportedFields,
     DroppedFields
<1>5. ASSUME NEW i \in Calls, Keeps(i) PROVE out'[c].unread = 0
  <2>1. \E d \in calls[i].ids : out' = [out EXCEPT ![d] = NoOutput]
    BY <1>5 DEF Keeps
  <2> QED BY <1>a, <2>1 DEF NoOutput
<1>6. ASSUME NEW i \in Calls,
             PollBegins(i) \/ PollDrains(i) \/ PollReturns(i) \/ PollCancelled(i)
      PROVE  out'[c].unread = 0
  <2>1. CASE PollBegins(i)
    BY <2>1 DEF PollBegins
  <2>2. CASE PollDrains(i) \/ PollReturns(i) \/ PollCancelled(i)
    <3>1. PICK d \in calls[i].ids : PollOuts(i, d)
      BY <2>2, PollOutsOf
    <3>2. d \in Command /\ calls[i].got \in Nat
      BY DEF Types, CallType
    <3> QED BY <1>a, <3>1, <3>2, PollOutsFields
  <2> QED BY <1>6, <2>1, <2>2
<1> QED
  BY <1>1, <1>2, <1>3, <1>4, <1>5, <1>6
  DEF Next, Threads, World, RunCall, ReadCall, StopCall, Stops, IoLoop, vars,
      Writes, Ends, IoReap, Batch, Interrupt, Integrate, PersonStops, Cancelled,
      Reserve, Spawn, RegisterIo, Look, MoveForegroundToBackground, WaitBegins,
      CallStops, StopReturns, TerminateGroup, MarkStopped, TakeStopped

\* A delivered command's buffer is empty: its I/O is over, and a poll that was
\* open would have kept its end from being taken.
LEMMA GivenStep ==
    ASSUME Types, PollInv, FreeInv, ReadInv, StopInv, GivenInv, [Next]_vars
    PROVE  GivenInv'
<1>a. /\ out \in [Command -> OutType]
      /\ \A i \in Calls : calls[i].ids \subseteq Command
  BY DEF Types, CallType
<1> SUFFICES ASSUME NEW c \in Command, job'[c].state = "delivered"
             PROVE  /\ out'[c].unread = 0
                    /\ \A i \in Calls : PollOn(i, c)' => calls'[i].got = 0
  BY DEF GivenInv
<1>1. CASE Complete(c) /\ DrainActivities
  <2>1. out'[c] = Drained(out[c])
    BY <1>1 DEF DrainActivities
  <2>2. SamePolls
    BY <1>1, PollsKept
  <2>3. \A i \in Calls : ~PollOn(i, c)'
    BY <1>1, <2>2 DEF SamePolls, PollOn, OpenPoll, Complete, Interacting
  <2> QED BY <1>a, <2>1, <2>3, DrainedFields
<1>2. ASSUME NEW i \in Calls, WaitTakes(i), Complete(c),
             out' = [out EXCEPT ![c] = Carried(out[c])]
      PROVE  /\ out'[c].unread = 0
             /\ \A j \in Calls : PollOn(j, c)' => calls'[j].got = 0
  <2>1. SamePolls
    BY <1>2, PollsKept
  <2>2. \A j \in Calls : ~PollOn(j, c)'
    BY <1>2, <2>1 DEF SamePolls, PollOn, OpenPoll, Complete, Interacting
  <2> QED BY <1>a, <1>2, <2>2, CarriedFields
<1>3. CASE job[c].state = "delivered"
  <2>a. /\ out[c].unread = 0 /\ io[c] # "read"
        /\ \A i \in Calls : PollOn(i, c) => calls[i].got = 0
    BY <1>3 DEF GivenInv, ReadInv, ReadOf
  <2>1. out'[c].unread = 0
    BY <2>a, UnreadSteps
  <2>2. CASE SamePolls
    BY <2>1, <2>a, <2>2 DEF SamePolls, PollOn
  <2>3. ASSUME NEW i \in Calls,
               PollBegins(i) \/ PollDrains(i) \/ PollReturns(i) \/ PollCancelled(i)
        PROVE  \A j \in Calls : PollOn(j, c)' => calls'[j].got = 0
    <3>1. \A j \in Calls : j # i => calls'[j] = calls[j]
      BY <2>3, OthersKept
    <3>2. CASE SamePolls
      BY <2>a, <3>2 DEF SamePolls, PollOn
    <3>3. ASSUME PollOn(i, c)', ~SamePolls PROVE calls'[i].got = 0
      <4>1. CASE PollBegins(i)
        BY <3>3, <4>1, PollSteps
      <4>2. CASE PollDrains(i)
        <5>1. PICK d \in Command : /\ PollOn(i, d) /\ out[d].unread > 0
                                   /\ calls'[i].ids = calls[i].ids
          BY <4>2, PollSteps
        <5>2. c = d
          BY <3>3, <5>1 DEF PollOn, PollInv
        <5> QED BY <2>a, <5>1, <5>2
      <4>3. CASE PollReturns(i) \/ PollCancelled(i)
        BY <3>3, <4>3, PollSteps DEF PollOn
      <4> QED BY <2>3, <4>1, <4>2, <4>3
    <3>4. ASSUME NEW j \in Calls, j # i, PollOn(j, c)' PROVE calls'[j].got = 0
      BY <2>a, <3>1, <3>4 DEF PollOn, OpenPoll
    <3> QED BY <3>2, <3>3, <3>4
  <2>4. SamePolls \/ \E i \in Calls :
            PollBegins(i) \/ PollDrains(i) \/ PollReturns(i) \/ PollCancelled(i)
    BY PollsKept DEF Next, Threads, World, ReadCall, Stops, IoLoop
  <2> QED BY <2>1, <2>2, <2>3, <2>4
<1> QED BY <1>1, <1>2, <1>3, DeliveredSteps
-----------------------------------------------------------------------------
\* An open wait keeps what it took until it returns or is interrupted.
LEMMA WaitsKept ==
    ASSUME Types, FreeInv, [Next]_vars, NEW i \in Calls, OpenWait(i)
    PROVE  \/ OpenWait(i)' /\ calls[i].taken \subseteq calls'[i].taken
           \/ WaitReturns(i) \/ WaitCancelled(i)
<1>a. calls \in [Calls -> CallType] /\ calls[i].op = "wait" /\ calls[i].step = "open"
  BY DEF Types, OpenWait
<1>1. CASE calls' = calls
  BY <1>1 DEF OpenWait
<1>2. CASE Batch \/ Integrate
  BY <1>2, <1>a DEF Batch, Integrate, FreeInv
<1>3. ASSUME NEW j \in Calls, RunCall(j) \/ ReadCall(j) \/ StopCall(j), j # i
      PROVE  calls'[i] = calls[i]
  <2>1. CASE RunCall(j)
    BY <1>a, <1>3, <2>1 DEF RunCall, Cancelled, Reserve, Spawn, RegisterIo, Look,
       Keeps, MoveForegroundToBackground, Leaves
  <2>2. CASE ReadCall(j)
    BY <1>a, <1>3, <2>2 DEF ReadCall, WaitBegins, WaitTakes, WaitReturns,
       WaitCancelled, PollBegins, PollDrains, PollReturns, PollCancelled
  <2>3. CASE StopCall(j)
    BY <1>a, <1>3, <2>3 DEF StopCall, CallStops, StopReturns
  <2> QED BY <1>3, <2>1, <2>2, <2>3
<1>4. CASE WaitTakes(i)
  <2>1. PICK c \in calls[i].ids :
            calls' = [calls EXCEPT ![i].taken = calls[i].taken \cup {c}]
    BY <1>4 DEF WaitTakes
  <2> QED BY <1>a, <2>1 DEF OpenWait, CallType
<1>5. ASSUME RunCall(i) \/ StopCall(i) \/ WaitBegins(i) \/ PollBegins(i)
             \/ PollDrains(i) \/ PollReturns(i) \/ PollCancelled(i)
      PROVE  FALSE
  BY <1>a, <1>5 DEF RunCall, Cancelled, Reserve, Spawn, RegisterIo, Look, Keeps,
     MoveForegroundToBackground, Leaves, StopCall, CallStops, StopReturns,
     WaitBegins, PollBegins, PollDrains, PollReturns, PollCancelled, At
<1>6. \/ calls' = calls \/ Batch \/ Integrate
      \/ \E j \in Calls : RunCall(j) \/ ReadCall(j) \/ StopCall(j)
  BY DEF Next, Threads, World, Stops, IoLoop, vars, Interrupt, PersonStops,
     DrainActivities, Writes, Ends, IoRead, IoReap, TerminateGroup, MarkStopped,
     TakeStopped
<1> QED BY <1>1, <1>2, <1>3, <1>4, <1>5, <1>6 DEF ReadCall, OpenWait

\* Only a wait begins to carry output, only a command whose end was taken is
\* given again, and only what an interrupt ends throws output away.
LEMMA OutSteps ==
    ASSUME Types, [Next]_vars, NEW c \in Command
    PROVE  /\ out'[c].carried > 0 =>
                \/ out[c].carried > 0
                   /\ \A i \in Calls : WaitReturns(i) \/ WaitCancelled(i)
                                        => c \notin calls[i].taken
                \/ \E i \in Calls : Carries(i, c)'
           /\ out'[c].replayed => out[c].replayed \/ job[c].state = "delivered"
           /\ out'[c].lost > 0 => out[c].lost > 0 \/ abort
<1>a. /\ out \in [Command -> OutType] /\ out[c] \in OutType
      /\ calls \in [Calls -> CallType]
      /\ \A i \in Calls : calls[i].ids \subseteq Command /\ calls[i].got \in Nat
  BY DEF Types, CallType
<1> DEFINE Still == /\ out'[c].carried = out[c].carried
                    /\ out'[c].replayed => out[c].replayed
                    /\ out'[c].lost = out[c].lost
           Effects == /\ out'[c].carried > 0 =>
                            out[c].carried > 0 \/ \E i \in Calls : Carries(i, c)'
                      /\ out'[c].replayed =>
                            out[c].replayed \/ job[c].state = "delivered"
                      /\ out'[c].lost > 0 => out[c].lost > 0 \/ abort
<1>b. Still => Effects
  OBVIOUS
<1>1. ASSUME out' = out PROVE Effects
  BY <1>1
<1>2. ASSUME NEW d \in Command, IoRead(d) PROVE Still
  <2>1. out' = [out EXCEPT ![d] =
                    [out[d] EXCEPT !.unread = out[d].unread + proc[d].written
                                                            - out[d].read,
                                   !.read = proc[d].written]]
    BY <1>a, <1>2 DEF IoRead
  <2>2. CASE d = c
    <3>1. out'[c] = [out[c] EXCEPT !.unread = out[c].unread + proc[c].written
                                                            - out[c].read,
                                   !.read = proc[c].written]
      BY <1>a, <2>1, <2>2
    <3> QED BY <1>a, <3>1 DEF OutType
  <2>3. CASE d # c
    <3>1. out'[c] = out[c]
      BY <1>a, <2>1, <2>3
    <3> QED BY <3>1
  <2> QED BY <2>2, <2>3
<1>3. ASSUME DrainActivities PROVE Still
  <2>1. out'[c] = Drained(out[c]) \/ out'[c] = out[c]
    BY <1>3 DEF DrainActivities
  <2> QED BY <1>a, <2>1, DrainedFields
<1>4. ASSUME NEW i \in Calls, Leaves(i) PROVE Still
  <2>1. out'[c] = Drained(out[c]) \/ out'[c] = out[c]
    BY <1>a, <1>4 DEF Leaves
  <2> QED BY <1>a, <2>1, DrainedFields
<1>5. ASSUME NEW i \in Calls, Keeps(i) PROVE Effects
  <2>1. out'[c] = NoOutput \/ out'[c] = out[c]
    BY <1>a, <1>5 DEF Keeps
  <2>2. CASE out'[c] = NoOutput
    BY <2>2 DEF NoOutput
  <2> QED BY <2>1, <2>2
<1>6. ASSUME NEW i \in Calls, WaitTakes(i) PROVE Effects
  <2>1. PICK d \in calls[i].ids :
            /\ out' = [out EXCEPT ![d] = Carried(out[d])]
            /\ calls' = [calls EXCEPT ![i].taken = calls[i].taken \cup {d}]
    BY <1>6 DEF WaitTakes
  <2>2. calls[i].op = "wait" /\ calls[i].step = "open"
    BY <1>6 DEF WaitTakes, At
  <2>3. /\ calls'[i].op = "wait" /\ calls'[i].step = "open"
        /\ calls'[i].taken = calls[i].taken \cup {d}
    BY <1>a, <2>1, <2>2 DEF CallType
  <2>4. CASE d = c
    <3>1. Carries(i, c)'
      BY <2>3, <2>4 DEF Carries, OpenWait
    <3>2. out'[c] = Carried(out[c])
      BY <1>a, <2>1, <2>4
    <3> QED BY <1>a, <3>1, <3>2, CarriedFields
  <2>5. CASE d # c
    <3>1. out'[c] = out[c]
      BY <1>a, <2>1, <2>5
    <3> QED BY <3>1
  <2> QED BY <2>4, <2>5
<1>7. ASSUME NEW i \in Calls, WaitReturns(i) \/ WaitCancelled(i)
      PROVE  /\ c \in calls[i].taken => out'[c].carried = 0
             /\ Effects
  <2>1. WaitCancelled(i) => abort
    BY DEF WaitCancelled
  <2>2. CASE c \in calls[i].taken
    <3>1. \/ out'[c] = Reported(out[c])
          \/ out'[c] = Dropped(out[c]) /\ abort
      BY <1>7, <2>1, <2>2 DEF WaitReturns, WaitCancelled
    <3> QED BY <1>a, <3>1, ReportedFields, DroppedFields
  <2>3. CASE c \notin calls[i].taken
    <3>1. out'[c] = out[c]
      BY <1>7, <2>3 DEF WaitReturns, WaitCancelled
    <3> QED BY <2>3, <3>1
  <2> QED BY <2>2, <2>3
<1>8. ASSUME NEW i \in Calls, PollDrains(i) \/ PollReturns(i) \/ PollCancelled(i)
      PROVE  Effects
  <2>1. PICK d \in calls[i].ids : PollOuts(i, d)
    BY <1>8, PollOutsOf
  <2>2. d \in Command /\ calls[i].got \in Nat
    BY <1>a
  <2>3. /\ out'[c].carried = out[c].carried
        /\ out'[c].replayed => out[c].replayed \/ job[c].state = "delivered"
    BY <1>a, <2>1, <2>2, PollOutsFields
  <2>4. out'[c].lost = out[c].lost \/ abort
    <3>1. CASE PollDrains(i)
      BY <1>a, <3>1 DEF PollDrains, OutType
    <3>2. CASE PollReturns(i)
      <4>1. PICK e \in calls[i].ids :
                out' = [out EXCEPT ![e] = Polled(out[e], calls[i].got,
                                                 Replays(e, calls[i].got))]
        BY <3>2 DEF PollReturns
      <4>2. PICK again \in BOOLEAN : again = Replays(e, calls[i].got)
        BY DEF Replays
      <4>3. out'[c] = Polled(out[c], calls[i].got, again) \/ out'[c] = out[c]
        BY <1>a, <4>1, <4>2
      <4> QED BY <1>a, <4>3, PolledFields
    <3>3. CASE PollCancelled(i)
      BY <3>3 DEF PollCancelled
    <3> QED BY <1>8, <3>1, <3>2, <3>3
  <2> QED BY <2>3, <2>4
<1>9. \A i \in Calls : (WaitReturns(i) \/ WaitCancelled(i)) /\ c \in calls[i].taken
            => out'[c].carried = 0
  BY <1>7
<1>10. Effects
  <2> HIDE DEF Effects, Still
  <2> QED
    BY <1>b, <1>1, <1>2, <1>3, <1>4, <1>5, <1>6, <1>7, <1>8
    DEF Next, Threads, World, RunCall, ReadCall, StopCall, Stops, IoLoop, vars,
        Writes, Ends, IoReap, Batch, Interrupt, Integrate, PersonStops, Cancelled,
        Reserve, Spawn, RegisterIo, Look, MoveForegroundToBackground, WaitBegins,
        PollBegins, CallStops, StopReturns, TerminateGroup, MarkStopped, TakeStopped
<1> QED BY <1>9, <1>10

\* What a wait took is reported or dropped as it ends.
LEMMA CarriedStep ==
    ASSUME Types, FreeInv, CarriedInv, [Next]_vars
    PROVE  CarriedInv'
<1> SUFFICES ASSUME NEW c \in Command, out'[c].carried > 0
             PROVE  \E i \in Calls : Carries(i, c)'
  BY DEF CarriedInv
<1>1. ASSUME out[c].carried > 0,
             \A i \in Calls : WaitReturns(i) \/ WaitCancelled(i)
                                => c \notin calls[i].taken
      PROVE  \E i \in Calls : Carries(i, c)'
  <2>1. PICK i \in Calls : OpenWait(i) /\ c \in calls[i].taken
    BY <1>1 DEF CarriedInv, Carries
  <2>2. OpenWait(i)' /\ c \in calls'[i].taken
    BY <1>1, <2>1, WaitsKept
  <2> QED BY <2>2 DEF Carries
<1> QED BY <1>1, OutSteps

\* A delivered command stays so: nobody takes it again, and its I/O is over.
LEMMA DeliveredStays ==
    ASSUME Types, PlaceInv, ReadInv, [Next]_vars,
           NEW c \in Command, job[c].state = "delivered"
    PROVE  job'[c].state = "delivered"
<1>a. /\ job \in [Command -> JobType] /\ job[c] \in JobType
      /\ job[c].place = "retained" /\ io[c] = "off"
      /\ \A i \in Calls : calls[i].ids \subseteq Command
      /\ \A s \in Stopper : stop[s].ids \subseteq Command
  BY DEF Types, CallType, StopType, ReadInv, ReadOf
<1>b. \A s \in State : Moved(job[c].state, s) = "delivered"
  BY DEF Moved, Allowed
<1>1. CASE job' = job
  BY <1>1
<1>2. CASE DrainActivities
  <2>1. ~Complete(c)
    BY <1>a DEF Complete, Takeable
  <2>2. job'[c] = job[c]
    BY <1>2, <2>1 DEF DrainActivities
  <2> QED BY <2>2
<1>3. ASSUME NEW d \in Command, Takeable(d), job' = [job EXCEPT ![d] = Taken(job[d])]
      PROVE  job'[c].state = "delivered"
  <2>1. d # c
    BY <1>a, <1>3 DEF Takeable
  <2> QED BY <1>a, <1>3, <2>1
<1>4. ASSUME NEW i \in Calls, WaitTakes(i) PROVE job'[c].state = "delivered"
  <2>1. \E d \in calls[i].ids : Takeable(d) /\ job' = [job EXCEPT ![d] = Taken(job[d])]
    BY <1>4 DEF WaitTakes, Complete
  <2> QED BY <1>a, <1>3, <2>1
<1>5. ASSUME NEW s \in Stopper, TakeStopped(s) PROVE job'[c].state = "delivered"
  <2>1. \/ job' = job
        \/ \E d \in stop[s].ids : Takeable(d) /\ job' = [job EXCEPT ![d] = Taken(job[d])]
    BY <1>5 DEF TakeStopped
  <2> QED BY <1>a, <1>1, <1>3, <2>1
<1>6. ASSUME NEW d \in Command, IoRead(d) \/ IoReap(d)
      PROVE  job'[c].state = "delivered"
  <2>1. d # c
    BY <1>a, <1>6 DEF IoRead, IoReap
  <2>2. job'[c] = job[c]
    BY <1>a, <1>6, <2>1 DEF IoRead, IoReap
  <2> QED BY <2>2
<1>7. ASSUME NEW d \in Command, NEW s \in State,
             job' = [job EXCEPT ![d].state = Moved(job[d].state, s)]
      PROVE  job'[c].state = "delivered"
  <2>1. CASE d = c
    <3>1. job'[c].state = Moved(job[c].state, s)
      BY <1>a, <1>7, <2>1 DEF JobType
    <3> QED BY <1>b, <3>1
  <2>2. CASE d # c
    BY <1>a, <1>7, <2>2
  <2> QED BY <2>1, <2>2
<1>8. ASSUME NEW s \in Stopper, MarkStopped(s) PROVE job'[c].state = "delivered"
  <2>1. \E d \in stop[s].ids :
            job' = [job EXCEPT ![d].state = Moved(job[d].state, "stopped")]
    BY <1>a, <1>8 DEF MarkStopped
  <2> QED BY <1>a, <1>7, <2>1 DEF State
<1>9. ASSUME NEW i \in Calls, RegisterIo(i) PROVE job'[c].state = "delivered"
  <2>1. \E d \in calls[i].ids :
            job' = [job EXCEPT ![d].state = Moved(job[d].state, "running")]
    BY <1>a, <1>9 DEF RegisterIo
  <2> QED BY <1>a, <1>7, <2>1 DEF State
<1>10. ASSUME NEW s \in Stopper, NEW d \in Command, Request(s, d)
       PROVE  job'[c].state = "delivered"
  <2>1. job' = job \/ job' = [job EXCEPT ![d].stopping = TRUE]
    BY <1>10 DEF Request
  <2> QED BY <1>a, <2>1 DEF JobType
<1>11. CASE PersonStops
  BY <1>10, <1>11 DEF PersonStops, Stopper
<1>12. ASSUME NEW i \in Calls, CallStops(i) PROVE job'[c].state = "delivered"
  BY <1>a, <1>10, <1>12 DEF CallStops, Stopper
<1>13. ASSUME NEW i \in Calls,
              \/ Reserve(i) \/ Spawn(i) \/ MoveForegroundToBackground(i) \/ Keeps(i)
       PROVE  job'[c].state = "delivered"
  <2>1. job' = job \/ \E d \in Command : \E to \in Place :
                                job' = [job EXCEPT ![d].place = to]
    BY <1>a, <1>13 DEF Reserve, Spawn, MoveForegroundToBackground, Keeps, In, Place
  <2> QED BY <1>a, <2>1 DEF JobType
<1> QED
  BY <1>1, <1>2, <1>4, <1>5, <1>6, <1>8, <1>9, <1>11, <1>12, <1>13
  DEF Next, Threads, World, RunCall, ReadCall, StopCall, Stops, IoLoop, vars,
      Writes, Ends, Batch, Interrupt, Integrate, Cancelled, Look, Leaves,
      TerminateGroup, WaitBegins, WaitReturns, WaitCancelled, PollBegins,
      PollDrains, PollReturns, PollCancelled, StopReturns

LEMMA ReplayStep ==
    ASSUME Types, PlaceInv, ReadInv, ReplayInv, [Next]_vars
    PROVE  ReplayInv'
<1> SUFFICES ASSUME NEW c \in Command, out'[c].replayed
             PROVE  job'[c].state = "delivered"
  BY DEF ReplayInv
<1>1. out[c].replayed \/ job[c].state = "delivered"
  BY OutSteps
<1>2. job[c].state = "delivered"
  BY <1>1 DEF ReplayInv
<1> QED BY <1>2, DeliveredStays

\* An interrupt is counted before anything is thrown away for it.
LEMMA LostStep ==
    ASSUME Types, LostInv, [Next]_vars
    PROVE  LostInv'
<1>a. interrupts \in Nat /\ (abort => interrupts > 0)
  BY DEF LostInv
<1>1. /\ interrupts' \in Nat /\ interrupts' >= interrupts
      /\ abort' => abort \/ interrupts' > 0
  <2>1. CASE Interrupt
    BY <1>a, <2>1 DEF Interrupt
  <2>2. CASE Batch \/ Integrate
    <3>1. interrupts' = interrupts /\ abort' = FALSE
      BY <2>2 DEF Batch, Integrate, counters
    <3> QED BY <1>a, <3>1
  <2>3. CASE UNCHANGED <<interrupts, abort>>
    BY <1>a, <2>3
  <2> QED
    BY <2>1, <2>2, <2>3, ZenonT(40)
    DEF Next, Threads, World, RunCall, ReadCall, StopCall, Stops, IoLoop, vars,
        counters, Writes, Ends, IoRead, IoReap, DrainActivities, PersonStops,
        Cancelled, Reserve, Spawn, RegisterIo, Look, Keeps,
        MoveForegroundToBackground, Leaves, WaitBegins, WaitTakes, WaitReturns,
        WaitCancelled, PollBegins, PollDrains, PollReturns, PollCancelled,
        CallStops, StopReturns, TerminateGroup, MarkStopped, TakeStopped
<1>2. ASSUME NEW c \in Command, out'[c].lost > 0 PROVE interrupts' > 0
  <2>1. out[c].lost > 0 \/ abort
    BY <1>2, OutSteps
  <2>2. interrupts > 0
    BY <2>1 DEF LostInv
  <2> QED BY <1>a, <1>1, <2>2
<1> QED BY <1>a, <1>1, <1>2 DEF LostInv
-----------------------------------------------------------------------------
\* It holds before the first command, ...
LEMMA IInvInit == Init => IInv
<1> SUFFICES ASSUME Init PROVE IInv
  OBVIOUS
<1>1. Types
  <2>1. Free("done") \in CallType
    BY DEF Free, CallType, Ops, Step
  <2>2. /\ job \in [Command -> JobType] /\ proc \in [Command -> ProcType]
        /\ stop \in [Stopper -> StopType] /\ calls \in [Calls -> CallType]
    BY <2>1 DEF Init, JobType, Place, State, ProcType, NoProcess, StopType, StopSteps
  <2>3. /\ out \in [Command -> OutType]
        /\ \A c \in Command : out[c].read <= proc[c].written
    BY DEF Init, OutType, NoOutput, NoProcess
  <2>4. /\ io \in [Command -> {"none", "read", "reap", "reapLate", "off"}]
        /\ agent \in {"free", "calls"} /\ abort \in BOOLEAN
        /\ row \in [Command -> {"none", "running", "finished"}]
        /\ told \in [Command -> Nat]
        /\ stopped \subseteq Command /\ missed \subseteq Command
        /\ plan \in Plans /\ batches \in Nat
    BY DEF Init
  <2> QED BY <2>2, <2>3, <2>4 DEF Types
<1>2. \A i \in Calls : calls[i] = Free("done")
  BY DEF Init
<1>3. \A i \in Calls : /\ calls[i].op = "none" /\ calls[i].step = "done"
                       /\ calls[i].got = 0
  BY <1>2 DEF Free
<1>4. PlaceInv /\ IoInv /\ FreeInv
  BY <1>3 DEF PlaceInv, IoInv, FreeInv, InHand
<1>5. PollInv /\ \A i \in Calls : ~OpenPoll(i)
  BY <1>3 DEF PollInv, PollOn, OpenPoll
<1>6. \A c \in Command : /\ job[c].place = "none" /\ job[c].state = "starting"
                         /\ ~job[c].reaped /\ ~job[c].eof /\ io[c] = "none"
                         /\ out[c] = NoOutput /\ proc[c] = NoProcess /\ told[c] = 0
  BY DEF Init
<1>7. InFlight = {}
  BY <1>6 DEF InFlight, In
<1>8. LimitInv
  BY <1>7, FS_EmptySet, ActivitiesAssumption DEF LimitInv, Init
<1>9. ToldInv
  BY <1>3, <1>6 DEF ToldInv, OpenWait, Init
<1>10. AccountInv
  BY <1>5, <1>6 DEF AccountInv, AccountOf, Counted, PollOn, NoOutput
<1>11. ReadInv
  <2>1. plan.chunks \in Nat
    BY ActivitiesAssumption DEF Init
  <2> QED BY <1>6, <2>1 DEF ReadInv, ReadOf, NoProcess
<1>12. StopInv /\ GivenInv
  BY <1>6 DEF StopInv, GivenInv, Init
<1>13. CarriedInv /\ ReplayInv /\ LostInv
  BY <1>6 DEF CarriedInv, ReplayInv, LostInv, NoOutput, Init
<1> QED BY <1>1, <1>4, <1>5, <1>8, <1>9, <1>10, <1>11, <1>12, <1>13 DEF IInv

\* ... and every step of every thread keeps it.
LEMMA IInvNext == IInv /\ [Next]_vars => IInv'
<1> SUFFICES ASSUME IInv, [Next]_vars PROVE IInv'
  OBVIOUS
<1>1. /\ Types /\ PlaceInv /\ LimitInv /\ ToldInv /\ PollInv /\ AccountInv
      /\ FreeInv /\ ReadInv /\ IoInv /\ StopInv /\ GivenInv
      /\ CarriedInv /\ ReplayInv /\ LostInv
  BY DEF IInv
<1>2. Types' /\ PlaceInv' /\ LimitInv' /\ ToldInv'
  BY <1>1, TypesStep, PlaceStep, LimitStep, ToldStep
<1>3. PollInv' /\ AccountInv' /\ FreeInv'
  BY <1>1, PollStep, AccountStep, FreeStep
<1>4. ReadInv' /\ IoInv' /\ StopInv' /\ GivenInv'
  BY <1>1, ReadStep, IoStep, StopStep, GivenStep
<1>5. CarriedInv' /\ ReplayInv' /\ LostInv'
  BY <1>1, CarriedStep, ReplayStep, LostStep
<1> QED BY <1>2, <1>3, <1>4, <1>5 DEF IInv

\* The inductive invariant holds throughout, whatever the threads do.
THEOREM Invariant == Spec => []IInv
<1> QED BY IInvInit, IInvNext, PTL DEF Spec

-----------------------------------------------------------------------------
\* Everything keeps its type, and ReserveActivity keeps the commands in flight
\* to MaxActivities() however many calls of a batch reserve at once.
THEOREM TypeCorrect == Spec => []TypeOK
<1>1. ASSUME IInv PROVE TypeOK
  <2>a. Types /\ LimitInv /\ ToldInv /\ AccountInv /\ ReadInv
    BY <1>1 DEF IInv
  <2>1. Cardinality(In("reserved") \cup In("foreground") \cup In("background"))
            <= plan.limit
    BY <2>a DEF LimitInv, InFlight
  <2>2. plan.chunks \in Nat
    BY <2>a, ActivitiesAssumption DEF Types
  <2>3. proc \in [Command -> [dead : BOOLEAN, held : BOOLEAN,
                             written : 0 .. plan.chunks, own : 0 .. plan.chunks]]
    <3>1. proc \in [Command -> ProcType]
      BY <2>a DEF Types
    <3>2. ASSUME NEW c \in Command
          PROVE  proc[c] \in [dead : BOOLEAN, held : BOOLEAN,
                             written : 0 .. plan.chunks, own : 0 .. plan.chunks]
      <4>1. proc[c].own <= proc[c].written /\ proc[c].written <= plan.chunks
        BY <2>a DEF ReadInv, ReadOf
      <4> QED BY <2>2, <3>1, <4>1 DEF ProcType
    <3> QED BY <3>1, <3>2
  <2>4. out \in [Command -> [read : 0 .. plan.chunks, unread : 0 .. plan.chunks,
                            carried : 0 .. plan.chunks, given : 0 .. plan.chunks,
                            lost : 0 .. plan.chunks, replayed : BOOLEAN]]
    <3>1. out \in [Command -> OutType]
      BY <2>a DEF Types
    <3>2. ASSUME NEW c \in Command
          PROVE  out[c] \in [read : 0 .. plan.chunks, unread : 0 .. plan.chunks,
                             carried : 0 .. plan.chunks, given : 0 .. plan.chunks,
                             lost : 0 .. plan.chunks, replayed : BOOLEAN]
      <4>1. /\ out[c].read \in Nat /\ out[c].unread \in Nat
            /\ out[c].given \in Nat /\ out[c].lost \in Nat
            /\ out[c].carried \in Nat
            /\ out[c].read <= proc[c].written /\ proc[c].written \in Nat
            /\ \A i \in Calls : calls[i].got \in Nat
        BY <2>a DEF Types, OutType, ProcType, CallType
      <4>2. proc[c].written <= plan.chunks
        BY <2>a DEF ReadInv, ReadOf
      <4>3. Counted(c) <= out[c].read
        <5>1. Counted(c) = out[c].read
                \/ \E i \in Calls : Counted(c) + calls[i].got = out[c].read
          BY <2>a DEF AccountInv, AccountOf
        <5> QED BY <4>1, <5>1 DEF Counted
      <4>4. /\ out[c].read \in 0 .. plan.chunks /\ out[c].unread \in 0 .. plan.chunks
            /\ out[c].carried \in 0 .. plan.chunks
            /\ out[c].given \in 0 .. plan.chunks /\ out[c].lost \in 0 .. plan.chunks
        BY <2>2, <4>1, <4>2, <4>3 DEF Counted
      <4> QED BY <3>1, <4>4 DEF OutType
    <3> QED BY <3>1, <3>2
  <2>5. told \in [Command -> 0 .. 3]
    BY <2>a DEF Types, ToldInv
  <2>6. \A i \in Calls : /\ calls[i].step \in Step
                         /\ calls[i].ids \cup calls[i].taken \subseteq Command
                         /\ calls[i].result \in {"none", "final", "running",
                                                 "cancelled"}
    BY <2>a DEF Types, CallType
  <2>7. \A s \in Stopper : /\ stop[s].step \in {"idle", "kill", "mark", "take"}
                           /\ stop[s].ids \subseteq Command
    BY <2>a DEF Types, StopType, StopSteps
  <2>8. /\ job \in [Command -> [place : Place, state : State, reaped : BOOLEAN,
                                eof : BOOLEAN, stopping : BOOLEAN]]
        /\ io \in [Command -> {"none", "read", "reap", "reapLate", "off"}]
        /\ agent \in {"free", "calls"} /\ abort \in BOOLEAN
        /\ stopped \subseteq Command /\ missed \subseteq Command
        /\ row \in [Command -> {"none", "running", "finished"}]
    BY <2>a DEF Types, JobType
  <2> QED BY <2>1, <2>3, <2>4, <2>5, <2>6, <2>7, <2>8 DEF TypeOK
<1> QED BY <1>1, Invariant, PTL

\* Take gives the end of a command to one waiter: its call, a wait, the agent
\* between two batches, or stopped_, whoever reaches the list first.
THEOREM TellsOnce == Spec => []ToldOnce
<1>1. ASSUME IInv PROVE ToldOnce
  BY <1>1 DEF IInv, ToldInv, ToldOnce
<1> QED BY <1>1, Invariant, PTL

\* Every chunk IoLoop read has one fate: in the buffer, with the one open
\* poll or an open wait, given, or thrown away with an interrupted poll or
\* wait.  All that a command itself printed has one when its end is taken, so
\* a transcript that ToolActivityOutput gives again is complete.
THEOREM GivesOnce == Spec => []OutputOnce
<1>1. ASSUME IInv, NEW c \in Command
      PROVE  /\ InPoll(c, out[c].read - (out[c].given + out[c].carried
                                         + out[c].lost + out[c].unread))
             /\ out[c].carried > 0 => \E i \in Calls : At(i, "wait", "open")
                                                     /\ c \in calls[i].taken
             /\ job[c].place = "retained" /\ job[c].state = "delivered" =>
                    /\ out[c].given + out[c].carried + out[c].lost >= proc[c].own
                    /\ out[c].unread = 0
             /\ out[c].replayed =>
                    /\ job[c].place = "retained" /\ job[c].state = "delivered"
                    /\ out[c].read >= proc[c].own
             /\ out[c].lost > 0 => interrupts > 0
  <2>a. /\ Types /\ AccountInv /\ ReadInv /\ GivenInv /\ CarriedInv /\ ReplayInv
        /\ LostInv
    BY <1>1 DEF IInv
  <2>1. /\ out[c].read \in Nat /\ out[c].given \in Nat /\ out[c].lost \in Nat
        /\ out[c].carried \in Nat /\ out[c].unread \in Nat
        /\ proc[c].own \in Nat /\ \A i \in Calls : calls[i].got \in Nat
    BY <2>a DEF Types, OutType, ProcType, CallType
  <2>b. PICK n \in Nat : n = Counted(c)
    BY <2>1 DEF Counted
  <2>2. InPoll(c, out[c].read - (out[c].given + out[c].carried
                                 + out[c].lost + out[c].unread))
    <3>1. ASSUME NEW i \in Calls, At(i, "poll", "open"), c \in calls[i].ids
          PROVE  calls[i].got = out[c].read - n
      <4>1. n + calls[i].got = out[c].read
        BY <2>a, <2>b, <3>1 DEF AccountInv, AccountOf, PollOn, OpenPoll, At
      <4> QED BY <2>1, <4>1
    <3>2. ASSUME ~Interacting(c) PROVE out[c].read - n = 0
      <4>1. \A i \in Calls : ~PollOn(i, c)
        BY <3>2 DEF Interacting, PollOn, OpenPoll
      <4>2. n = out[c].read
        BY <2>a, <2>b, <4>1 DEF AccountInv, AccountOf
      <4> QED BY <2>1, <4>2
    <3>3. InPoll(c, out[c].read - n)
      BY <3>1, <3>2 DEF InPoll
    <3> QED BY <2>b, <3>3 DEF Counted
  <2>3. out[c].carried > 0 => \E i \in Calls : At(i, "wait", "open")
                                              /\ c \in calls[i].taken
    BY <2>a DEF CarriedInv, Carries, OpenWait, At
  <2>4. ASSUME job[c].state = "delivered"
        PROVE  /\ job[c].place = "retained" /\ out[c].read >= proc[c].own
               /\ out[c].given + out[c].carried + out[c].lost >= proc[c].own
               /\ out[c].unread = 0
    <3>1. out[c].unread = 0 /\ \A i \in Calls : PollOn(i, c) => calls[i].got = 0
      BY <2>4, <2>a DEF GivenInv
    <3>2. n = out[c].given + out[c].carried + out[c].lost
      BY <2>1, <2>b, <3>1 DEF Counted
    <3>3. n = out[c].read
      <4>1. CASE \A i \in Calls : ~PollOn(i, c)
        BY <2>a, <2>b, <4>1 DEF AccountInv, AccountOf
      <4>2. ASSUME NEW i \in Calls, PollOn(i, c) PROVE n = out[c].read
        <5>1. n + calls[i].got = out[c].read /\ calls[i].got = 0
          BY <2>b, <3>1, <2>a, <4>2 DEF AccountInv, AccountOf
        <5> QED BY <5>1
      <4> QED BY <4>1, <4>2
    <3>4. proc[c].own <= out[c].read /\ job[c].place = "retained"
      BY <2>4, <2>a DEF ReadInv, ReadOf
    <3> QED BY <2>1, <3>1, <3>2, <3>3, <3>4
  <2>5. out[c].replayed => job[c].state = "delivered"
    BY <2>a DEF ReplayInv
  <2>6. out[c].lost > 0 => interrupts > 0
    BY <2>a DEF LostInv
  <2> QED BY <2>2, <2>3, <2>4, <2>5, <2>6
<1>2. ASSUME IInv PROVE OutputOnce
  BY <1>1, <1>2 DEF OutputOnce
<1> QED BY <1>2, Invariant, PTL
=============================================================================
