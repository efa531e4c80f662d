----------------------------- MODULE Activities -----------------------------
(***************************************************************************)
(* The commands a conversation runs, from the call that starts one to the  *)
(* result that rejoins a turn.  Four kinds of thread share a command: the  *)
(* tool calls of a batch (run, wait and poll, in parallel), the I/O thread *)
(* that reads its output and reaps it, the channel's thread with a         *)
(* person's stop, and the agent's thread, which takes up results between   *)
(* two batches.  A command is in one of the supervisor's lists, and its    *)
(* session has a state; the lists and each session have a lock of their    *)
(* own, and an action is what a thread does between two of them.           *)
(*                                                                         *)
(* Output is counted in chunks.  A call that may give up does so at any    *)
(* time, so a wait for all stands for one for any, a poll until a marker   *)
(* for a plain one, and a person's stop for the same stop as a tool call.  *)
(* Detached commands, memory work, input, passwords, logs, the shutdown    *)
(* and the pruning of the retained list are left out.                      *)
(***************************************************************************)
EXTENDS Naturals, Sequences, FiniteSets

CONSTANTS
    Command,
    Calls,          \* the places of a batch's calls, in their order
    Talks,          \* commands that print, or leave a child that holds output
    Person,         \* the channel's thread
    Plans,          \* MaxActivities(), what is printed, the batches in turn
    MaxStops, MaxFaults, MaxInterrupts

Batches == Seq([Calls -> {"run", "wait", "poll"}])

ASSUME ActivitiesAssumption ==
    /\ Command \subseteq Nat /\ Calls \subseteq Nat /\ Person \notin Calls
    /\ Talks \subseteq Command
    /\ \A p \in Plans : p.limit \in Nat \ {0} /\ p.chunks \in Nat
                        /\ p.batches \in Batches

Stopper == Calls \cup {Person}

VARIABLES
    job,        \* a command's list, its session's state and flags
    proc,       \* its process: dead, whether its output is held open, chunks
    out,        \* its output: read, unread, carried by a wait that has not
                \* returned, given, thrown away, its transcript given again
    io,         \* the I/O thread's pass over its session
    calls,      \* the batch's calls
    agent,      \* the agent's thread: "free" or in "calls"
    abort,      \* AbortRequested()
    stop,       \* ToolActivityStop in progress
    stopped,    \* stopped_
    row,        \* the row of the command's call in the conversation
    plan, batches, stops, faults, interrupts,
    told,       \* history: how often its end was told
    missed      \* history: its end was taken and never reached its row

counters == <<plan, batches, stops, faults, interrupts>>
vars == <<job, proc, out, io, calls, agent, abort, stop, stopped, row,
          counters, told, missed>>

Place == {"none", "reserved", "foreground", "background", "retained", "gone"}
State == {"starting", "running", "exited", "drained", "delivered", "stopped"}
Step == {"begin", "spawn", "io", "watch", "exited", "cancel", "timeout",
         "move", "moved", "stopping", "open", "done"}

In(place) == {c \in Command : job[c].place = place}
Terminal(c) == job[c].state \in {"drained", "delivered", "stopped"}
Free(p) == [op |-> "none", ids |-> {}, step |-> p, result |-> "none",
            taken |-> {}, got |-> 0]

NoProcess == [dead |-> FALSE, held |-> FALSE, written |-> 0, own |-> 0]
NoOutput == [read |-> 0, unread |-> 0, carried |-> 0, given |-> 0, lost |-> 0,
             replayed |-> FALSE]

(* Everything has the type the code gives it, and the commands a turn      *)
(* waits for, those behind it and those about to start keep to the limit   *)
(* together, however many calls reserve at once (ReserveActivity).         *)
TypeOK ==
    /\ job \in [Command -> [place : Place, state : State, reaped : BOOLEAN,
                            eof : BOOLEAN, stopping : BOOLEAN]]
    /\ Cardinality(In("reserved") \cup In("foreground") \cup In("background"))
        <= plan.limit
    /\ proc \in [Command -> [dead : BOOLEAN, held : BOOLEAN,
                             written : 0 .. plan.chunks, own : 0 .. plan.chunks]]
    /\ out \in [Command -> [read : 0 .. plan.chunks, unread : 0 .. plan.chunks,
                            carried : 0 .. plan.chunks, given : 0 .. plan.chunks,
                            lost : 0 .. plan.chunks, replayed : BOOLEAN]]
    /\ io \in [Command -> {"none", "read", "reap", "reapLate", "off"}]
    /\ \A i \in Calls : /\ calls[i].step \in Step
                        /\ calls[i].ids \cup calls[i].taken \subseteq Command
                        /\ calls[i].result \in {"none", "final", "running",
                                                "cancelled"}
    /\ agent \in {"free", "calls"} /\ abort \in BOOLEAN
    /\ \A s \in Stopper : /\ stop[s].step \in {"idle", "kill", "mark", "take"}
                          /\ stop[s].ids \subseteq Command
    /\ stopped \subseteq Command
    /\ row \in [Command -> {"none", "running", "finished"}]
    /\ told \in [Command -> 0 .. 3] /\ missed \subseteq Command

Init ==
    /\ job = [c \in Command |-> [place |-> "none", state |-> "starting",
                reaped |-> FALSE, eof |-> FALSE, stopping |-> FALSE]]
    /\ proc = [c \in Command |-> NoProcess]
    /\ out = [c \in Command |-> NoOutput]
    /\ io = [c \in Command |-> "none"]
    /\ calls = [i \in Calls |-> Free("done")]
    /\ agent = "free" /\ abort = FALSE
    /\ stop = [s \in Stopper |-> [ids |-> {}, step |-> "idle"]]
    /\ stopped = {}
    /\ row = [c \in Command |-> "none"]
    /\ plan \in Plans /\ batches = 0 /\ stops = 0 /\ faults = 0 /\ interrupts = 0
    /\ told = [c \in Command |-> 0] /\ missed = {}

-----------------------------------------------------------------------------
(* The session's state graph (TransitionActivityLocked).                   *)
Allowed(current, next) ==
    \/ current = next
    \/ current = "starting" /\ next \in {"running", "exited", "stopped"}
    \/ current = "running" /\ next \in {"exited", "stopped"}
    \/ current = "exited" /\ next \in {"drained", "stopped"}
    \/ current = "drained" /\ next = "delivered"

Moved(current, next) == IF Allowed(current, next) THEN next ELSE current

(* The chunks not yet given leave the buffer, for the reader at once or    *)
(* for a wait, which reports them with the end it took or drops both.      *)
Drained(o) == [o EXCEPT !.given = @ + o.unread, !.unread = 0]

Carried(o) == [o EXCEPT !.carried = @ + o.unread, !.unread = 0]

Reported(o) == [o EXCEPT !.given = @ + o.carried, !.carried = 0]

Dropped(o) == [o EXCEPT !.lost = @ + o.carried, !.carried = 0]

Polled(o, n, again) ==
    [o EXCEPT !.given = @ + n, !.replayed = @ \/ again]

(* A poll holds the session's interaction lock from its start to its end.  *)
Interacting(c) ==
    \E i \in Calls : calls[i].op = "poll" /\ calls[i].step = "open"
                     /\ c \in calls[i].ids

(* What Take with retain needs of a background command.                    *)
Takeable(c) ==
    /\ job[c].place = "background"
    /\ job[c].state = "stopped" \/ Allowed(job[c].state, "delivered")

(* The variant that copies the activity and leaves it in its list.         *)
TakenCopied(j) == j

Taken(j) ==
    [j EXCEPT !.place = "retained",
              !.state = IF @ = "stopped" THEN @ ELSE "delivered"]

(* A completion: the state TakeCompleted looks for, then Take.             *)
Complete(c) ==
    job[c].state = "drained" /\ Takeable(c) /\ ~Interacting(c)

-----------------------------------------------------------------------------
(* The process writes, ends, and what it started lets go of its output;    *)
(* all on their own.                                                       *)
Alive(c) == io[c] # "off" /\ job[c].place \notin {"none", "reserved"}

Writes(c) ==
    /\ Alive(c) /\ c \in Talks /\ proc[c].written < plan.chunks
    /\ ~proc[c].dead \/ proc[c].held
    /\ proc' = [proc EXCEPT ![c].written = @ + 1]
    /\ UNCHANGED <<job, out, io, calls, agent, abort, stop, stopped, row,
                   counters, told, missed>>

Ended(p, held) ==
    IF p.dead THEN [p EXCEPT !.held = held]
    ELSE [p EXCEPT !.dead = TRUE, !.held = held, !.own = p.written]

Ends(c) ==
    /\ Alive(c)
    /\ \/ ~proc[c].dead /\ \E held \in {FALSE, (c \in Talks)} :
                proc' = [proc EXCEPT ![c] = Ended(@, held)]
       \/ proc[c].dead /\ proc[c].held
          /\ proc' = [proc EXCEPT ![c] = Ended(@, FALSE)]
    /\ UNCHANGED <<job, out, io, calls, agent, abort, stop, stopped, row,
                   counters, told, missed>>

(* The I/O thread's pass over one session: it reads all there is, then     *)
(* reaps, then decides whether the command is over.  poll wakes it.  The   *)
(* time it compares with the grace was taken before it read.               *)
IoRead(c) ==
    LET p == proc[c]
        closed == p.dead /\ ~p.held
        woken == \/ p.written > out[c].read
                 \/ closed /\ ~job[c].eof
                 \/ p.dead /\ ~job[c].reaped
                 \/ Terminal(c)
    IN  /\ io[c] = "read"
        /\ \E late \in {FALSE, job[c].reaped} :
            /\ woken \/ late
            /\ io' = [io EXCEPT ![c] = IF late THEN "reapLate" ELSE "reap"]
        /\ out' = [out EXCEPT ![c].unread = @ + p.written - out[c].read,
                              ![c].read = p.written]
        /\ job' = [job EXCEPT ![c].eof = @ \/ closed,
                    ![c].state = IF p.written > out[c].read
                                 THEN Moved(@, "running") ELSE @]
        /\ UNCHANGED <<proc, calls, agent, abort, stop, stopped, row, counters,
                       told, missed>>

(* A command's output is over once its process is reaped and its output    *)
(* closed, or the grace for what trails has passed.  The variant that does *)
(* not wait for either comes first.                                        *)
OutputOverAtOnce(c, reaped) == reaped

OutputOver(c, reaped) == reaped /\ (job[c].eof \/ io[c] = "reapLate")

IoReap(c) ==
    LET j == job[c]
        reaped == j.reaped \/ proc[c].dead
        exited == IF reaped /\ ~j.reaped THEN Moved(j.state, "exited")
                  ELSE j.state
        state == IF OutputOver(c, reaped)
                 THEN Moved(exited, IF j.stopping THEN "stopped" ELSE "drained")
                 ELSE exited
    IN  /\ io[c] \in {"reap", "reapLate"}
        /\ job' = [job EXCEPT ![c].reaped = reaped, ![c].state = state]
        /\ io' = [io EXCEPT ![c] =
                    IF state \in {"drained", "delivered", "stopped"}
                    THEN "off" ELSE "read"]
        /\ UNCHANGED <<proc, out, calls, agent, abort, stop, stopped, row,
                       counters, told, missed>>

-----------------------------------------------------------------------------
(* The agent starts a batch of calls, is interrupted while they run, and   *)
(* takes their results in their order once all are over.                   *)
Batch ==
    /\ agent = "free" /\ batches < Len(plan.batches)
    /\ calls' = [i \in Calls |->
                    [Free("begin") EXCEPT !.op = plan.batches[batches + 1][i]]]
    /\ agent' = "calls" /\ abort' = FALSE /\ batches' = batches + 1
    /\ UNCHANGED <<job, proc, out, io, stop, stopped, row, plan, stops,
                   faults, interrupts, told, missed>>

Interrupt ==
    /\ agent = "calls" /\ ~abort /\ interrupts < MaxInterrupts
    /\ abort' = TRUE /\ interrupts' = interrupts + 1
    /\ UNCHANGED <<job, proc, out, io, calls, agent, stop, stopped, row,
                   plan, batches, stops, faults, told, missed>>

RunsOf(c) == {i \in Calls : calls[i].op = "run" /\ c \in calls[i].ids}
WaitsWith(c) == {i \in Calls : c \in calls[i].taken}

(* FinishCommandRow finds a row only when it was recorded before: the      *)
(* call's own result comes before the wait's in the batch's order.         *)
Recorded(c, i) ==
    \/ row[c] = "running"
    \/ \E r \in RunsOf(c) : r < i /\ calls[r].result = "running"

Integrate ==
    /\ agent = "calls" /\ \A i \in Calls : calls[i].step = "done"
    /\ row' = [c \in Command |->
        IF \/ \E r \in RunsOf(c) : calls[r].result \in {"final", "cancelled"}
           \/ \E i \in WaitsWith(c) : Recorded(c, i)
        THEN "finished"
        ELSE IF \E r \in RunsOf(c) : calls[r].result = "running"
        THEN "running" ELSE row[c]]
    /\ missed' = missed \cup {c \in Command :
                    \E i \in WaitsWith(c) : ~Recorded(c, i)}
    /\ agent' = "free" /\ abort' = FALSE
    /\ calls' = [i \in Calls |-> Free("done")]
    /\ UNCHANGED <<job, proc, out, io, stop, stopped, counters, told>>

(* DrainActivities: between batches, and when a change wakes an idle       *)
(* session, the agent takes every completion and every stopped command.    *)
DrainActivities ==
    LET completed == {c \in Command : Complete(c)}
        ends == {c \in stopped : row[c] = "running"}
    IN  /\ agent = "free" /\ completed \cup stopped # {}
        /\ job' = [c \in Command |->
                    IF c \in completed THEN Taken(job[c]) ELSE job[c]]
        /\ out' = [c \in Command |->
                    IF c \in completed THEN Drained(out[c]) ELSE out[c]]
        /\ row' = [c \in Command |->
                    IF c \in completed \cup ends /\ row[c] = "running"
                    THEN "finished" ELSE row[c]]
        /\ told' = [c \in Command |->
                    told[c] + (IF c \in completed THEN 1 ELSE 0)
                            + (IF c \in ends THEN 1 ELSE 0)]
        /\ stopped' = {}
        /\ UNCHANGED <<proc, io, calls, agent, abort, stop, counters, missed>>

-----------------------------------------------------------------------------
(* A call that an interrupt finds unstarted is cancelled.                  *)
Over(i, taken) == [Free("done") EXCEPT !.op = calls[i].op, !.taken = taken]

At(i, op, step) == calls[i].op = op /\ calls[i].step = step

Cancelled(i) ==
    /\ calls[i].step = "begin" /\ abort
    /\ calls' = [calls EXCEPT ![i].step = "done"]
    /\ UNCHANGED <<job, proc, out, io, agent, abort, stop, stopped, row,
                   counters, told, missed>>

(* run: RunShellCommand.  It reserves a place, ... (The variant that looks *)
(* only at what is registered comes first.)                                *)
RoomUnreserved == Cardinality(In("foreground") \cup In("background")) < plan.limit

Room == Cardinality(In("reserved") \cup In("foreground") \cup In("background"))
            < plan.limit

Reserve(i) ==
    /\ At(i, "run", "begin")
    /\ IF Room
       THEN \E c \in In("none") :
            /\ job' = [job EXCEPT ![c].place = "reserved"]
            /\ calls' = [calls EXCEPT ![i].step = "spawn", ![i].ids = {c}]
            /\ \A d \in In("none") : c <= d
       ELSE /\ calls' = [calls EXCEPT ![i].step = "done"]
            /\ UNCHANGED job
    /\ UNCHANGED <<proc, out, io, agent, abort, stop, stopped, row, counters,
                   told, missed>>

(* ... spawns and registers the command, or gives its place back, ...      *)
Spawn(i) ==
    /\ At(i, "run", "spawn")
    /\ \E c \in calls[i].ids :
        \/ /\ job' = [job EXCEPT ![c].place = "foreground"]
           /\ calls' = [calls EXCEPT ![i].step = "io"]
           /\ UNCHANGED faults
        \/ /\ faults < MaxFaults /\ faults' = faults + 1
           /\ job' = [job EXCEPT ![c].place = "gone"]
           /\ calls' = [calls EXCEPT ![i].step = "done"]
    /\ UNCHANGED <<proc, out, io, agent, abort, stop, stopped, row, plan,
                   batches, stops, interrupts, told, missed>>

RegisterIo(i) ==
    /\ At(i, "run", "io")
    /\ \E c \in calls[i].ids :
        /\ job' = [job EXCEPT ![c].state = Moved(@, "running")]
        /\ io' = [io EXCEPT ![c] = "read"]
    /\ calls' = [calls EXCEPT ![i].step = "watch"]
    /\ UNCHANGED <<proc, out, agent, abort, stop, stopped, row, counters,
                   told, missed>>

(* ... and looks at it: an end comes before an interrupt, and that before  *)
(* guidance, a person's request and the deadline.                          *)
Look(i) ==
    /\ At(i, "run", "watch")
    /\ \E c \in calls[i].ids, step \in {"exited", "cancel", "timeout", "move"} :
        /\ Terminal(c) <=> step = "exited"
        /\ ~Terminal(c) => (abort <=> step = "cancel")
        /\ calls' = [calls EXCEPT ![i].step = step]
    /\ UNCHANGED <<job, proc, out, io, agent, abort, stop, stopped, row,
                   counters, told, missed>>

(* The call keeps the command: it ended, is cancelled or ran out of time,  *)
(* and its transcript is the result.                                       *)
Keeps(i) ==
    /\ calls[i].op = "run" /\ calls[i].step \in {"exited", "cancel", "timeout"}
    /\ LET own == calls[i].step IN \E c \in calls[i].ids :
        /\ job' = [job EXCEPT ![c].place = "gone"]
        /\ proc' = [proc EXCEPT ![c] = [NoProcess EXCEPT !.dead = TRUE]]
        /\ out' = [out EXCEPT ![c] = NoOutput]
        /\ io' = [io EXCEPT ![c] = "off"]
        /\ told' = [told EXCEPT ![c] = IF own = "cancel" THEN @ ELSE @ + 1]
        /\ calls' = [calls EXCEPT ![i].step = "done",
                ![i].result = IF own = "cancel" THEN "cancelled" ELSE "final"]
    /\ UNCHANGED <<agent, abort, stop, stopped, row, counters, missed>>

(* Or it leaves the command in the background ...                          *)
MoveForegroundToBackground(i) ==
    /\ At(i, "run", "move")
    /\ \E c \in calls[i].ids : job' = [job EXCEPT ![c].place = "background"]
    /\ calls' = [calls EXCEPT ![i].step = "moved"]
    /\ UNCHANGED <<proc, out, io, agent, abort, stop, stopped, row, counters,
                   told, missed>>

(* ... and gives what it printed so far.                                   *)
Leaves(i) ==
    /\ At(i, "run", "moved") /\ ~abort
    /\ \E c \in calls[i].ids : out' = [out EXCEPT ![c] = Drained(@)]
    /\ calls' = [calls EXCEPT ![i].step = "done", ![i].result = "running"]
    /\ UNCHANGED <<job, proc, io, agent, abort, stop, stopped, row, counters,
                   told, missed>>

-----------------------------------------------------------------------------
(* wait: ToolActivityWait takes what ends of the commands it names, or of  *)
(* all there are.                                                          *)
WaitBegins(i) ==
    /\ At(i, "wait", "begin")
    /\ \E ids \in SUBSET In("background") :
        /\ ids = {} => In("background") = {}
        /\ calls' = [calls EXCEPT ![i].ids = ids,
                        ![i].step = IF ids = {} THEN "done" ELSE "open"]
    /\ UNCHANGED <<job, proc, out, io, agent, abort, stop, stopped, row,
                   counters, told, missed>>

WaitTakes(i) ==
    /\ At(i, "wait", "open")
    /\ \E c \in calls[i].ids :
        /\ Complete(c)
        /\ job' = [job EXCEPT ![c] = Taken(@)]
        /\ out' = [out EXCEPT ![c] = Carried(@)]
        /\ calls' = [calls EXCEPT ![i].taken = @ \cup {c}]
    /\ UNCHANGED <<proc, io, agent, abort, stop, stopped, row, counters, told,
                   missed>>

WaitReturns(i) ==
    /\ At(i, "wait", "open")
    /\ calls' = [calls EXCEPT ![i] = Over(i, @.taken)]
    /\ told' = [c \in Command |->
                IF c \in calls[i].taken THEN told[c] + 1 ELSE told[c]]
    /\ out' = [c \in Command |->
                IF c \in calls[i].taken THEN Reported(out[c]) ELSE out[c]]
    /\ UNCHANGED <<job, proc, io, agent, abort, stop, stopped, row,
                   counters, missed>>

(* An interrupted wait reports only that: the ends it has taken are        *)
(* dropped, and their output with them.                                    *)
WaitCancelled(i) ==
    /\ At(i, "wait", "open") /\ abort
    /\ calls[i].ids \cap In("background") # {}
    /\ calls' = [calls EXCEPT ![i] = Over(i, {})]
    /\ missed' = missed \cup calls[i].taken
    /\ out' = [c \in Command |->
                IF c \in calls[i].taken THEN Dropped(out[c]) ELSE out[c]]
    /\ UNCHANGED <<job, proc, io, agent, abort, stop, stopped, row,
                   counters, told>>

(* poll: CollectSessionOutput drains the buffer until there is something,  *)
(* or until a marker is seen.                                              *)
PollBegins(i) ==
    /\ At(i, "poll", "begin")
    /\ \/ \E c \in In("background") \cup In("retained") :
            /\ ~Interacting(c)
            /\ calls' = [calls EXCEPT ![i].ids = {c}, ![i].step = "open"]
       \/ /\ In("background") \cup In("retained") = {}
          /\ calls' = [calls EXCEPT ![i].step = "done"]
    /\ UNCHANGED <<job, proc, out, io, agent, abort, stop, stopped, row,
                   counters, told, missed>>

PollDrains(i) ==
    /\ At(i, "poll", "open")
    /\ \E c \in calls[i].ids :
        /\ out[c].unread > 0
        /\ out' = [out EXCEPT ![c].unread = 0]
        /\ calls' = [calls EXCEPT ![i].got = @ + out[c].unread]
    /\ UNCHANGED <<job, proc, io, agent, abort, stop, stopped, row, counters,
                   told, missed>>

(* A poll that finds nothing new of a command whose end is told gives its  *)
(* whole transcript again.                                                 *)
Replays(c, got) == got = 0 /\ out[c].read > 0 /\ job[c].state = "delivered"

PollReturns(i) ==
    /\ At(i, "poll", "open")
    /\ \E c \in calls[i].ids :
        out' = [out EXCEPT ![c] = Polled(@, calls[i].got,
                                         Replays(c, calls[i].got))]
    /\ calls' = [calls EXCEPT ![i] = Over(i, {})]
    /\ UNCHANGED <<job, proc, io, agent, abort, stop, stopped, row, counters,
                   told, missed>>

(* An interrupted poll reports only that.                                  *)
PollCancelled(i) ==
    /\ At(i, "poll", "open") /\ abort
    /\ \E c \in calls[i].ids :
        out' = [out EXCEPT ![c].lost = @ + calls[i].got]
    /\ calls' = [calls EXCEPT ![i] = Over(i, {})]
    /\ UNCHANGED <<job, proc, io, agent, abort, stop, stopped, row, counters,
                   told, missed>>

-----------------------------------------------------------------------------
(* ToolActivityStop, for the person, for a call of its own, and for a run  *)
(* that is interrupted as it leaves its command in the background.  It     *)
(* tells the I/O thread, ...                                               *)
Live(c) == ~job[c].reaped /\ (~proc[c].dead \/ proc[c].held)

Request(s, c) ==
    /\ job[c].place \in {"foreground", "background", "retained"}
    /\ IF Terminal(c)
       THEN UNCHANGED <<job, stop>>
       ELSE /\ job' = [job EXCEPT ![c].stopping = TRUE]
            /\ stop' = [stop EXCEPT ![s] = [ids |-> {c},
                            step |-> IF Live(c) THEN "kill" ELSE "mark"]]

PersonStops ==
    /\ stop[Person].step = "idle" /\ stops < MaxStops /\ stops' = stops + 1
    /\ \E c \in Command : ~Terminal(c) /\ Request(Person, c)
    /\ UNCHANGED <<proc, out, io, calls, agent, abort, stopped, row, plan,
                   batches, faults, interrupts, told, missed>>

CallStops(i) ==
    /\ At(i, "run", "moved") /\ abort
    /\ \E c \in calls[i].ids : Request(i, c)
    /\ calls' = [calls EXCEPT ![i].step = "stopping"]
    /\ UNCHANGED <<proc, out, io, agent, abort, stopped, row, counters, told,
                   missed>>

(* ... ends the process group, which may refuse (it runs as root), ...     *)
TerminateGroup(s) ==
    /\ stop[s].step = "kill"
    /\ \E c \in stop[s].ids :
        \/ /\ proc' = [proc EXCEPT ![c] = Ended(@, FALSE)]
           /\ stop' = [stop EXCEPT ![s].step = "mark"]
           /\ UNCHANGED faults
        \/ /\ faults < MaxFaults /\ faults' = faults + 1
           /\ stop' = [stop EXCEPT ![s].step = "idle"]
           /\ UNCHANGED proc
    /\ UNCHANGED <<job, out, io, calls, agent, abort, stopped, row, plan,
                   batches, stops, interrupts, told, missed>>

(* ... marks the session stopped ...                                       *)
MarkStopped(s) ==
    /\ stop[s].step = "mark"
    /\ \E c \in stop[s].ids :
        job' = [job EXCEPT ![c].state = Moved(@, "stopped")]
    /\ stop' = [stop EXCEPT ![s].step = "take"]
    /\ UNCHANGED <<proc, out, io, calls, agent, abort, stopped, row, counters,
                   told, missed>>

(* ... and takes it from the background, if it is there.  The variant that *)
(* tells nobody comes first.                                               *)
TakeStoppedQuietly(s) ==
    /\ stop[s].step = "take"
    /\ \E c \in stop[s].ids :
        job' = [job EXCEPT ![c] = IF Takeable(c) THEN Taken(@) ELSE @]
    /\ stop' = [stop EXCEPT ![s].step = "idle"]
    /\ UNCHANGED <<proc, out, io, calls, agent, abort, stopped, row, counters,
                   told, missed>>

TakeStopped(s) ==
    /\ stop[s].step = "take"
    /\ \E c \in stop[s].ids :
        IF Takeable(c)
        THEN /\ job' = [job EXCEPT ![c] = Taken(@)]
             /\ stopped' = stopped \cup {c}
        ELSE UNCHANGED <<job, stopped>>
    /\ stop' = [stop EXCEPT ![s].step = "idle"]
    /\ UNCHANGED <<proc, out, io, calls, agent, abort, row, counters, told,
                   missed>>

StopReturns(i) ==
    /\ calls[i].step = "stopping" /\ stop[i].step = "idle"
    /\ calls' = [calls EXCEPT ![i].step = "done",
                                ![i].result = "cancelled"]
    /\ UNCHANGED <<job, proc, out, io, agent, abort, stop, stopped, row,
                   counters, told, missed>>

-----------------------------------------------------------------------------
RunCall(i) ==
    \/ Cancelled(i) \/ Reserve(i) \/ Spawn(i) \/ RegisterIo(i) \/ Look(i)
    \/ Keeps(i) \/ MoveForegroundToBackground(i) \/ Leaves(i)

ReadCall(i) ==
    \/ WaitBegins(i) \/ WaitTakes(i) \/ WaitReturns(i) \/ WaitCancelled(i)
    \/ PollBegins(i) \/ PollDrains(i) \/ PollReturns(i) \/ PollCancelled(i)

StopCall(i) == CallStops(i) \/ StopReturns(i)

Stops(s) == TerminateGroup(s) \/ MarkStopped(s) \/ TakeStopped(s)

IoLoop(c) == IoRead(c) \/ IoReap(c)

Threads ==
    \/ \E i \in Calls : RunCall(i) \/ ReadCall(i) \/ StopCall(i)
    \/ \E s \in Stopper : Stops(s)
    \/ \E c \in Command : IoLoop(c)
    \/ Integrate \/ DrainActivities

World ==
    \/ \E c \in Command : Writes(c) \/ Ends(c)
    \/ Batch \/ Interrupt \/ PersonStops

Next == Threads \/ World

Spec == Init /\ [][Next]_vars

(* Every thread goes on while it can: each waits with a deadline or for a  *)
(* wake every change sends.  Nothing makes a process end.                  *)
FairSpec == Spec /\ WF_vars(Threads)

-----------------------------------------------------------------------------
(* The end of a command is told once: by its own call, by one wait, by the *)
(* agent on its own, or as stopped (Take; "another waiter owns exactly-    *)
(* once delivery").                                                        *)
ToldOnce == \A c \in Command : told[c] <= 1

(* What is in the hands of the one open poll.                              *)
InPoll(c, n) ==
    /\ \A i \in Calls : At(i, "poll", "open") /\ c \in calls[i].ids
                        => calls[i].got = n
    /\ ~Interacting(c) => n = 0

(* Each chunk that was read has one fate, though a run's result, polls and *)
(* waits take from one buffer: it is still there, in the hands of the one  *)
(* open poll or of an open wait, given, or thrown away with a poll or a    *)
(* wait that was interrupted.  When the end of a command left in the       *)
(* background is taken, all its process itself had printed has such a      *)
(* fate, so a transcript that is given again, as complete, is complete     *)
(* (IoLoop, DrainActivityOutput, ToolActivityWait, ToolActivityOutput).    *)
OutputOnce ==
    \A c \in Command :
        /\ InPoll(c, out[c].read - (out[c].given + out[c].carried
                                    + out[c].lost + out[c].unread))
        /\ out[c].carried > 0 => \E i \in Calls : At(i, "wait", "open")
                                                 /\ c \in calls[i].taken
        /\ job[c].place = "retained" /\ job[c].state = "delivered" =>
            /\ out[c].given + out[c].carried + out[c].lost >= proc[c].own
            /\ out[c].unread = 0
        /\ out[c].replayed =>
            /\ job[c].place = "retained" /\ job[c].state = "delivered"
            /\ out[c].read >= proc[c].own
        /\ out[c].lost > 0 => interrupts > 0

(* A command that is stopped and that nobody will take any more: a stop    *)
(* failed, or came as its call was leaving it in the background.           *)
Stranded(c) == job[c].place = "background" /\ job[c].state = "stopped"

(* The row of a command left in the background takes its end, whether that *)
(* arrives on its own, through a wait or by a stop (FinishCommandRow),     *)
(* unless the command is stranded, or a wait took its end and dropped it   *)
(* or came before the row.                                                 *)
RowsFinish ==
    []<>(\A c \in Command : row[c] = "running" /\ proc[c].dead =>
            Stranded(c) \/ c \in missed)
=============================================================================
