--------------------------- MODULE ScheduledRuns ---------------------------
(***************************************************************************)
(* Scheduled tasks and the runs they make (app/schedule.cc and             *)
(* app/session_schedules.cc).  The tasks and the records of their runs are *)
(* one file, changed under a file lock by the host and by every command    *)
(* that runs, pauses, forgets or stops (Mutate): a change waits for the    *)
(* lock for a bounded time and may be refused.                             *)
(*                                                                         *)
(* The host's scheduler makes passes: it reads the file, says what it      *)
(* knows of the runs' sessions (TickSchedules), claims queued runs for the *)
(* free slots, prepares each with the host's mutex released, starts their  *)
(* runtimes and sends what the tick decided.  Its knowledge of a runtime   *)
(* is what the reader of its socket has received.  A host may be killed at *)
(* any step; the runtimes live on, and the next host looks for them.       *)
(*                                                                         *)
(* The calendar is a task falling due; a run's worktree, its check and its *)
(* prompt are how its preparation ends.                                    *)
(***************************************************************************)
EXTENDS Naturals, Sequences, FiniteSets, SequencesExt, Subsequences

CONSTANTS
    Task, Run,
    TaskOf,        \* the task a run's record is made for
    Slots,         \* kScheduledConcurrency
    None,
    MaxActs,       \* bound: what users and the clock do
    MaxFaults      \* bound: changes the file's lock refuses to the host, hosts
                   \* and runtimes that are killed, connections that break

ASSUME RunsAssumption ==
    /\ TaskOf \in [Run -> Task] /\ IsFiniteSet(Run)
    /\ Slots \in Nat /\ MaxActs \in Nat /\ MaxFaults \in Nat

VARIABLES
    status,     \* run -> its record's status, "none" when there is no record
    queue,      \* the queued runs, oldest first
    task,       \* task -> "enabled", "paused" or "gone"
    due,        \* tasks whose next time has come
    host,       \* the host's process: "up" or "down"
    recovered,  \* it has looked for the runs of the host before it
    pc,         \* where the scheduler's pass is
    cache,      \* schedule_state_: the statuses the pass has read
    prepare,    \* the runs it claimed and has not prepared
    seen,       \* the status it read of the one it prepares
    reconnect,  \* sessions it has yet to connect to, and
    launch,     \* to start, in this pass
    retry,      \* run_updates_: run -> the status the file's lock refused
    send,       \* run -> what the tick decided to send to its runtime
    session,    \* run -> the host's session, or None
    alive,      \* the runtimes that run
    phase,      \* run -> how far its runtime has come
    outcome,    \* run -> how its last turn ended
    saved,      \* the runs with a session file
    wire,       \* run -> commands sent and not read
    prompts,    \* history: run -> prompts sent
    lost,       \* history: runs whose end was not recorded, and is not tried
                \* again
    dropped,    \* history: runs whose turn went on over an interrupt
    acts, faults   \* so far

store == <<status, queue, task, due>>
pass == <<host, recovered, pc, cache, prepare, seen, reconnect, launch>>
memory == <<retry, send, session>>
runtime == <<alive, phase, outcome, saved, wire>>
history == <<prompts, lost, dropped>>
bounds == <<acts, faults>>
vars == <<store, pass, memory, runtime, history, bounds>>

\* "running" stands for "waiting" too: a question is a part of its turn.
Active == {"queued", "starting", "running", "stopping"}
\* "skipped" stands for "missed" too: neither is ever claimed.
Over == {"completed", "failed", "interrupted", "quiet", "skipped"}
Status == Active \cup Over \cup {"none"}
Result == {"completed", "failed", "interrupted"}
Phase == {"none", "starting", "idle", "turn", "ended", "background", "done"}
Command == {"prompt", "interrupt", "close"}
Steps == {"wait", "tick", "claim", "prepare", "decide", "activate", "send"}

Unread == [r \in Run |-> "none"]   \* the cache, between its uses

\* HostSession, as far as a run's needs: `owned` once run_id names the run,
\* `link` "live" while its socket is read and "ended" after, and how far it has
\* `heard` its runtime is.
Session ==
    [owned : BOOLEAN, prompt : BOOLEAN, stopSent : BOOLEAN,
     link : {"none", "live", "ended"}, closing : BOOLEAN, error : BOOLEAN,
     heard : Phase, result : Result \cup {None}]
Saved ==
    [owned |-> FALSE, prompt |-> FALSE, stopSent |-> FALSE, link |-> "none",
     closing |-> FALSE, error |-> FALSE, heard |-> "none", result |-> None]

TypeOK ==
    /\ status \in [Run -> Status] /\ queue \in Seq(Run)
    /\ task \in [Task -> {"enabled", "paused"}] /\ due \subseteq Task
    /\ host \in {"up", "down"} /\ recovered \in BOOLEAN /\ pc \in Steps
    /\ cache \in [Run -> Status]
    /\ prepare \in Seq(Run) /\ seen \in Status
    /\ reconnect \subseteq Run /\ launch \subseteq Run
    /\ retry \in [Run -> Status \cup {None}]
    /\ send \in [Run -> Seq(Command)]
    /\ session \in [Run -> Session \cup {None}]
    /\ alive \subseteq Run /\ phase \in [Run -> Phase]
    /\ outcome \in [Run -> Result \cup {None}]
    /\ saved \subseteq Run /\ wire \in [Run -> Seq(Command)]
    /\ prompts \in [Run -> Nat] /\ lost \subseteq Run /\ dropped \subseteq Run
    /\ acts \in 0..MaxActs /\ faults \in 0..MaxFaults

Init ==
    /\ status = [r \in Run |-> "none"] /\ queue = <<>>
    /\ task = [t \in Task |-> "enabled"] /\ due = {}
    /\ host = "up" /\ recovered = FALSE /\ pc = "wait"
    /\ cache = Unread /\ prepare = <<>> /\ seen = "none"
    /\ reconnect = {} /\ launch = {}
    /\ retry = [r \in Run |-> None] /\ send = [r \in Run |-> <<>>]
    /\ session = [r \in Run |-> None]
    /\ alive = {} /\ phase = [r \in Run |-> "none"]
    /\ outcome = [r \in Run |-> None]
    /\ saved = {} /\ wire = [r \in Run |-> <<>>]
    /\ prompts = [r \in Run |-> 0] /\ lost = {} /\ dropped = {}
    /\ acts = 0 /\ faults = 0
-----------------------------------------------------------------------------
(***************************************************************************)
(* The file of tasks and runs.                                             *)
(***************************************************************************)
IsActive(r) == status[r] \in Active
\* The variant that looks for a run at work only.
BusyRunning(t) == \E r \in Run : TaskOf[r] = t /\ status[r] = "running"
\* What keeps a task from having another run.
Busy(t) == \E r \in Run : TaskOf[r] = t /\ IsActive(r)
\* Ids no record has yet: a bound on the runs of a task.
Unused(t) == {r \in Run : TaskOf[r] = t /\ status[r] = "none"}
Fresh(t) == CHOOSE r \in Unused(t) : TRUE

\* The variant that forgets a stop.
UpdatedFreely(old, new) == IF new = None \/ old \notin Active THEN old ELSE new

\* UpdateScheduledRun: what is over stays so, a run that is to stop is only
\* ever interrupted.
Updated(old, new) ==
    CASE new = None \/ old \notin Active -> old
      [] new # None /\ old = "stopping" ->
            IF new \in Active THEN old ELSE "interrupted"
      [] OTHER -> new

\* The runs of `some` whose change the file's lock refuses to the host
\* (Mutate gives up after five seconds).
Refused(some) == {no \in SUBSET some : faults + Cardinality(no) <= MaxFaults}
Count(no) == faults' = faults + Cardinality(no) /\ UNCHANGED acts
Acts == acts < MaxActs /\ acts' = acts + 1 /\ UNCHANGED faults
\* The queue as the records have it.
Dequeued ==
    queue' = Kept(queue, {i \in DOMAIN queue : status'[queue[i]] = "queued"})

\* Time passes: the next time of a task comes.
FallDue(t) ==
    /\ task[t] = "enabled" /\ t \notin due /\ Unused(t) # {}
    /\ due' = due \cup {t} /\ Acts
    /\ UNCHANGED <<status, queue, task, pass, memory, runtime, history>>

\* "run": queued, unless the task has a run already or no host runs.
RunNow(t) ==
    /\ host = "up" /\ ~Busy(t) /\ Unused(t) # {}
    /\ status' = [status EXCEPT ![Fresh(t)] = "queued"]
    /\ queue' = Append(queue, Fresh(t)) /\ Acts
    /\ UNCHANGED <<task, due, pass, memory, runtime, history>>

\* "pause" drops the task's queued runs.  ("forget" does too, and nothing is
\* asked of the task after it.  Without one, or a time that has come, it only
\* keeps other times from coming.)
Pause(t) ==
    /\ t \in due \/ \E r \in Run : TaskOf[r] = t /\ status[r] = "queued"
    /\ task[t] = "enabled" /\ task' = [task EXCEPT ![t] = "paused"]
    /\ status' = [r \in Run |->
            IF TaskOf[r] = t /\ status[r] = "queued" THEN "interrupted"
            ELSE status[r]]
    /\ Dequeued /\ Acts
    /\ UNCHANGED <<due, pass, memory, runtime, history>>

\* "resume", or a new version saved, sets the task's next time.
Resume(t) ==
    /\ task[t] = "paused" \/ t \in due
    /\ task' = [task EXCEPT ![t] = "enabled"] /\ due' = due \ {t} /\ Acts
    /\ UNCHANGED <<status, queue, pass, memory, runtime, history>>

\* "stop": a queued run is over, another is to stop.
Stop(r) ==
    /\ IsActive(r) /\ status[r] # "stopping"
    /\ status' = [status EXCEPT
            ![r] = IF @ = "queued" THEN "interrupted" ELSE "stopping"]
    /\ Dequeued /\ Acts
    /\ UNCHANGED <<task, due, pass, memory, runtime, history>>
-----------------------------------------------------------------------------
(***************************************************************************)
(* A pass of the scheduler (RunSchedules).                                 *)
(***************************************************************************)
\* Where the pass goes on: what is left to prepare, to connect to or start,
\* and to send.
Onward(unprepared, inactive, unsent) ==
    CASE unprepared # <<>> -> "prepare"
      [] unprepared = <<>> /\ inactive # {} -> "activate"
      [] unprepared = <<>> /\ inactive = {}
         /\ (\E r \in Run : unsent[r] # <<>>) -> "send"
      [] OTHER -> "wait"
Known(r) == session[r] # None
\* A worker: a runtime this host is connected to for a run (TickSchedules).
Working == {r \in Run : Known(r) /\ session[r].owned /\ session[r].link = "live"}
\* mutex_ is free between passes, while a run is prepared and a runtime
\* started, and while commands are sent.
MutexFree == host = "up" /\ pc \in {"wait", "prepare", "decide", "activate", "send"}

\* What the tick finds of a session, by the statuses `at` it has read.
TurnActive(r) == session[r].heard \in {"turn", "ended"}
Ticks(r, at) == Known(r) /\ session[r].owned /\ at[r] \in Active
StopsNow(r, at) == Ticks(r, at) /\ at[r] = "stopping" /\ ~session[r].stopSent
\* The variant that takes a run that is starting for one without its prompt.
SubmitsStarting(r, at) ==
    /\ Ticks(r, at) /\ at[r] = "starting"
    /\ session[r].heard \notin {"none", "starting"} /\ ~TurnActive(r)
\* The session is ready for the prompt.
Submits(r, at) ==
    /\ Ticks(r, at) /\ session[r].prompt /\ ~StopsNow(r, at)
    /\ session[r].heard \notin {"none", "starting"} /\ ~TurnActive(r)
Stopped(r, at) == StopsNow(r, at) \/ session[r].stopSent
\* The variant that takes the record's word for a result.
ResultAsRead(r, at) == IF StopsNow(r, at) THEN at[r] ELSE session[r].result
\* How the run went, as the tick has it.
ResultOf(r, at) == IF StopsNow(r, at) THEN "interrupted" ELSE session[r].result
IsOver(r, at) ==
    /\ Ticks(r, at)
    /\ \/ session[r].link = "ended" \/ session[r].error
       \/ /\ ResultOf(r, at) # None
          /\ session[r].heard = "done" \/ Stopped(r, at)
          /\ ~TurnActive(r) /\ session[r].heard # "background"
FinalOf(r, at) ==
    CASE ~IsOver(r, at) -> None
      [] IsOver(r, at) /\ session[r].error -> "failed"
      [] IsOver(r, at) /\ ~session[r].error ->
            IF ResultOf(r, at) = None THEN "interrupted" ELSE ResultOf(r, at)
NoteOf(r, at) == IF Submits(r, at) THEN "running" ELSE None

\* RecoverSchedules: what another host claimed is taken up if its session is
\* in the catalogue, and is interrupted if not.  (A pass that would find
\* nothing to do is left out.)
Started == IF recovered THEN {} ELSE {r \in Run : IsActive(r) /\ status[r] # "queued"}
Waits ==
    \/ ~recovered \/ \E t \in due : task[t] = "enabled" /\ Unused(t) # {}
    \/ \E r \in Run :
          \/ retry[r] # None \/ StopsNow(r, status) \/ IsOver(r, status)
          \/ Updated(status[r], NoteOf(r, status)) # status[r]
    \/ queue # <<>> /\ Cardinality(Working) < Slots
BeginPass ==
    LET gone == {r \in Started : ~Known(r)} IN
    \E no \in Refused(gone) :
        /\ host = "up" /\ pc = "wait" /\ Waits
        /\ status' = [r \in Run |->
                IF r \in gone \ no THEN Updated(status[r], "interrupted")
                ELSE status[r]]
        /\ retry' = [r \in Run |-> IF r \in no THEN "interrupted" ELSE retry[r]]
        /\ session' = [r \in Run |->
                IF r \in Started \ gone THEN [session[r] EXCEPT !.owned = TRUE]
                ELSE session[r]]
        /\ reconnect' = Started \ gone
        /\ recovered' = TRUE /\ cache' = status' /\ pc' = "tick"
        /\ Count(no)
        /\ UNCHANGED <<queue, task, due, host, prepare, seen, launch, send,
                       runtime, history>>

When(condition, command) == IF condition THEN <<command>> ELSE <<>>

\* TickSchedules: a stop and the prompt go out once, a run that is over is
\* recorded, then its runtime is closed.  What the file's lock refuses is
\* tried again: an end by the next tick, the rest from run_updates_.
Tick ==
    LET over == {r \in Run : IsOver(r, cache)}
        noted == {r \in Run : Updated(status[r], NoteOf(r, cache)) # status[r]} IN
    \E no \in Refused({r \in Run : retry[r] # None} \cup over \cup noted) :
        /\ pc = "tick" /\ host = "up"
        /\ status' = [r \in Run |->
                IF r \in no THEN status[r]
                ELSE Updated(Updated(Updated(status[r], retry[r]), FinalOf(r, cache)),
                             NoteOf(r, cache))]
        /\ retry' = [r \in Run |->
                IF r \notin no THEN None
                ELSE IF r \in noted THEN NoteOf(r, cache) ELSE retry[r]]
        /\ session' = [r \in Run |->
                IF ~Ticks(r, cache) THEN session[r]
                ELSE [session[r] EXCEPT
                        !.stopSent = Stopped(r, cache),
                        !.result = ResultOf(r, cache),
                        !.prompt = @ /\ ~StopsNow(r, cache) /\ ~Submits(r, cache),
                        !.closing = @ \/ r \in over \ no]]
        /\ send' = [r \in Run |->
                When(StopsNow(r, cache), "interrupt")
                    \o When(Submits(r, cache), "prompt")
                    \o When(r \in over \ no, "close")]
        /\ pc' = "claim" /\ Count(no)
        /\ UNCHANGED <<queue, task, due, host, recovered, cache, prepare, seen,
                       reconnect, launch, runtime, history>>

\* ClaimScheduledRuns: a task that is due gets a record, skipped if it is late
\* or the task has a run, and a task without another time is disabled; then
\* the oldest queued runs take the free slots.
Claim ==
    LET now == {t \in due : task[t] = "enabled" /\ Unused(t) # {}}
        slots == IF Cardinality(Working) < Slots
                 THEN Slots - Cardinality(Working) ELSE 0 IN
    /\ pc = "claim" /\ host = "up"
    /\ now # {} \/ \E r \in Run : cache[r] = "queued"
    /\ \E late \in SUBSET now : \E last \in SUBSET now :
        LET made == {Fresh(t) : t \in now}
            queued == [r \in Run |->
                IF r \notin made THEN status[r]
                ELSE IF TaskOf[r] \in late \/ Busy(TaskOf[r]) THEN "skipped"
                ELSE "queued"]
            all == queue \o SetToSeq(made)
            line == Kept(all, {i \in DOMAIN all : queued[all[i]] = "queued"})
            claimed == SubSeq(line, 1, IF Len(line) < slots THEN Len(line)
                                       ELSE slots)
        IN /\ status' = [r \in Run |->
                    IF queued[r] = "queued" /\ r \in ToSet(claimed) THEN "starting"
                    ELSE queued[r]]
           /\ queue' = SubSeq(line, Len(claimed) + 1, Len(line))
           /\ prepare' = claimed
           /\ pc' = Onward(claimed, reconnect \cup launch, send)
           /\ task' = [t \in Task |-> IF t \in last THEN "paused" ELSE task[t]]
           /\ due' = due \ now
    /\ cache' = Unread
    /\ UNCHANGED <<host, recovered, seen, reconnect, launch, memory,
                   runtime, history, bounds>>

\* Nothing is due, or the file's lock refuses the claim.
NoClaim ==
    /\ pc = "claim" /\ host = "up"
    /\ \/ /\ \A t \in due : task[t] # "enabled" \/ Unused(t) = {}
          /\ \A r \in Run : cache[r] # "queued"
          /\ UNCHANGED bounds
       \/ faults < MaxFaults /\ faults' = faults + 1 /\ UNCHANGED acts
    /\ cache' = Unread
    /\ UNCHANGED <<store, host, recovered, prepare, seen, reconnect, launch,
                   memory, runtime, history>>
    /\ pc' = Onward(prepare, reconnect \cup launch, send)

\* With the mutex released: the worktree and the check, then the file is read
\* again.  (The read before them only spares both.)
Prepare ==
    /\ pc = "prepare" /\ host = "up" /\ prepare # <<>>
    /\ seen' = status[Head(prepare)] /\ pc' = "decide"
    /\ UNCHANGED <<store, host, recovered, cache, prepare, reconnect, launch,
                   memory, runtime, history, bounds>>

\* The variant that does not try again.
RecordsOnce(r, new) ==
    \E no \in Refused({r}) :
        /\ status' = [status EXCEPT
                ![r] = IF no = {} THEN Updated(@, new) ELSE @]
        /\ retry' = retry
        /\ Count(no)

\* RecordRun, outside the tick.
Records(r, new) ==
    \E no \in Refused({r}) :
        /\ status' = [status EXCEPT
                ![r] = IF no = {} THEN Updated(@, new) ELSE @]
        /\ retry' = [retry EXCEPT ![r] = IF no = {} THEN @ ELSE new]
        /\ Count(no)

\* A run that was stopped meanwhile is not launched; one whose preparation
\* failed, or whose check found nothing, is over; any other gets a session
\* with its prompt (StartScheduledRun).  (A record that is gone, or over by
\* another hand, is left alone: with no session yet, nothing makes one so.)
Decide ==
    /\ pc = "decide" /\ host = "up"
    /\ prepare' = Tail(prepare) /\ seen' = "none"
    /\ LET r == Head(prepare) IN
       \/ /\ seen = "starting" /\ session' = [session EXCEPT
                ![r] = [Saved EXCEPT !.owned = TRUE, !.prompt = TRUE]]
          /\ launch' = launch \cup {r}
          /\ UNCHANGED <<status, retry, bounds>>
       \/ /\ seen = "starting" /\ \E new \in {"failed", "quiet"} : Records(r, new)
          /\ UNCHANGED <<session, launch>>
       \/ /\ seen = "stopping" /\ Records(r, "interrupted")
          /\ UNCHANGED <<session, launch>>
    /\ UNCHANGED <<queue, task, due, host, recovered, cache, reconnect, send,
                   runtime, history>>
    /\ pc' = Onward(prepare', reconnect \cup launch', send)

\* ActivateLocked refused or failed: the run is recorded as over, once.
ActivationFails(r, new) ==
    /\ \E no \in Refused({r}) :
        /\ status' = [status EXCEPT
                ![r] = IF no = {} THEN Updated(@, new) ELSE @]
        /\ lost' = IF no # {} /\ IsActive(r) THEN lost \cup {r} ELSE lost
        /\ Count(no)
    /\ UNCHANGED <<session, alive, phase>>

\* The session it connected is still the catalogue's (IsCurrentLocked).
Activated(r) ==
    /\ Known(r)
    /\ session' = [session EXCEPT ![r].link = "live", ![r].error = FALSE]
    /\ UNCHANGED <<status, lost, bounds>>

\* First the runs of the host before: their runtimes are looked for.  (Left
\* out: one of another build, or that is to restart, is closed and started anew
\* by RecycleStaleWorkerLocked; and RefreshPresence may find it before.)
Reconnect(r) ==
    /\ pc = "activate" /\ host = "up" /\ r \in reconnect
    /\ reconnect' = reconnect \ {r}
    /\ \/ session[r].closing /\ ActivationFails(r, "interrupted")
       \/ ~session[r].closing /\ r \notin alive /\ ActivationFails(r, "interrupted")
       \/ ~session[r].closing /\ r \in alive /\ Activated(r)
          /\ UNCHANGED <<alive, phase>>
    /\ UNCHANGED <<queue, task, due, host, recovered, cache, prepare, seen,
                   launch, retry, send, outcome, saved, wire, prompts, dropped>>
    /\ pc' = Onward(prepare, (reconnect \ {r}) \cup launch, send)

\* Then those of this pass, whose runtimes are started, or cannot be.
Launch(r) ==
    /\ pc = "activate" /\ host = "up" /\ reconnect = {} /\ r \in launch
    /\ launch' = launch \ {r}
    /\ \/ ActivationFails(r, "failed")
       \/ /\ Activated(r)
          /\ alive' = alive \cup {r} /\ phase' = [phase EXCEPT ![r] = "starting"]
    /\ UNCHANGED <<queue, task, due, host, recovered, cache, prepare, seen,
                   reconnect, retry, send, outcome, saved, wire, prompts, dropped>>
    /\ pc' = Onward(prepare, launch \ {r}, send)

\* HostSession::Send, after the pass let go of the mutex: what cannot be
\* delivered fails the run.
Deliver(r) ==
    /\ pc = "send" /\ host = "up" /\ send[r] # <<>>
    /\ send' = [send EXCEPT ![r] = Tail(@)]
    /\ prompts' = [prompts EXCEPT ![r] = IF Head(send[r]) = "prompt" THEN @ + 1 ELSE @]
    /\ IF Known(r) /\ session[r].link = "live" /\ r \in alive
       THEN wire' = [wire EXCEPT ![r] = Append(@, Head(send[r]))]
            /\ UNCHANGED session
       ELSE /\ session' = [session EXCEPT ![r] = IF @ = None THEN None
                    ELSE [@ EXCEPT !.error = TRUE, !.result = "failed"]]
            /\ UNCHANGED wire
    /\ UNCHANGED <<store, host, recovered, cache, prepare, seen, reconnect,
                   launch, retry, alive, phase, outcome, saved, lost,
                   dropped, bounds>>
    /\ pc' = Onward(prepare, {}, send')
-----------------------------------------------------------------------------
(***************************************************************************)
(* The host's readers and the user's commands to a session.                *)
(***************************************************************************)
\* What the frames of a runtime have said by now (ApplyRuntimeFrame,
\* RecordRunEvent).
Told(r) ==
    [session[r] EXCEPT
        !.heard = phase[r],
        !.result = IF outcome[r] # None THEN outcome[r] ELSE @,
        !.error = @ \/ (outcome[r] = "failed"
                        /\ (phase[r] = "ended" \/ session[r].heard # "none"))]

Received(r) ==
    /\ MutexFree /\ Known(r) /\ session[r].link = "live"
    /\ session' = [session EXCEPT ![r] = Told(r)]
    /\ session'[r] # session[r]
    /\ UNCHANGED <<store, pass, retry, send, alive, phase, outcome, saved, wire,
                   history, bounds>>

\* The reader is through with its socket: the session is put away
\* (DeactivateLocked) unless a turn was under way.
PutAway(r) ==
    /\ MutexFree /\ Known(r) /\ session[r].link = "live"
    /\ session' = [session EXCEPT ![r] =
            [session[r] EXCEPT
                !.link = "ended", !.heard = "none", !.closing = FALSE,
                !.error = @ /\ TurnActive(r) /\ ~session[r].closing]]
    /\ UNCHANGED <<store, pass, retry, send, history>>

\* The runtime is gone (frames it had not written are lost);
ReaderEnds(r) == PutAway(r) /\ r \notin alive /\ UNCHANGED <<runtime, bounds>>

\* or it had dropped the host, which was slow to read, and lives on: what the
\* host sent and it did not read is lost;
LinkLost(r) ==
    /\ PutAway(r) /\ r \in alive /\ wire' = [wire EXCEPT ![r] = <<>>]
    /\ faults < MaxFaults /\ faults' = faults + 1
    /\ UNCHANGED <<alive, phase, outcome, saved, acts>>

\* or it says it is retiring, after it had nothing to do for so long that the
\* host has heard all it wrote and closes it no more: the host lets go.
LetGo(r) ==
    /\ PutAway(r) /\ r \in alive /\ phase[r] \in {"idle", "done"} /\ wire[r] = <<>>
    /\ session[r] = Told(r) /\ ~IsOver(r, status) /\ ~session[r].closing
    /\ UNCHANGED <<runtime, bounds>>

\* RefreshCatalogue: a session that ran, has ended and has no file is dropped,
\* and with it what the scheduler knows of its run.
Scan(r) ==
    /\ MutexFree /\ Known(r) /\ session[r].link = "ended" /\ ~session[r].closing
    /\ r \notin saved
    /\ session' = [session EXCEPT ![r] = None]
    /\ lost' = IF IsActive(r) THEN lost \cup {r} ELSE lost
    /\ UNCHANGED <<store, pass, retry, send, runtime, prompts, dropped, bounds>>

\* "close" from a client: the run is recorded first.  (Refused, nothing is
\* done.)
CloseSession(r) ==
    /\ MutexFree /\ Known(r) /\ session[r].link = "live" /\ ~session[r].closing
    /\ session' = [session EXCEPT ![r].closing = TRUE]
    /\ status' = IF session[r].owned
                 THEN [status EXCEPT ![r] = Updated(@, "interrupted")] ELSE status
    /\ wire' = IF r \in alive THEN [wire EXCEPT ![r] = Append(@, "close")] ELSE wire
    /\ Dequeued /\ Acts
    /\ UNCHANGED <<task, due, pass, retry, send, alive, phase, outcome,
                   saved, history>>
-----------------------------------------------------------------------------
(***************************************************************************)
(* A run's runtime, as far as the host can tell (SessionWorker).           *)
(***************************************************************************)
At(r, some) == r \in alive /\ phase[r] \in some
Becomes(r, next) == phase' = [phase EXCEPT ![r] = next]
Ends(r, how) == Becomes(r, "ended") /\ outcome' = [outcome EXCEPT ![r] = how]
\* What it wrote and the host did not read is lost.
Gone(r) ==
    /\ alive' = alive \ {r} /\ wire' = [wire EXCEPT ![r] = <<>>]
    /\ Becomes(r, "none") /\ outcome' = [outcome EXCEPT ![r] = None]
    /\ UNCHANGED saved
RuntimeOnly == UNCHANGED <<store, pass, memory, prompts, lost, bounds>>

\* RunChannel: it saves its session file, then says it is ready.
Ready(r) ==
    /\ At(r, {"starting"}) /\ Becomes(r, "idle") /\ saved' = saved \cup {r}
    /\ UNCHANGED <<alive, outcome, wire, dropped>> /\ RuntimeOnly

\* The prompt starts the turn (one that is refused is a turn that failed).  An
\* interrupt raises a flag: it ends the turn, or the turn lowers the flag with
\* its own (RunAgentTurn, FlushSteering) and goes on, or there is none.  A close
\* ends it all.
TakeCommand(r) ==
    /\ r \in alive /\ wire[r] # <<>>
    /\ LET command == Head(wire[r])
           read == wire' = [wire EXCEPT ![r] = Tail(@)] IN
       \/ /\ command = "prompt" /\ Becomes(r, "turn")
          /\ read /\ UNCHANGED <<alive, outcome, saved, dropped>>
       \/ /\ command = "interrupt" /\ phase[r] = "turn"
          /\ Ends(r, "interrupted") /\ read /\ UNCHANGED <<alive, saved, dropped>>
       \/ /\ command = "interrupt"
          /\ dropped' = IF phase[r] = "turn" THEN dropped \cup {r} ELSE dropped
          /\ read /\ UNCHANGED <<alive, phase, outcome, saved>>
       \/ command = "close" /\ Gone(r) /\ UNCHANGED dropped
    /\ RuntimeOnly

\* A turn ends, and so does a background command it left.
EndTurn(r) == At(r, {"turn"}) /\ \E how \in {"completed", "failed"} : Ends(r, how)
BackgroundEnds(r) ==
    At(r, {"background"}) /\ Becomes(r, "done") /\ UNCHANGED outcome
Works(r) ==
    /\ EndTurn(r) \/ BackgroundEnds(r)
    /\ UNCHANGED <<alive, saved, wire, dropped>> /\ RuntimeOnly

\* PublishState: the checkpoint after a turn.
Publish(r) ==
    /\ At(r, {"ended"}) /\ \E next \in {"background", "done"} : Becomes(r, next)
    /\ UNCHANGED <<alive, outcome, saved, wire, dropped>> /\ RuntimeOnly

\* It retires once it has had nothing to do for long and no host holds it.
Retire(r) ==
    /\ At(r, {"idle", "done"}) /\ wire[r] = <<>>
    /\ Known(r) => session[r].link # "live"
    /\ Gone(r) /\ UNCHANGED dropped /\ RuntimeOnly
Dies(r) ==
    /\ r \in alive /\ faults < MaxFaults /\ faults' = faults + 1 /\ Gone(r)
    /\ UNCHANGED <<store, pass, memory, history, acts>>
-----------------------------------------------------------------------------
\* The host is killed anywhere; what it knew is gone.  The next one knows the
\* saved sessions (a scheduled run's draft is none that LoadDrafts takes).
HostDies ==
    /\ host = "up" /\ faults < MaxFaults /\ faults' = faults + 1
    /\ host' = "down" /\ recovered' = FALSE /\ pc' = "wait"
    /\ prepare' = <<>> /\ reconnect' = {} /\ launch' = {}
    /\ seen' = "none" /\ cache' = Unread
    /\ retry' = [r \in Run |-> None] /\ send' = [r \in Run |-> <<>>]
    /\ session' = [r \in Run |-> None] /\ lost' = {}
    /\ UNCHANGED <<store, runtime, prompts, dropped, acts>>

HostStarts ==
    /\ host = "down" /\ host' = "up"
    /\ session' = [r \in Run |-> IF r \in saved THEN Saved ELSE None]
    /\ UNCHANGED <<store, recovered, pc, cache, prepare, seen, reconnect, launch,
                   retry, send, runtime, history, bounds>>
-----------------------------------------------------------------------------
Users ==
    \/ \E t \in Task : FallDue(t) \/ RunNow(t) \/ Pause(t) \/ Resume(t)
    \/ \E r \in Run : Stop(r) \/ CloseSession(r)
Scheduler ==
    \/ BeginPass \/ Tick \/ Claim \/ NoClaim \/ Prepare \/ Decide
    \/ \E r \in Run : Reconnect(r) \/ Launch(r) \/ Deliver(r)
Reader(r) == Received(r) \/ ReaderEnds(r) \/ LetGo(r)
Worker(r) == Ready(r) \/ TakeCommand(r) \/ Publish(r)
Next ==
    \/ Users \/ Scheduler \/ HostDies \/ HostStarts
    \/ \E r \in Run : Reader(r) \/ LinkLost(r) \/ Scan(r) \/ Worker(r) \/ Works(r) \/ Retire(r) \/ Dies(r)

Spec == Init /\ [][Next]_vars

\* The host is started again, its threads run (a reader that waits for the
\* mutex gets it between two passes), and so do a runtime's: it reads its
\* commands, publishes a turn's end, and retires, with the host letting go of
\* it, when it has had nothing to do for long and no terminal holds it.  Nothing
\* makes a turn, a background command or a user come to an end.
FairSpec ==
    /\ Spec /\ WF_vars(HostStarts) /\ WF_vars(Scheduler)
    /\ \A r \in Run :
          SF_vars(Reader(r)) /\ WF_vars(Worker(r)) /\ WF_vars(Retire(r))
-----------------------------------------------------------------------------
(***************************************************************************)
(* Properties.                                                             *)
(***************************************************************************)
\* "A task never overlaps itself" (docs/MANAGEMENT.md): whoever queues and
\* whatever a claim, a retried update or a recovery writes, one record of a
\* task is active at a time.
OneActivePerTask ==
    \A q, r \in Run :
        TaskOf[q] = TaskOf[r] /\ IsActive(q) /\ IsActive(r) => q = r

\* A run's prompt is sent at most once, over all hosts ("never repeats an
\* uncertain submission by itself", docs/ARCHITECTURE.md), and never behind
\* the interrupt of a stop.
PromptOnce ==
    \A r \in Run :
        /\ prompts[r]
             + Cardinality({i \in DOMAIN send[r] : send[r][i] = "prompt"}) <= 1
        /\ \A i, j \in 1..Len(wire[r] \o send[r]) :
              i < j /\ (wire[r] \o send[r])[i] = "interrupt"
                => (wire[r] \o send[r])[j] # "prompt"

\* "Once the user requests stop, a concurrent terminal result cannot revive
\* the run or relabel it" (UpdateScheduledRun); what is over stays so, and
\* what was claimed is not claimed again.
StopIsFinal ==
    [][\A r \in Run :
          /\ status[r] = "stopping" => status'[r] \in {"stopping", "interrupted"}
          /\ status[r] \in Over => status'[r] = status[r]
          /\ status[r] \notin {"none", "queued"} => status'[r] # "queued"]_vars

\* A run that was claimed comes to run or is over, and one that was stopped is
\* over, whichever host and runtime die in between and whichever connection
\* breaks; but for a background command the stopped one still has, for a turn
\* that dropped its interrupt and goes on (the host sends it once), and for a
\* run whose end the scheduler has lost (Scan, ActivationFails).
RunsSettle ==
    \A r \in Run :
        status[r] \in {"starting", "stopping"} ~>
            \/ status[r] \notin {"starting", "stopping"}
            \/ r \in lost \/ phase[r] = "background"
            \/ r \in dropped /\ phase[r] = "turn"

\* docs/MANAGEMENT.md: "Stop interrupts one", and after a restart "runs whose
\* runtime survived reconnect": between passes no turn goes on of a run the
\* host has taken up and recorded as interrupted, unless its runtime has yet to
\* read that, the turn dropped it, or the connection broke.
StopReachesRuntime ==
    \A r \in Run :
        pc = "wait" /\ Known(r) /\ session[r].owned
        /\ status[r] = "interrupted" /\ phase[r] = "turn" =>
              wire[r] # <<>> \/ r \in dropped \/ session[r].link = "ended"
=============================================================================
