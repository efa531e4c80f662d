------------------------ MODULE ScheduledRunsProofs ------------------------
(***************************************************************************)
(* Proofs that a task never overlaps itself, that a stop is final, that    *)
(* every variable keeps its type and that a prompt is sent once            *)
(* (ScheduledRuns), for any tasks, runs, slots and bounds.                 *)
(*                                                                         *)
(* Every step but two moves a record the way Follows allows, whatever the  *)
(* scheduler believed when it decided on it, because UpdateScheduledRun    *)
(* looks at the record again.  The two are the steps that make or claim    *)
(* records: a command's "run" and the claim.                               *)
(*                                                                         *)
(* For the prompt, IInv says where it is: with the run's session, on its   *)
(* way or sent, in one of these only.  A session is made for what the pass *)
(* claimed and prepares, which has none, and the queue holds what is not   *)
(* claimed yet, once each.                                                 *)
(***************************************************************************)
EXTENDS ScheduledRuns, SequenceTheorems, FiniteSetTheorems,
        WellFoundedInduction, TLAPS

\* What the scheduler or a client's close writes.
Noted == {"running", "completed", "failed", "interrupted", "quiet"}

Typed ==
    /\ status \in [Run -> Status]
    /\ retry \in [Run -> Noted \cup {None}]
    /\ session \in [Run -> Session \cup {None}]
    /\ phase \in [Run -> Phase]
    /\ outcome \in [Run -> Result \cup {None}]

\* How a record may move once it is made.
Follows(old, new) ==
    /\ new \in Active => old \in Active
    /\ new = "none" <=> old = "none"
    /\ old = "stopping" => new \in {"stopping", "interrupted"}
    /\ old \in Over => new = old
    /\ old \notin {"none", "queued"} => new # "queued"

Inv == Typed /\ OneActivePerTask
-----------------------------------------------------------------------------
(* UpdateScheduledRun *)

LEMMA UpdatedFollows ==
    ASSUME NEW old \in Status, NEW new \in Noted \cup {None}
    PROVE  Updated(old, new) \in Status /\ Follows(old, Updated(old, new))
BY DEF Status, Noted, Updated, Follows, Active, Over

LEMMA FollowsComposes ==
    ASSUME NEW old \in Status, NEW mid \in Status, NEW new \in Status,
           Follows(old, mid), Follows(mid, new)
    PROVE  Follows(old, new)
BY DEF Status, Follows, Active, Over

LEMMA FollowsSelf ==
    ASSUME NEW old \in Status
    PROVE  Follows(old, old)
BY DEF Follows, Active, Over, Status

LEMMA FreshIsUnused ==
    ASSUME NEW t, Unused(t) # {}
    PROVE  Fresh(t) \in Run /\ TaskOf[Fresh(t)] = t /\ status[Fresh(t)] = "none"
<1>1. Fresh(t) \in Unused(t)
  BY DEF Fresh
<1> QED
  BY <1>1 DEF Unused
-----------------------------------------------------------------------------
(* What the tick decides *)

LEMMA DecidedIsNoted ==
    ASSUME Typed, NEW at, NEW r \in Run
    PROVE  FinalOf(r, at) \in Noted \cup {None} /\ NoteOf(r, at) \in Noted \cup {None}
<1>1. NoteOf(r, at) \in Noted \cup {None}
  BY DEF NoteOf, Noted
<1>2. CASE ~IsOver(r, at)
  BY <1>1, <1>2 DEF FinalOf
<1>3. CASE IsOver(r, at)
  <2>1. session[r] \in Session
    BY <1>3 DEF IsOver, Ticks, Known, Typed
  <2>2. session[r].result \in Result \cup {None} /\ session[r].error \in BOOLEAN
    BY <2>1 DEF Session
  <2>3. ResultOf(r, at) \in Result \cup {None}
    BY <2>2 DEF ResultOf, Result
  <2> QED
    BY <1>1, <1>3, <2>2, <2>3 DEF FinalOf, Noted, Result
<1> QED
  BY <1>2, <1>3
-----------------------------------------------------------------------------
(* The steps that move records as Follows allows *)

Moved == \A r \in Run : Follows(status[r], status'[r])

LEMMA Unmoved ==
    ASSUME Typed, status' = status
    PROVE  Moved
BY FollowsSelf DEF Typed, Moved

LEMMA PauseStep ==
    ASSUME Typed, NEW t \in Task, Pause(t)
    PROVE  Typed' /\ Moved
<1>1. status' = [r \in Run |->
            IF TaskOf[r] = t /\ status[r] = "queued" THEN "interrupted"
            ELSE status[r]]
  BY DEF Pause
<1>2. \A r \in Run : status'[r] \in Status /\ Follows(status[r], status'[r])
  BY <1>1 DEF Typed, Status, Follows, Active, Over
<1>3. UNCHANGED <<retry, session, phase, outcome>>
  BY DEF Pause, memory, runtime
<1> QED
  BY <1>1, <1>2, <1>3 DEF Typed, Moved

LEMMA StopStep ==
    ASSUME Typed, NEW r \in Run, Stop(r)
    PROVE  Typed' /\ Moved
<1>1. status' = [status EXCEPT
            ![r] = IF @ = "queued" THEN "interrupted" ELSE "stopping"]
      /\ IsActive(r) /\ status[r] # "stopping"
  BY DEF Stop
<1>2. \A q \in Run : status'[q] \in Status /\ Follows(status[q], status'[q])
  BY <1>1 DEF Typed, IsActive, Status, Follows, Active, Over
<1>3. UNCHANGED <<retry, session, phase, outcome>>
  BY DEF Stop, memory, runtime
<1> QED
  BY <1>1, <1>2, <1>3 DEF Typed, Moved

LEMMA BeginPassStep ==
    ASSUME Typed, BeginPass
    PROVE  Typed' /\ Moved
<1> DEFINE gone == {r \in Started : ~Known(r)}
<1>1. PICK no \in Refused(gone) :
        /\ status' = [r \in Run |->
                IF r \in gone \ no THEN Updated(status[r], "interrupted")
                ELSE status[r]]
        /\ retry' = [r \in Run |-> IF r \in no THEN "interrupted" ELSE retry[r]]
        /\ session' = [r \in Run |->
                IF r \in Started \ gone THEN [session[r] EXCEPT !.owned = TRUE]
                ELSE session[r]]
        /\ UNCHANGED runtime
  BY DEF BeginPass
<1>2. \A r \in Run : status'[r] \in Status /\ Follows(status[r], status'[r])
  <2> TAKE r \in Run
  <2>1. status[r] \in Status /\ "interrupted" \in Noted
    BY DEF Typed, Noted
  <2>2. status'[r] \in {status[r], Updated(status[r], "interrupted")}
    BY <1>1
  <2> QED
    BY <2>1, <2>2, UpdatedFollows, FollowsSelf
<1>3. retry' \in [Run -> Noted \cup {None}]
  BY <1>1 DEF Typed, Noted
<1>4. ASSUME NEW r \in Run
      PROVE  session'[r] \in Session \cup {None}
  <2>1. CASE r \in Started \ gone
    <3>1. session[r] \in Session
      BY <2>1 DEF Known, Typed
    <3>2. session'[r] = [session[r] EXCEPT !.owned = TRUE]
      BY <1>1, <2>1
    <3> QED
      BY <3>1, <3>2 DEF Session
  <2>2. CASE r \notin Started \ gone
    BY <1>1, <2>2 DEF Typed
  <2> QED
    BY <2>1, <2>2
<1>5. UNCHANGED <<phase, outcome>>
  BY <1>1 DEF runtime
<1> QED
  BY <1>1, <1>2, <1>3, <1>4, <1>5 DEF Typed, Moved

LEMMA TickStep ==
    ASSUME Typed, Tick
    PROVE  Typed' /\ Moved
<1> DEFINE
      over == {r \in Run : IsOver(r, cache)}
      noted == {r \in Run : Updated(status[r], NoteOf(r, cache)) # status[r]}
      one(r) == Updated(status[r], retry[r])
      two(r) == Updated(one(r), FinalOf(r, cache))
      three(r) == Updated(two(r), NoteOf(r, cache))
<1>1. PICK no \in Refused({r \in Run : retry[r] # None} \cup over \cup noted) :
        /\ status' = [r \in Run |-> IF r \in no THEN status[r] ELSE three(r)]
        /\ retry' = [r \in Run |->
                IF r \notin no THEN None
                ELSE IF r \in noted THEN NoteOf(r, cache) ELSE retry[r]]
        /\ session' = [r \in Run |->
                IF ~Ticks(r, cache) THEN session[r]
                ELSE [session[r] EXCEPT
                        !.stopSent = Stopped(r, cache),
                        !.result = ResultOf(r, cache),
                        !.prompt = @ /\ ~StopsNow(r, cache) /\ ~Submits(r, cache),
                        !.closing = @ \/ r \in over \ no]]
        /\ UNCHANGED runtime
  BY DEF Tick
<1>2. \A r \in Run : status'[r] \in Status /\ Follows(status[r], status'[r])
  <2> TAKE r \in Run
  <2> HIDE DEF one, two, three
  <2>1. status[r] \in Status /\ retry[r] \in Noted \cup {None}
    BY DEF Typed
  <2>2. one(r) \in Status /\ Follows(status[r], one(r))
    BY <2>1, UpdatedFollows DEF one
  <2>3. two(r) \in Status /\ Follows(one(r), two(r))
    BY <2>2, UpdatedFollows, DecidedIsNoted DEF two
  <2>4. three(r) \in Status /\ Follows(two(r), three(r))
    BY <2>3, UpdatedFollows, DecidedIsNoted DEF three
  <2>5. Follows(status[r], three(r))
    BY <2>1, <2>2, <2>3, <2>4, FollowsComposes
  <2>6. status'[r] \in {status[r], three(r)}
    BY <1>1
  <2> QED
    BY <2>1, <2>4, <2>5, <2>6, FollowsSelf
<1>3. \A r \in Run : retry'[r] \in Noted \cup {None}
  BY <1>1, DecidedIsNoted DEF Typed
<1>4. ASSUME NEW r \in Run
      PROVE  session'[r] \in Session \cup {None}
  <2>1. CASE Ticks(r, cache)
    <3> DEFINE s == session[r]
               stopSent == Stopped(r, cache)
               result == ResultOf(r, cache)
               prompt == s.prompt /\ ~StopsNow(r, cache) /\ ~Submits(r, cache)
               closing == s.closing \/ r \in over \ no
    <3>1. s \in Session
      BY <2>1 DEF Ticks, Known, Typed
    <3>2. stopSent \in BOOLEAN
      <4>1. s.stopSent \in BOOLEAN
        BY <3>1 DEF Session
      <4>2. StopsNow(r, cache) \in BOOLEAN
        BY DEF StopsNow, Ticks
      <4> QED
        BY <4>1, <4>2 DEF Stopped
    <3>3. prompt \in BOOLEAN /\ closing \in BOOLEAN
      BY DEF StopsNow
    <3>4. result \in Result \cup {None}
      BY <3>1 DEF ResultOf, Session, Result
    <3>5. session'[r] = [s EXCEPT !.stopSent = stopSent, !.result = result,
                                  !.prompt = prompt, !.closing = closing]
      BY <1>1, <2>1
    <3> HIDE DEF s, stopSent, result, prompt, closing
    <3> QED
      BY <3>1, <3>2, <3>3, <3>4, <3>5 DEF Session
  <2>2. CASE ~Ticks(r, cache)
    BY <1>1, <2>2 DEF Typed
  <2> QED
    BY <2>1, <2>2
<1>5. UNCHANGED <<phase, outcome>>
  BY <1>1 DEF runtime
<1> QED
  BY <1>1, <1>2, <1>3, <1>4, <1>5 DEF Typed, Moved

LEMMA RecordsStep ==
    ASSUME Typed, NEW r \in Run, NEW new \in Noted, Records(r, new)
    PROVE  /\ status' \in [Run -> Status] /\ Moved
           /\ retry' \in [Run -> Noted \cup {None}]
<1>1. PICK no \in Refused({r}) :
        /\ status' = [status EXCEPT ![r] = IF no = {} THEN Updated(@, new) ELSE @]
        /\ retry' = [retry EXCEPT ![r] = IF no = {} THEN @ ELSE new]
  BY DEF Records
<1>2. \A q \in Run : status'[q] \in Status /\ Follows(status[q], status'[q])
  <2> TAKE q \in Run
  <2>1. status[q] \in Status
    BY DEF Typed
  <2>2. status'[q] \in {status[q], Updated(status[q], new)}
    BY <1>1 DEF Typed
  <2> QED
    BY <2>1, <2>2, UpdatedFollows, FollowsSelf
<1> QED
  BY <1>1, <1>2 DEF Typed, Moved

LEMMA DecideStep ==
    ASSUME Typed, Decide
    PROVE  Typed' /\ Moved
<1>1. UNCHANGED <<phase, outcome>>
  BY DEF Decide, runtime
<1> DEFINE r == Head(prepare)
<1>2. CASE /\ session' = [session EXCEPT ![r] = [Saved EXCEPT !.owned = TRUE, !.prompt = TRUE]]
           /\ UNCHANGED <<status, retry>>
  <2>1. [Saved EXCEPT !.owned = TRUE, !.prompt = TRUE] \in Session
    BY DEF Saved, Session, Phase
  <2>2. session' \in [Run -> Session \cup {None}]
    BY <1>2, <2>1 DEF Typed
  <2> QED
    BY <1>1, <1>2, <2>2, Unmoved DEF Typed
<1>3. CASE /\ \E new \in {"failed", "quiet", "interrupted"} : Records(r, new)
           /\ UNCHANGED session
  <2>1. PICK new \in {"failed", "quiet", "interrupted"} : Records(r, new)
    BY <1>3
  <2>2. new \in Noted
    BY DEF Noted
  <2>3. /\ status' \in [Run -> Status] /\ Moved
        /\ retry' \in [Run -> Noted \cup {None}]
    <3>1. CASE r \in Run
      BY <2>1, <2>2, <3>1, RecordsStep
    <3>2. CASE r \notin Run
      <4>1. status' = status /\ retry' = retry
        BY <2>1, <3>2 DEF Records, Typed
      <4> QED
        BY <4>1, Unmoved DEF Typed
    <3> QED
      BY <3>1, <3>2
  <2> QED
    BY <1>1, <1>3, <2>3 DEF Typed
<1> QED
  BY <1>2, <1>3 DEF Decide, bounds

LEMMA ActivationFailsStep ==
    ASSUME Typed, NEW r \in Run, NEW new \in Noted, ActivationFails(r, new)
    PROVE  status' \in [Run -> Status] /\ Moved
<1>1. PICK no \in Refused({r}) :
        status' = [status EXCEPT ![r] = IF no = {} THEN Updated(@, new) ELSE @]
  BY DEF ActivationFails
<1>2. \A q \in Run : status'[q] \in Status /\ Follows(status[q], status'[q])
  <2> TAKE q \in Run
  <2>1. status[q] \in Status
    BY DEF Typed
  <2>2. status'[q] \in {status[q], Updated(status[q], new)}
    BY <1>1 DEF Typed
  <2> QED
    BY <2>1, <2>2, UpdatedFollows, FollowsSelf
<1> QED
  BY <1>1, <1>2 DEF Typed, Moved

LEMMA ActivatedStep ==
    ASSUME Typed, NEW r \in Run, Activated(r)
    PROVE  session' \in [Run -> Session \cup {None}] /\ status' = status
<1>1. session' = [session EXCEPT ![r].link = "live", ![r].error = FALSE]
  BY DEF Activated
<1>2. session[r] \in Session
  BY DEF Activated, Known, Typed
<1>3. [session[r] EXCEPT !.link = "live", !.error = FALSE] \in Session
  BY <1>2 DEF Session
<1> QED
  BY <1>1, <1>3 DEF Typed, Activated

LEMMA ReconnectStep ==
    ASSUME Typed, NEW r \in Run, Reconnect(r)
    PROVE  Typed' /\ Moved
<1>1. UNCHANGED <<retry, outcome>>
  BY DEF Reconnect
<1>2. CASE ActivationFails(r, "interrupted")
  <2>1. status' \in [Run -> Status] /\ Moved
    BY <1>2, ActivationFailsStep DEF Noted
  <2>2. UNCHANGED <<session, phase>>
    BY <1>2 DEF ActivationFails
  <2> QED
    BY <1>1, <2>1, <2>2 DEF Typed
<1>3. CASE Activated(r) /\ UNCHANGED <<alive, phase>>
  BY <1>1, <1>3, ActivatedStep, Unmoved DEF Typed
<1> QED
  BY <1>2, <1>3 DEF Reconnect

LEMMA LaunchStep ==
    ASSUME Typed, NEW r \in Run, Launch(r)
    PROVE  Typed' /\ Moved
<1>1. UNCHANGED <<retry, outcome>>
  BY DEF Launch
<1>2. CASE ActivationFails(r, "failed")
  <2>1. status' \in [Run -> Status] /\ Moved
    BY <1>2, ActivationFailsStep DEF Noted
  <2>2. UNCHANGED <<session, phase>>
    BY <1>2 DEF ActivationFails
  <2> QED
    BY <1>1, <2>1, <2>2 DEF Typed
<1>3. CASE Activated(r) /\ phase' = [phase EXCEPT ![r] = "starting"]
  <2>1. phase' \in [Run -> Phase]
    BY <1>3 DEF Typed, Phase
  <2> QED
    BY <1>1, <1>3, <2>1, ActivatedStep, Unmoved DEF Typed
<1> QED
  BY <1>2, <1>3 DEF Launch

LEMMA DeliverStep ==
    ASSUME Typed, NEW r \in Run, Deliver(r)
    PROVE  Typed' /\ Moved
<1>1. UNCHANGED <<status, retry, phase, outcome>>
  BY DEF Deliver, store
<1>2. \/ session' = session
      \/ session' = [session EXCEPT ![r] = IF @ = None THEN None
                        ELSE [@ EXCEPT !.error = TRUE, !.result = "failed"]]
  BY DEF Deliver
<1>3. session[r] \in Session =>
        [session[r] EXCEPT !.error = TRUE, !.result = "failed"] \in Session
  BY DEF Session, Result
<1> QED
  BY <1>1, <1>2, <1>3, Unmoved DEF Typed

LEMMA ReceivedStep ==
    ASSUME Typed, NEW r \in Run, Received(r)
    PROVE  Typed' /\ Moved
<1>1. UNCHANGED <<status, retry, phase, outcome>>
  BY DEF Received, store
<1>2. session' = [session EXCEPT ![r] = Told(r)] /\ session[r] \in Session
  BY DEF Received, Known, Typed
<1>3. Told(r) \in Session
  <2> DEFINE s == session[r]
             result == IF outcome[r] # None THEN outcome[r] ELSE s.result
             error == s.error \/ (outcome[r] = "failed"
                                  /\ (phase[r] = "ended" \/ s.heard # "none"))
  <2>1. Told(r) = [s EXCEPT !.heard = phase[r], !.result = result, !.error = error]
    BY DEF Told
  <2>2. result \in Result \cup {None} /\ error \in BOOLEAN
    BY <1>2 DEF Typed, Session
  <2>3. s \in Session /\ phase[r] \in Phase
    BY <1>2 DEF Typed
  <2> HIDE DEF s, result, error
  <2> QED
    BY <2>1, <2>2, <2>3 DEF Session
<1> QED
  BY <1>1, <1>2, <1>3, Unmoved DEF Typed

\* Whichever way the reader ends.
LEMMA ReaderEndsStep ==
    ASSUME Typed, NEW r \in Run, ReaderEnds(r) \/ LinkLost(r) \/ LetGo(r)
    PROVE  Typed' /\ Moved
<1>0. PutAway(r)
  BY DEF ReaderEnds, LinkLost, LetGo
<1>1. UNCHANGED <<status, retry, phase, outcome>>
  BY DEF ReaderEnds, LinkLost, LetGo, PutAway, store, runtime
<1> DEFINE s == session[r]
           error == s.error /\ TurnActive(r) /\ ~s.closing
<1>2. s \in Session
  BY <1>0 DEF PutAway, Known, Typed
<1>3. session' = [session EXCEPT ![r] =
            [s EXCEPT !.link = "ended", !.heard = "none", !.closing = FALSE,
                      !.error = error]]
  BY <1>0 DEF PutAway, Typed
<1>4. error \in BOOLEAN
  BY <1>2 DEF Session, TurnActive
<1> HIDE DEF s, error
<1>5. [s EXCEPT !.link = "ended", !.heard = "none", !.closing = FALSE,
                !.error = error] \in Session
  BY <1>2, <1>4 DEF Session, Phase
<1> QED
  BY <1>1, <1>3, <1>5, Unmoved DEF Typed

LEMMA ScanStep ==
    ASSUME Typed, NEW r \in Run, Scan(r)
    PROVE  Typed' /\ Moved
BY Unmoved DEF Scan, Typed, store, runtime

LEMMA CloseSessionStep ==
    ASSUME Typed, NEW r \in Run, CloseSession(r)
    PROVE  Typed' /\ Moved
<1>1. UNCHANGED <<retry, phase, outcome>>
  BY DEF CloseSession
<1>2. session' = [session EXCEPT ![r].closing = TRUE] /\ session[r] \in Session
  BY DEF CloseSession, Known, Typed
<1>3. [session[r] EXCEPT !.closing = TRUE] \in Session
  BY <1>2 DEF Session
<1>4. \/ status' = status
      \/ status' = [status EXCEPT ![r] = Updated(@, "interrupted")]
  BY DEF CloseSession
<1>5. \A q \in Run : status'[q] \in Status /\ Follows(status[q], status'[q])
  <2> TAKE q \in Run
  <2>1. status[q] \in Status /\ "interrupted" \in Noted
    BY DEF Typed, Noted
  <2>2. status'[q] \in {status[q], Updated(status[q], "interrupted")}
    BY <1>4 DEF Typed
  <2> QED
    BY <2>1, <2>2, UpdatedFollows, FollowsSelf
<1> QED
  BY <1>1, <1>2, <1>3, <1>4, <1>5 DEF Typed, Moved

LEMMA HostStep ==
    ASSUME Typed, HostDies \/ HostStarts
    PROVE  Typed' /\ Moved
<1>1. UNCHANGED <<status, phase, outcome>>
  BY DEF HostDies, HostStarts, store, runtime
<1>2. retry' \in [Run -> Noted \cup {None}]
  BY DEF HostDies, HostStarts, Typed
<1>3. Saved \in Session
  BY DEF Saved, Session, Phase
<1>4. session' \in [Run -> Session \cup {None}]
  BY <1>3 DEF HostDies, HostStarts
<1> QED
  BY <1>1, <1>2, <1>4, Unmoved DEF Typed

\* The runtimes touch no record and no session.
LEMMA RuntimeStep ==
    ASSUME Typed, NEW r \in Run,
           Worker(r) \/ Works(r) \/ Retire(r) \/ Dies(r)
    PROVE  Typed' /\ Moved
<1>1. UNCHANGED <<status, retry, session>>
  BY DEF Worker, Ready, TakeCommand, Publish, Works, Retire, Dies, RuntimeOnly,
         store, memory
<1>2. phase' \in [Run -> Phase]
  <2>1. ASSUME NEW next \in Phase, Becomes(r, next)
        PROVE  phase' \in [Run -> Phase]
    BY <2>1 DEF Becomes, Typed
  <2>2. phase' = phase \/ \E next \in Phase : Becomes(r, next)
    BY DEF Worker, Ready, TakeCommand, Publish, Works, EndTurn, BackgroundEnds,
           Retire, Dies, Gone, Ends, Phase
  <2> QED
    BY <2>1, <2>2 DEF Typed
<1>3. outcome' \in [Run -> Result \cup {None}]
  <2>1. \/ outcome' = outcome \/ outcome' = [outcome EXCEPT ![r] = None]
        \/ \E how \in Result : outcome' = [outcome EXCEPT ![r] = how]
    BY DEF Worker, Ready, TakeCommand, Publish, Works, EndTurn, BackgroundEnds,
           Retire, Dies, Gone, Ends, Result
  <2> QED
    BY <2>1 DEF Typed
<1> QED
  BY <1>1, <1>2, <1>3, Unmoved DEF Typed

\* The steps that change nothing of this.
LEMMA OtherStep ==
    ASSUME Typed,
           \/ \E t \in Task : FallDue(t) \/ Resume(t)
           \/ NoClaim \/ Prepare
    PROVE  Typed' /\ Moved
<1>1. UNCHANGED <<status, retry, session, phase, outcome>>
  BY DEF FallDue, Resume, NoClaim, Prepare, store, memory, runtime
<1> QED
  BY <1>1, Unmoved DEF Typed
-----------------------------------------------------------------------------
(* The two steps that make and claim records *)

\* What they do to the records: one that was "none" is made, or one that waits
\* is claimed, or nothing.
Makes(r) ==
    \/ status'[r] = status[r]
    \/ status[r] = "none" /\ status'[r] \in {"queued", "starting", "skipped"}
    \/ status[r] = "queued" /\ status'[r] = "starting"

LEMMA RunNowStep ==
    ASSUME Typed, OneActivePerTask, NEW t \in Task, RunNow(t)
    PROVE  Typed' /\ OneActivePerTask' /\ \A r \in Run : Makes(r)
<1>1. /\ Fresh(t) \in Run /\ TaskOf[Fresh(t)] = t /\ status[Fresh(t)] = "none"
      /\ status' = [status EXCEPT ![Fresh(t)] = "queued"]
      /\ ~Busy(t)
  BY FreshIsUnused DEF RunNow
<1>2. UNCHANGED <<retry, session, phase, outcome>>
  BY DEF RunNow, memory, runtime
<1>3. status' \in [Run -> Status]
  BY <1>1 DEF Typed, Status, Active
<1>4. \A r \in Run : Makes(r)
  BY <1>1 DEF Makes, Typed
<1>5. OneActivePerTask'
  <2>1. \A r \in Run : r # Fresh(t) => (IsActive(r)' <=> IsActive(r))
    BY <1>1 DEF IsActive, Typed
  <2>2. \A r \in Run : TaskOf[r] = t => ~IsActive(r)
    BY <1>1 DEF Busy
  <2> QED
    BY <1>1, <2>1, <2>2 DEF OneActivePerTask
<1> QED
  BY <1>2, <1>3, <1>4, <1>5 DEF Typed

\* The tasks that fall due at a claim, the records it makes for them, what the
\* records are then, the line of those that wait and the ones that are taken.
FallingDue == {t \in due : task[t] = "enabled" /\ Unused(t) # {}}
Made == {Fresh(t) : t \in FallingDue}
Recorded(late) ==
    [r \in Run |->
        IF r \notin Made THEN status[r]
        ELSE IF TaskOf[r] \in late \/ Busy(TaskOf[r]) THEN "skipped"
        ELSE "queued"]
Everyone == queue \o SetToSeq(Made)
Line(late) ==
    Kept(Everyone, {i \in DOMAIN Everyone : Recorded(late)[Everyone[i]] = "queued"})
Free == IF Cardinality(Working) < Slots THEN Slots - Cardinality(Working) ELSE 0
Taken(late) ==
    SubSeq(Line(late), 1, IF Len(Line(late)) < Free THEN Len(Line(late)) ELSE Free)
Taking(late, taken) ==
    [r \in Run |->
        IF Recorded(late)[r] = "queued" /\ r \in taken THEN "starting"
        ELSE Recorded(late)[r]]

LEMMA ClaimParts ==
    ASSUME Claim
    PROVE  \E late \in SUBSET FallingDue :
              /\ status' = Taking(late, ToSet(Taken(late)))
              /\ queue' = SubSeq(Line(late), Len(Taken(late)) + 1, Len(Line(late)))
              /\ prepare' = Taken(late)
              /\ pc' = Onward(Taken(late), reconnect \cup launch, send)
BY Zenon DEF Claim, FallingDue, Made, Recorded, Everyone, Line, Free, Taken, Taking

\* A made record is of its own task, and had none before.
LEMMA MadeFacts ==
    ASSUME NEW r \in Made
    PROVE  /\ r \in Run /\ status[r] = "none"
           /\ \A q \in Made : TaskOf[q] = TaskOf[r] => q = r
<1>1. PICK t \in FallingDue : r = Fresh(t)
  BY DEF Made
<1>2. r \in Run /\ TaskOf[r] = t /\ status[r] = "none"
  BY <1>1, FreshIsUnused DEF FallingDue
<1>3. ASSUME NEW q \in Made, TaskOf[q] = TaskOf[r]
      PROVE  q = r
  <2>1. PICK u \in FallingDue : q = Fresh(u)
    BY DEF Made
  <2>2. TaskOf[q] = u
    BY <2>1, FreshIsUnused DEF FallingDue
  <2> QED
    BY <1>1, <1>2, <1>3, <2>1, <2>2
<1> QED
  BY <1>2, <1>3

LEMMA ClaimStep ==
    ASSUME Typed, OneActivePerTask, Claim
    PROVE  Typed' /\ OneActivePerTask' /\ \A r \in Run : Makes(r)
<1>1. PICK late \in SUBSET FallingDue : \E taken : status' = Taking(late, taken)
  BY ClaimParts
<1>2. PICK taken : status' = Taking(late, taken)
  BY <1>1
<1>3. \A r \in Made : /\ r \in Run /\ status[r] = "none"
                      /\ \A q \in Made : TaskOf[q] = TaskOf[r] => q = r
  BY MadeFacts
\* A Made one waits only where the task has no other.
<1>4. ASSUME NEW r \in Run, r \in Made
      PROVE  \/ status'[r] = "skipped"
             \/ status'[r] \in {"queued", "starting"} /\ ~Busy(TaskOf[r])
  BY <1>2, <1>4 DEF Taking, Recorded
<1>5. ASSUME NEW r \in Run, r \notin Made
      PROVE  \/ status'[r] = status[r]
             \/ status[r] = "queued" /\ status'[r] = "starting"
  BY <1>2, <1>5 DEF Taking, Recorded
<1>6. \A r \in Run : Makes(r)
  BY <1>3, <1>4, <1>5 DEF Makes
<1>7. status' \in [Run -> Status]
  <2>1. \A r \in Run : status'[r] \in Status
    BY <1>4, <1>5 DEF Typed, Status, Active, Over
  <2>2. \E f : status' = [r \in Run |-> f[r]]
    BY <1>2 DEF Taking
  <2> QED
    BY <2>1, <2>2
<1>8. OneActivePerTask'
  <2> SUFFICES ASSUME NEW q \in Run, NEW r \in Run, TaskOf[q] = TaskOf[r],
                      IsActive(q)', IsActive(r)'
               PROVE  q = r
    BY DEF OneActivePerTask
  <2>1. ASSUME NEW p \in Run, IsActive(p)'
        PROVE  \/ p \in Made /\ ~Busy(TaskOf[p])
               \/ p \notin Made /\ IsActive(p)
    BY <2>1, <1>4, <1>5 DEF IsActive, Active
  <2>2. CASE q \in Made /\ r \in Made
    BY <2>2, <1>3
  <2>3. CASE q \notin Made /\ r \notin Made
    BY <2>1, <2>3 DEF OneActivePerTask
  <2>4. CASE (q \in Made) # (r \in Made)
    BY <2>1, <2>4 DEF Busy
  <2> QED
    BY <2>2, <2>3, <2>4
<1>9. UNCHANGED <<retry, session, phase, outcome>>
  BY DEF Claim, memory, runtime
<1> QED
  BY <1>6, <1>7, <1>8, <1>9 DEF Typed
-----------------------------------------------------------------------------
(* Every step *)

LEMMA NextStep ==
    ASSUME Inv, Next
    PROVE  Inv' /\ \A r \in Run : Follows(status[r], status'[r]) \/ Makes(r)
<1>1. ASSUME Typed' /\ Moved
      PROVE  Inv' /\ \A r \in Run : Follows(status[r], status'[r]) \/ Makes(r)
  BY <1>1 DEF Inv, Moved, Follows, OneActivePerTask, IsActive
<1>2. ASSUME NEW t \in Task, FallDue(t) \/ Resume(t)
      PROVE  Typed' /\ Moved
  BY <1>2, OtherStep DEF Inv
<1>3. ASSUME NEW t \in Task, RunNow(t)
      PROVE  Inv' /\ \A r \in Run : Makes(r)
  BY <1>3, RunNowStep DEF Inv
<1>4. ASSUME NEW t \in Task, Pause(t)
      PROVE  Typed' /\ Moved
  BY <1>4, PauseStep DEF Inv
<1>5. ASSUME NEW r \in Run, Stop(r) \/ CloseSession(r)
      PROVE  Typed' /\ Moved
  BY <1>5, StopStep, CloseSessionStep DEF Inv
<1>6. ASSUME BeginPass \/ Tick \/ NoClaim \/ Prepare \/ Decide
      PROVE  Typed' /\ Moved
  BY <1>6, BeginPassStep, TickStep, OtherStep, DecideStep DEF Inv
<1>7. ASSUME Claim
      PROVE  Inv' /\ \A r \in Run : Makes(r)
  BY <1>7, ClaimStep DEF Inv
<1>8. ASSUME NEW r \in Run, Reconnect(r) \/ Launch(r) \/ Deliver(r)
      PROVE  Typed' /\ Moved
  BY <1>8, ReconnectStep, LaunchStep, DeliverStep DEF Inv
<1>9. ASSUME HostDies \/ HostStarts
      PROVE  Typed' /\ Moved
  BY <1>9, HostStep DEF Inv
<1>10. ASSUME NEW r \in Run, Reader(r) \/ LinkLost(r) \/ Scan(r)
       PROVE  Typed' /\ Moved
  BY <1>10, ReceivedStep, ReaderEndsStep, ScanStep DEF Inv, Reader
<1>11. ASSUME NEW r \in Run, Worker(r) \/ Works(r) \/ Retire(r) \/ Dies(r)
       PROVE  Typed' /\ Moved
  BY <1>11, RuntimeStep DEF Inv
<1> QED
  BY <1>1, <1>2, <1>3, <1>4, <1>5, <1>6, <1>7, <1>8, <1>9, <1>10, <1>11
     DEF Next, Users, Scheduler

LEMMA Invariance == Spec => []Inv
<1>1. Init => Inv
  BY DEF Init, Inv, Typed, Status, Phase, OneActivePerTask, IsActive, Active
<1>2. Inv /\ [Next]_vars => Inv'
  <2> SUFFICES ASSUME Inv, [Next]_vars
               PROVE  Inv'
    OBVIOUS
  <2>1. CASE Next
    BY <2>1, NextStep
  <2>2. CASE UNCHANGED vars
    <3>1. UNCHANGED <<status, retry, session, phase, outcome>>
      BY <2>2 DEF vars, store, memory, runtime
    <3> QED
      BY <3>1 DEF Inv, Typed, OneActivePerTask, IsActive
  <2> QED
    BY <2>1, <2>2
<1> QED
  BY <1>1, <1>2, PTL DEF Spec

\* "A task never overlaps itself" (docs/MANAGEMENT.md): ScheduleRun and
\* ClaimScheduledRuns look for an active run under the file's lock, and no
\* update makes a record active again.
THEOREM NeverOverlaps == Spec => []OneActivePerTask
BY Invariance, PTL DEF Inv

\* What UpdateScheduledRun keeps, whatever update comes how late: a stopped run
\* is only ever interrupted, what is over stays so, and what was claimed is not
\* claimed again.
THEOREM StopHolds == Spec => StopIsFinal
<1> DEFINE Final == \A r \in Run :
              /\ status[r] = "stopping" => status'[r] \in {"stopping", "interrupted"}
              /\ status[r] \in Over => status'[r] = status[r]
              /\ status[r] \notin {"none", "queued"} => status'[r] # "queued"
<1>1. Inv /\ [Next]_vars => [Final]_vars
  <2> SUFFICES ASSUME Inv, Next
               PROVE  Final
    OBVIOUS
  <2>1. \A r \in Run : Follows(status[r], status'[r]) \/ Makes(r)
    BY NextStep
  <2> QED
    BY <2>1 DEF Follows, Makes, Over
<1> QED
  BY <1>1, Invariance, PTL DEF Spec, StopIsFinal
-----------------------------------------------------------------------------
(***************************************************************************)
(* What stands in some places of a sequence.                               *)
(***************************************************************************)
\* Every set of numbers has a least one.
LEMMA Least ==
  ASSUME NEW T \in SUBSET Nat, T # {}
  PROVE  \E x \in T : \A y \in T : x <= y
<1> DEFINE R == OpToRel(<, Nat)
<1>1. IsWellFoundedOn(R, Nat)
  BY NatLessThanWellFounded
<1>2. R = {ss \in Nat \X Nat : ss[1] < ss[2]}
  BY DEF OpToRel
<1> HIDE DEF R
<1>3. PICK x \in T : \A y \in T : ~ (<<y, x>> \in R)
  BY <1>1, WFMin
<1>4. ASSUME NEW y \in T
      PROVE  x <= y
  <2>1. x \in Nat /\ y \in Nat
    OBVIOUS
  <2>2. ~(y < x)
    BY <1>2, <1>3, <2>1
  <2> QED BY <2>1, <2>2
<1> QED BY <1>4

\* The rank of a place grows by one at every place.
LEMMA RankFacts ==
  ASSUME NEW n \in Nat, NEW at \in SUBSET (1 .. n)
  PROVE  /\ IsFiniteSet(at) /\ Cardinality(at) \in Nat
         /\ \A i \in Int : Rank(at, i) \in Nat
         /\ Rank(at, 0) = 0 /\ Rank(at, n) = Cardinality(at)
         /\ \A i \in Nat \ {0} : Rank(at, i) = Rank(at, i - 1) + (IF i \in at THEN 1 ELSE 0)
         /\ \A i, j \in at : i < j => Rank(at, i) < Rank(at, j)
<1>1. IsFiniteSet(at) /\ Cardinality(at) \in Nat
  <2>1. IsFiniteSet(1 .. n)
    BY FS_Interval
  <2>2. IsFiniteSet(at)
    BY <2>1, FS_Subset
  <2> QED BY <2>2, FS_CardinalityType
<1>0. \A j \in at : j \in Int /\ 1 <= j /\ j <= n
  OBVIOUS
<1>2. ASSUME NEW i
      PROVE  IsFiniteSet({j \in at : j <= i})
  <2>1. {j \in at : j <= i} \in SUBSET at
    OBVIOUS
  <2> QED BY <1>1, <2>1, FS_Subset
<1>3. \A i \in Int : Rank(at, i) \in Nat
  BY <1>2, FS_CardinalityType DEF Rank
<1>4. Rank(at, 0) = 0
  <2>1. {j \in at : j <= 0} = {}
    <3>1. ASSUME NEW j \in at
          PROVE  ~(j <= 0)
      <4>1. j \in Int /\ 1 <= j
        BY <1>0
      <4> QED BY <4>1
    <3> QED BY <3>1
  <2>2. Cardinality({}) = 0
    BY FS_EmptySet
  <2> QED BY <2>1, <2>2 DEF Rank
<1>5. Rank(at, n) = Cardinality(at)
  <2>1. {j \in at : j <= n} = at
    BY <1>0
  <2> QED BY <2>1 DEF Rank
<1>6. ASSUME NEW i \in Nat \ {0}
      PROVE  Rank(at, i) = Rank(at, i - 1) + (IF i \in at THEN 1 ELSE 0)
  <2> DEFINE A == {j \in at : j <= i - 1}
  <2>1. IsFiniteSet(A) /\ i \notin A
    <3>1. i \notin A
      OBVIOUS
    <3> QED BY <1>2, <3>1
  <2>0. \A j \in at : j <= i <=> j <= i - 1 \/ j = i
    BY <1>0
  <2>2. CASE i \in at
    <3>1. {j \in at : j <= i} = A \cup {i}
      BY <2>0, <2>2
    <3>2. Cardinality(A \cup {i}) = Cardinality(A) + 1
      BY <2>1, FS_AddElement
    <3> QED BY <2>2, <3>1, <3>2 DEF Rank
  <2>3. CASE i \notin at
    <3>1. {j \in at : j <= i} = A
      BY <2>0, <2>3
    <3>2. Rank(at, i) = Rank(at, i - 1)
      BY <3>1 DEF Rank
    <3>3. i - 1 \in Int
      OBVIOUS
    <3>4. Rank(at, i - 1) \in Nat
      BY <1>3, <3>3
    <3> QED BY <2>3, <3>2, <3>4
  <2> QED BY <2>2, <2>3
<1>7. ASSUME NEW i \in at, NEW j \in at, i < j
      PROVE  Rank(at, i) < Rank(at, j)
  <2> DEFINE A == {k \in at : k <= i}
             B == {k \in at : k <= j}
  <2>1. IsFiniteSet(A) /\ IsFiniteSet(B) /\ A \in SUBSET B /\ j \in B /\ j \notin A
    <3>0. i \in Int /\ j \in Int /\ \A k \in at : k \in Int
      BY <1>0
    <3>1. ASSUME NEW k \in A
          PROVE  k \in B
      <4>1. k \in at /\ k \in Int /\ k <= i
        BY <3>0
      <4>2. k <= j
        BY <1>7, <3>0, <4>1
      <4> QED BY <4>1, <4>2
    <3>2. j \in B /\ j \notin A
      BY <1>7, <3>0
    <3> QED BY <1>2, <3>1, <3>2
  <2>2. Cardinality(A) <= Cardinality(B) /\ (Cardinality(A) = Cardinality(B) => A = B)
    BY <2>1, FS_Subset
  <2>3. Cardinality(A) \in Nat /\ Cardinality(B) \in Nat /\ A # B
    BY <2>1, FS_CardinalityType
  <2>4. Cardinality(A) < Cardinality(B)
    BY <2>2, <2>3
  <2> QED BY <2>4 DEF Rank
<1> QED BY <1>1, <1>3, <1>4, <1>5, <1>6, <1>7

\* An interval from one has one end.
LEMMA SameInterval ==
  ASSUME NEW a \in Nat, NEW b \in Nat, 1 .. a = 1 .. b
  PROVE  a = b
<1>1. CASE a < b
  <2>1. b \in 1 .. b /\ b \notin 1 .. a
    BY <1>1
  <2> QED BY <2>1
<1>2. CASE b < a
  <2>1. a \in 1 .. a /\ a \notin 1 .. b
    BY <1>2
  <2> QED BY <2>1
<1> QED BY <1>1, <1>2

\* Some place has each rank.
LEMMA RankReached ==
  ASSUME NEW n \in Nat, NEW at \in SUBSET (1 .. n), NEW k \in 1 .. Cardinality(at)
  PROVE  \E i \in at : Rank(at, i) = k
<1> DEFINE T == {i \in Nat : Rank(at, i) >= k}
<1>1. /\ Cardinality(at) \in Nat /\ Rank(at, 0) = 0 /\ Rank(at, n) = Cardinality(at)
      /\ \A i \in Int : Rank(at, i) \in Nat
      /\ \A i \in Nat \ {0} :
            Rank(at, i) = Rank(at, i - 1) + (IF i \in at THEN 1 ELSE 0)
  BY RankFacts
<1>2. n \in T
  BY <1>1
<1>3. PICK m \in T : \A y \in T : m <= y
  BY <1>2, Least
<1>4. m \in Nat /\ Rank(at, m) >= k /\ Rank(at, m) \in Nat
  BY <1>1, <1>3
<1>5. m # 0
  BY <1>1, <1>4
<1>6. m - 1 \in Nat /\ ~(Rank(at, m - 1) >= k) /\ Rank(at, m - 1) \in Nat
  <2>1. m - 1 \in Nat /\ m - 1 \in Int /\ ~(m <= m - 1)
    BY <1>4, <1>5
  <2>2. m - 1 \notin T
    BY <1>3, <2>1
  <2> QED BY <1>1, <2>1, <2>2
<1>7. Rank(at, m) = Rank(at, m - 1) + (IF m \in at THEN 1 ELSE 0)
  BY <1>1, <1>4, <1>5
<1>8. m \in at
  BY <1>4, <1>6, <1>7
<1>9. Rank(at, m) = k
  BY <1>4, <1>6, <1>7, <1>8
<1> QED BY <1>8, <1>9

\* The place of the k-th kept element.
Pick(at) == [k \in 1 .. Cardinality(at) |-> CHOOSE i \in at : Rank(at, i) = k]

LEMMA KeptFacts ==
  ASSUME NEW S, NEW s \in Seq(S), NEW at \in SUBSET (DOMAIN s)
  PROVE  /\ Kept(s, at) \in Seq(S) /\ Len(Kept(s, at)) = Cardinality(at)
         /\ Cardinality(at) \in Nat /\ IsFiniteSet(at)
         /\ DOMAIN Kept(s, at) = 1 .. Cardinality(at)
         /\ \A k \in 1 .. Cardinality(at) :
               Pick(at)[k] \in at /\ Kept(s, at)[k] = s[Pick(at)[k]]
         /\ \A k, l \in 1 .. Cardinality(at) : Pick(at)[k] = Pick(at)[l] => k = l
         /\ \A i \in at : \E k \in 1 .. Cardinality(at) : Pick(at)[k] = i
<1> DEFINE n == Len(s)
           c == Cardinality(at)
<1>1. n \in Nat /\ DOMAIN s = 1 .. n /\ at \in SUBSET (1 .. n)
  BY LenProperties
<1>2. /\ IsFiniteSet(at) /\ c \in Nat
      /\ \A i \in Int : Rank(at, i) \in Nat
      /\ Rank(at, n) = c
      /\ \A i, j \in at : i < j => Rank(at, i) < Rank(at, j)
      /\ \A i \in Nat \ {0} :
            Rank(at, i) = Rank(at, i - 1) + (IF i \in at THEN 1 ELSE 0)
  BY <1>1, RankFacts
<1>3. ASSUME NEW k \in 1 .. c
      PROVE  /\ Pick(at)[k] \in at /\ Rank(at, Pick(at)[k]) = k
             /\ Kept(s, at)[k] = s[Pick(at)[k]] /\ Kept(s, at)[k] \in S
  <2>1. \E i \in at : Rank(at, i) = k
    BY <1>1, RankReached
  <2>2. Pick(at)[k] \in at /\ Rank(at, Pick(at)[k]) = k
    BY <2>1 DEF Pick
  <2>3. Kept(s, at)[k] = s[Pick(at)[k]]
    BY DEF Kept, Pick
  <2>4. s[Pick(at)[k]] \in S
    BY <1>1, <2>2, ElementOfSeq
  <2> QED BY <2>2, <2>3, <2>4
<1>4. DOMAIN Kept(s, at) = 1 .. c
  BY DEF Kept
<1>5. Kept(s, at) \in Seq(S) /\ Len(Kept(s, at)) = c
  <2>1. Kept(s, at) = [k \in 1 .. c |-> Kept(s, at)[k]]
    BY DEF Kept
  <2>2. Kept(s, at) \in [1 .. c -> S]
    BY <1>3, <2>1
  <2>3. Kept(s, at) \in Seq(S)
    <3>1. c \in Nat
      BY <1>2
    <3> HIDE DEF c
    <3> QED BY <2>2, <3>1, SeqDef
  <2>4. Len(Kept(s, at)) \in Nat /\ DOMAIN Kept(s, at) = 1 .. Len(Kept(s, at))
    BY <2>3, LenProperties
  <2> HIDE DEF c
  <2>5. 1 .. c = 1 .. Len(Kept(s, at))
    BY <1>4, <2>4
  <2>6. Len(Kept(s, at)) = c
    BY <1>2, <2>4, <2>5, SameInterval
  <2> QED BY <2>3, <2>6
<1>6. ASSUME NEW i \in at
      PROVE  \E k \in 1 .. c : Pick(at)[k] = i
  <2>1. i \in 1 .. n /\ Rank(at, i) \in Nat
    BY <1>1, <1>2
  <2>2. Rank(at, i) >= 1
    <3>1. Rank(at, i) = Rank(at, i - 1) + 1
      BY <1>2, <2>1
    <3>2. i - 1 \in Int
      BY <2>1
    <3>3. Rank(at, i - 1) \in Nat
      BY <1>2, <3>2
    <3> QED BY <3>1, <3>3
  <2>3. Rank(at, i) <= c
    <3> DEFINE A == {j \in at : j <= i}
    <3>1. A \in SUBSET at
      OBVIOUS
    <3>2. Cardinality(A) <= Cardinality(at)
      BY <1>2, <3>1, FS_Subset
    <3> QED BY <3>2 DEF Rank
  <2>4. Rank(at, i) \in 1 .. c
    <3>1. c \in Nat
      BY <1>2
    <3> HIDE DEF c
    <3>2. Rank(at, i) <= c
      BY <2>3 DEF c
    <3> QED BY <2>1, <2>2, <3>1, <3>2
  <2>5. /\ Pick(at)[Rank(at, i)] \in at
        /\ Rank(at, Pick(at)[Rank(at, i)]) = Rank(at, i)
    BY <1>3, <2>4
  <2>6. ASSUME NEW j \in at, Rank(at, j) = Rank(at, i)
        PROVE  j = i
    <3>1. j \in 1 .. n /\ Rank(at, j) \in Nat
      BY <1>1, <1>2
    <3>2. ~(i < j) /\ ~(j < i)
      <4>1. /\ i < j => Rank(at, i) < Rank(at, j)
            /\ j < i => Rank(at, j) < Rank(at, i)
        BY <1>2
      <4> QED BY <2>1, <2>6, <3>1, <4>1
    <3>3. i \in Int /\ j \in Int
      BY <2>1, <3>1
    <3> QED BY <3>2, <3>3
  <2>7. Pick(at)[Rank(at, i)] = i
    BY <2>5, <2>6
  <2> QED BY <2>4, <2>7
<1>7. ASSUME NEW k \in 1 .. c, NEW l \in 1 .. c, Pick(at)[k] = Pick(at)[l]
      PROVE  k = l
  BY <1>3, <1>7
<1> QED BY <1>2, <1>3, <1>4, <1>5, <1>6, <1>7


(* Queues of runs *)

Distinct(s) == \A i, j \in DOMAIN s : s[i] = s[j] => i = j

LEMMA KeptRuns ==
  ASSUME NEW q \in Seq(Run), NEW at \in SUBSET (DOMAIN q)
  PROVE  /\ Kept(q, at) \in Seq(Run)
         /\ \A k \in DOMAIN Kept(q, at) : \E i \in at : Kept(q, at)[k] = q[i]
         /\ Distinct(q) => Distinct(Kept(q, at))
<1> DEFINE p == Kept(q, at)
           c == Cardinality(at)
<1>1. /\ p \in Seq(Run) /\ DOMAIN p = 1 .. c
      /\ \A k \in 1 .. c : Pick(at)[k] \in at /\ p[k] = q[Pick(at)[k]]
      /\ \A k, l \in 1 .. c : Pick(at)[k] = Pick(at)[l] => k = l
  BY KeptFacts
<1> HIDE DEF p, c
<1>2. \A k \in DOMAIN p : \E i \in at : p[k] = q[i]
  BY <1>1
<1>3. ASSUME Distinct(q)
      PROVE  Distinct(p)
  <2> SUFFICES ASSUME NEW k \in DOMAIN p, NEW l \in DOMAIN p, p[k] = p[l]
               PROVE  k = l
    BY DEF Distinct
  <2>1. Pick(at)[k] = Pick(at)[l]
    BY <1>1, <1>3 DEF Distinct
  <2> QED BY <1>1, <2>1
<1> QED BY <1>1, <1>2, <1>3 DEF p

\* Any order of some runs.
LEMMA SomeOrder ==
  ASSUME NEW S \in SUBSET Run
  PROVE  /\ SetToSeq(S) \in Seq(Run) /\ Distinct(SetToSeq(S))
         /\ \A i \in DOMAIN SetToSeq(S) : SetToSeq(S)[i] \in S
<1> DEFINE n == Cardinality(S)
<1>1. n \in Nat /\ ExistsBijection(1 .. n, S)
  <2>1. IsFiniteSet(S)
    BY RunsAssumption, FS_Subset
  <2> QED BY <2>1, FS_CardinalityType
<1>2. \E f \in [1 .. n -> S] : IsInjective(f)
  <2>1. PICK f : f \in Bijection(1 .. n, S)
    BY <1>1 DEF ExistsBijection
  <2>2. f \in [1 .. n -> S] /\ IsInjective(f)
    BY <2>1 DEF Bijection, Injection, IsInjective
  <2> QED BY <2>2
<1>3. SetToSeq(S) \in [1 .. n -> S] /\ IsInjective(SetToSeq(S))
  BY <1>2 DEF SetToSeq
<1>4. SetToSeq(S) \in Seq(S)
  <2> HIDE DEF n
  <2> QED BY <1>1, <1>3, SeqDef
<1>5. SetToSeq(S) \in Seq(Run)
  BY <1>4, SeqMonotonic
<1>6. Distinct(SetToSeq(S))
  BY <1>3 DEF Distinct, IsInjective
<1> QED BY <1>3, <1>5, <1>6

LEMMA AppendRun ==
  ASSUME NEW q \in Seq(Run), NEW r \in Run
  PROVE  /\ Append(q, r) \in Seq(Run)
         /\ \A i \in DOMAIN Append(q, r) :
               Append(q, r)[i] = r \/ \E j \in DOMAIN q : Append(q, r)[i] = q[j]
         /\ Distinct(q) /\ (\A i \in DOMAIN q : q[i] # r) => Distinct(Append(q, r))
BY DEF Distinct

LEMMA TailRuns ==
  ASSUME NEW q \in Seq(Run), q # <<>>
  PROVE  /\ Head(q) \in Run /\ Tail(q) \in Seq(Run) /\ Head(q) = q[1]
         /\ \A i \in DOMAIN Tail(q) : i + 1 \in DOMAIN q /\ Tail(q)[i] = q[i + 1]
         /\ Distinct(q) => Distinct(Tail(q)) /\ \A i \in DOMAIN Tail(q) : Tail(q)[i] # Head(q)
         /\ 1 \in DOMAIN q
<1>1. Head(q) \in Run /\ Tail(q) \in Seq(Run) /\ Head(q) = q[1] /\ 1 \in DOMAIN q
  OBVIOUS
<1>2. \A i \in DOMAIN Tail(q) : i + 1 \in DOMAIN q /\ Tail(q)[i] = q[i + 1] /\ i \in Nat /\ i >= 1
  OBVIOUS
<1>3. ASSUME Distinct(q)
      PROVE  Distinct(Tail(q)) /\ \A i \in DOMAIN Tail(q) : Tail(q)[i] # Head(q)
  <2>1. ASSUME NEW i \in DOMAIN Tail(q), NEW j \in DOMAIN Tail(q), Tail(q)[i] = Tail(q)[j]
        PROVE  i = j
    <3>1. i + 1 = j + 1
      BY <1>2, <1>3, <2>1 DEF Distinct
    <3> QED BY <1>2, <3>1
  <2>2. ASSUME NEW i \in DOMAIN Tail(q)
        PROVE  Tail(q)[i] # Head(q)
    <3>1. i + 1 # 1 /\ i + 1 \in DOMAIN q
      BY <1>2
    <3>2. q[i + 1] # q[1]
      BY <1>1, <1>3, <3>1 DEF Distinct
    <3> QED BY <1>1, <1>2, <3>2
  <2> QED BY <2>1, <2>2 DEF Distinct
<1> QED BY <1>1, <1>2, <1>3

LEMMA ConcatRuns ==
  ASSUME NEW q \in Seq(Run), NEW p \in Seq(Run)
  PROVE  /\ q \o p \in Seq(Run)
         /\ \A i \in DOMAIN (q \o p) :
               \/ \E j \in DOMAIN q : (q \o p)[i] = q[j]
               \/ \E j \in DOMAIN p : (q \o p)[i] = p[j]
         /\ /\ Distinct(q) /\ Distinct(p)
            /\ \A i \in DOMAIN q, j \in DOMAIN p : q[i] # p[j]
            => Distinct(q \o p)
<1> DEFINE c == q \o p
           m == Len(q)
<1>1. /\ c \in Seq(Run) /\ m \in Nat /\ Len(p) \in Nat /\ Len(c) = m + Len(p)
      /\ DOMAIN c = 1 .. m + Len(p) /\ DOMAIN q = 1 .. m /\ DOMAIN p = 1 .. Len(p)
      /\ \A i \in 1 .. m + Len(p) : c[i] = IF i <= m THEN q[i] ELSE p[i - m]
  BY ConcatProperties, LenProperties
<1> HIDE DEF c, m
<1>2. \A i \in DOMAIN c :
        \/ i \in DOMAIN q /\ c[i] = q[i] /\ i <= m
        \/ i - m \in DOMAIN p /\ c[i] = p[i - m] /\ ~(i <= m)
  <2> SUFFICES ASSUME NEW i \in 1 .. m + Len(p)
               PROVE  \/ i \in 1 .. m /\ c[i] = q[i] /\ i <= m
                      \/ i - m \in 1 .. Len(p) /\ c[i] = p[i - m] /\ ~(i <= m)
    BY <1>1
  <2>1. c[i] = IF i <= m THEN q[i] ELSE p[i - m]
    BY <1>1
  <2>2. m \in Nat /\ Len(p) \in Nat
    BY <1>1
  <2>3. CASE i <= m
    BY <2>1, <2>2, <2>3
  <2>4. CASE ~(i <= m)
    <3>1. i - m \in 1 .. Len(p)
      BY <2>2, <2>4
    <3> QED BY <2>1, <2>4, <3>1
  <2> QED BY <2>3, <2>4
<1>3. ASSUME Distinct(q), Distinct(p), \A i \in DOMAIN q, j \in DOMAIN p : q[i] # p[j]
      PROVE  Distinct(c)
  <2> SUFFICES ASSUME NEW i \in DOMAIN c, NEW j \in DOMAIN c, c[i] = c[j]
               PROVE  i = j
    BY DEF Distinct
  <2>1. CASE i <= m /\ j <= m
    BY <1>2, <1>3, <2>1 DEF Distinct
  <2>2. CASE ~(i <= m) /\ ~(j <= m)
    <3>1. i - m = j - m
      BY <1>2, <1>3, <2>2 DEF Distinct
    <3> QED BY <1>1, <3>1
  <2>3. CASE (i <= m) # (j <= m)
    BY <1>2, <1>3, <2>3
  <2> QED BY <2>1, <2>2, <2>3
<1>4. c \in Seq(Run)
  BY <1>1
<1> QED BY <1>2, <1>3, <1>4 DEF c

LEMMA PartOfRuns ==
  ASSUME NEW q \in Seq(Run), NEW m \in 1 .. Len(q) + 1, NEW n \in 0 .. Len(q)
  PROVE  /\ SubSeq(q, m, n) \in Seq(Run)
         /\ \A i \in DOMAIN SubSeq(q, m, n) :
               i \in Nat /\ i >= 1 /\ i + m - 1 \in m .. n
               /\ i + m - 1 \in DOMAIN q /\ SubSeq(q, m, n)[i] = q[i + m - 1]
         /\ Distinct(q) => Distinct(SubSeq(q, m, n))
<1> DEFINE p == SubSeq(q, m, n)
<1>0. m \in Nat /\ n \in Nat /\ Len(q) \in Nat /\ DOMAIN q = 1 .. Len(q) /\ m >= 1 /\ n <= Len(q)
  OBVIOUS
<1>1. p \in Seq(Run)
  BY <1>0
<1>2. ASSUME NEW i \in DOMAIN p
      PROVE  /\ i \in Nat /\ i >= 1 /\ i + m - 1 \in m .. n
             /\ i + m - 1 \in DOMAIN q /\ p[i] = q[i + m - 1]
  <2>1. DOMAIN p = 1 .. Len(p) /\ Len(p) = IF m <= n THEN n - m + 1 ELSE 0
    BY <1>0
  <2>2. i \in Nat /\ i >= 1 /\ i <= n - m + 1
    BY <1>0, <2>1
  <2>3. p[i] = q[i + m - 1]
    BY <1>0, <2>2
  <2> QED BY <1>0, <2>2, <2>3
<1> HIDE DEF p
<1>3. ASSUME Distinct(q)
      PROVE  Distinct(p)
  <2> SUFFICES ASSUME NEW i \in DOMAIN p, NEW j \in DOMAIN p, p[i] = p[j]
               PROVE  i = j
    BY DEF Distinct
  <2>1. i + m - 1 = j + m - 1
    BY <1>2, <1>3 DEF Distinct
  <2> QED BY <1>0, <1>2, <2>1
<1> QED BY <1>1, <1>2, <1>3 DEF p
-----------------------------------------------------------------------------
(***************************************************************************)
(* The prompt of a run.                                                    *)
(***************************************************************************)
HasIn(s, command) == \E i \in DOMAIN s : s[i] = command
\* Nothing stands for this run outside its record.
Untouched(r) ==
    /\ session[r] = None /\ prompts[r] = 0
    /\ send[r] = <<>> /\ wire[r] = <<>> /\ r \notin alive /\ r \notin saved
\* What a tick sends to a runtime, and what is left of it: an interrupt or the
\* prompt only at the head.
Sending(s) == \A i \in DOMAIN s : s[i] # "close" => i = 1
Prompting(r) == session[r] # None /\ session[r].prompt

\* The prompt is in one place: with the session, on its way, or sent; and it is
\* not with a session whose runtime was sent an interrupt.
Single(r) ==
    /\ prompts[r] <= 1 /\ Sending(send[r])
    /\ HasIn(send[r], "prompt") \/ Prompting(r) => prompts[r] = 0
    /\ HasIn(send[r], "prompt") => ~Prompting(r)
InOrder(r) ==
    /\ \A i, j \in DOMAIN wire[r] :
          i < j /\ wire[r][i] = "interrupt" => wire[r][j] # "prompt"
    /\ HasIn(wire[r], "interrupt") => ~HasIn(send[r], "prompt") /\ ~Prompting(r)
    /\ HasIn(send[r], "interrupt") => ~Prompting(r)

\* The queue has the queued runs, once each; what is being prepared, connected
\* to or started was claimed, and what is being prepared has no session yet.
Claimed(r) == status[r] \notin {"none", "queued"}
Lined ==
    /\ Distinct(queue) /\ \A i \in DOMAIN queue : status[queue[i]] = "queued"
    /\ Distinct(prepare)
    /\ \A i \in DOMAIN prepare : Claimed(prepare[i]) /\ Untouched(prepare[i])
    /\ \A r \in reconnect \cup launch : Claimed(r)
    /\ pc = "decide" => prepare # <<>>
Waiting(r) == ~Claimed(r) => Untouched(r) /\ retry[r] = None

IInv ==
    /\ TypeOK /\ Inv /\ Lined
    /\ \A r \in Run : Waiting(r) /\ Single(r) /\ InOrder(r)

\* A step that leaves a run's prompt where it is, or drops it.
Quiet(r) ==
    /\ Untouched(r) => Untouched(r)'
    /\ Single(r) /\ InOrder(r) => Single(r)' /\ InOrder(r)'
Read(s, t) ==
    \/ t \in {s, <<>>, Append(s, "close")}
    \/ s # <<>> /\ t = Tail(s)
Calm(r) ==
    /\ prompts'[r] = prompts[r]
    /\ send'[r] = send[r] \/ send'[r] = <<>>
    /\ Read(wire[r], wire'[r])
    /\ Prompting(r)' => Prompting(r)
    /\ Untouched(r) => session'[r] = None /\ wire'[r] = <<>>
                       /\ r \notin alive' /\ r \notin saved'

LEMMA CommandTypes ==
    ASSUME TypeOK, NEW r \in Run
    PROVE  /\ wire[r] \in Seq(Command) /\ send[r] \in Seq(Command)
           /\ prompts[r] \in Nat /\ status[r] \in Status
           /\ session[r] \in Session \cup {None}
BY DEF TypeOK

\* What is read of a line of commands keeps its order.
LEMMA ReadKeeps ==
    ASSUME NEW s \in Seq(Command), NEW t, Read(s, t)
    PROVE  /\ HasIn(t, "interrupt") => HasIn(s, "interrupt")
           /\ (\A i, j \in DOMAIN s : i < j /\ s[i] = "interrupt" => s[j] # "prompt")
              => \A i, j \in DOMAIN t : i < j /\ t[i] = "interrupt" => t[j] # "prompt"
<1>1. CASE t = s
  BY <1>1
<1>2. CASE t = <<>>
  BY <1>2 DEF HasIn
<1>3. CASE s # <<>> /\ t = Tail(s)
  <2>1. \A i \in DOMAIN t : i \in Int /\ i + 1 \in DOMAIN s /\ t[i] = s[i + 1]
    BY <1>3
  <2>2. \A i, j \in DOMAIN t : i < j => i + 1 < j + 1
    BY <2>1
  <2> QED BY <2>1, <2>2 DEF HasIn
<1>4. CASE t = Append(s, "close")
  <2>1. \A i \in DOMAIN t : (i \in DOMAIN s /\ t[i] = s[i]) \/ t[i] = "close"
    BY <1>4
  <2> QED BY <2>1 DEF HasIn
<1> QED BY <1>1, <1>2, <1>3, <1>4 DEF Read

LEMMA CalmIsQuiet ==
    ASSUME TypeOK, NEW r \in Run, Calm(r)
    PROVE  Quiet(r)
<1>1. ASSUME Untouched(r)
      PROVE  Untouched(r)'
  BY <1>1 DEF Calm, Untouched
<1>2. ASSUME Single(r), InOrder(r)
      PROVE  Single(r)' /\ InOrder(r)'
  <2>1. /\ HasIn(send'[r], "prompt") => HasIn(send[r], "prompt")
        /\ HasIn(send'[r], "interrupt") => HasIn(send[r], "interrupt")
    BY DEF Calm, HasIn
  <2>2. Sending(send'[r])
    BY <1>2 DEF Calm, Single, Sending
  <2>3. Single(r)'
    BY <1>2, <2>1, <2>2 DEF Calm, Single
  <2>4. /\ HasIn(wire'[r], "interrupt") => HasIn(wire[r], "interrupt")
        /\ \A i, j \in DOMAIN wire'[r] :
              i < j /\ wire'[r][i] = "interrupt" => wire'[r][j] # "prompt"
    <3>1. wire[r] \in Seq(Command) /\ Read(wire[r], wire'[r])
      BY CommandTypes DEF Calm
    <3> QED BY <1>2, <3>1, ReadKeeps DEF InOrder
  <2>5. InOrder(r)'
    BY <1>2, <2>1, <2>4 DEF Calm, InOrder
  <2> QED BY <2>3, <2>5
<1> QED BY <1>1, <1>2 DEF Quiet

\* A step that makes no session and gives none a prompt.
Keeps(r) ==
    /\ session[r] = None => session'[r] = None
    /\ Prompting(r)' => Prompting(r)

LEMMA SessionChange ==
    ASSUME TypeOK, NEW q \in Run, NEW s, Known(q),
           session' = [session EXCEPT ![q] = s],
           s = None \/ (s.prompt => session[q].prompt),
           NEW r \in Run
    PROVE  Keeps(r)
<1>1. session'[r] = IF r = q THEN s ELSE session[r]
  BY DEF TypeOK
<1> QED BY <1>1 DEF Keeps, Prompting, Known

LEMMA SameSessions ==
    ASSUME session' = session, NEW r
    PROVE  Keeps(r)
BY DEF Keeps, Prompting

LEMMA StillQuiet ==
    ASSUME TypeOK, NEW r \in Run, Keeps(r),
           UNCHANGED <<prompts, send, wire, alive, saved>>
    PROVE  Quiet(r)
<1>1. Calm(r)
  BY DEF Calm, Keeps, Read, Untouched
<1> QED BY <1>1, CalmIsQuiet

LEMMA FileQuiet ==
    ASSUME TypeOK, NEW r \in Run,
           \/ \E t \in Task : FallDue(t) \/ RunNow(t) \/ Pause(t) \/ Resume(t)
           \/ \E q \in Run : Stop(q)
           \/ Claim \/ NoClaim \/ Prepare
    PROVE  Quiet(r)
<1>1. UNCHANGED <<memory, runtime, history>>
  BY DEF FallDue, RunNow, Pause, Resume, Stop, Claim, NoClaim, Prepare
<1> QED BY <1>1, SameSessions, StillQuiet DEF memory, runtime, history

LEMMA BeginPassQuiet ==
    ASSUME TypeOK, NEW r \in Run, BeginPass
    PROVE  Quiet(r)
<1> DEFINE gone == {q \in Started : ~Known(q)}
<1>1. /\ session' = [q \in Run |->
            IF q \in Started \ gone THEN [session[q] EXCEPT !.owned = TRUE]
            ELSE session[q]]
      /\ UNCHANGED <<send, runtime, history>>
  BY DEF BeginPass
<1>2. Keeps(r)
  <2>1. CASE r \in Started \ gone
    <3>1. session'[r] = [session[r] EXCEPT !.owned = TRUE] /\ Known(r)
      BY <1>1, <2>1
    <3>2. session[r] \in Session
      BY <3>1 DEF Known, TypeOK
    <3> QED BY <3>1, <3>2 DEF Keeps, Prompting, Known, Session
  <2>2. CASE r \notin Started \ gone
    BY <1>1, <2>2 DEF Keeps, Prompting
  <2> QED BY <2>1, <2>2
<1> QED BY <1>1, <1>2, StillQuiet DEF runtime, history

\* Decide gives the run it prepared a session with its prompt.
LEMMA DecideQuiet ==
    ASSUME TypeOK, NEW r \in Run, Decide
    PROVE  Quiet(r) \/ r = Head(prepare)
<1> SUFFICES ASSUME r # Head(prepare)
             PROVE  Quiet(r)
  OBVIOUS
<1>1. UNCHANGED <<send, runtime, history>>
  BY DEF Decide
<1>2. \/ session' = session
      \/ \E s : session' = [session EXCEPT ![Head(prepare)] = s]
  BY DEF Decide
<1>3. Keeps(r)
  BY <1>2 DEF Keeps, Prompting, TypeOK
<1> QED BY <1>1, <1>3, StillQuiet DEF runtime, history

LEMMA ReconnectQuiet ==
    ASSUME TypeOK, NEW q \in Run, Reconnect(q), NEW r \in Run
    PROVE  Quiet(r)
<1>1. UNCHANGED <<send, wire, saved, prompts>> /\ UNCHANGED alive
  BY DEF Reconnect, ActivationFails
<1>2. session' = session \/ Activated(q)
  BY DEF Reconnect, ActivationFails
<1>3. Keeps(r)
  <2>1. CASE Activated(q)
    <3>1. session[q] \in Session /\ Known(q)
      BY <2>1 DEF Activated, Known, TypeOK
    <3> DEFINE s == [session[q] EXCEPT !.link = "live", !.error = FALSE]
    <3>2. session' = [session EXCEPT ![q] = s]
      BY <2>1 DEF Activated, TypeOK
    <3>3. s.prompt => session[q].prompt
      BY <3>1 DEF Session
    <3> QED BY <3>1, <3>2, <3>3, SessionChange
  <2> QED BY <1>2, <2>1, SameSessions
<1> QED BY <1>1, <1>3, StillQuiet

LEMMA LaunchQuiet ==
    ASSUME TypeOK, NEW q \in Run, Launch(q), NEW r \in Run
    PROVE  Quiet(r)
<1>1. UNCHANGED <<send, wire, saved, prompts>>
  BY DEF Launch
<1>2. CASE ActivationFails(q, "failed")
  <2>1. session' = session /\ alive' = alive
    BY <1>2 DEF ActivationFails
  <2> QED BY <1>1, <2>1, SameSessions, StillQuiet
<1>3. CASE Activated(q) /\ alive' = alive \cup {q}
  <2>1. session[q] \in Session /\ Known(q)
    BY <1>3 DEF Activated, Known, TypeOK
  <2> DEFINE s == [session[q] EXCEPT !.link = "live", !.error = FALSE]
  <2>2. session' = [session EXCEPT ![q] = s]
    BY <1>3 DEF Activated, TypeOK
  <2>3. s.prompt => session[q].prompt
    BY <2>1 DEF Session
  <2>4. Keeps(r)
    BY <2>1, <2>2, <2>3, SessionChange
  <2>5. Calm(r)
    BY <1>1, <1>3, <2>1, <2>4 DEF Calm, Keeps, Read, Untouched, Known
  <2> QED BY <2>5, CalmIsQuiet
<1> QED BY <1>2, <1>3 DEF Launch

LEMMA ReaderQuiet ==
    ASSUME TypeOK, NEW q \in Run, Reader(q) \/ LinkLost(q) \/ Scan(q), NEW r \in Run
    PROVE  Quiet(r)
<1>1. /\ UNCHANGED <<send, alive, saved, prompts>> /\ Known(q)
      /\ wire' = wire \/ wire' = [wire EXCEPT ![q] = <<>>]
  BY DEF Reader, Received, ReaderEnds, LetGo, LinkLost, PutAway, Scan, runtime, history
<1>2. session[q] \in Session
  BY <1>1 DEF Known, TypeOK
<1>3. Keeps(r)
  <2>1. CASE Received(q)
    <3>1. session' = [session EXCEPT ![q] = Told(q)]
      BY <2>1 DEF Received
    <3>2. Told(q).prompt = session[q].prompt
      BY <1>2 DEF Told, Session
    <3> QED BY <1>1, <3>1, <3>2, SessionChange
  <2>2. CASE PutAway(q)
    <3> DEFINE s == [session[q] EXCEPT
                !.link = "ended", !.heard = "none", !.closing = FALSE,
                !.error = @ /\ TurnActive(q) /\ ~session[q].closing]
    <3>1. session' = [session EXCEPT ![q] = s]
      BY <2>2 DEF PutAway
    <3>2. s.prompt = session[q].prompt
      BY <1>2 DEF Session
    <3> HIDE DEF s
    <3> QED BY <1>1, <3>1, <3>2, SessionChange
  <2>3. CASE Scan(q)
    BY <1>1, <2>3, SessionChange DEF Scan
  <2> QED BY <2>1, <2>2, <2>3 DEF Reader, ReaderEnds, LinkLost, LetGo
<1>4. wire'[r] = wire[r] \/ wire'[r] = <<>>
  BY <1>1 DEF TypeOK
<1>5. Calm(r)
  BY <1>1, <1>3, <1>4 DEF Calm, Keeps, Read, Untouched
<1> QED BY <1>5, CalmIsQuiet

LEMMA CloseSessionQuiet ==
    ASSUME TypeOK, NEW q \in Run, CloseSession(q), NEW r \in Run
    PROVE  Quiet(r)
<1>1. /\ UNCHANGED <<send, alive, saved, prompts>> /\ Known(q)
      /\ session' = [session EXCEPT ![q].closing = TRUE]
      /\ wire' = IF q \in alive THEN [wire EXCEPT ![q] = Append(@, "close")] ELSE wire
  BY DEF CloseSession, history
<1>2. Keeps(r)
  <2>1. session[q] \in Session
    BY <1>1 DEF Known, TypeOK
  <2> DEFINE s == [session[q] EXCEPT !.closing = TRUE]
  <2>2. s.prompt => session[q].prompt
    BY <2>1 DEF Session
  <2> QED BY <1>1, <2>2, SessionChange
<1>3. wire'[r] = wire[r] \/ (r = q /\ wire'[r] = Append(wire[r], "close"))
  BY <1>1 DEF TypeOK
<1>4. Calm(r)
  BY <1>1, <1>2, <1>3 DEF Calm, Keeps, Read, Untouched, Known
<1> QED BY <1>4, CalmIsQuiet

LEMMA RuntimeQuiet ==
    ASSUME TypeOK, NEW q \in Run, NEW r \in Run,
           Worker(q) \/ Works(q) \/ Retire(q) \/ Dies(q)
    PROVE  Quiet(r)
<1>1. UNCHANGED <<send, session, prompts>> /\ q \in alive
  BY DEF Worker, Ready, TakeCommand, Publish, Works, EndTurn, BackgroundEnds, At,
         Retire, Dies, RuntimeOnly, memory, history
<1>2. (alive' = alive \/ alive' = alive \ {q}) /\ (saved' = saved \/ saved' = saved \cup {q})
  BY DEF Worker, Ready, TakeCommand, Publish, Works, Retire, Dies, Gone
<1>3. \/ wire' = wire \/ wire' = [wire EXCEPT ![q] = <<>>]
      \/ wire[q] # <<>> /\ wire' = [wire EXCEPT ![q] = Tail(@)]
  BY DEF Worker, Ready, TakeCommand, Publish, Works, Retire, Dies, Gone
<1>4. \/ wire'[r] = wire[r]
      \/ r = q /\ wire'[r] = <<>>
      \/ r = q /\ wire[r] # <<>> /\ wire'[r] = Tail(wire[r])
  BY <1>3 DEF TypeOK
<1>5. Calm(r)
  BY <1>1, <1>2, <1>4, SameSessions DEF Calm, Keeps, Read, Untouched
<1> QED BY <1>5, CalmIsQuiet

LEMMA HostQuiet ==
    ASSUME TypeOK, NEW r \in Run, HostDies \/ HostStarts
    PROVE  Quiet(r)
<1>1. CASE HostDies
  <2>1. /\ UNCHANGED <<prompts, wire, alive, saved>>
        /\ session'[r] = None /\ send'[r] = <<>>
    BY <1>1 DEF HostDies, runtime
  <2>2. Calm(r)
    BY <2>1 DEF Calm, Read, Untouched, Prompting
  <2> QED BY <2>2, CalmIsQuiet
<1>2. CASE HostStarts
  <2>1. /\ UNCHANGED <<prompts, send, wire, alive, saved>>
        /\ session'[r] = IF r \in saved THEN Saved ELSE None
    BY <1>2 DEF HostStarts, runtime, history
  <2>2. Saved.prompt = FALSE
    BY DEF Saved
  <2>3. Calm(r)
    BY <2>1, <2>2 DEF Calm, Read, Untouched, Prompting
  <2> QED BY <2>3, CalmIsQuiet
<1> QED BY <1>1, <1>2

\* What a tick puts together.
LEMMA WhenFacts ==
    ASSUME NEW a \in BOOLEAN, NEW x \in Command
    PROVE  /\ When(a, x) \in Seq(Command) /\ Len(When(a, x)) = IF a THEN 1 ELSE 0
           /\ a => When(a, x)[1] = x
<1>1. CASE a
  BY <1>1 DEF When
<1>2. CASE ~a
  BY <1>2 DEF When
<1> QED BY <1>1, <1>2

LEMMA TickSends ==
    ASSUME NEW a \in BOOLEAN, NEW b \in BOOLEAN, NEW c \in BOOLEAN, ~(a /\ b)
    PROVE  LET s == When(a, "interrupt") \o When(b, "prompt") \o When(c, "close") IN
           /\ s \in Seq(Command) /\ Sending(s)
           /\ HasIn(s, "prompt") => b
           /\ HasIn(s, "interrupt") => a
           /\ ~a /\ ~b /\ ~c => s = <<>>
<1> DEFINE x == When(a, "interrupt")
           y == When(b, "prompt")
           z == When(c, "close")
           s == x \o y \o z
<1>1. /\ x \in Seq(Command) /\ Len(x) = (IF a THEN 1 ELSE 0) /\ (a => x[1] = "interrupt")
      /\ y \in Seq(Command) /\ Len(y) = (IF b THEN 1 ELSE 0) /\ (b => y[1] = "prompt")
      /\ z \in Seq(Command) /\ Len(z) = (IF c THEN 1 ELSE 0) /\ (c => z[1] = "close")
  BY WhenFacts DEF Command
<1> HIDE DEF x, y, z
<1>2. /\ x \o y \in Seq(Command) /\ Len(x \o y) = Len(x) + Len(y)
      /\ \A i \in 1 .. Len(x) + Len(y) :
            (x \o y)[i] = IF i <= Len(x) THEN x[i] ELSE y[i - Len(x)]
  BY <1>1, ConcatProperties
<1>3. /\ s \in Seq(Command) /\ Len(s) = Len(x \o y) + Len(z)
      /\ \A i \in 1 .. Len(x \o y) + Len(z) :
            s[i] = IF i <= Len(x \o y) THEN (x \o y)[i] ELSE z[i - Len(x \o y)]
  BY <1>1, <1>2, ConcatProperties
<1>4. Len(s) = (IF a \/ b THEN 1 ELSE 0) + (IF c THEN 1 ELSE 0)
  BY <1>1, <1>2, <1>3
<1>5. DOMAIN s = 1 .. Len(s)
  BY <1>3
<1> HIDE DEF s
<1>6. CASE a \/ b
  <2>1. Len(x \o y) = 1
    BY <1>1, <1>2, <1>6
  <2>2. s[1] = (x \o y)[1]
    BY <1>1, <1>3, <2>1
  <2>3. (x \o y)[1] = IF a THEN "interrupt" ELSE "prompt"
    <3>1. CASE a
      BY <1>1, <1>2, <3>1
    <3>2. CASE ~a
      <4>1. (x \o y)[1] = y[1]
        BY <1>1, <1>2, <1>6, <3>2
      <4> QED BY <1>1, <1>6, <3>2, <4>1
    <3> QED BY <3>1, <3>2
  <2>4. \A i \in DOMAIN s : i = 1 \/ (i = 2 /\ c)
    BY <1>4, <1>5, <1>6
  <2>5. c => s[2] = "close"
    <3> SUFFICES ASSUME c
                 PROVE  s[2] = "close"
      OBVIOUS
    <3>1. s[2] = z[2 - 1]
      BY <1>1, <1>3, <2>1
    <3> QED BY <1>1, <3>1
  <2>6. \A i \in DOMAIN s : \/ i = 1 /\ s[i] = (IF a THEN "interrupt" ELSE "prompt")
                            \/ s[i] = "close"
    BY <2>2, <2>3, <2>4, <2>5
  <2>7. Sending(s) /\ (HasIn(s, "prompt") => b) /\ (HasIn(s, "interrupt") => a)
    BY <1>6, <2>6 DEF Sending, HasIn
  <2> QED BY <1>3, <1>6, <2>7 DEF s, x, y, z
<1>7. CASE ~a /\ ~b
  <2>1. Len(x \o y) = 0
    BY <1>1, <1>2, <1>7
  <2>2. \A i \in DOMAIN s : c /\ i = 1
    BY <1>4, <1>5, <1>7
  <2>3. c => s[1] = "close"
    <3> SUFFICES ASSUME c
                 PROVE  s[1] = "close"
      OBVIOUS
    <3>1. s[1] = z[1 - 0]
      BY <1>1, <1>3, <2>1
    <3> QED BY <1>1, <3>1
  <2>4. \A i \in DOMAIN s : s[i] = "close"
    BY <2>2, <2>3
  <2>5. ~c => s = <<>>
    <3>1. ~c => Len(s) = 0
      BY <1>4, <1>7
    <3> QED BY <1>3, <3>1, EmptySeq
  <2>6. Sending(s) /\ ~HasIn(s, "prompt") /\ ~HasIn(s, "interrupt")
    BY <2>4 DEF Sending, HasIn
  <2> QED BY <1>3, <1>7, <2>5, <2>6 DEF s, x, y, z
<1> QED BY <1>6, <1>7

LEMMA SendingFacts ==
    ASSUME NEW s \in Seq(Command), Sending(s), s # <<>>
    PROVE  /\ Head(s) \in Command /\ Tail(s) \in Seq(Command) /\ Sending(Tail(s))
           /\ ~HasIn(Tail(s), "prompt") /\ ~HasIn(Tail(s), "interrupt")
           /\ Head(s) = "prompt" => HasIn(s, "prompt")
           /\ Head(s) = "interrupt" => HasIn(s, "interrupt")
           /\ Head(s) # "prompt" => ~HasIn(s, "prompt")
<1>1. /\ Head(s) \in Command /\ Tail(s) \in Seq(Command)
      /\ Head(s) = s[1] /\ 1 \in DOMAIN s
  OBVIOUS
<1>2. \A i \in DOMAIN Tail(s) : i + 1 \in DOMAIN s /\ Tail(s)[i] = s[i + 1] /\ i + 1 # 1
  OBVIOUS
<1>3. \A i \in DOMAIN Tail(s) : Tail(s)[i] = "close"
  BY <1>2 DEF Sending
<1>4. Sending(Tail(s)) /\ ~HasIn(Tail(s), "prompt") /\ ~HasIn(Tail(s), "interrupt")
  BY <1>3 DEF Sending, HasIn
<1>5. Head(s) # "prompt" => ~HasIn(s, "prompt")
  BY <1>1 DEF Sending, HasIn
<1> QED BY <1>1, <1>4, <1>5 DEF HasIn

LEMMA TickQuiet ==
    ASSUME TypeOK, Tick, NEW r \in Run
    PROVE  Quiet(r)
<1> DEFINE
      over == {q \in Run : IsOver(q, cache)}
      noted == {q \in Run : Updated(status[q], NoteOf(q, cache)) # status[q]}
      a == StopsNow(r, cache)
      b == Submits(r, cache)
<1>1. PICK no \in Refused({q \in Run : retry[q] # None} \cup over \cup noted) :
        /\ session' = [q \in Run |->
                IF ~Ticks(q, cache) THEN session[q]
                ELSE [session[q] EXCEPT
                        !.stopSent = Stopped(q, cache),
                        !.result = ResultOf(q, cache),
                        !.prompt = @ /\ ~StopsNow(q, cache) /\ ~Submits(q, cache),
                        !.closing = @ \/ q \in over \ no]]
        /\ send' = [q \in Run |->
                When(StopsNow(q, cache), "interrupt")
                    \o When(Submits(q, cache), "prompt")
                    \o When(q \in over \ no, "close")]
        /\ UNCHANGED <<runtime, history>>
  BY DEF Tick
<1> DEFINE c == r \in over \ no
<1>2. send'[r] = When(a, "interrupt") \o When(b, "prompt") \o When(c, "close")
  BY <1>1
<1>3. a \in BOOLEAN /\ b \in BOOLEAN /\ c \in BOOLEAN /\ ~(a /\ b)
  BY DEF StopsNow, Submits
<1>4. (a \/ b \/ c) => Ticks(r, cache)
  BY DEF StopsNow, Submits, IsOver
<1>5. b => session[r].prompt
  BY DEF Submits
<1>6. CASE ~Ticks(r, cache)
  <2>1. send'[r] = <<>>
    <3> HIDE DEF a, b, c
    <3> QED BY <1>2, <1>3, <1>4, <1>6, TickSends
  <2>2. session'[r] = session[r]
    BY <1>1, <1>6
  <2>3. UNCHANGED <<prompts, wire, alive, saved>>
    BY <1>1 DEF runtime, history
  <2>4. Calm(r)
    BY <2>1, <2>2, <2>3 DEF Calm, Read, Untouched, Prompting
  <2> QED BY <2>4, CalmIsQuiet
<1>7. CASE Ticks(r, cache)
  <2>1. session[r] # None /\ session[r] \in Session
    BY <1>7 DEF Ticks, Known, TypeOK
  <2>2. session'[r] = [session[r] EXCEPT
                !.stopSent = Stopped(r, cache),
                !.result = ResultOf(r, cache),
                !.prompt = @ /\ ~a /\ ~b,
                !.closing = @ \/ c]
    BY <1>1, <1>7
  <2>3. session'[r].prompt = (session[r].prompt /\ ~a /\ ~b)
    <3> HIDE DEF a, b, c
    <3> QED BY <2>1, <2>2 DEF Session
  <2>4. Prompting(r)' => Prompting(r) /\ ~a /\ ~b
    <3> HIDE DEF a, b, c
    <3> QED BY <2>1, <2>3 DEF Prompting
  <2>5. /\ Sending(send'[r])
        /\ HasIn(send'[r], "prompt") => b
        /\ HasIn(send'[r], "interrupt") => a
    <3> HIDE DEF a, b, c
    <3> QED BY <1>2, <1>3, TickSends
  <2>6. b => Prompting(r)
    BY <1>5, <2>1 DEF Prompting
  <2>7. ~Untouched(r)
    BY <2>1 DEF Untouched
  <2>8. prompts'[r] = prompts[r] /\ wire'[r] = wire[r]
    BY <1>1 DEF runtime, history
  <2> HIDE DEF a, b, c
  <2>9. ASSUME Single(r), InOrder(r)
        PROVE  Single(r)' /\ InOrder(r)'
    <3>1. Single(r)'
      BY <2>4, <2>5, <2>6, <2>8, <2>9 DEF Single
    <3>2. InOrder(r)'
      BY <2>4, <2>5, <2>6, <2>8, <2>9 DEF InOrder
    <3> QED BY <3>1, <3>2
  <2> QED BY <2>7, <2>9 DEF Quiet
<1> QED BY <1>6, <1>7

\* Deliver moves the prompt from what is to be sent to what was sent.
LEMMA DeliverQuiet ==
    ASSUME TypeOK, NEW q \in Run, Deliver(q), Single(q), NEW r \in Run
    PROVE  Quiet(r)
<1>1. /\ send[q] # <<>> /\ send' = [send EXCEPT ![q] = Tail(@)]
      /\ prompts' = [prompts EXCEPT ![q] = IF Head(send[q]) = "prompt" THEN @ + 1 ELSE @]
      /\ UNCHANGED <<alive, saved>>
  BY DEF Deliver
<1>2. \/ session' = session
      \/ session' = [session EXCEPT ![q] = IF @ = None THEN None
                        ELSE [@ EXCEPT !.error = TRUE, !.result = "failed"]]
  BY DEF Deliver
<1>3. wire' = wire \/ wire' = [wire EXCEPT ![q] = Append(@, Head(send[q]))]
  BY DEF Deliver
<1>4. Keeps(r)
  <2>1. CASE session' = session
    BY <2>1, SameSessions
  <2>2. CASE /\ session[q] # None
             /\ session' = [session EXCEPT ![q] =
                    [session[q] EXCEPT !.error = TRUE, !.result = "failed"]]
    <3>1. session[q] \in Session /\ Known(q)
      BY <2>2 DEF Known, TypeOK
    <3> DEFINE s == [session[q] EXCEPT !.error = TRUE, !.result = "failed"]
    <3>2. s.prompt => session[q].prompt
      BY <3>1 DEF Session
    <3> HIDE DEF s
    <3>3. session' = [session EXCEPT ![q] = s]
      BY <2>2 DEF s
    <3> QED BY <3>1, <3>2, <3>3, SessionChange
  <2>3. CASE session[q] = None /\ session' = [session EXCEPT ![q] = None]
    <3>1. session' = session
      BY <2>3 DEF TypeOK
    <3> QED BY <3>1, SameSessions
  <2> QED BY <1>2, <2>1, <2>2, <2>3
<1>5. CASE r # q
  <2>1. UNCHANGED <<prompts[r], send[r], wire[r]>>
    BY <1>1, <1>3, <1>5 DEF TypeOK
  <2>2. Calm(r)
    BY <1>1, <1>4, <2>1 DEF Calm, Keeps, Read, Untouched
  <2> QED BY <2>2, CalmIsQuiet
<1>6. CASE r = q
  <2> DEFINE h == Head(send[r])
  <2>1. ~Untouched(r)
    BY <1>1, <1>6 DEF Untouched
  <2>2. /\ h \in Command /\ Sending(Tail(send[r]))
        /\ ~HasIn(Tail(send[r]), "prompt") /\ ~HasIn(Tail(send[r]), "interrupt")
        /\ h = "prompt" => HasIn(send[r], "prompt")
        /\ h = "interrupt" => HasIn(send[r], "interrupt")
    BY <1>1, <1>6, CommandTypes, SendingFacts DEF Single
  <2>3. /\ send'[r] = Tail(send[r])
        /\ prompts'[r] = IF h = "prompt" THEN prompts[r] + 1 ELSE prompts[r]
        /\ wire'[r] = wire[r] \/ wire'[r] = Append(wire[r], h)
    BY <1>1, <1>3, <1>6 DEF TypeOK
  <2>4. wire[r] \in Seq(Command) /\ prompts[r] \in Nat
    BY CommandTypes
  <2> HIDE DEF h
  <2>5. ASSUME Single(r), InOrder(r)
        PROVE  Single(r)' /\ InOrder(r)'
    <3>1. Single(r)'
      BY <1>4, <2>2, <2>3, <2>4, <2>5 DEF Single, Keeps
    <3>0. /\ ~HasIn(send'[r], "prompt") /\ ~HasIn(send'[r], "interrupt")
          /\ Prompting(r)' => Prompting(r)
      BY <1>4, <2>2, <2>3 DEF Keeps
    <3>2. CASE wire'[r] = wire[r]
      BY <2>5, <3>0, <3>1, <3>2 DEF InOrder
    <3>3. CASE wire'[r] = Append(wire[r], h)
      <4>1. /\ \A i \in DOMAIN wire'[r] :
                  \/ i \in DOMAIN wire[r] /\ wire'[r][i] = wire[r][i]
                  \/ i = Len(wire[r]) + 1 /\ wire'[r][i] = h
            /\ \A i \in DOMAIN wire'[r] : i \in Int /\ i <= Len(wire[r]) + 1
            /\ Len(wire[r]) \in Nat
        BY <2>2, <2>4, <3>3
      <4>2. HasIn(wire'[r], "interrupt") =>
               HasIn(wire[r], "interrupt") \/ HasIn(send[r], "interrupt")
        BY <2>2, <4>1 DEF HasIn
      <4>3. h = "prompt" => ~HasIn(wire[r], "interrupt")
        BY <2>2, <2>5 DEF InOrder
      <4>4. \A i, j \in DOMAIN wire'[r] :
               i < j /\ wire'[r][i] = "interrupt" => wire'[r][j] # "prompt"
        <5> SUFFICES ASSUME NEW i \in DOMAIN wire'[r], NEW j \in DOMAIN wire'[r],
                            i < j, wire'[r][i] = "interrupt", wire'[r][j] = "prompt"
                     PROVE  FALSE
          OBVIOUS
        <5>1. i \in DOMAIN wire[r] /\ wire[r][i] = "interrupt"
          BY <4>1
        <5>2. j \notin DOMAIN wire[r]
          BY <2>5, <4>1, <5>1 DEF InOrder
        <5>3. h = "prompt"
          BY <4>1, <5>2
        <5> QED BY <4>3, <5>1, <5>3 DEF HasIn
      <4> QED BY <2>5, <3>0, <3>1, <4>2, <4>4 DEF InOrder
    <3> QED BY <2>3, <3>1, <3>2, <3>3
  <2> QED BY <2>1, <2>5 DEF Quiet
<1> QED BY <1>5, <1>6
-----------------------------------------------------------------------------
(***************************************************************************)
(* What is queued, and what a pass has in hand.                            *)
(***************************************************************************)
Queued ==
    /\ queue \in Seq(Run) /\ Distinct(queue)
    /\ \A i \in DOMAIN queue : status[queue[i]] = "queued"
Prepared ==
    /\ prepare \in Seq(Run) /\ Distinct(prepare)
    /\ \A i \in DOMAIN prepare : Claimed(prepare[i]) /\ Untouched(prepare[i])
Connecting == \A r \in reconnect \cup launch : Claimed(r)

LEMMA Unfolded ==
    ASSUME IInv
    PROVE  /\ TypeOK /\ Inv /\ Typed /\ OneActivePerTask
           /\ Queued /\ Prepared /\ Connecting
           /\ (pc = "decide" => prepare # <<>>)
           /\ reconnect \in SUBSET Run /\ launch \in SUBSET Run
           /\ \A r \in Run : Waiting(r) /\ Single(r) /\ InOrder(r)
BY DEF IInv, Inv, TypeOK, Lined, Queued, Prepared, Connecting

LEMMA ClaimedStays ==
    ASSUME Inv, Next, NEW r \in Run, Claimed(r)
    PROVE  Claimed(r)'
<1>1. Follows(status[r], status'[r]) \/ Makes(r)
  BY NextStep
<1>2. status[r] \notin {"none", "queued"}
  BY DEF Claimed
<1>3. status'[r] \notin {"none", "queued"}
  BY <1>1, <1>2 DEF Follows, Makes
<1> QED BY <1>3 DEF Claimed

\* The tick and a pass leave a queued run's record alone.
LEMMA UnclaimedUpdates ==
    ASSUME IInv, NEW r \in Run, ~Claimed(r), NEW at
    PROVE  /\ retry[r] = None /\ session[r] = None
           /\ ~Ticks(r, at) /\ FinalOf(r, at) = None /\ NoteOf(r, at) = None
<1>1. retry[r] = None /\ session[r] = None
  BY Unfolded DEF Waiting, Untouched
<1>2. ~Ticks(r, at)
  BY <1>1 DEF Ticks, Known
<1>3. ~IsOver(r, at) /\ ~Submits(r, at)
  BY <1>2 DEF IsOver, Submits
<1>4. FinalOf(r, at) = None
  BY <1>3 DEF FinalOf
<1>5. NoteOf(r, at) = None
  BY <1>3 DEF NoteOf
<1> QED BY <1>1, <1>2, <1>4, <1>5

LEMMA UpdatedByNone ==
    ASSUME NEW old
    PROVE  Updated(old, None) = old
BY DEF Updated, Active

LEMMA RetryStays ==
    ASSUME IInv, Next, NEW r \in Run, ~Claimed(r)
    PROVE  retry'[r] = None
<1>1. retry[r] = None
  BY UnclaimedUpdates
<1>2. CASE retry' = retry
  BY <1>1, <1>2
<1>3. CASE BeginPass
  <2>1. PICK no \in Refused({q \in Started : ~Known(q)}) :
          retry' = [q \in Run |-> IF q \in no THEN "interrupted" ELSE retry[q]]
    BY <1>3 DEF BeginPass
  <2>2. r \notin Started
    BY DEF Started, IsActive, Claimed, Active
  <2>3. r \notin no
    BY <2>2 DEF Refused
  <2> QED BY <1>1, <2>1, <2>3
<1>4. CASE Tick
  <2> DEFINE noted == {q \in Run : Updated(status[q], NoteOf(q, cache)) # status[q]}
  <2>1. \E no : retry' = [q \in Run |->
                IF q \notin no THEN None
                ELSE IF q \in noted THEN NoteOf(q, cache) ELSE retry[q]]
    BY <1>4 DEF Tick
  <2>2. NoteOf(r, cache) = None
    BY UnclaimedUpdates
  <2> HIDE DEF noted
  <2> QED BY <1>1, <2>1, <2>2
<1>5. CASE Decide
  <2>1. \/ retry' = retry
        \/ \E new : Records(Head(prepare), new)
    BY <1>5 DEF Decide
  <2>2. prepare \in Seq(Run) /\ prepare # <<>> /\ Prepared
    BY <1>5, Unfolded DEF Decide, Prepared
  <2>3. Claimed(Head(prepare))
    BY <2>2, TailRuns DEF Prepared
  <2>4. r # Head(prepare)
    BY <2>3
  <2>5. ASSUME NEW new, Records(Head(prepare), new)
        PROVE  retry'[r] = retry[r]
    BY <2>4, <2>5, Unfolded DEF Records, Typed
  <2> QED BY <1>1, <2>1, <2>5
<1>6. CASE HostDies
  BY <1>6 DEF HostDies
<1>7. CASE \/ Users \/ Claim \/ NoClaim \/ Prepare
           \/ \E q \in Run : Reconnect(q) \/ Launch(q) \/ Deliver(q)
  <2>1. retry' = retry
    BY <1>7 DEF Users, FallDue, RunNow, Pause, Resume, Stop, CloseSession, Claim,
                NoClaim, Prepare, Reconnect, Launch, Deliver, memory
  <2> QED BY <1>2, <2>1
<1>8. CASE \/ HostStarts
           \/ \E q \in Run : \/ Reader(q) \/ LinkLost(q) \/ Scan(q)
                             \/ Worker(q) \/ Works(q) \/ Retire(q) \/ Dies(q)
  <2>1. retry' = retry
    BY <1>8 DEF HostStarts, Reader, Received, ReaderEnds, LetGo, LinkLost,
                PutAway, Scan, Worker, Ready,
                TakeCommand, Publish, Works, Retire, Dies, RuntimeOnly, memory
  <2> QED BY <1>2, <2>1
<1> QED BY <1>3, <1>4, <1>5, <1>6, <1>7, <1>8 DEF Next, Scheduler

\* A queue that stays, and whose runs stay queued.
LEMMA QueueStays ==
    ASSUME Queued, queue' = queue,
           \A r \in Run : status[r] = "queued" => status'[r] = "queued"
    PROVE  Queued'
<1>1. \A i \in DOMAIN queue : queue[i] \in Run
  BY DEF Queued
<1> QED BY <1>1 DEF Queued

LEMMA DequeuedStep ==
    ASSUME Queued, Dequeued
    PROVE  Queued'
<1> DEFINE at == {i \in DOMAIN queue : status'[queue[i]] = "queued"}
<1>1. queue' = Kept(queue, at) /\ at \in SUBSET (DOMAIN queue)
  BY DEF Dequeued
<1>2. /\ queue' \in Seq(Run) /\ Distinct(queue')
      /\ \A k \in DOMAIN queue' : \E i \in at : queue'[k] = queue[i]
  BY <1>1, KeptRuns DEF Queued
<1>3. \A k \in DOMAIN queue' : status'[queue'[k]] = "queued"
  BY <1>2
<1> QED BY <1>2, <1>3 DEF Queued

\* What a claim takes and what it leaves.
LEMMA ClaimSplits ==
    ASSUME IInv, Claim
    PROVE  /\ Queued' /\ prepare' \in Seq(Run) /\ Distinct(prepare')
           /\ \A i \in DOMAIN prepare' :
                 ~Claimed(prepare'[i]) /\ status'[prepare'[i]] = "starting"
<1>1. PICK late \in SUBSET FallingDue :
              /\ status' = Taking(late, ToSet(Taken(late)))
              /\ queue' = SubSeq(Line(late), Len(Taken(late)) + 1, Len(Line(late)))
              /\ prepare' = Taken(late)
  BY ClaimParts
<1> DEFINE all == Everyone
           at == {i \in DOMAIN all : Recorded(late)[all[i]] = "queued"}
           line == Line(late)
           n == IF Len(line) < Free THEN Len(line) ELSE Free
<1>2. all \in Seq(Run) /\ Distinct(all)
  <2>1. Made \in SUBSET Run
    BY MadeFacts
  <2>2. /\ SetToSeq(Made) \in Seq(Run) /\ Distinct(SetToSeq(Made))
        /\ \A i \in DOMAIN SetToSeq(Made) : SetToSeq(Made)[i] \in Made
    BY <2>1, SomeOrder
  <2>3. /\ queue \in Seq(Run) /\ Distinct(queue)
        /\ \A i \in DOMAIN queue : status[queue[i]] = "queued"
    BY Unfolded DEF Queued
  <2>4. \A i \in DOMAIN queue, j \in DOMAIN SetToSeq(Made) :
            queue[i] # SetToSeq(Made)[j]
    BY <2>2, <2>3, MadeFacts
  <2> QED BY <2>2, <2>3, <2>4, ConcatRuns DEF Everyone
<1>3. /\ line \in Seq(Run) /\ Distinct(line)
      /\ \A k \in DOMAIN line : Recorded(late)[line[k]] = "queued"
  <2>1. at \in SUBSET (DOMAIN all) /\ line = Kept(all, at)
    BY DEF Line
  <2> HIDE DEF all, line
  <2>2. /\ line \in Seq(Run) /\ Distinct(line)
        /\ \A k \in DOMAIN line : \E i \in at : line[k] = all[i]
    BY <1>2, <2>1, KeptRuns
  <2> QED BY <2>2
<1>4. n \in 0 .. Len(line) /\ Len(line) \in Nat
  <2>1. Len(line) \in Nat
    BY <1>3, LenProperties
  <2>2. Cardinality(Working) \in Nat
    <3>1. Working \in SUBSET Run
      BY DEF Working
    <3> QED BY <3>1, RunsAssumption, FS_Subset, FS_CardinalityType
  <2>3. Free \in Nat
    BY <2>2, RunsAssumption DEF Free
  <2> HIDE DEF line
  <2> QED BY <2>1, <2>3
<1>5. prepare' = SubSeq(line, 1, n) /\ Len(prepare') = n
  <2>1. prepare' = SubSeq(line, 1, n)
    BY <1>1 DEF Taken
  <2> HIDE DEF line, n
  <2> QED BY <1>3, <1>4, <2>1
<1>6. queue' = SubSeq(line, n + 1, Len(line))
  BY <1>1, <1>5
<1> HIDE DEF line, n, all, at
<1>7. /\ prepare' \in Seq(Run) /\ Distinct(prepare')
      /\ \A i \in DOMAIN prepare' : /\ i \in 1 .. n /\ i \in DOMAIN line
                                    /\ prepare'[i] = line[i]
  <2>1. 1 \in 1 .. Len(line) + 1
    BY <1>4
  <2>2. /\ prepare' \in Seq(Run)
        /\ \A i \in DOMAIN prepare' :
              i \in Nat /\ i >= 1 /\ i + 1 - 1 \in 1 .. n
              /\ i + 1 - 1 \in DOMAIN line /\ prepare'[i] = line[i + 1 - 1]
        /\ Distinct(prepare')
    BY <1>3, <1>4, <1>5, <2>1, PartOfRuns
  <2>3. \A i \in Nat : i + 1 - 1 = i
    OBVIOUS
  <2> QED BY <2>2, <2>3
<1>8. /\ queue' \in Seq(Run) /\ Distinct(queue')
      /\ \A i \in DOMAIN queue' : \E k \in DOMAIN line : k > n /\ queue'[i] = line[k]
  <2>1. n + 1 \in 1 .. Len(line) + 1 /\ Len(line) \in 0 .. Len(line)
    BY <1>4
  <2>2. /\ queue' \in Seq(Run)
        /\ \A i \in DOMAIN queue' :
              i \in Nat /\ i >= 1 /\ i + (n + 1) - 1 \in n + 1 .. Len(line)
              /\ i + (n + 1) - 1 \in DOMAIN line /\ queue'[i] = line[i + (n + 1) - 1]
        /\ Distinct(queue')
    BY <1>3, <1>6, <2>1, PartOfRuns
  <2>3. \A i \in Nat : i >= 1 => i + (n + 1) - 1 > n
    BY <1>4
  <2> QED BY <2>2, <2>3
<1>9. \A k \in DOMAIN line : line[k] \in Run
  BY <1>3
<1>10. ASSUME NEW i \in DOMAIN prepare'
       PROVE  ~Claimed(prepare'[i]) /\ status'[prepare'[i]] = "starting"
  <2> DEFINE r == prepare'[i]
  <2>1. r \in Run /\ Recorded(late)[r] = "queued"
    BY <1>3, <1>7, <1>9
  <2>2. r \in ToSet(Taken(late))
    BY <1>1 DEF ToSet
  <2>3. status'[r] = "starting"
    <3> HIDE DEF r
    <3> QED BY <1>1, <2>1, <2>2 DEF Taking
  <2>4. r \in Made \/ status[r] = "queued"
    <3> HIDE DEF r
    <3> QED BY <2>1 DEF Recorded
  <2>5. r \in Made => status[r] = "none"
    <3> HIDE DEF r
    <3> QED BY MadeFacts
  <2> QED BY <2>3, <2>4, <2>5 DEF Claimed
<1>11. ASSUME NEW i \in DOMAIN queue'
       PROVE  status'[queue'[i]] = "queued"
  <2>1. PICK k \in DOMAIN line : k > n /\ queue'[i] = line[k]
    BY <1>8
  <2> DEFINE r == line[k]
  <2>2. r \in Run /\ Recorded(late)[r] = "queued"
    BY <1>3, <1>9
  <2>3. r \notin ToSet(Taken(late))
    <3> SUFFICES ASSUME NEW j \in DOMAIN prepare', prepare'[j] = r
                 PROVE  FALSE
      BY <1>1 DEF ToSet
    <3>1. j \in 1 .. n /\ j \in DOMAIN line /\ line[j] = line[k]
      BY <1>7
    <3>2. j = k
      BY <1>3, <3>1 DEF Distinct
    <3> QED BY <1>4, <2>1, <3>1, <3>2
  <2>4. status'[r] = "queued"
    <3> HIDE DEF r
    <3> QED BY <1>1, <2>2, <2>3 DEF Taking
  <2> QED BY <2>1, <2>4
<1> QED BY <1>7, <1>8, <1>10, <1>11 DEF Queued

LEMMA QueueStep ==
    ASSUME IInv, Next
    PROVE  Queued'
<1>0. Queued
  BY Unfolded
<1>1. CASE queue' = queue /\ status' = status
  BY <1>0, <1>1, QueueStays
<1>2. CASE \/ \E t \in Task : Pause(t)
           \/ \E r \in Run : Stop(r) \/ CloseSession(r)
  BY <1>0, <1>2, DequeuedStep DEF Pause, Stop, CloseSession
<1>3. ASSUME NEW t \in Task, RunNow(t)
      PROVE  Queued'
  <2> DEFINE r == Fresh(t)
  <2>1. /\ r \in Run /\ status[r] = "none"
        /\ status' = [status EXCEPT ![r] = "queued"] /\ queue' = Append(queue, r)
    BY <1>3, FreshIsUnused DEF RunNow
  <2> HIDE DEF r
  <2>2. /\ queue \in Seq(Run) /\ Distinct(queue) /\ \A i \in DOMAIN queue : queue[i] \in Run
        /\ \A i \in DOMAIN queue : status[queue[i]] = "queued"
    BY <1>0 DEF Queued
  <2>3. \A i \in DOMAIN queue : queue[i] # r
    BY <2>1, <2>2
  <2>4. /\ queue' \in Seq(Run) /\ Distinct(queue')
        /\ \A i \in DOMAIN queue' : queue'[i] = r \/ \E j \in DOMAIN queue : queue'[i] = queue[j]
    BY <2>1, <2>2, <2>3, AppendRun
  <2>5. \A q \in Run : status'[q] = IF q = r THEN "queued" ELSE status[q]
    BY <2>1, Unfolded DEF Typed
  <2>6. \A i \in DOMAIN queue' : status'[queue'[i]] = "queued"
    BY <2>1, <2>2, <2>4, <2>5
  <2> QED BY <2>4, <2>6 DEF Queued
<1>4. CASE BeginPass
  <2>1. queue' = queue
    BY <1>4 DEF BeginPass
  <2>2. \A r \in Run : status[r] = "queued" => status'[r] = "queued"
    <3>1. PICK no : status' = [r \in Run |->
                IF r \in {q \in Started : ~Known(q)} \ no
                THEN Updated(status[r], "interrupted") ELSE status[r]]
      BY <1>4 DEF BeginPass
    <3>2. \A r \in Run : status[r] = "queued" => r \notin Started
      BY DEF Started
    <3> QED BY <3>1, <3>2
  <2> QED BY <1>0, <2>1, <2>2, QueueStays
<1>5. CASE Tick
  <2>1. queue' = queue
    BY <1>5 DEF Tick
  <2>2. \A r \in Run : status[r] = "queued" => status'[r] = "queued"
    <3>1. PICK no : status' = [r \in Run |->
                IF r \in no THEN status[r]
                ELSE Updated(Updated(Updated(status[r], retry[r]), FinalOf(r, cache)),
                             NoteOf(r, cache))]
      BY <1>5 DEF Tick
    <3> TAKE r \in Run
    <3> HAVE status[r] = "queued"
    <3>2. ~Claimed(r)
      BY DEF Claimed
    <3>3. retry[r] = None /\ FinalOf(r, cache) = None /\ NoteOf(r, cache) = None
      BY <3>2, UnclaimedUpdates
    <3> QED BY <3>1, <3>3, UpdatedByNone
  <2> QED BY <1>0, <2>1, <2>2, QueueStays
<1>6. CASE Claim
  BY <1>6, ClaimSplits
\* The scheduler writes to the records of claimed runs only.
<1>7. ASSUME NEW q, Claimed(q), queue' = queue,
             status' = status \/ \E new : status' = [status EXCEPT ![q] = new]
      PROVE  Queued'
  <2>1. \A r \in Run : status[r] = "queued" => status'[r] = "queued"
    BY <1>7, Unfolded DEF Claimed, Typed
  <2> QED BY <1>0, <1>7, <2>1, QueueStays
<1>8. CASE Decide
  <2>1. prepare \in Seq(Run) /\ prepare # <<>> /\ Prepared
    BY <1>8, Unfolded DEF Decide, Prepared
  <2>2. Claimed(Head(prepare))
    BY <2>1, TailRuns DEF Prepared
  <2>3. queue' = queue
    BY <1>8 DEF Decide
  <2>4. \/ status' = status
        \/ \E new : status' = [status EXCEPT ![Head(prepare)] = new]
    BY <1>8 DEF Decide, Records
  <2> QED BY <1>7, <2>2, <2>3, <2>4
<1>9. ASSUME NEW q \in Run, Reconnect(q) \/ Launch(q)
      PROVE  Queued'
  <2>1. Claimed(q)
    BY <1>9, Unfolded DEF Reconnect, Launch, Connecting
  <2>2. queue' = queue
    BY <1>9 DEF Reconnect, Launch
  <2>3. status' = status \/ \E new : status' = [status EXCEPT ![q] = new]
    BY <1>9 DEF Reconnect, Launch, ActivationFails, Activated
  <2> QED BY <1>7, <2>1, <2>2, <2>3
<1>10. CASE \/ \E t \in Task : FallDue(t) \/ Resume(t)
            \/ NoClaim \/ Prepare \/ \E r \in Run : Deliver(r)
  <2>1. queue' = queue /\ status' = status
    BY <1>10 DEF FallDue, Resume, NoClaim, Prepare, Deliver, store
  <2> QED BY <1>1, <2>1
<1>11. CASE \/ HostDies \/ HostStarts
            \/ \E q \in Run : \/ Reader(q) \/ LinkLost(q) \/ Scan(q)
                              \/ Worker(q) \/ Works(q) \/ Retire(q) \/ Dies(q)
  <2>1. queue' = queue /\ status' = status
    BY <1>11 DEF HostDies, HostStarts, Reader, Received, ReaderEnds, LetGo, LinkLost,
        PutAway, Scan, Worker,
        Ready, TakeCommand, Publish, Works, Retire, Dies, RuntimeOnly, store
  <2> QED BY <1>1, <2>1
<1> QED BY <1>2, <1>3, <1>4, <1>5, <1>6, <1>8, <1>9, <1>10, <1>11
        DEF Next, Users, Scheduler

\* Every step is quiet for a run, but for the one that gives it its session.
LEMMA QuietStep ==
    ASSUME IInv, Next, NEW r \in Run
    PROVE  Quiet(r) \/ (Decide /\ r = Head(prepare))
<1>0. TypeOK /\ \A q \in Run : Single(q)
  BY Unfolded
<1>1. ASSUME NEW t \in Task, FallDue(t) \/ RunNow(t) \/ Pause(t) \/ Resume(t)
      PROVE  Quiet(r)
  BY <1>0, <1>1, FileQuiet
<1>2. ASSUME NEW q \in Run, Stop(q) \/ CloseSession(q)
      PROVE  Quiet(r)
  BY <1>0, <1>2, FileQuiet, CloseSessionQuiet
<1>3. ASSUME BeginPass \/ Tick \/ Claim \/ NoClaim \/ Prepare
      PROVE  Quiet(r)
  BY <1>0, <1>3, BeginPassQuiet, TickQuiet, FileQuiet
<1>4. ASSUME Decide
      PROVE  Quiet(r) \/ r = Head(prepare)
  BY <1>0, <1>4, DecideQuiet
<1>5. ASSUME NEW q \in Run, Reconnect(q) \/ Launch(q) \/ Deliver(q)
      PROVE  Quiet(r)
  BY <1>0, <1>5, ReconnectQuiet, LaunchQuiet, DeliverQuiet
<1>6. ASSUME HostDies \/ HostStarts
      PROVE  Quiet(r)
  BY <1>0, <1>6, HostQuiet
<1>7. ASSUME NEW q \in Run, Reader(q) \/ LinkLost(q) \/ Scan(q)
      PROVE  Quiet(r)
  BY <1>0, <1>7, ReaderQuiet
<1>8. ASSUME NEW q \in Run, Worker(q) \/ Works(q) \/ Retire(q) \/ Dies(q)
      PROVE  Quiet(r)
  BY <1>0, <1>8, RuntimeQuiet
<1> QED BY <1>1, <1>2, <1>3, <1>4, <1>5, <1>6, <1>7, <1>8
        DEF Next, Users, Scheduler

LEMMA PreparedStep ==
    ASSUME IInv, Next
    PROVE  Prepared'
<1>0. /\ prepare \in Seq(Run) /\ Distinct(prepare) /\ Inv
      /\ \A i \in DOMAIN prepare : /\ prepare[i] \in Run /\ Claimed(prepare[i])
                                   /\ Untouched(prepare[i])
  BY Unfolded DEF Prepared
<1>1. ASSUME NEW r \in Run, Claimed(r), Untouched(r), ~Decide \/ r # Head(prepare)
      PROVE  Claimed(r)' /\ Untouched(r)'
  BY <1>0, <1>1, ClaimedStays, QuietStep DEF Quiet
<1>2. CASE prepare' = prepare /\ ~Decide
  <2>1. ASSUME NEW r, NEW i \in DOMAIN prepare, r = prepare[i]
        PROVE  Claimed(r)' /\ Untouched(r)'
    BY <1>0, <1>1, <1>2, <2>1
  <2> QED BY <1>0, <1>2, <2>1 DEF Prepared, Claimed, Untouched
<1>3. CASE Decide
  <2>1. prepare # <<>> /\ prepare' = Tail(prepare)
    BY <1>3, Unfolded DEF Decide
  <2>2. /\ prepare' \in Seq(Run) /\ Distinct(prepare')
        /\ \A i \in DOMAIN prepare' : /\ prepare'[i] # Head(prepare)
                                      /\ \E j \in DOMAIN prepare : prepare'[i] = prepare[j]
    BY <1>0, <2>1, TailRuns
  <2>3. ASSUME NEW r, NEW i \in DOMAIN prepare', r = prepare'[i]
        PROVE  Claimed(r)' /\ Untouched(r)'
    BY <1>0, <1>1, <2>2, <2>3
  <2> QED BY <2>2, <2>3 DEF Prepared, Claimed, Untouched
<1>4. CASE Claim
  <2>1. /\ prepare' \in Seq(Run) /\ Distinct(prepare')
        /\ \A i \in DOMAIN prepare' :
              /\ prepare'[i] \in Run
              /\ ~Claimed(prepare'[i]) /\ status'[prepare'[i]] = "starting"
    BY <1>4, ClaimSplits
  <2>2. UNCHANGED <<session, prompts, send, wire, alive, saved>>
    BY <1>4 DEF Claim, memory, runtime, history
  <2>3. ASSUME NEW r \in Run, ~Claimed(r), status'[r] = "starting"
        PROVE  Claimed(r)' /\ Untouched(r)'
    <3>1. Untouched(r)
      BY <2>3, Unfolded DEF Waiting
    <3> QED BY <2>2, <2>3, <3>1 DEF Claimed, Untouched
  <2> QED BY <2>1, <2>3 DEF Prepared, Claimed, Untouched
<1>5. CASE HostDies
  <2>1. prepare' = <<>>
    BY <1>5 DEF HostDies
  <2> QED BY <2>1 DEF Prepared, Distinct
<1>6. CASE Users \/ BeginPass \/ Tick \/ NoClaim \/ Prepare
  <2>1. prepare' = prepare
    BY <1>6 DEF Users, FallDue, RunNow, Pause, Resume, Stop, CloseSession, BeginPass,
                Tick, NoClaim, Prepare, pass
  <2> QED BY <1>2, <1>3, <2>1
<1>7. CASE \E q \in Run : Reconnect(q) \/ Launch(q) \/ Deliver(q)
  <2>1. prepare' = prepare
    BY <1>7 DEF Reconnect, Launch, Deliver
  <2> QED BY <1>2, <1>3, <2>1
<1>8. CASE \/ HostStarts
           \/ \E q \in Run : \/ Reader(q) \/ LinkLost(q) \/ Scan(q)
                             \/ Worker(q) \/ Works(q) \/ Retire(q) \/ Dies(q)
  <2>1. prepare' = prepare
    BY <1>8 DEF HostStarts, Reader, Received, ReaderEnds, LetGo, LinkLost,
                PutAway, Scan, Worker, Ready,
                TakeCommand, Publish, Works, Retire, Dies, RuntimeOnly, pass
  <2> QED BY <1>2, <1>3, <2>1
<1> QED BY <1>3, <1>4, <1>5, <1>6, <1>7, <1>8 DEF Next, Scheduler

LEMMA ConnectingStep ==
    ASSUME IInv, Next
    PROVE  Connecting' /\ reconnect' \in SUBSET Run /\ launch' \in SUBSET Run
<1>0. /\ reconnect \in SUBSET Run /\ launch \in SUBSET Run /\ Inv
      /\ \A r \in reconnect \cup launch : Claimed(r)
  BY Unfolded DEF Connecting
<1>1. ASSUME NEW some \in SUBSET Run, \A r \in some : Claimed(r),
             reconnect' \cup launch' \in SUBSET some
      PROVE  Connecting' /\ reconnect' \in SUBSET Run /\ launch' \in SUBSET Run
  BY <1>0, <1>1, ClaimedStays DEF Connecting
<1>2. CASE reconnect' \in SUBSET reconnect /\ launch' \in SUBSET launch
  <2>1. reconnect \cup launch \in SUBSET Run
    BY <1>0
  <2> QED BY <1>0, <1>1, <1>2, <2>1
<1>3. CASE BeginPass
  <2> DEFINE some == {r \in Run : Claimed(r)}
  <2>1. Started \in SUBSET some
    BY DEF Started, IsActive, Active, Claimed
  <2>2. reconnect' \in SUBSET Started /\ launch' = launch
    BY <1>3 DEF BeginPass
  <2>3. reconnect' \cup launch' \in SUBSET some
    BY <1>0, <2>1, <2>2
  <2> QED BY <1>1, <2>3
<1>4. CASE Decide
  <2>1. Claimed(Head(prepare)) /\ Head(prepare) \in Run
    BY <1>4, Unfolded, TailRuns DEF Decide, Prepared
  <2> DEFINE some == {r \in Run : Claimed(r)}
  <2>2. reconnect' = reconnect /\ (launch' = launch \/ launch' = launch \cup {Head(prepare)})
    BY <1>4 DEF Decide
  <2>3. reconnect' \cup launch' \in SUBSET some
    BY <1>0, <2>1, <2>2
  <2> QED BY <1>1, <2>3
<1>5. CASE Users \/ Tick \/ Claim \/ NoClaim \/ Prepare
  <2>1. reconnect' = reconnect /\ launch' = launch
    BY <1>5 DEF Users, FallDue, RunNow, Pause, Resume, Stop, CloseSession, Tick,
                Claim, NoClaim, Prepare, pass
  <2> QED BY <1>2, <2>1
<1>6. CASE \/ HostDies \/ HostStarts
           \/ \E q \in Run : Reconnect(q) \/ Launch(q) \/ Deliver(q)
  BY <1>2, <1>6 DEF HostDies, HostStarts, Reconnect, Launch, Deliver
<1>7. CASE \E q \in Run : \/ Reader(q) \/ LinkLost(q) \/ Scan(q)
                          \/ Worker(q) \/ Works(q) \/ Retire(q) \/ Dies(q)
  <2>1. reconnect' = reconnect /\ launch' = launch
    BY <1>7 DEF Reader, Received, ReaderEnds, LetGo, LinkLost,
                PutAway, Scan, Worker, Ready,
                TakeCommand, Publish, Works, Retire, Dies, RuntimeOnly, pass
  <2> QED BY <1>2, <2>1
<1> QED BY <1>3, <1>4, <1>5, <1>6, <1>7 DEF Next, Scheduler
-----------------------------------------------------------------------------
(***************************************************************************)
(* The types.                                                              *)
(***************************************************************************)
FileTyped == task \in [Task -> {"enabled", "paused"}] /\ due \in SUBSET Task
PassTyped ==
    /\ host \in {"up", "down"} /\ recovered \in BOOLEAN /\ pc \in Steps
    /\ cache \in [Run -> Status] /\ seen \in Status
    /\ pc = "decide" => prepare # <<>>
LinesTyped ==
    /\ send \in [Run -> Seq(Command)] /\ wire \in [Run -> Seq(Command)]
    /\ prompts \in [Run -> Nat]
    /\ alive \in SUBSET Run /\ saved \in SUBSET Run /\ lost \in SUBSET Run
BoundsTyped == acts \in 0 .. MaxActs /\ faults \in 0 .. MaxFaults

LEMMA OnwardSteps ==
    ASSUME NEW a, NEW b, NEW c
    PROVE  Onward(a, b, c) \in Steps \ {"decide"}
BY DEF Onward, Steps

LEMMA UnreadTyped == Unread \in [Run -> Status]
BY DEF Unread, Status

LEMMA FileStep ==
    ASSUME IInv, Next
    PROVE  FileTyped'
<1>0. task \in [Task -> {"enabled", "paused"}] /\ due \in SUBSET Task
  BY Unfolded DEF TypeOK
<1>1. CASE UNCHANGED <<task, due>>
  BY <1>0, <1>1 DEF FileTyped
<1>2. ASSUME NEW t \in Task, FallDue(t) \/ RunNow(t) \/ Pause(t) \/ Resume(t)
      PROVE  FileTyped'
  <2>1. task' = task \/ \E v \in {"enabled", "paused"} : task' = [task EXCEPT ![t] = v]
    BY <1>2 DEF FallDue, RunNow, Pause, Resume
  <2>2. due' \in SUBSET (due \cup {t})
    BY <1>2 DEF FallDue, RunNow, Pause, Resume
  <2> QED BY <1>0, <2>1, <2>2 DEF FileTyped
<1>3. CASE Claim
  <2>1. \E last : task' = [t \in Task |-> IF t \in last THEN "paused" ELSE task[t]]
    BY <1>3 DEF Claim
  <2>2. due' \in SUBSET due
    BY <1>3 DEF Claim
  <2> QED BY <1>0, <2>1, <2>2 DEF FileTyped
<1>4. CASE \/ BeginPass \/ Tick \/ NoClaim \/ Prepare \/ Decide
           \/ \E r \in Run : Reconnect(r) \/ Launch(r) \/ Deliver(r)
  BY <1>1, <1>4 DEF BeginPass, Tick, NoClaim, Prepare, Decide, Reconnect, Launch,
                    Deliver, store
<1>5. CASE \/ \E q \in Run : Stop(q) \/ CloseSession(q)
           \/ HostDies \/ HostStarts
           \/ \E q \in Run : \/ Reader(q) \/ LinkLost(q) \/ Scan(q)
                             \/ Worker(q) \/ Works(q) \/ Retire(q) \/ Dies(q)
  <2>1. UNCHANGED <<task, due>>
    BY <1>5 DEF Stop, CloseSession, HostDies, HostStarts, Reader, Received,
        ReaderEnds, LetGo, LinkLost,
        PutAway, Scan, Worker, Ready, TakeCommand, Publish, Works, Retire, Dies,
        RuntimeOnly, store
  <2> QED BY <1>1, <2>1
<1> QED BY <1>2, <1>3, <1>4, <1>5 DEF Next, Users, Scheduler

LEMMA PassStep ==
    ASSUME IInv, Next
    PROVE  PassTyped'
<1>0. PassTyped /\ status' \in [Run -> Status] /\ status \in [Run -> Status]
  BY Unfolded, NextStep DEF PassTyped, TypeOK, Inv, Typed
<1>1. CASE pass' = pass
  BY <1>0, <1>1 DEF PassTyped, pass
<1>2. CASE BeginPass
  BY <1>0, <1>2 DEF BeginPass, PassTyped, Steps
<1>3. CASE Tick
  BY <1>0, <1>3 DEF Tick, PassTyped, Steps
<1>4. CASE Claim
  <2>1. pc' \in Steps \ {"decide"}
    BY <1>4, ClaimParts, OnwardSteps
  <2>2. cache' = Unread /\ UNCHANGED <<host, recovered, seen>>
    BY <1>4 DEF Claim
  <2> QED BY <1>0, <2>1, <2>2, UnreadTyped DEF PassTyped
<1>5. CASE NoClaim
  <2>1. pc' \in Steps \ {"decide"}
    BY <1>5, OnwardSteps DEF NoClaim
  <2>2. cache' = Unread /\ UNCHANGED <<host, recovered, seen>>
    BY <1>5 DEF NoClaim
  <2> QED BY <1>0, <2>1, <2>2, UnreadTyped DEF PassTyped
<1>6. CASE Prepare
  <2>1. Head(prepare) \in Run
    BY <1>6, Unfolded, TailRuns DEF Prepare, Prepared
  <2> QED BY <1>0, <1>6, <2>1 DEF Prepare, PassTyped, Steps
<1>7. CASE Decide
  <2>1. pc' \in Steps \ {"decide"}
    BY <1>7, OnwardSteps DEF Decide
  <2>2. seen' \in Status /\ UNCHANGED <<host, recovered, cache>>
    BY <1>7 DEF Decide, Status
  <2> QED BY <1>0, <2>1, <2>2 DEF PassTyped
<1>8. ASSUME NEW r \in Run, Reconnect(r) \/ Launch(r) \/ Deliver(r)
      PROVE  PassTyped'
  <2>1. pc' \in Steps \ {"decide"}
    BY <1>8, OnwardSteps DEF Reconnect, Launch, Deliver
  <2>2. UNCHANGED <<host, recovered, cache, seen>>
    BY <1>8 DEF Reconnect, Launch, Deliver
  <2> QED BY <1>0, <2>1, <2>2 DEF PassTyped
<1>9. CASE HostDies
  <2>1. cache' = Unread /\ host' = "down" /\ recovered' = FALSE /\ pc' = "wait" /\ seen' = "none"
    BY <1>9 DEF HostDies
  <2> QED BY <2>1, UnreadTyped DEF PassTyped, Steps, Status
<1>10. CASE HostStarts
  BY <1>0, <1>10 DEF HostStarts, PassTyped
<1>11. CASE Users \/ \E q \in Run : \/ Reader(q) \/ LinkLost(q) \/ Scan(q)
                                    \/ Worker(q) \/ Works(q) \/ Retire(q) \/ Dies(q)
  <2>1. pass' = pass
    BY <1>11 DEF Users, FallDue, RunNow, Pause, Resume, Stop, CloseSession, Reader,
        Received, ReaderEnds, LetGo, LinkLost, PutAway, Scan, Worker, Ready,
        TakeCommand, Publish, Works,
        Retire, Dies, RuntimeOnly
  <2> QED BY <1>1, <2>1
<1> QED BY <1>2, <1>3, <1>4, <1>5, <1>6, <1>7, <1>8, <1>9, <1>10, <1>11
        DEF Next, Scheduler

LEMMA LinesStep ==
    ASSUME IInv, Next
    PROVE  LinesTyped'
<1>0. TypeOK /\ LinesTyped /\ \A r \in Run : Single(r)
  BY Unfolded DEF LinesTyped, TypeOK
<1>1. CASE UNCHANGED <<send, wire, prompts, alive, saved>> /\ lost' \in SUBSET Run
  BY <1>0, <1>1 DEF LinesTyped
<1>2. CASE \/ \E t \in Task : FallDue(t) \/ RunNow(t) \/ Pause(t) \/ Resume(t)
           \/ \E q \in Run : Stop(q) \/ Reader(q)
           \/ BeginPass \/ Claim \/ NoClaim \/ Prepare \/ Decide \/ HostStarts
  <2>1. UNCHANGED <<send, wire, prompts, alive, saved, lost>>
    BY <1>2 DEF FallDue, RunNow, Pause, Resume, Stop, Reader, Received, ReaderEnds,
        LetGo, PutAway,
        BeginPass, Claim, NoClaim, Prepare, Decide, HostStarts, memory, runtime,
        history
  <2> QED BY <1>0, <1>1, <2>1 DEF LinesTyped
<1>3. ASSUME NEW q \in Run, CloseSession(q)
      PROVE  LinesTyped'
  <2>1. /\ UNCHANGED <<send, prompts, alive, saved, lost>>
        /\ wire' = IF q \in alive THEN [wire EXCEPT ![q] = Append(@, "close")] ELSE wire
    BY <1>3 DEF CloseSession, history
  <2>2. Append(wire[q], "close") \in Seq(Command)
    BY <1>0, CommandTypes DEF Command
  <2>3. wire' \in [Run -> Seq(Command)]
    BY <1>0, <2>1, <2>2 DEF LinesTyped
  <2> QED BY <1>0, <2>1, <2>3 DEF LinesTyped
<1>4. CASE Tick
  <2> DEFINE over == {q \in Run : IsOver(q, cache)}
  <2>1. UNCHANGED <<wire, prompts, alive, saved, lost>>
    BY <1>4 DEF Tick, runtime, history
  <2>2. PICK no : send' = [r \in Run |->
                When(StopsNow(r, cache), "interrupt")
                    \o When(Submits(r, cache), "prompt")
                    \o When(r \in over \ no, "close")]
    BY <1>4 DEF Tick
  <2>3. ASSUME NEW r \in Run
        PROVE  send'[r] \in Seq(Command)
    <3> DEFINE a == StopsNow(r, cache)
               b == Submits(r, cache)
               c == r \in over \ no
    <3>1. a \in BOOLEAN /\ b \in BOOLEAN /\ c \in BOOLEAN /\ ~(a /\ b)
      BY DEF StopsNow, Submits
    <3>2. send'[r] = When(a, "interrupt") \o When(b, "prompt") \o When(c, "close")
      BY <2>2
    <3> HIDE DEF a, b, c
    <3> QED BY <3>1, <3>2, TickSends
  <2>4. send' = [r \in Run |-> send'[r]]
    BY <2>2
  <2>5. send' \in [Run -> Seq(Command)]
    BY <2>3, <2>4
  <2> QED BY <1>0, <2>1, <2>5 DEF LinesTyped
<1>5. ASSUME NEW q \in Run, Reconnect(q) \/ Launch(q)
      PROVE  LinesTyped'
  <2>1. UNCHANGED <<send, wire, prompts, saved>> /\ alive' \in SUBSET Run
    BY <1>0, <1>5 DEF Reconnect, Launch, ActivationFails, LinesTyped
  <2>2. lost' \in SUBSET Run
    BY <1>0, <1>5 DEF Reconnect, Launch, ActivationFails, Activated, LinesTyped
  <2> QED BY <1>0, <2>1, <2>2 DEF LinesTyped
<1>6. ASSUME NEW q \in Run, Deliver(q)
      PROVE  LinesTyped'
  <2>1. /\ send[q] # <<>> /\ send' = [send EXCEPT ![q] = Tail(@)]
        /\ prompts' = [prompts EXCEPT ![q] = IF Head(send[q]) = "prompt" THEN @ + 1 ELSE @]
        /\ UNCHANGED <<alive, saved, lost>>
    BY <1>6 DEF Deliver
  <2>2. wire' = wire \/ wire' = [wire EXCEPT ![q] = Append(@, Head(send[q]))]
    BY <1>6 DEF Deliver
  <2>3. Head(send[q]) \in Command /\ Tail(send[q]) \in Seq(Command)
    BY <1>0, <2>1, CommandTypes, SendingFacts DEF Single
  <2>4. Append(wire[q], Head(send[q])) \in Seq(Command)
    BY <1>0, <2>3, CommandTypes
  <2>5. send' \in [Run -> Seq(Command)] /\ wire' \in [Run -> Seq(Command)]
    BY <1>0, <2>1, <2>2, <2>3, <2>4 DEF LinesTyped
  <2>6. prompts' \in [Run -> Nat]
    BY <1>0, <2>1 DEF LinesTyped
  <2> QED BY <1>0, <2>1, <2>5, <2>6 DEF LinesTyped
<1>7. ASSUME NEW q \in Run, Scan(q)
      PROVE  LinesTyped'
  <2>1. UNCHANGED <<send, wire, prompts, alive, saved>> /\ lost' \in SUBSET Run
    BY <1>0, <1>7 DEF Scan, runtime, LinesTyped
  <2> QED BY <1>1, <2>1
<1>8. ASSUME NEW q \in Run, Worker(q) \/ Works(q) \/ Retire(q) \/ Dies(q)
      PROVE  LinesTyped'
  <2>1. UNCHANGED <<send, prompts, lost>>
    BY <1>8 DEF Worker, Ready, TakeCommand, Publish, Works, Retire, Dies, RuntimeOnly,
                memory, history
  <2>2. (alive' = alive \/ alive' = alive \ {q}) /\ (saved' = saved \/ saved' = saved \cup {q})
    BY <1>8 DEF Worker, Ready, TakeCommand, Publish, Works, Retire, Dies, Gone
  <2>3. \/ wire' = wire \/ wire' = [wire EXCEPT ![q] = <<>>]
        \/ wire[q] # <<>> /\ wire' = [wire EXCEPT ![q] = Tail(@)]
    BY <1>8 DEF Worker, Ready, TakeCommand, Publish, Works, Retire, Dies, Gone
  <2>4. wire[q] \in Seq(Command) /\ (wire[q] # <<>> => Tail(wire[q]) \in Seq(Command))
    BY <1>0, CommandTypes
  <2>5. \E s \in Seq(Command) : wire' = [wire EXCEPT ![q] = s]
    <3>1. CASE wire' = wire
      <4>1. wire' = [wire EXCEPT ![q] = wire[q]]
        BY <1>0, <3>1 DEF LinesTyped
      <4> QED BY <2>4, <4>1
    <3>2. CASE wire' = [wire EXCEPT ![q] = <<>>]
      <4>1. <<>> \in Seq(Command)
        BY EmptySeq
      <4> QED BY <3>2, <4>1
    <3>3. CASE wire[q] # <<>> /\ wire' = [wire EXCEPT ![q] = Tail(@)]
      <4>1. wire' = [wire EXCEPT ![q] = Tail(wire[q])]
        BY <3>3
      <4> QED BY <2>4, <3>3, <4>1
    <3> QED BY <2>3, <3>1, <3>2, <3>3
  <2>6. wire' \in [Run -> Seq(Command)]
    BY <1>0, <2>5 DEF LinesTyped
  <2> QED BY <1>0, <2>1, <2>2, <2>6 DEF LinesTyped
<1>9. CASE HostDies
  <2>1. /\ UNCHANGED <<wire, prompts, alive, saved>> /\ lost' = {}
        /\ send' = [r \in Run |-> <<>>]
    BY <1>9 DEF HostDies, runtime
  <2> QED BY <1>0, <2>1 DEF LinesTyped
<1>10. ASSUME NEW q \in Run, LinkLost(q)
       PROVE  LinesTyped'
  <2>1. /\ UNCHANGED <<send, prompts, alive, saved, lost>>
        /\ wire' = [wire EXCEPT ![q] = <<>>]
    BY <1>10 DEF LinkLost, PutAway, history
  <2>2. wire' \in [Run -> Seq(Command)]
    BY <1>0, <2>1, EmptySeq DEF LinesTyped
  <2> QED BY <1>0, <2>1, <2>2 DEF LinesTyped
<1> QED BY <1>2, <1>3, <1>4, <1>5, <1>6, <1>7, <1>8, <1>9, <1>10
        DEF Next, Users, Scheduler

\* Only a command a runtime takes adds to the turns that went on.
LEMMA DroppedStep ==
    ASSUME IInv, Next
    PROVE  dropped' \subseteq Run
<1>0. dropped \subseteq Run
  BY Unfolded DEF TypeOK
<1>1. ASSUME NEW q \in Run, Worker(q) \/ Works(q) \/ Retire(q) \/ Dies(q)
      PROVE  dropped' \in {dropped, dropped \cup {q}}
  BY <1>1 DEF Worker, Ready, TakeCommand, Publish, Works, Retire, Dies, history
<1>2. CASE dropped' = dropped
  BY <1>0, <1>2
<1>3. CASE Users \/ Scheduler
  <2>1. dropped' = dropped
    BY <1>3 DEF Users, FallDue, RunNow, Pause, Resume, Stop, CloseSession, Scheduler,
        BeginPass, Tick, Claim, NoClaim, Prepare, Decide, Reconnect, Launch, Deliver,
        history
  <2> QED BY <1>2, <2>1
<1>4. CASE \/ HostDies \/ HostStarts
           \/ \E q \in Run : Reader(q) \/ LinkLost(q) \/ Scan(q)
  <2>1. dropped' = dropped
    BY <1>4 DEF HostDies, HostStarts, Reader, Received, ReaderEnds, LetGo, LinkLost,
        PutAway, Scan, history
  <2> QED BY <1>2, <2>1
<1> QED BY <1>0, <1>1, <1>3, <1>4 DEF Next

LEMMA CountStep ==
    ASSUME BoundsTyped, NEW some, NEW no \in Refused(some), some \in SUBSET Run, Count(no)
    PROVE  BoundsTyped'
<1>1. no \in SUBSET Run
  BY DEF Refused
<1>2. Cardinality(no) \in Nat
  BY <1>1, RunsAssumption, FS_Subset, FS_CardinalityType
<1>3. faults + Cardinality(no) <= MaxFaults
  BY DEF Refused
<1>4. faults' \in 0 .. MaxFaults
  BY <1>2, <1>3, RunsAssumption DEF BoundsTyped, Count
<1> QED BY <1>4 DEF BoundsTyped, Count

LEMMA BoundsStep ==
    ASSUME IInv, Next
    PROVE  BoundsTyped'
<1>0. BoundsTyped
  BY Unfolded DEF BoundsTyped, TypeOK
<1>1. CASE bounds' = bounds
  BY <1>0, <1>1 DEF BoundsTyped, bounds
<1>2. CASE Acts
  BY <1>0, <1>2, RunsAssumption DEF BoundsTyped, Acts
<1>3. CASE faults < MaxFaults /\ faults' = faults + 1 /\ UNCHANGED acts
  BY <1>0, <1>3, RunsAssumption DEF BoundsTyped
<1>4. CASE BeginPass
  <2>1. Started \in SUBSET Run
    BY DEF Started
  <2>2. PICK no \in Refused({r \in Started : ~Known(r)}) : Count(no)
    BY <1>4 DEF BeginPass
  <2> QED BY <1>0, <2>1, <2>2, CountStep
<1>5. CASE Tick
  <2> DEFINE some == {r \in Run : retry[r] # None} \cup {r \in Run : IsOver(r, cache)}
                \cup {r \in Run : Updated(status[r], NoteOf(r, cache)) # status[r]}
  <2>1. \E no \in Refused(some) : Count(no)
    BY <1>5 DEF Tick
  <2>2. some \in SUBSET Run
    OBVIOUS
  <2> HIDE DEF some
  <2> QED BY <1>0, <2>1, <2>2, CountStep
<1>6. ASSUME NEW r \in Run, \E no \in Refused({r}) : Count(no)
      PROVE  BoundsTyped'
  BY <1>0, <1>6, CountStep
<1>7. CASE Decide
  <2>1. Head(prepare) \in Run
    BY <1>7, Unfolded, TailRuns DEF Decide, Prepared
  <2>2. bounds' = bounds \/ \E no \in Refused({Head(prepare)}) : Count(no)
    BY <1>7 DEF Decide, Records
  <2> QED BY <1>1, <1>6, <2>1, <2>2
<1>8. ASSUME NEW r \in Run, Reconnect(r) \/ Launch(r)
      PROVE  BoundsTyped'
  <2>1. bounds' = bounds \/ \E no \in Refused({r}) : Count(no)
    BY <1>8 DEF Reconnect, Launch, ActivationFails, Activated
  <2> QED BY <1>1, <1>6, <2>1
<1>9. CASE Users
  BY <1>2, <1>9 DEF Users, FallDue, RunNow, Pause, Resume, Stop, CloseSession
<1>10. CASE Claim \/ NoClaim \/ Prepare \/ \E r \in Run : Deliver(r)
  <2>1. bounds' = bounds \/ (faults < MaxFaults /\ faults' = faults + 1 /\ UNCHANGED acts)
    BY <1>10 DEF Claim, NoClaim, Prepare, Deliver
  <2> QED BY <1>1, <1>3, <2>1
<1>11. CASE HostDies \/ HostStarts \/ \E r \in Run : Reader(r) \/ LinkLost(r) \/ Scan(r)
  <2>1. bounds' = bounds \/ (faults < MaxFaults /\ faults' = faults + 1 /\ UNCHANGED acts)
    BY <1>11 DEF HostDies, HostStarts, Reader, Received, ReaderEnds, LetGo, LinkLost,
  PutAway, Scan
  <2> QED BY <1>1, <1>3, <2>1
<1>12. CASE \E r \in Run : Worker(r) \/ Works(r) \/ Retire(r) \/ Dies(r)
  <2>1. bounds' = bounds \/ (faults < MaxFaults /\ faults' = faults + 1 /\ UNCHANGED acts)
    BY <1>12 DEF Worker, Ready, TakeCommand, Publish, Works, Retire, Dies, RuntimeOnly
  <2> QED BY <1>1, <1>3, <2>1
<1> QED BY <1>4, <1>5, <1>7, <1>8, <1>9, <1>10, <1>11, <1>12 DEF Next, Scheduler

-----------------------------------------------------------------------------
(***************************************************************************)
(* The theorems of the prompt.                                             *)
(***************************************************************************)
\* What a step keeps of a run: the one whose session is made had none, and was
\* sent nothing.
LEMMA RunStep ==
    ASSUME IInv, Next, NEW r \in Run
    PROVE  Waiting(r)' /\ Single(r)' /\ InOrder(r)'
<1>0. Waiting(r) /\ Single(r) /\ InOrder(r) /\ Inv /\ TypeOK
  BY Unfolded
<1>1. ~Claimed(r)' => ~Claimed(r)
  BY <1>0, ClaimedStays
<1>2. CASE Quiet(r)
  <2>1. Single(r)' /\ InOrder(r)'
    BY <1>0, <1>2 DEF Quiet
  <2>2. ASSUME ~Claimed(r)'
        PROVE  Untouched(r)' /\ retry'[r] = None
    BY <1>0, <1>1, <1>2, <2>2, RetryStays DEF Quiet, Waiting
  <2>3. Waiting(r)'
    BY <2>2 DEF Waiting
  <2> QED BY <2>1, <2>3
<1>3. CASE Decide /\ r = Head(prepare)
  <2>1. Claimed(r) /\ Untouched(r)
    BY <1>3, Unfolded, TailRuns DEF Decide, Prepared
  <2>2. Waiting(r)'
    BY <1>1, <2>1 DEF Waiting
  <2>3. /\ prompts'[r] = 0 /\ send'[r] = <<>> /\ wire'[r] = <<>>
    BY <1>3, <2>1 DEF Decide, Untouched, runtime, history
  <2>4. Single(r)'
    BY <2>3 DEF Single, Sending, HasIn
  <2>5. InOrder(r)'
    BY <2>3 DEF InOrder, HasIn
  <2> QED BY <2>2, <2>4, <2>5
<1> QED BY <1>2, <1>3, QuietStep

LEMMA IInvStep == IInv /\ [Next]_vars => IInv'
<1> SUFFICES ASSUME IInv, [Next]_vars
             PROVE  IInv'
  OBVIOUS
<1>1. CASE Next
  <2>1. Inv'
    BY <1>1, Unfolded, NextStep
  <2>2. Queued' /\ Prepared' /\ Connecting' /\ reconnect' \in SUBSET Run /\ launch' \in SUBSET Run
    BY <1>1, QueueStep, PreparedStep, ConnectingStep
  <2>3. FileTyped' /\ PassTyped' /\ LinesTyped' /\ BoundsTyped' /\ dropped' \subseteq Run
    BY <1>1, FileStep, PassStep, LinesStep, BoundsStep, DroppedStep
  <2>4. retry' \in [Run -> Status \cup {None}] /\ Typed' /\ prepare' \in Seq(Run)
    BY <2>1, <2>2 DEF Inv, Typed, Noted, Status, Active, Over, Prepared
  <2>5. TypeOK'
    BY <2>2, <2>3, <2>4 DEF TypeOK, Typed, Queued, FileTyped, PassTyped, LinesTyped,
                            BoundsTyped
  <2>6. \A r \in Run : Waiting(r)' /\ Single(r)' /\ InOrder(r)'
    BY <1>1, RunStep
  <2>7. Lined'
    BY <2>2, <2>3 DEF Lined, Queued, Prepared, Connecting, PassTyped
  <2> QED BY <2>1, <2>5, <2>6, <2>7 DEF IInv
<1>2. CASE UNCHANGED vars
  <2>1. /\ UNCHANGED <<status, queue, task, due>>
        /\ UNCHANGED <<host, recovered, pc, cache, prepare, seen, reconnect, launch>>
        /\ UNCHANGED <<retry, send, session>>
        /\ UNCHANGED <<alive, phase, outcome, saved, wire>>
        /\ UNCHANGED <<prompts, lost, dropped, acts, faults>>
    BY <1>2 DEF vars, store, pass, memory, runtime, history, bounds
  <2>2. TypeOK'
    BY <2>1, Unfolded DEF TypeOK
  <2>3. Inv'
    BY <2>1, Unfolded DEF Inv, Typed, OneActivePerTask, IsActive
  <2>4. Lined'
    BY <2>1 DEF IInv, Lined, Claimed, Untouched
  <2>5. \A r \in Run : Waiting(r)' /\ Single(r)' /\ InOrder(r)'
    BY <2>1, Unfolded DEF Waiting, Single, InOrder, Claimed, Untouched, Prompting
  <2> QED BY <2>2, <2>3, <2>4, <2>5 DEF IInv
<1> QED BY <1>1, <1>2

LEMMA IInvInit == Init => IInv
<1> SUFFICES ASSUME Init
             PROVE  IInv
  OBVIOUS
<1>1. Inv
  BY DEF Init, Inv, Typed, Status, Phase, OneActivePerTask, IsActive, Active
<1>2. <<>> \in Seq(Run) /\ <<>> \in Seq(Command)
  BY EmptySeq
<1>3. TypeOK
  <2>1. /\ status \in [Run -> Status] /\ session \in [Run -> Session \cup {None}]
        /\ phase \in [Run -> Phase] /\ outcome \in [Run -> Result \cup {None}]
    BY <1>1 DEF Inv, Typed
  <2>2. retry \in [Run -> Status \cup {None}]
    BY DEF Init
  <2>3. task \in [Task -> {"enabled", "paused"}] /\ due \subseteq Task
    BY DEF Init
  <2>4. /\ host \in {"up", "down"} /\ recovered \in BOOLEAN /\ pc \in Steps
        /\ cache \in [Run -> Status] /\ seen \in Status
        /\ reconnect \subseteq Run /\ launch \subseteq Run
    BY UnreadTyped DEF Init, Steps, Status
  <2>5. queue \in Seq(Run) /\ prepare \in Seq(Run)
    BY <1>2 DEF Init
  <2>6. send \in [Run -> Seq(Command)] /\ wire \in [Run -> Seq(Command)]
    BY <1>2 DEF Init
  <2>7. /\ alive \subseteq Run /\ saved \subseteq Run
        /\ lost \subseteq Run /\ dropped \subseteq Run
        /\ prompts \in [Run -> Nat]
    BY DEF Init
  <2>8. acts \in 0 .. MaxActs /\ faults \in 0 .. MaxFaults
    BY RunsAssumption DEF Init
  <2> QED BY <2>1, <2>2, <2>3, <2>4, <2>5, <2>6, <2>7, <2>8 DEF TypeOK
<1>4. Lined
  BY DEF Init, Lined, Distinct
<1>5. \A r \in Run : Waiting(r) /\ Single(r) /\ InOrder(r)
  BY DEF Init, Waiting, Single, InOrder, Untouched, Prompting, Sending, HasIn
<1> QED BY <1>1, <1>3, <1>4, <1>5 DEF IInv

LEMMA Strengthened == Spec => []IInv
BY IInvInit, IInvStep, PTL DEF Spec

\* Every variable of the scheduler has its type: what a pass decides from what
\* it has read is a status the file may hold, and what it has prepared is left
\* before it goes on to decide.
THEOREM TypeCorrect == Spec => []TypeOK
<1>1. IInv => TypeOK
  BY DEF IInv
<1> QED BY <1>1, Strengthened, PTL

LEMMA OneWay ==
    ASSUME IInv
    PROVE  PromptOnce
<1> SUFFICES ASSUME NEW r \in Run
             PROVE  /\ prompts[r] + Cardinality({i \in DOMAIN send[r] : send[r][i] = "prompt"}) <= 1
                    /\ \A i, j \in 1 .. Len(wire[r] \o send[r]) :
                          i < j /\ (wire[r] \o send[r])[i] = "interrupt"
                            => (wire[r] \o send[r])[j] # "prompt"
  BY DEF PromptOnce
<1> DEFINE w == wire[r]
           s == send[r]
<1>0. /\ Single(r) /\ InOrder(r) /\ w \in Seq(Command) /\ s \in Seq(Command)
      /\ prompts[r] \in Nat
  BY Unfolded, CommandTypes
<1>1. prompts[r] + Cardinality({i \in DOMAIN s : s[i] = "prompt"}) <= 1
  <2> DEFINE at == {i \in DOMAIN s : s[i] = "prompt"}
  <2>1. CASE HasIn(s, "prompt")
    <3>1. at = {1}
      BY <1>0, <2>1 DEF Single, Sending, HasIn
    <3>2. Cardinality(at) = 1
      BY <3>1, FS_Singleton
    <3> HIDE DEF at
    <3>3. prompts[r] = 0
      BY <1>0, <2>1 DEF Single
    <3>4. prompts[r] + Cardinality(at) <= 1
      BY <3>2, <3>3
    <3> QED BY <3>4 DEF at
  <2>2. CASE ~HasIn(s, "prompt")
    <3>1. at = {}
      BY <2>2 DEF HasIn
    <3>2. Cardinality(at) = 0
      BY <3>1, FS_EmptySet
    <3> HIDE DEF at
    <3>3. prompts[r] <= 1
      BY <1>0 DEF Single
    <3>4. prompts[r] + Cardinality(at) <= 1
      BY <1>0, <3>2, <3>3
    <3> QED BY <3>4 DEF at
  <2> QED BY <2>1, <2>2
<1> HIDE DEF w, s
<1>2. /\ Len(w) \in Nat /\ Len(s) \in Nat /\ Len(w \o s) = Len(w) + Len(s)
      /\ DOMAIN w = 1 .. Len(w) /\ DOMAIN s = 1 .. Len(s)
      /\ \A i \in 1 .. Len(w) + Len(s) :
            (w \o s)[i] = IF i <= Len(w) THEN w[i] ELSE s[i - Len(w)]
  BY <1>0, ConcatProperties, LenProperties
<1>3. /\ \A i, j \in DOMAIN w : i < j /\ w[i] = "interrupt" => w[j] # "prompt"
      /\ HasIn(w, "interrupt") => ~HasIn(s, "prompt")
      /\ \A i \in DOMAIN s : s[i] # "close" => i = 1
  BY <1>0 DEF InOrder, Single, Sending, w, s
<1>4. ASSUME NEW i \in 1 .. Len(w \o s), NEW j \in 1 .. Len(w \o s), i < j,
             (w \o s)[i] = "interrupt", (w \o s)[j] = "prompt"
      PROVE  FALSE
  <2>1. CASE j <= Len(w)
    <3>1. i \in DOMAIN w /\ j \in DOMAIN w /\ w[i] = "interrupt" /\ w[j] = "prompt"
      BY <1>2, <1>4, <2>1
    <3> QED BY <1>3, <1>4, <3>1
  <2>2. CASE ~(j <= Len(w))
    <3>1. j - Len(w) \in DOMAIN s /\ s[j - Len(w)] = "prompt"
      BY <1>2, <1>4, <2>2
    <3>2. HasIn(s, "prompt") /\ j - Len(w) = 1
      BY <1>3, <3>1 DEF HasIn
    <3>3. i <= Len(w)
      BY <1>2, <1>4, <3>2
    <3>4. i \in DOMAIN w /\ w[i] = "interrupt"
      BY <1>2, <1>4, <3>3
    <3> QED BY <1>3, <3>2, <3>4 DEF HasIn
  <2> QED BY <2>1, <2>2
<1> QED BY <1>1, <1>4 DEF w, s

\* A run's prompt is sent once, over all hosts, and never behind the interrupt
\* of a stop: a session is made for a run only by the pass that claimed it, the
\* tick takes the prompt out of the session as it sends it or a stop comes
\* first, and no host after that gives it back.
THEOREM PromptSentOnce == Spec => []PromptOnce
BY OneWay, Strengthened, PTL
=============================================================================
