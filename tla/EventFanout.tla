---------------------------- MODULE EventFanout ----------------------------
(***************************************************************************)
(* How what a session's runtime does reaches its clients.  The application *)
(* pushes events; streamed text is held back a moment and merged           *)
(* (TransientBatcher); the channel publishes frames without ever waiting   *)
(* (Server::Publish); one thread numbers them, keeps a snapshot and the    *)
(* frames after it for whoever joins, and feeds every client (Server::     *)
(* State::Run).  A client that cannot keep up is dropped and may join      *)
(* again; the web host, which is one, filters what it has had already      *)
(* (SessionHost::Received).                                                *)
(*                                                                         *)
(* Every frame but a gap has size 1, and all queues have the one bound     *)
(* Limit, as in the code (kQueueBytes).  An event is its number; a frame   *)
(* carries the events from..to.  A status is its version v: what it says   *)
(* is only whether the runtime is busy.  Usage counts, the retained        *)
(* turn_status line and the outcomes of commands are not modelled here.    *)
(***************************************************************************)
EXTENDS Naturals, Sequences, FiniteSets, SequencesExt

CONSTANTS
    Client,
    Key,          \* streams of text: a response's answer, its reasoning
    Big,          \* events whose frame exceeds what the transport takes
    Limit,        \* kQueueBytes
    MaxEvents, MaxStates, MaxJoins   \* bounds

ASSUME FanoutAssumption ==
    /\ Limit \in Nat \ {0}
    /\ "none" \notin Key
    /\ MaxEvents \in Nat /\ MaxStates \in Nat /\ MaxJoins \in Nat
    /\ Big \subseteq 1..MaxEvents

VARIABLES
    pushed,       \* events the application has pushed
    held,         \* pending_delta_: the key and first event held back, or None
    sentKeys,     \* sent_delta_keys_
    boundary,     \* the last event was not streamed text
    status,       \* the runtime's status: [v, busy]
    pending,      \* frames published and not yet drained
    batch,        \* frames the thread has drained and not yet handled
    snapshot,     \* what a joining client gets first, or None
    replay,       \* and then
    replayGap,    \* but frames are missing in between
    sequence,     \* the last frame's number
    out,          \* client -> lines it has not been written yet
    asks,         \* refresh commands on their way
    view,         \* client -> what it has understood
    joins         \* so far

vars == <<pushed, held, sentKeys, boundary, status, pending, batch, snapshot,
          replay, replayGap, sequence, out, asks, view, joins>>
producer == <<pushed, held, sentKeys, boundary, status>>
server == <<snapshot, replay, replayGap, sequence>>

None == [kind |-> "none", from |-> 0, to |-> 0, v |-> 0, busy |-> FALSE,
         seq |-> 0]
NotHeld == [key |-> "none", from |-> 0]
Gap == [None EXCEPT !.kind = "gap"]
IsState(f) == f.kind \in {"state", "checkpoint"}

Frame == [kind : {"none", "gap", "event", "state", "checkpoint"},
          from : 0..MaxEvents, to : 0..MaxEvents, v : 0..MaxStates,
          busy : BOOLEAN, seq : Nat]

\* What a client makes of the lines: n events known, `told` of a gap and
\* `missed` an event since the last checkpoint, applied one `twice`; seq is
\* runtime_sequence, `kept` over a connection that broke in the middle of work;
\* `based`: it has had a checkpoint.
Unseen == [on |-> FALSE, n |-> 0, v |-> 0, busy |-> FALSE, told |-> FALSE,
           missed |-> FALSE, twice |-> FALSE, seq |-> 0, kept |-> FALSE,
           based |-> FALSE]

Sized(lines) == Cardinality({i \in DOMAIN lines : lines[i].kind # "gap"})

TypeOK ==
    /\ pushed \in 0..MaxEvents
    /\ held \in [key : Key \cup {"none"}, from : 0..MaxEvents]
    /\ sentKeys \subseteq Key /\ boundary \in BOOLEAN
    /\ status \in [v : 0..MaxStates, busy : BOOLEAN]
    /\ pending \in Seq(Frame) /\ Sized(pending) <= Limit
    /\ batch \in Seq(Frame)
    /\ snapshot \in Frame
    /\ replay \in Seq(Frame) /\ Sized(replay) <= Limit
    /\ replayGap \in BOOLEAN /\ sequence \in Nat
    /\ out \in [Client -> Seq(Frame)]
    /\ asks \in Nat /\ joins \in 0..MaxJoins
    /\ view \in [Client -> [on : BOOLEAN, n : 0..MaxEvents, v : 0..MaxStates,
                            busy : BOOLEAN, told : BOOLEAN, missed : BOOLEAN,
                            twice : BOOLEAN, seq : Nat, kept : BOOLEAN,
                            based : BOOLEAN]]

Init ==
    /\ pushed = 0 /\ held = NotHeld /\ sentKeys = {} /\ boundary = TRUE
    /\ status = [v |-> 0, busy |-> FALSE]
    /\ pending = <<>> /\ batch = <<>>
    /\ snapshot = None /\ replay = <<>> /\ replayGap = FALSE /\ sequence = 0
    /\ out = [c \in Client |-> <<>>] /\ asks = 0
    /\ view = [c \in Client |-> Unseen] /\ joins = 0
-----------------------------------------------------------------------------
\* The variant that empties a full queue and says nothing.
PublishSilently(queue, f) ==
    IF Sized(queue) + Sized(<<f>>) > Limit THEN <<f>> ELSE Append(queue, f)

\* The variant that lets one frame too many in.
PublishOneMore(queue, f) ==
    IF Sized(queue) + Sized(<<f>>) > Limit + 1
    THEN <<Gap, f>> ELSE Append(queue, f)

\* Server::Publish never waits: what does not fit is dropped for a gap.
Publish(queue, f) ==
    IF Sized(queue) + Sized(<<f>>) > Limit THEN <<Gap, f>> ELSE Append(queue, f)

EventFrame(from, to) ==
    IF from..to \cap Big # {} THEN Gap
    ELSE [None EXCEPT !.kind = "event", !.from = from, !.to = to]
StateFrame(s) == [None EXCEPT !.kind = "state", !.v = s.v, !.busy = s.busy]
Checkpoint(s, n) == [StateFrame(s) EXCEPT !.kind = "checkpoint", !.to = n]

\* FlushDelta: what is held back goes out as one frame.
Flushed(queue) ==
    IF held = NotHeld THEN queue
    ELSE Publish(queue, EventFrame(held.from, pushed))

\* TransientBatcher::Push of an event that is not streamed: after what is
\* held back.  A turn's start and its end forget what was streamed.
PushEvent(e, resets) ==
    /\ pushed < MaxEvents /\ status.v > 0 /\ e = pushed + 1
    /\ pushed' = e
    /\ pending' = Publish(Flushed(pending), EventFrame(e, e))
    /\ held' = NotHeld
    /\ sentKeys' = IF resets THEN {} ELSE sentKeys
    /\ boundary' = TRUE
    /\ UNCHANGED status

\* QueueDelta: the first text of a stream, and one that starts the stream
\* again, goes at once; the rest is held back, that of another stream sent
\* first.
PushDelta(e, key, reset) ==
    /\ pushed < MaxEvents /\ status.v > 0 /\ e = pushed + 1
    /\ pushed' = e /\ boundary' = FALSE
    /\ IF reset \/ key \notin sentKeys
       THEN /\ pending' = Publish(Flushed(pending), EventFrame(e, e))
            /\ held' = NotHeld
            /\ sentKeys' = IF reset THEN sentKeys ELSE sentKeys \cup {key}
       ELSE /\ UNCHANGED sentKeys
            /\ IF held.key = key
               THEN UNCHANGED <<pending, held>>
               ELSE /\ pending' = Flushed(pending)
                    /\ held' = [key |-> key, from |-> e]
    /\ UNCHANGED status

\* FlushLoop, or enough text: what is held back goes.
FlushHeld ==
    /\ held # NotHeld
    /\ pending' = Flushed(pending) /\ held' = NotHeld
    /\ UNCHANGED <<pushed, sentKeys, boundary, status>>

\* SendState: a turn begins, a decision is asked for or answered.
SendState ==
    /\ 0 < status.v /\ status.v < MaxStates
    /\ status' = [v |-> status.v + 1, busy |-> TRUE]
    /\ pending' = Publish(pending, StateFrame(status'))
    /\ UNCHANGED <<pushed, held, sentKeys, boundary>>

\* PublishState of a checkpoint: the conversation as it is, at a boundary
\* (the first ends the start; a turn's comes after its last event).
PublishCheckpoint(busy) ==
    /\ boundary /\ status.v < MaxStates
    /\ status' = [v |-> status.v + 1, busy |-> busy]
    /\ pending' = Publish(pending, Checkpoint(status', pushed))
    /\ UNCHANGED <<pushed, held, sentKeys, boundary>>

\* A client's refresh arrives: the status again.
Refresh ==
    /\ asks > 0
    /\ asks' = asks - 1
    /\ pending' = Publish(pending, StateFrame(status))
    /\ UNCHANGED producer

Producer ==
    /\ \/ /\ \/ \E e \in 1..MaxEvents, resets \in BOOLEAN : PushEvent(e, resets)
             \/ \E e \in 1..MaxEvents, k \in Key, reset \in BOOLEAN :
                    PushDelta(e, k, reset)
             \/ FlushHeld \/ SendState
             \/ \E busy \in BOOLEAN : PublishCheckpoint(busy)
          /\ UNCHANGED asks
       \/ Refresh
    /\ UNCHANGED <<batch, server, out, view, joins>>
-----------------------------------------------------------------------------
Swap ==
    /\ batch = <<>> /\ pending # <<>>
    /\ batch' = pending /\ pending' = <<>>
    /\ UNCHANGED <<producer, server, out, asks, view, joins>>

\* The variant that keeps every state frame for a joining client.
KeepStates(lines) == lines

\* Only the latest state frame is kept: replay_state says where it stands.
StatesAt(lines) == {i \in DOMAIN lines : IsState(lines[i])}
WithoutStates(lines) ==
    IF StatesAt(lines) = {} THEN lines
    ELSE RemoveAt(lines, CHOOSE i \in StatesAt(lines) : TRUE)

\* A client that joins reads its status from the snapshot.
Follow(f) == [snapshot EXCEPT !.v = f.v, !.busy = f.busy]

\* A replay beyond its bound is let go: there is a gap after the snapshot,
\* and the runtime is asked to say its status.
Overflow ==
    /\ replay' = <<>> /\ replayGap' = TRUE
    /\ pending' = Publish(pending, StateFrame(status))

\* One drained frame: numbered, kept for those who join, sent to everyone.
Handle ==
    /\ batch # <<>>
    /\ LET f == [Head(batch) EXCEPT !.seq = sequence + 1]
           first == f.kind = "checkpoint" \/ (IsState(f) /\ snapshot = None)
           kept == IF IsState(f) THEN WithoutStates(replay) ELSE replay
       IN  /\ sequence' = f.seq
           /\ out' = [c \in Client |->
                        IF view[c].on THEN Append(out[c], f) ELSE out[c]]
           /\ IF first
              THEN /\ snapshot' = f /\ replay' = <<>> /\ replayGap' = FALSE
                   /\ UNCHANGED pending
              ELSE /\ snapshot' = IF IsState(f) THEN Follow(f) ELSE snapshot
                   /\ IF Sized(kept) + Sized(<<f>>) > Limit
                      THEN Overflow
                      ELSE /\ replay' = Append(kept, f)
                           /\ UNCHANGED <<replayGap, pending>>
    /\ batch' = Tail(batch)
    /\ UNCHANGED <<producer, asks, view, joins>>

\* The variant that forgets the gap it has to tell.
WelcomeSilently == (IF snapshot = None THEN <<>> ELSE <<snapshot>>) \o replay

\* What a joining client is sent.
Welcome == (IF snapshot = None THEN <<>> ELSE <<snapshot>>)
           \o (IF replayGap THEN <<Gap>> ELSE <<>>)
           \o replay

\* Accepted after the drain.  The host forgets how far it had come, unless
\* the connection broke in the middle of work.
Join(c) ==
    /\ batch = <<>> /\ ~view[c].on /\ joins < MaxJoins
    /\ joins' = joins + 1
    /\ out' = [out EXCEPT ![c] = Welcome]
    /\ view' = [view EXCEPT ![c].on = TRUE]
    /\ UNCHANGED <<producer, pending, batch, server, asks>>

\* What a connection's end leaves: only what was broken in the middle of work
\* keeps its place.  Then no turn is active and nothing is pending, but a
\* command that was busy stays so until a state frame (ActivateLocked, the
\* reader's end).
Broken(w, commandBusy) ==
    IF w.busy
    THEN [w EXCEPT !.on = FALSE, !.v = 0, !.busy = commandBusy, !.kept = TRUE]
    ELSE Unseen

\* A client whose lines exceed the bound is dropped, before it is written to,
\* and its reader ends.
Drop(c) ==
    /\ batch = <<>> /\ view[c].on /\ Sized(out[c]) > Limit
    /\ out' = [out EXCEPT ![c] = <<>>]
    /\ \E commandBusy \in BOOLEAN :
          view' = [view EXCEPT ![c] = Broken(@, commandBusy)]
    /\ UNCHANGED <<producer, pending, batch, server, asks, joins>>

\* SessionHost::Received: what it has had is dropped; a gap told at the join
\* has no number.
Had(w, f) == f.seq # 0 /\ f.seq <= w.seq

\* ApplyRuntimeFrame.
Applied(w, f) ==
    LET s == IF f.seq = 0 THEN w ELSE [w EXCEPT !.seq = f.seq]
    IN  CASE f.kind = "gap" -> [s EXCEPT !.told = TRUE]
          [] f.kind = "state" -> [s EXCEPT !.v = f.v, !.busy = f.busy,
                                           !.kept = FALSE]
          [] f.kind = "checkpoint" ->
               [s EXCEPT !.v = f.v, !.busy = f.busy, !.n = f.to,
                         !.told = FALSE, !.missed = FALSE, !.kept = FALSE,
                         !.based = TRUE]
          [] f.kind = "event" ->
               IF f.from = w.n + 1 THEN [s EXCEPT !.n = f.to]
               ELSE IF f.from > w.n THEN [s EXCEPT !.n = f.to, !.missed = TRUE]
               ELSE [s EXCEPT !.twice = TRUE]

\* One line is written, and read.
Write(c) ==
    /\ batch = <<>> /\ out[c] # <<>> /\ Sized(out[c]) <= Limit
    /\ LET f == Head(out[c])
       IN  IF Had(view[c], f)
           THEN UNCHANGED <<view, asks>>
           ELSE /\ view' = [view EXCEPT ![c] = Applied(@, f)]
                /\ asks' = IF f.kind = "gap" THEN asks + 1 ELSE asks
    /\ out' = [out EXCEPT ![c] = Tail(@)]
    /\ UNCHANGED <<producer, pending, batch, server, joins>>

Run == Swap \/ Handle \/ \E c \in Client : Join(c) \/ Drop(c) \/ Write(c)

Next == Producer \/ Run

Spec == Init /\ [][Next]_vars
-----------------------------------------------------------------------------
(***************************************************************************)
(* Properties.                                                             *)
(***************************************************************************)
\* No client misses an event unawares: since its last checkpoint it has had
\* every event in order, or it has been told of a gap, however often the
\* queues overflowed, whenever it joined and however often it was dropped.  (It
\* has had one unless the runtime's first was lost in a full queue: then the
\* first state frame takes its place, and the gap before it goes.)  Nor does it
\* apply one twice, also not when it joins again and is sent what it had: text
\* would stand there twice.
NoSilentLoss ==
    \A c \in Client :
        ~view[c].twice /\ (view[c].based /\ view[c].missed => view[c].told)

\* A connected client's status never goes back: it is never shown a question
\* that is no longer pending or a turn that is over (the one state frame the
\* replay keeps).
StatusNeverGoesBack ==
    [][\A c \in Client :
          view[c].on /\ view'[c].on => view'[c].v >= view[c].v]_vars

\* A client that has read all there is knows the status, whatever was dropped
\* on the way and whenever it joined: a gap makes it ask again.  The exception
\* is the host that joins again after a connection that broke in the middle
\* of work: it takes the snapshot and the state frame it is sent for old.
StatusIsCurrent ==
    pending = <<>> /\ batch = <<>> /\ asks = 0 =>
        \A c \in Client :
            view[c].on /\ out[c] = <<>> /\ ~view[c].kept =>
                view[c].v = status.v
=============================================================================
