------------------------- MODULE EventFanoutProofs -------------------------
(***************************************************************************)
(* Proofs about the fan-out of a session's events (EventFanout), for any   *)
(* clients and streams, queues of any length and any number of events,     *)
(* states and joins.                                                       *)
(*                                                                         *)
(* The lines on their way to a client are out[c], then batch, then         *)
(* pending; those to a client that joins are the snapshot, the gap, the    *)
(* replay, then batch and pending.  The invariant says of both that the    *)
(* numbers in them rise, and that of every event the client has yet to     *)
(* learn of the first line that touches it is one that carries it, a gap   *)
(* or a checkpoint behind it.                                              *)
(***************************************************************************)
EXTENDS EventFanout, SequenceTheorems, FiniteSetTheorems, TLAPS

\* The last event that has left the batcher.
Sent == IF held = NotHeld THEN pushed ELSE held.from - 1

\* A frame may follow what came as far as event n, and status v.
NAfter(n, f) ==
    /\ f.kind = "event" => n < f.from
    /\ f.kind = "checkpoint" => n <= f.to
VAfter(v, f) == IsState(f) => v <= f.v

WellFrame(f) ==
    /\ f.kind # "none"
    /\ f.kind = "event" => 1 <= f.from /\ f.from <= f.to
    /\ f.kind \notin {"event", "checkpoint"} => f.to = 0
    /\ ~IsState(f) => f.v = 0

\* The numbers of a queue rise, up to n; its states, up to v.
FineN(q, n) ==
    /\ \A i \in DOMAIN q : WellFrame(q[i]) /\ q[i].to <= n
    /\ \A i, j \in DOMAIN q : i < j => NAfter(q[i].to, q[j])
FineV(q, v) ==
    /\ \A i \in DOMAIN q : q[i].v <= v
    /\ \A i, j \in DOMAIN q : i < j => VAfter(q[i].v, q[j])
AboveN(n, q) == \A i \in DOMAIN q : NAfter(n, q[i])
AboveV(v, q) == \A i \in DOMAIN q : VAfter(v, q[i])

\* A line that carries event e, or something in its place, and one that goes
\* beyond it.
Covers(f, e) == f.kind = "gap" \/ (e <= f.to /\ (f.kind = "event" => f.from <= e))
Skips(f, e) == f.kind = "event" /\ e < f.from
\* In these places no line goes beyond e before one covers it.
Good(q, at, e) == \A j \in at : Skips(q[j], e) => \E i \in at : i < j /\ Covers(q[i], e)
Tells(q, at, e) == \E i \in at : Covers(q[i], e)
Learns(q, at, e) == Good(q, at, e) /\ Tells(q, at, e)

Behind(q, k) == {i \in DOMAIN q : i > k}
Checks(q) == {k \in DOMAIN q : q[k].kind = "checkpoint"}
\* The lines a client has not had.
Live(w, q) == {i \in DOMAIN q : ~Had(w, q[i])}

\* Whoever knows what precedes pending, or batch, learns of e from there.
InPending(e) == Learns(pending, DOMAIN pending, e)
InBatch(e) == Good(batch, DOMAIN batch, e) /\ (Tells(batch, DOMAIN batch, e) \/ InPending(e))

\* A line that says the status v, or makes the client ask.
Says(f, v) == f.kind = "gap" \/ (IsState(f) /\ f.v = v)
Stale(f, v) == IsState(f) /\ f.v # v
SaysBehind(q, k, v) == \E j \in DOMAIN q : j > k /\ Says(q[j], v)
-----------------------------------------------------------------------------
(***************************************************************************)
(* The invariant.                                                          *)
(***************************************************************************)
Pushing ==
    /\ boundary => held = NotHeld
    /\ held # NotHeld => held.key \in Key /\ 1 <= held.from /\ held.from <= pushed

\* Sequence numbers: the snapshot's, then the replay's, up to `sequence`; what
\* of them a client has not had is on its way to it.
Based == snapshot.kind = "checkpoint"
Snapshotted ==
    /\ snapshot = None \/ (WellFrame(snapshot) /\ IsState(snapshot) /\ snapshot.seq >= 1)
    /\ snapshot.seq <= sequence
Replayed ==
    /\ \A i \in DOMAIN replay :
          /\ replay[i].kind # "checkpoint"
          /\ snapshot.seq < replay[i].seq /\ replay[i].seq <= sequence
    /\ \A i, j \in DOMAIN replay : i < j => replay[i].seq < replay[j].seq
Lined(c) ==
    /\ \A k \in DOMAIN out[c] :
          /\ out[c][k].seq <= sequence
          /\ out[c][k].seq = 0 => out[c][k].kind = "gap"
          /\ out[c][k].kind = "checkpoint" => out[c][k].seq <= snapshot.seq /\ Based
    /\ \A j, k \in DOMAIN out[c] : j < k => out[c][k].seq = 0 \/ out[c][j].seq < out[c][k].seq
Holds(c) ==
    view[c].on =>
      /\ snapshot.seq > view[c].seq =>
            \E k \in DOMAIN out[c] :
                /\ out[c][k].seq = snapshot.seq
                /\ out[c][k].kind = snapshot.kind /\ out[c][k].to = snapshot.to
      /\ \A i \in DOMAIN replay :
            replay[i].seq > view[c].seq => \E k \in DOMAIN out[c] : out[c][k] = replay[i]
\* A connection that is gone has no lines; unless it broke in the middle of
\* work its client starts from nothing.
Parted(c) == ~view[c].on => out[c] = <<>> /\ (~view[c].kept => view[c].seq = 0)
SequencedClient(c) ==
    /\ Lined(c) /\ Holds(c) /\ Parted(c)
    /\ view[c].seq <= sequence /\ (view[c].based => Based)

\* Event numbers rise along the lines.
PastN(n) == n <= Sent /\ AboveN(n, batch) /\ AboveN(n, pending)
\* A client with nothing to be told knows what the lines it had said.
Sound(w) == w.based /\ ~w.told
Up(w) ==
    Sound(w) =>
      /\ snapshot.seq <= w.seq => snapshot.to <= w.n
      /\ \A i \in DOMAIN replay :
            replay[i].seq <= w.seq => replay[i].kind # "gap" /\ replay[i].to <= w.n
Ahead(w) ==
    /\ snapshot.seq > w.seq => NAfter(w.n, snapshot)
    /\ \A i \in DOMAIN replay : replay[i].seq > w.seq => NAfter(w.n, replay[i])
QueuesN ==
    /\ FineN(pending, Sent) /\ FineN(batch, Sent)
    /\ \A i \in DOMAIN batch : AboveN(batch[i].to, pending)
ServerN ==
    /\ FineN(replay, Sent) /\ PastN(snapshot.to) /\ AboveN(snapshot.to, replay)
    /\ \A i \in DOMAIN replay : PastN(replay[i].to)
ClientN(c) ==
    /\ FineN(out[c], Sent) /\ PastN(view[c].n)
    /\ \A k \in DOMAIN out[c] : PastN(out[c][k].to)
    /\ \A k \in Live(view[c], out[c]) : NAfter(view[c].n, out[c][k])
    /\ Up(view[c]) /\ Ahead(view[c])
    /\ ~view[c].twice /\ (view[c].based /\ view[c].missed => view[c].told)

\* Nothing is lost unawares.
FullIn(q, n) ==
    \A k \in Checks(q) : \A e \in q[k].to + 1 .. n : Learns(q, Behind(q, k), e)
FullPending == FullIn(pending, Sent)
FullBatch ==
    \A k \in Checks(batch) : \A e \in batch[k].to + 1 .. Sent :
        /\ Good(batch, Behind(batch, k), e)
        /\ Tells(batch, Behind(batch, k), e) \/ InPending(e)
FullOut(c) ==
    \A k \in Checks(out[c]) : \A e \in out[c][k].to + 1 .. Sent :
        /\ Good(out[c], Behind(out[c], k), e)
        /\ Tells(out[c], Behind(out[c], k), e) \/ InBatch(e)
FullReplay ==
    Based /\ ~replayGap => \A e \in snapshot.to + 1 .. Sent :
        /\ Good(replay, DOMAIN replay, e)
        /\ Tells(replay, DOMAIN replay, e) \/ InBatch(e)
FullView(c) ==
    view[c].on /\ Sound(view[c]) => \A e \in view[c].n + 1 .. Sent :
        /\ Good(out[c], Live(view[c], out[c]), e)
        /\ Tells(out[c], Live(view[c], out[c]), e) \/ InBatch(e)

\* Statuses rise along the lines.
PastV(v) == v <= status.v /\ AboveV(v, batch) /\ AboveV(v, pending)
QueuesV ==
    /\ FineV(pending, status.v) /\ FineV(batch, status.v)
    /\ \A i \in DOMAIN batch : AboveV(batch[i].v, pending)
ServerV ==
    /\ PastV(snapshot.v)
    /\ \A i \in DOMAIN replay : IsState(replay[i]) => replay[i].v = snapshot.v
    /\ \A i, j \in DOMAIN replay : IsState(replay[i]) /\ IsState(replay[j]) => i = j
ClientV(c) ==
    /\ FineV(out[c], status.v) /\ PastV(view[c].v)
    /\ \A k \in DOMAIN out[c] : PastV(out[c][k].v)
    /\ \A k \in Live(view[c], out[c]) : VAfter(view[c].v, out[c][k])
    /\ ~view[c].on => view[c].v = 0

\* The current status is known, or on its way, or will be asked for.
SaidPending(k) == asks > 0 \/ SaysBehind(pending, k, status.v)
SaidBatch(k) == SaidPending(0) \/ SaysBehind(batch, k, status.v)
SaidQueues ==
    /\ \A i \in DOMAIN pending : Stale(pending[i], status.v) => SaidPending(i)
    /\ \A i \in DOMAIN batch : Stale(batch[i], status.v) => SaidBatch(i)
SaidServer ==
    /\ snapshot.v # status.v =>
          SaidBatch(0) \/ replayGap \/ \E i \in DOMAIN replay : replay[i].kind = "gap"
    /\ \A i \in DOMAIN replay : Stale(replay[i], status.v) =>
          SaidBatch(0) \/ SaysBehind(replay, i, status.v)
SaidClient(c) ==
    /\ \A k \in DOMAIN out[c] :
          Stale(out[c][k], status.v) => SaidBatch(0) \/ SaysBehind(out[c], k, status.v)
    /\ view[c].on /\ ~view[c].kept /\ view[c].v # status.v =>
          SaidBatch(0) \/ \E k \in Live(view[c], out[c]) : Says(out[c][k], status.v)

QueuesOK == QueuesN /\ FullPending /\ FullBatch /\ QueuesV /\ SaidQueues
ServerOK == Snapshotted /\ Replayed /\ ServerN /\ FullReplay /\ ServerV /\ SaidServer
ClientOK(c) ==
    /\ SequencedClient(c) /\ ClientN(c) /\ FullOut(c) /\ FullView(c)
    /\ ClientV(c) /\ SaidClient(c)
IInv == TypeOK /\ Pushing /\ QueuesOK /\ ServerOK /\ \A c \in Client : ClientOK(c)
-----------------------------------------------------------------------------
(***************************************************************************)
(* Frames.                                                                 *)
(***************************************************************************)
LEMMA Bounds ==
  /\ Limit \in Nat /\ Limit >= 1 /\ "none" \notin Key
  /\ MaxEvents \in Nat /\ MaxStates \in Nat /\ MaxJoins \in Nat
  BY FanoutAssumption

LEMMA Fields ==
  ASSUME NEW f \in Frame
  PROVE  /\ f.kind \in {"none", "gap", "event", "state", "checkpoint"}
         /\ f.from \in Nat /\ f.to \in Nat /\ f.v \in Nat /\ f.seq \in Nat
         /\ f.to \in 0 .. MaxEvents /\ f.v \in 0 .. MaxStates /\ f.busy \in BOOLEAN
  BY Bounds DEF Frame

LEMMA GapFrame ==
  /\ Gap \in Frame /\ WellFrame(Gap) /\ ~IsState(Gap)
  /\ Gap.kind = "gap" /\ Gap.from = 0 /\ Gap.to = 0 /\ Gap.v = 0 /\ Gap.seq = 0
  /\ None \in Frame /\ None.kind = "none" /\ None.to = 0 /\ None.v = 0 /\ None.seq = 0
<1>1. /\ None \in Frame /\ None.kind = "none" /\ None.to = 0 /\ None.v = 0 /\ None.seq = 0
      /\ None.from = 0 /\ None.busy = FALSE
  BY Bounds DEF None, Frame
<1>2. /\ Gap \in Frame /\ Gap.kind = "gap" /\ Gap.from = 0 /\ Gap.to = 0 /\ Gap.v = 0
      /\ Gap.seq = 0
  BY <1>1 DEF Gap, Frame
<1> QED BY <1>1, <1>2 DEF WellFrame, IsState

LEMMA EventFrames ==
  ASSUME NEW from \in 1 .. MaxEvents, NEW to \in 1 .. MaxEvents, from <= to
  PROVE  LET f == EventFrame(from, to)
         IN  /\ f \in Frame /\ WellFrame(f) /\ ~IsState(f) /\ f.v = 0
             /\ f.kind = "gap" \/ (f.kind = "event" /\ f.from = from /\ f.to = to)
             /\ f.kind # "checkpoint" /\ f.to <= to /\ (f.kind = "event" => f.from = from)
<1>1. CASE from .. to \cap Big # {}
  BY <1>1, GapFrame DEF EventFrame
<1>2. CASE from .. to \cap Big = {}
  <2>1. EventFrame(from, to) = [None EXCEPT !.kind = "event", !.from = from, !.to = to]
    BY <1>2 DEF EventFrame
  <2>2. from \in 0 .. MaxEvents /\ to \in 0 .. MaxEvents /\ 1 <= from
    BY Bounds
  <2>3. /\ EventFrame(from, to) \in Frame /\ EventFrame(from, to).kind = "event"
        /\ EventFrame(from, to).from = from /\ EventFrame(from, to).to = to
        /\ EventFrame(from, to).v = 0
    BY <2>1, <2>2, GapFrame DEF Frame
  <2> QED BY <2>2, <2>3 DEF WellFrame, IsState
<1> QED BY <1>1, <1>2

LEMMA StateFrames ==
  ASSUME NEW s \in [v : 0 .. MaxStates, busy : BOOLEAN], NEW n \in 0 .. MaxEvents
  PROVE  /\ StateFrame(s) \in Frame /\ WellFrame(StateFrame(s)) /\ IsState(StateFrame(s))
         /\ StateFrame(s).kind = "state" /\ StateFrame(s).to = 0 /\ StateFrame(s).v = s.v
         /\ Checkpoint(s, n) \in Frame /\ WellFrame(Checkpoint(s, n))
         /\ IsState(Checkpoint(s, n)) /\ Checkpoint(s, n).kind = "checkpoint"
         /\ Checkpoint(s, n).to = n /\ Checkpoint(s, n).v = s.v
<1>1. s.v \in 0 .. MaxStates /\ s.busy \in BOOLEAN
  OBVIOUS
<1>2. /\ StateFrame(s) \in Frame /\ StateFrame(s).kind = "state" /\ StateFrame(s).to = 0
      /\ StateFrame(s).v = s.v
  BY <1>1, GapFrame DEF StateFrame, Frame
<1>3. /\ Checkpoint(s, n) \in Frame /\ Checkpoint(s, n).kind = "checkpoint"
      /\ Checkpoint(s, n).to = n /\ Checkpoint(s, n).v = s.v
  BY <1>2 DEF Checkpoint, Frame
<1> QED BY <1>2, <1>3 DEF WellFrame, IsState

\* A frame's number is not a part of what it says.
LEMMA Renumbered ==
  ASSUME NEW f \in Frame, NEW n \in Nat
  PROVE  LET g == [f EXCEPT !.seq = n]
         IN  /\ g \in Frame /\ g.seq = n /\ g.kind = f.kind /\ g.from = f.from
             /\ g.to = f.to /\ g.v = f.v /\ g.busy = f.busy
             /\ WellFrame(f) => WellFrame(g)
             /\ IsState(g) <=> IsState(f)
  BY DEF Frame, WellFrame, IsState

\* A snapshot follows the states after it.
LEMMA Followed ==
  ASSUME NEW f \in Frame, snapshot \in Frame
  PROVE  /\ Follow(f) \in Frame /\ Follow(f).seq = snapshot.seq
         /\ Follow(f).kind = snapshot.kind /\ Follow(f).from = snapshot.from
         /\ Follow(f).to = snapshot.to /\ Follow(f).v = f.v
         /\ IsState(snapshot) /\ WellFrame(snapshot) => WellFrame(Follow(f)) /\ IsState(Follow(f))
  BY DEF Follow, Frame, WellFrame, IsState
-----------------------------------------------------------------------------
(***************************************************************************)
(* Queues.                                                                 *)
(***************************************************************************)
LEMMA Places ==
  ASSUME NEW S, NEW q \in Seq(S)
  PROVE  /\ Len(q) \in Nat /\ DOMAIN q = 1 .. Len(q)
         /\ \A i \in DOMAIN q : q[i] \in S /\ i \in Nat /\ i >= 1 /\ i <= Len(q)
  BY LenProperties, ElementOfSeq

LEMMA Appended ==
  ASSUME NEW S, NEW q \in Seq(S), NEW x \in S
  PROVE  LET r == Append(q, x)
         IN  /\ r \in Seq(S) /\ Len(r) = Len(q) + 1 /\ DOMAIN r = 1 .. Len(q) + 1
             /\ DOMAIN r = DOMAIN q \cup {Len(q) + 1} /\ DOMAIN q \subseteq DOMAIN r
             /\ Len(q) + 1 \in DOMAIN r /\ r[Len(q) + 1] = x
             /\ \A i \in DOMAIN q : r[i] = q[i] /\ i < Len(q) + 1
             /\ Len(q) + 1 \in Nat
  BY AppendProperties, LenProperties

LEMMA Cut ==
  ASSUME NEW S, NEW q \in Seq(S), q # <<>>
  PROVE  LET r == Tail(q)
         IN  /\ r \in Seq(S) /\ DOMAIN r = 1 .. Len(q) - 1 /\ Len(q) \in Nat /\ Len(q) >= 1
             /\ 1 \in DOMAIN q /\ Head(q) = q[1] /\ Head(q) \in S
             /\ \A i \in DOMAIN r : /\ i \in Nat /\ i >= 1 /\ i + 1 \in DOMAIN q
                                    /\ r[i] = q[i + 1] /\ 1 < i + 1
             /\ \A i \in DOMAIN q : i # 1 => /\ i \in Nat /\ i - 1 \in DOMAIN r
                                            /\ r[i - 1] = q[i] /\ (i - 1) + 1 = i
<1>1. Len(q) \in Nat /\ DOMAIN q = 1 .. Len(q) /\ Len(q) # 0
  BY EmptySeq, LenProperties
<1>2. /\ Head(q) \in S /\ Tail(q) \in Seq(S) /\ Len(Tail(q)) = Len(q) - 1
      /\ \A i \in 1 .. Len(Tail(q)) : Tail(q)[i] = q[i + 1]
  BY HeadTailProperties
<1>3. DOMAIN Tail(q) = 1 .. Len(q) - 1
  BY <1>2, LenProperties
<1>4. Head(q) = q[1]
  BY DEF Head
<1>5. /\ 1 \in DOMAIN q /\ Len(q) >= 1
      /\ \A i \in DOMAIN Tail(q) : i \in Nat /\ i >= 1 /\ i + 1 \in DOMAIN q /\ 1 < i + 1
      /\ \A i \in DOMAIN q : i # 1 => i \in Nat /\ i - 1 \in DOMAIN Tail(q) /\ (i - 1) + 1 = i
  BY <1>1, <1>3
<1>6. \A i \in DOMAIN Tail(q) : Tail(q)[i] = q[i + 1]
  BY <1>2, <1>3
<1>7. \A i \in DOMAIN q : i # 1 => Tail(q)[i - 1] = q[i]
  BY <1>5, <1>6
<1> QED BY <1>1, <1>2, <1>3, <1>4, <1>5, <1>6, <1>7

\* A line more.
LEMMA FineAppendN ==
  ASSUME NEW q \in Seq(Frame), NEW f \in Frame, NEW n \in Nat, NEW m \in Nat, n <= m,
         FineN(q, n), WellFrame(f), f.to <= m,
         \A i \in DOMAIN q : NAfter(q[i].to, f)
  PROVE  FineN(Append(q, f), m)
<1> DEFINE r == Append(q, f)
<1>1. /\ DOMAIN r = DOMAIN q \cup {Len(q) + 1} /\ r[Len(q) + 1] = f
      /\ \A i \in DOMAIN q : r[i] = q[i] /\ i < Len(q) + 1 /\ i \in Nat
      /\ Len(q) + 1 \in Nat
  BY Appended, Places
<1> HIDE DEF r
<1>2. \A i \in DOMAIN q : WellFrame(q[i]) /\ q[i].to <= n /\ q[i].to \in Nat
  BY Places, Fields DEF FineN
<1>3. \A i \in DOMAIN r : WellFrame(r[i]) /\ r[i].to <= m
  BY <1>1, <1>2
<1>4. ASSUME NEW i \in DOMAIN r, NEW j \in DOMAIN r, i < j
      PROVE  NAfter(r[i].to, r[j])
  <2>1. CASE j \in DOMAIN q
    BY <1>1, <1>4, <2>1 DEF FineN
  <2>2. CASE j = Len(q) + 1
    BY <1>1, <1>4, <2>2
  <2> QED BY <1>1, <2>1, <2>2
<1> QED BY <1>3, <1>4 DEF FineN, r

LEMMA FineAppendV ==
  ASSUME NEW q \in Seq(Frame), NEW f \in Frame, NEW n \in Nat, NEW m \in Nat, n <= m,
         FineV(q, n), f.v <= m,
         \A i \in DOMAIN q : VAfter(q[i].v, f)
  PROVE  FineV(Append(q, f), m)
<1> DEFINE r == Append(q, f)
<1>1. /\ DOMAIN r = DOMAIN q \cup {Len(q) + 1} /\ r[Len(q) + 1] = f
      /\ \A i \in DOMAIN q : r[i] = q[i] /\ i < Len(q) + 1 /\ i \in Nat
      /\ Len(q) + 1 \in Nat
  BY Appended, Places
<1> HIDE DEF r
<1>2. \A i \in DOMAIN q : q[i].v <= n /\ q[i].v \in Nat
  BY Places, Fields DEF FineV
<1>3. \A i \in DOMAIN r : r[i].v <= m
  BY <1>1, <1>2
<1>4. ASSUME NEW i \in DOMAIN r, NEW j \in DOMAIN r, i < j
      PROVE  VAfter(r[i].v, r[j])
  <2>1. CASE j \in DOMAIN q
    BY <1>1, <1>4, <2>1 DEF FineV
  <2>2. CASE j = Len(q) + 1
    BY <1>1, <1>4, <2>2
  <2> QED BY <1>1, <2>1, <2>2
<1> QED BY <1>3, <1>4 DEF FineV, r

\* Its head taken.
LEMMA FineTail ==
  ASSUME NEW q \in Seq(Frame), q # <<>>, NEW n \in Nat
  PROVE  /\ FineN(q, n) => /\ FineN(Tail(q), n) /\ AboveN(Head(q).to, Tail(q))
                           /\ WellFrame(Head(q)) /\ Head(q).to <= n
         /\ FineV(q, n) => /\ FineV(Tail(q), n) /\ AboveV(Head(q).v, Tail(q))
                           /\ Head(q).v <= n
<1>1. /\ 1 \in DOMAIN q /\ Head(q) = q[1]
      /\ \A i \in DOMAIN Tail(q) : /\ i \in Nat /\ i + 1 \in DOMAIN q
                                   /\ Tail(q)[i] = q[i + 1] /\ 1 < i + 1
  BY Cut
<1>2. ASSUME FineN(q, n)
      PROVE  /\ FineN(Tail(q), n) /\ AboveN(Head(q).to, Tail(q))
             /\ WellFrame(Head(q)) /\ Head(q).to <= n
  <2>1. \A i, j \in DOMAIN Tail(q) : i < j => i + 1 < j + 1
    BY <1>1
  <2>2. FineN(Tail(q), n)
    BY <1>1, <1>2, <2>1 DEF FineN
  <2> QED BY <1>1, <1>2, <2>2 DEF FineN, AboveN
<1>3. ASSUME FineV(q, n)
      PROVE  /\ FineV(Tail(q), n) /\ AboveV(Head(q).v, Tail(q))
             /\ Head(q).v <= n
  <2>1. \A i, j \in DOMAIN Tail(q) : i < j => i + 1 < j + 1
    BY <1>1
  <2>2. FineV(Tail(q), n)
    BY <1>1, <1>3, <2>1 DEF FineV
  <2> QED BY <1>1, <1>3, <2>2 DEF FineV, AboveV
<1> QED BY <1>2, <1>3
-----------------------------------------------------------------------------
(***************************************************************************)
(* What a queue tells.                                                     *)
(***************************************************************************)
LEMMA GoodAppend ==
  ASSUME NEW q \in Seq(Frame), NEW f \in Frame, NEW at \in SUBSET (DOMAIN q), NEW e \in Nat
  PROVE  LET r == Append(q, f)
             places == at \cup {Len(q) + 1}
         IN  /\ Good(q, at, e) /\ (Tells(q, at, e) \/ ~Skips(f, e)) => Good(r, places, e)
             /\ Tells(q, at, e) => Tells(r, places, e)
             /\ Covers(f, e) => Tells(r, places, e)
<1> DEFINE r == Append(q, f)
           places == at \cup {Len(q) + 1}
<1>1. /\ r[Len(q) + 1] = f /\ \A i \in at : r[i] = q[i] /\ i < Len(q) + 1
  BY Appended
<1> HIDE DEF r
<1>2. ASSUME Good(q, at, e), Tells(q, at, e) \/ ~Skips(f, e)
      PROVE  Good(r, places, e)
  <2> SUFFICES ASSUME NEW j \in places, Skips(r[j], e)
               PROVE  \E i \in places : i < j /\ Covers(r[i], e)
    BY DEF Good
  <2>1. CASE j \in at
    BY <1>1, <1>2, <2>1 DEF Good
  <2>2. CASE j = Len(q) + 1
    BY <1>1, <1>2, <2>2 DEF Tells
  <2> QED BY <2>1, <2>2
<1>3. Tells(q, at, e) => Tells(r, places, e)
  BY <1>1 DEF Tells
<1>4. Covers(f, e) => Tells(r, places, e)
  BY <1>1 DEF Tells
<1> QED BY <1>2, <1>3, <1>4 DEF r

LEMMA GoodCut ==
  ASSUME NEW q \in Seq(Frame), q # <<>>, NEW at \in SUBSET (DOMAIN q), NEW e \in Nat,
         NEW places \in SUBSET (DOMAIN Tail(q)),
         \A i \in DOMAIN Tail(q) : i \in places <=> i + 1 \in at
  PROVE  /\ Good(q, at, e) /\ ~(1 \in at /\ Covers(Head(q), e)) => Good(Tail(q), places, e)
         /\ Good(q, at, e) /\ 1 \in at => ~Skips(Head(q), e)
         /\ Tells(q, at, e) /\ ~(1 \in at /\ Covers(Head(q), e)) => Tells(Tail(q), places, e)
<1>1. /\ 1 \in DOMAIN q /\ Head(q) = q[1]
      /\ \A i \in DOMAIN Tail(q) : /\ i \in Nat /\ i + 1 \in DOMAIN q
                                   /\ Tail(q)[i] = q[i + 1] /\ 1 < i + 1
      /\ \A i \in DOMAIN q : i # 1 => /\ i \in Nat /\ i - 1 \in DOMAIN Tail(q)
                                      /\ Tail(q)[i - 1] = q[i] /\ (i - 1) + 1 = i
  BY Cut
<1>2. \A i \in DOMAIN q : i \in Nat /\ i >= 1
  BY Places
<1>3. ASSUME Good(q, at, e), ~(1 \in at /\ Covers(Head(q), e))
      PROVE  Good(Tail(q), places, e)
  <2> SUFFICES ASSUME NEW j \in places, Skips(Tail(q)[j], e)
               PROVE  \E i \in places : i < j /\ Covers(Tail(q)[i], e)
    BY DEF Good
  <2>1. j \in Nat /\ j + 1 \in at /\ Skips(q[j + 1], e)
    BY <1>1
  <2>2. PICK i \in at : i < j + 1 /\ Covers(q[i], e)
    BY <1>3, <2>1 DEF Good
  <2>3. i # 1 /\ i \in DOMAIN q /\ i \in Nat
    BY <1>1, <1>2, <1>3, <2>2
  <2>4. i - 1 \in DOMAIN Tail(q) /\ Tail(q)[i - 1] = q[i] /\ (i - 1) + 1 = i
    BY <1>1, <2>3
  <2>5. i - 1 \in places /\ Covers(Tail(q)[i - 1], e)
    BY <2>2, <2>4
  <2>6. i - 1 < j
    BY <2>1, <2>2, <2>3
  <2> QED BY <2>5, <2>6
<1>4. ASSUME Good(q, at, e), 1 \in at
      PROVE  ~Skips(Head(q), e)
  <2> SUFFICES ASSUME Skips(Head(q), e)
               PROVE  FALSE
    OBVIOUS
  <2>1. PICK i \in at : i < 1 /\ Covers(q[i], e)
    BY <1>1, <1>4 DEF Good
  <2> QED BY <1>2, <2>1
<1>5. ASSUME Tells(q, at, e), ~(1 \in at /\ Covers(Head(q), e))
      PROVE  Tells(Tail(q), places, e)
  <2>1. PICK i \in at : Covers(q[i], e)
    BY <1>5 DEF Tells
  <2>2. i # 1 /\ i \in DOMAIN q
    BY <1>1, <1>5, <2>1
  <2>3. i - 1 \in places /\ Covers(Tail(q)[i - 1], e)
    BY <1>1, <2>1, <2>2
  <2> QED BY <2>3 DEF Tells
<1> QED BY <1>3, <1>4, <1>5

\* What ends before e does not go beyond it.
LEMMA GoodBeyond ==
  ASSUME NEW q \in Seq(Frame), NEW n \in Nat, FineN(q, n), NEW e \in Nat, n < e,
         NEW at \in SUBSET (DOMAIN q)
  PROVE  Good(q, at, e)
<1> SUFFICES ASSUME NEW j \in at
             PROVE  ~Skips(q[j], e)
  BY DEF Good
<1>1. q[j].from \in Nat /\ q[j].to \in Nat
  BY Places, Fields
<1> QED BY <1>1 DEF FineN, WellFrame, Skips

-----------------------------------------------------------------------------
(***************************************************************************)
(* Publish: a queue that ends at event n and status v goes on to m and w.  *)
(***************************************************************************)
\* f is the next frame, and takes the queue from n to m.
Continues(n, f, m) ==
    /\ WellFrame(f) /\ n <= m /\ f.to <= m
    /\ f.kind = "event" => f.from = n + 1 /\ f.to = m
    /\ f.kind \notin {"event", "gap"} => m = n
    /\ f.kind = "checkpoint" => f.to = n
GrownN(p, n, q, m) ==
    /\ q \in Seq(Frame) /\ FineN(q, m) /\ FullIn(q, m)
    /\ \A x \in Nat : x <= n /\ AboveN(x, p) => AboveN(x, q)
    /\ \A e \in Nat : e <= n /\ Learns(p, DOMAIN p, e) => Learns(q, DOMAIN q, e)
    /\ \A e \in Nat : n < e /\ e <= m => Learns(q, DOMAIN q, e)

LEMMA AppendGrowsN ==
  ASSUME NEW p \in Seq(Frame), NEW n \in Nat, NEW m \in Nat, NEW f \in Frame,
         FineN(p, n), FullIn(p, n), Continues(n, f, m)
  PROVE  GrownN(p, n, Append(p, f), m)
<1> DEFINE r == Append(p, f)
<1>1. /\ r \in Seq(Frame) /\ DOMAIN r = DOMAIN p \cup {Len(p) + 1} /\ r[Len(p) + 1] = f
      /\ \A i \in DOMAIN p : r[i] = p[i] /\ i < Len(p) + 1 /\ i \in Nat
      /\ Len(p) + 1 \in Nat
  BY Appended, Places
<1>2. f.from \in Nat /\ f.to \in Nat
  BY Fields
<1>3. WellFrame(f) /\ n <= m /\ f.to <= m /\ NAfter(n, f)
  BY <1>2 DEF Continues, NAfter
<1>4. \A i \in DOMAIN p : p[i].to \in Nat /\ p[i].to <= n
  BY Places, Fields DEF FineN
<1>5. \A x \in Nat : x <= n => NAfter(x, f)
  BY <1>2, <1>3 DEF NAfter
<1>6. FineN(r, m)
  BY <1>3, <1>4, <1>5, FineAppendN
<1>7. \A x \in Nat : x <= n /\ AboveN(x, p) => AboveN(x, r)
  BY <1>1, <1>5 DEF AboveN
<1>8. ASSUME NEW e \in Nat, n < e, e <= m
      PROVE  ~Skips(f, e) /\ Covers(f, e)
  BY <1>2, <1>8 DEF Continues, Skips, Covers
<1>9. ASSUME NEW at \in SUBSET (DOMAIN p), NEW e \in Nat, e <= m,
             e <= n => Learns(p, at, e)
      PROVE  Learns(r, at \cup {Len(p) + 1}, e)
  <2>1. CASE e <= n
    BY <1>9, <2>1, GoodAppend DEF Learns
  <2>2. CASE n < e
    BY <1>8, <1>9, <2>2, GoodAppend, GoodBeyond DEF Learns
  <2> QED BY <2>1, <2>2
<1> HIDE DEF r
<1>10. ASSUME NEW e \in Nat, e <= m, e <= n => Learns(p, DOMAIN p, e)
       PROVE  Learns(r, DOMAIN r, e)
  BY <1>1, <1>9, <1>10
<1>11. FullIn(r, m)
  <2> SUFFICES ASSUME NEW k \in Checks(r), NEW e \in r[k].to + 1 .. m
               PROVE  Learns(r, Behind(r, k), e)
    BY DEF FullIn
  <2>1. CASE k \in DOMAIN p
    <3>1. k \in Checks(p) /\ r[k].to = p[k].to /\ p[k].to \in Nat
      BY <1>1, <1>4, <2>1 DEF Checks
    <3>2. Behind(r, k) = Behind(p, k) \cup {Len(p) + 1}
      BY <1>1, <2>1 DEF Behind
    <3>3. e \in Nat /\ e <= m /\ (e <= n => Learns(p, Behind(p, k), e))
      BY <3>1 DEF FullIn
    <3>4. Behind(p, k) \in SUBSET (DOMAIN p)
      BY DEF Behind
    <3> QED BY <1>9, <3>2, <3>3, <3>4
  <2>2. CASE k = Len(p) + 1
    <3>1. f.kind = "checkpoint"
      BY <1>1, <2>2 DEF Checks
    <3>2. f.to = m
      BY <1>2, <3>1 DEF Continues
    <3> QED BY <1>1, <2>2, <3>2
  <2> QED BY <1>1, <2>1, <2>2 DEF Checks
<1>12. \A e \in Nat : e <= n /\ Learns(p, DOMAIN p, e) => Learns(r, DOMAIN r, e)
  BY <1>3, <1>10
<1>13. \A e \in Nat : n < e /\ e <= m => Learns(r, DOMAIN r, e)
  BY <1>10
<1> QED BY <1>1, <1>6, <1>7, <1>11, <1>12, <1>13 DEF GrownN, r

\* The two frames a full queue is left with.
LEMMA Pair ==
  ASSUME NEW f \in Frame
  PROVE  LET q == <<Gap, f>>
         IN  /\ q \in Seq(Frame) /\ DOMAIN q = {1, 2} /\ q[1] = Gap /\ q[2] = f
  BY GapFrame

LEMMA GapGrowsN ==
  ASSUME NEW p \in Seq(Frame), NEW n \in Nat, NEW m \in Nat, NEW f \in Frame,
         Continues(n, f, m)
  PROVE  GrownN(p, n, <<Gap, f>>, m)
<1> DEFINE q == <<Gap, f>>
<1>1. q \in Seq(Frame) /\ DOMAIN q = {1, 2} /\ q[1] = Gap /\ q[2] = f
  BY Pair
<1>2. f.from \in Nat /\ f.to \in Nat
  BY Fields
<1>3. WellFrame(f) /\ n <= m /\ f.to <= m
  BY DEF Continues
<1>4. \A x \in Nat : x <= n => NAfter(x, f)
  BY <1>2 DEF Continues, NAfter
<1> HIDE DEF q
<1>5. FineN(q, m)
  <2>1. WellFrame(Gap) /\ Gap.to = 0 /\ NAfter(0, f)
    BY <1>4, GapFrame
  <2>2. \A i \in DOMAIN q : WellFrame(q[i]) /\ q[i].to <= m
    BY <1>1, <1>3, <2>1
  <2>3. \A i, j \in DOMAIN q : i < j => NAfter(q[i].to, q[j])
    BY <1>1, <2>1
  <2> QED BY <2>2, <2>3 DEF FineN
<1>6. \A x \in Nat : x <= n => AboveN(x, q)
  BY <1>1, <1>4, GapFrame DEF AboveN, NAfter
<1>7. ASSUME NEW e \in Nat
      PROVE  Learns(q, DOMAIN q, e)
  <2>1. Covers(q[1], e) /\ ~Skips(q[1], e)
    BY <1>1, GapFrame DEF Covers, Skips
  <2>2. Good(q, DOMAIN q, e)
    BY <1>1, <2>1 DEF Good
  <2>3. Tells(q, DOMAIN q, e)
    BY <1>1, <2>1 DEF Tells
  <2> QED BY <2>2, <2>3 DEF Learns
<1>8. FullIn(q, m)
  <2> SUFFICES ASSUME NEW k \in Checks(q), NEW e \in q[k].to + 1 .. m
               PROVE  FALSE
    BY DEF FullIn
  <2>1. k = 2 /\ f.kind = "checkpoint"
    BY <1>1, GapFrame DEF Checks
  <2>2. f.to = m
    BY <1>2, <2>1 DEF Continues
  <2> QED BY <1>1, <2>1, <2>2
<1> QED BY <1>1, <1>5, <1>6, <1>7, <1>8 DEF GrownN, q

LEMMA PublishGrowsN ==
  ASSUME NEW p \in Seq(Frame), NEW n \in Nat, NEW m \in Nat, NEW f \in Frame,
         FineN(p, n), FullIn(p, n), Continues(n, f, m)
  PROVE  GrownN(p, n, Publish(p, f), m)
<1>1. GrownN(p, n, Append(p, f), m) /\ GrownN(p, n, <<Gap, f>>, m)
  BY AppendGrowsN, GapGrowsN
<1> QED BY <1>1 DEF Publish

LEMMA GrowsSelfN ==
  ASSUME NEW p \in Seq(Frame), NEW n \in Nat, FineN(p, n), FullIn(p, n)
  PROVE  GrownN(p, n, p, n)
  BY DEF GrownN

LEMMA GrowsOnN ==
  ASSUME NEW p, NEW q, NEW r, NEW n \in Nat, NEW m \in Nat, NEW l \in Nat,
         n <= m, m <= l, GrownN(p, n, q, m), GrownN(q, m, r, l)
  PROVE  GrownN(p, n, r, l)
<1>1. r \in Seq(Frame) /\ FineN(r, l) /\ FullIn(r, l)
  BY DEF GrownN
<1>2. \A x \in Nat : x <= n /\ AboveN(x, p) => AboveN(x, r)
  BY DEF GrownN
<1>3. \A e \in Nat : e <= n /\ Learns(p, DOMAIN p, e) => Learns(r, DOMAIN r, e)
  BY DEF GrownN
<1>4. \A e \in Nat : n < e /\ e <= l => Learns(r, DOMAIN r, e)
  BY DEF GrownN
<1> QED BY <1>1, <1>2, <1>3, <1>4 DEF GrownN

\* The statuses, and whether the queue says the current one.
GrownV(p, v, q, w) ==
    /\ FineV(q, w)
    /\ \A x \in Nat : x <= v /\ AboveV(x, p) => AboveV(x, q)
\* It says as much of status v as before, or the status w.
Keeps(p, q, v) ==
    /\ SaysBehind(p, 0, v) => SaysBehind(q, 0, v)
    /\ \A j \in DOMAIN q : IsState(q[j]) =>
          \E i \in DOMAIN p : /\ p[i] = q[j]
                              /\ SaysBehind(p, i, v) => SaysBehind(q, j, v)
Tops(q, w) ==
    /\ SaysBehind(q, 0, w)
    /\ \A j \in DOMAIN q : Stale(q[j], w) => SaysBehind(q, j, w)

LEMMA PublishGrowsV ==
  ASSUME NEW p \in Seq(Frame), NEW v \in Nat, NEW w \in Nat, NEW f \in Frame,
         FineV(p, v), v <= w, f.v <= w, IsState(f) => f.v = w
  PROVE  GrownV(p, v, Publish(p, f), w)
<1>1. f.v \in Nat /\ \A x \in Nat : x <= v => VAfter(x, f)
  BY Fields DEF VAfter
<1>2. \A i \in DOMAIN p : p[i].v \in Nat /\ p[i].v <= v
  BY Places, Fields DEF FineV
<1>3. GrownV(p, v, Append(p, f), w)
  <2>1. FineV(Append(p, f), w)
    BY <1>1, <1>2, FineAppendV
  <2>2. \A x \in Nat : x <= v /\ AboveV(x, p) => AboveV(x, Append(p, f))
    <3>1. /\ DOMAIN Append(p, f) = DOMAIN p \cup {Len(p) + 1}
          /\ Append(p, f)[Len(p) + 1] = f /\ \A i \in DOMAIN p : Append(p, f)[i] = p[i]
      BY Appended
    <3> QED BY <1>1, <3>1 DEF AboveV
  <2> QED BY <2>1, <2>2 DEF GrownV
<1>4. GrownV(p, v, <<Gap, f>>, w)
  <2> DEFINE q == <<Gap, f>>
  <2>1. q \in Seq(Frame) /\ DOMAIN q = {1, 2} /\ q[1] = Gap /\ q[2] = f
    BY Pair
  <2> HIDE DEF q
  <2>2. Gap.v = 0 /\ ~IsState(Gap) /\ VAfter(0, f)
    BY <1>1, GapFrame DEF VAfter
  <2>3. FineV(q, w)
    <3>1. \A i \in DOMAIN q : q[i].v <= w
      BY <2>1, <2>2
    <3>2. \A i, j \in DOMAIN q : i < j => VAfter(q[i].v, q[j])
      BY <2>1, <2>2
    <3> QED BY <3>1, <3>2 DEF FineV
  <2>4. \A x \in Nat : x <= v => AboveV(x, q)
    BY <1>1, <2>1, <2>2 DEF AboveV, VAfter
  <2> QED BY <2>3, <2>4 DEF GrownV, q
<1> QED BY <1>3, <1>4 DEF Publish

\* A frame that is no state leaves what the queue says.
LEMMA PublishKeeps ==
  ASSUME NEW p \in Seq(Frame), NEW v \in Nat, NEW f \in Frame, ~IsState(f)
  PROVE  Keeps(p, Publish(p, f), v)
<1>1. Keeps(p, Append(p, f), v)
  <2> DEFINE q == Append(p, f)
  <2>1. /\ DOMAIN q = DOMAIN p \cup {Len(p) + 1} /\ q[Len(p) + 1] = f
        /\ \A i \in DOMAIN p : q[i] = p[i]
    BY Appended
  <2> HIDE DEF q
  <2>2. \A i : SaysBehind(p, i, v) => SaysBehind(q, i, v)
    BY <2>1 DEF SaysBehind
  <2>3. \A j \in DOMAIN q : IsState(q[j]) => j \in DOMAIN p /\ p[j] = q[j]
    BY <2>1
  <2> QED BY <2>2, <2>3 DEF Keeps, q
<1>2. Keeps(p, <<Gap, f>>, v)
  <2> DEFINE q == <<Gap, f>>
  <2>1. DOMAIN q = {1, 2} /\ q[1] = Gap /\ q[2] = f
    BY Pair
  <2> HIDE DEF q
  <2>2. SaysBehind(q, 0, v)
    BY <2>1, GapFrame DEF SaysBehind, Says
  <2>3. \A j \in DOMAIN q : ~IsState(q[j])
    BY <2>1, GapFrame
  <2> QED BY <2>2, <2>3 DEF Keeps, q
<1> QED BY <1>1, <1>2 DEF Publish

\* A state that is published is the last word.
LEMMA PublishTops ==
  ASSUME NEW p \in Seq(Frame), NEW f \in Frame, IsState(f)
  PROVE  Tops(Publish(p, f), f.v)
<1>1. Says(f, f.v) /\ ~Stale(f, f.v)
  BY DEF Says, Stale
<1>2. Tops(Append(p, f), f.v)
  <2> DEFINE q == Append(p, f)
  <2>1. /\ DOMAIN q = DOMAIN p \cup {Len(p) + 1} /\ q[Len(p) + 1] = f
        /\ \A i \in DOMAIN p : i < Len(p) + 1
        /\ Len(p) \in Nat
    BY Appended, Places
  <2> HIDE DEF q
  <2> QED BY <1>1, <2>1 DEF Tops, SaysBehind, q
<1>3. Tops(<<Gap, f>>, f.v)
  <2> DEFINE q == <<Gap, f>>
  <2>1. DOMAIN q = {1, 2} /\ q[1] = Gap /\ q[2] = f
    BY Pair
  <2> HIDE DEF q
  <2> QED BY <1>1, <2>1, GapFrame DEF Tops, SaysBehind, Stale, q
<1> QED BY <1>2, <1>3 DEF Publish

LEMMA KeepsOn ==
  ASSUME NEW p, NEW q, NEW r, NEW v, Keeps(p, q, v), Keeps(q, r, v)
  PROVE  Keeps(p, r, v)
<1>1. ASSUME NEW k \in DOMAIN r, IsState(r[k])
      PROVE  \E i \in DOMAIN p : p[i] = r[k] /\ (SaysBehind(p, i, v) => SaysBehind(r, k, v))
  <2>1. PICK j \in DOMAIN q : q[j] = r[k] /\ (SaysBehind(q, j, v) => SaysBehind(r, k, v))
    BY <1>1 DEF Keeps
  <2>2. IsState(q[j])
    BY <1>1, <2>1
  <2>3. PICK i \in DOMAIN p : p[i] = q[j] /\ (SaysBehind(p, i, v) => SaysBehind(q, j, v))
    BY <2>2 DEF Keeps
  <2> QED BY <2>1, <2>3
<1> QED BY <1>1 DEF Keeps

\* Its size.
LEMMA SizedAppend ==
  ASSUME NEW p \in Seq(Frame), NEW f \in Frame
  PROVE  /\ Sized(p) \in Nat /\ Sized(<<f>>) \in Nat
         /\ Sized(Append(p, f)) = Sized(p) + Sized(<<f>>)
<1> DEFINE r == Append(p, f)
           one == <<f>>
           A == {i \in DOMAIN p : p[i].kind # "gap"}
           B == {i \in DOMAIN r : r[i].kind # "gap"}
           C == {i \in DOMAIN one : one[i].kind # "gap"}
<1>1. /\ DOMAIN r = DOMAIN p \cup {Len(p) + 1} /\ r[Len(p) + 1] = f
      /\ \A i \in DOMAIN p : r[i] = p[i] /\ i < Len(p) + 1 /\ i \in Nat
      /\ Len(p) + 1 \in Nat /\ DOMAIN p = 1 .. Len(p) /\ Len(p) \in Nat
  BY Appended, Places
<1>2. DOMAIN one = {1} /\ one[1] = f
  OBVIOUS
<1>3. Sized(p) = Cardinality(A) /\ Sized(r) = Cardinality(B) /\ Sized(one) = Cardinality(C)
  BY DEF Sized
<1> HIDE DEF r, one
<1>4. IsFiniteSet(A) /\ Cardinality(A) \in Nat
  <2>1. IsFiniteSet(1 .. Len(p))
    BY <1>1, FS_Interval
  <2>2. IsFiniteSet(A)
    BY <1>1, <2>1, FS_Subset
  <2> QED BY <2>2, FS_CardinalityType
<1>5. Cardinality({}) = 0 /\ Cardinality({1}) = 1
  BY FS_EmptySet, FS_Singleton
<1>6. ASSUME f.kind = "gap"
      PROVE  Sized(one) \in Nat /\ Sized(r) = Sized(p) + Sized(one)
  <2>1. B = A /\ C = {}
    BY <1>1, <1>2, <1>6
  <2> HIDE DEF A, B, C
  <2> QED BY <1>3, <1>4, <1>5, <2>1
<1>7. ASSUME f.kind # "gap"
      PROVE  Sized(one) \in Nat /\ Sized(r) = Sized(p) + Sized(one)
  <2>1. B = A \cup {Len(p) + 1} /\ C = {1} /\ Len(p) + 1 \notin A
    BY <1>1, <1>2, <1>7
  <2>2. Cardinality(A \cup {Len(p) + 1}) = Cardinality(A) + 1
    BY <1>4, <2>1, FS_AddElement
  <2> HIDE DEF A, B, C
  <2> QED BY <1>3, <1>4, <1>5, <2>1, <2>2
<1>8. Sized(p) \in Nat /\ Sized(one) \in Nat /\ Sized(r) = Sized(p) + Sized(one)
  BY <1>3, <1>4, <1>6, <1>7
<1> QED BY <1>8 DEF r, one

\* A queue's bound.
LEMMA PublishFits ==
  ASSUME NEW p \in Seq(Frame), NEW f \in Frame, Sized(p) <= Limit
  PROVE  Publish(p, f) \in Seq(Frame) /\ Sized(Publish(p, f)) <= Limit
<1>1. /\ Append(p, f) \in Seq(Frame) /\ <<Gap, f>> \in Seq(Frame)
  BY Appended, Pair
<1>2. Sized(<<Gap, f>>) <= Limit
  <2> DEFINE q == <<Gap, f>>
  <2>1. DOMAIN q = {1, 2} /\ q[1] = Gap /\ q[2] = f
    BY Pair
  <2>2. Sized(q) = Cardinality({i \in DOMAIN q : q[i].kind # "gap"})
    BY DEF Sized
  <2> HIDE DEF q
  <2>3. {i \in DOMAIN q : q[i].kind # "gap"} = IF f.kind = "gap" THEN {} ELSE {2}
    BY <2>1, GapFrame
  <2>4. Cardinality({}) = 0 /\ Cardinality({2}) = 1
    BY FS_EmptySet, FS_Singleton
  <2>5. Sized(q) \in {0, 1}
    BY <2>2, <2>3, <2>4
  <2> QED BY <2>5, Bounds DEF q
<1>3. Sized(p) + Sized(<<f>>) <= Limit => Sized(Append(p, f)) <= Limit
  BY SizedAppend
<1>4. CASE Sized(p) + Sized(<<f>>) > Limit
  BY <1>1, <1>2, <1>4 DEF Publish
<1>5. CASE ~(Sized(p) + Sized(<<f>>) > Limit)
  <2>1. Sized(p) + Sized(<<f>>) <= Limit
    BY <1>5, SizedAppend, Bounds
  <2> QED BY <1>1, <1>3, <1>5, <2>1 DEF Publish
<1> QED BY <1>4, <1>5
-----------------------------------------------------------------------------
(***************************************************************************)
(* The application and the batcher.                                        *)
(***************************************************************************)
\* The queue goes on from event n to m, and says of the status what it said.
Extends(p, n, q, m, v) ==
    /\ GrownN(p, n, q, m) /\ GrownV(p, v, q, v) /\ Keeps(p, q, v)
    /\ q \in Seq(Frame) /\ Sized(q) <= Limit

LEMMA ExtendsSelf ==
  ASSUME NEW p \in Seq(Frame), NEW n \in Nat, NEW v \in Nat,
         FineN(p, n), FullIn(p, n), FineV(p, v), Sized(p) <= Limit
  PROVE  Extends(p, n, p, n, v)
<1>1. GrownN(p, n, p, n)
  BY GrowsSelfN
<1>2. GrownV(p, v, p, v) /\ Keeps(p, p, v)
  BY DEF GrownV, Keeps
<1> QED BY <1>1, <1>2 DEF Extends

LEMMA ExtendsOn ==
  ASSUME NEW p, NEW q, NEW r, NEW n \in Nat, NEW m \in Nat, NEW l \in Nat, NEW v \in Nat,
         n <= m, m <= l, Extends(p, n, q, m, v), Extends(q, m, r, l, v)
  PROVE  Extends(p, n, r, l, v)
<1>1. GrownN(p, n, r, l)
  BY GrowsOnN DEF Extends
<1>2. GrownV(p, v, r, v)
  BY DEF Extends, GrownV
<1>3. Keeps(p, r, v)
  BY KeepsOn DEF Extends
<1> QED BY <1>1, <1>2, <1>3 DEF Extends

\* The events n + 1 .. m are published.
LEMMA EventExtends ==
  ASSUME NEW p \in Seq(Frame), NEW n \in Nat, NEW m \in 1 .. MaxEvents, NEW v \in Nat, n < m,
         FineN(p, n), FullIn(p, n), FineV(p, v), Sized(p) <= Limit
  PROVE  Extends(p, n, Publish(p, EventFrame(n + 1, m)), m, v)
<1> DEFINE f == EventFrame(n + 1, m)
<1>1. n + 1 \in 1 .. MaxEvents /\ n + 1 <= m /\ m \in Nat /\ n <= m
  BY Bounds
<1>2. /\ f \in Frame /\ WellFrame(f) /\ ~IsState(f) /\ f.v = 0
      /\ f.kind = "gap" \/ (f.kind = "event" /\ f.from = n + 1 /\ f.to = m)
      /\ f.to <= m
  BY <1>1, EventFrames
<1> HIDE DEF f
<1>3. Continues(n, f, m)
  <2>1. CASE f.kind = "gap"
    BY <1>1, <1>2, <2>1 DEF Continues
  <2>2. CASE f.kind = "event" /\ f.from = n + 1 /\ f.to = m
    BY <1>1, <1>2, <2>2 DEF Continues
  <2> QED BY <1>2, <2>1, <2>2
<1>4. GrownN(p, n, Publish(p, f), m)
  BY <1>1, <1>2, <1>3, PublishGrowsN
<1>5. GrownV(p, v, Publish(p, f), v)
  <2>1. v <= v /\ f.v <= v
    BY <1>2
  <2> QED BY <1>2, <2>1, PublishGrowsV
<1>6. Keeps(p, Publish(p, f), v) /\ Publish(p, f) \in Seq(Frame) /\ Sized(Publish(p, f)) <= Limit
  BY <1>2, PublishKeeps, PublishFits
<1> QED BY <1>4, <1>5, <1>6 DEF Extends, f

LEMMA ExtendsFine ==
  ASSUME NEW p, NEW q, NEW n, NEW m, NEW v, Extends(p, n, q, m, v)
  PROVE  /\ q \in Seq(Frame) /\ FineN(q, m) /\ FullIn(q, m) /\ FineV(q, v) /\ Sized(q) <= Limit
  BY DEF Extends, GrownN, GrownV

\* What can be said of the producer's state.
Pushable ==
    /\ TypeOK /\ Pushing
    /\ FineN(pending, Sent) /\ FullPending /\ FineV(pending, status.v)

LEMMA PushFields ==
  ASSUME TypeOK, Pushing
  PROVE  /\ pushed \in Nat /\ pushed <= MaxEvents /\ Sent \in Nat /\ Sent <= pushed
         /\ held = NotHeld => Sent = pushed
         /\ held # NotHeld => /\ Sent = held.from - 1 /\ held.from = Sent + 1
                              /\ held.from \in Nat /\ Sent < pushed
         /\ status.v \in Nat /\ status.v <= MaxStates
<1>1. /\ pushed \in Nat /\ pushed <= MaxEvents /\ held.from \in Nat
      /\ status.v \in Nat /\ status.v <= MaxStates
  BY Bounds DEF TypeOK
<1> QED BY <1>1 DEF Sent, Pushing

LEMMA FlushedExtends ==
  ASSUME Pushable
  PROVE  Extends(pending, Sent, Flushed(pending), pushed, status.v)
<1>1. /\ pushed \in Nat /\ pushed <= MaxEvents /\ Sent \in Nat /\ status.v \in Nat
      /\ pending \in Seq(Frame) /\ Sized(pending) <= Limit
      /\ FineN(pending, Sent) /\ FullIn(pending, Sent) /\ FineV(pending, status.v)
  BY PushFields DEF Pushable, TypeOK, FullPending
<1>2. CASE held = NotHeld
  <2>1. Sent = pushed /\ Flushed(pending) = pending
    BY <1>2, PushFields DEF Pushable, Flushed
  <2> QED BY <1>1, <2>1, ExtendsSelf
<1>3. CASE held # NotHeld
  <2>1. /\ held.from = Sent + 1 /\ Sent < pushed
        /\ Flushed(pending) = Publish(pending, EventFrame(held.from, pushed))
    BY <1>3, PushFields DEF Pushable, Flushed
  <2>2. pushed \in 1 .. MaxEvents
    BY <1>1, <2>1
  <2> QED BY <1>1, <2>1, <2>2, EventExtends
<1> QED BY <1>2, <1>3

LEMMA FlushedEventExtends ==
  ASSUME Pushable, pushed < MaxEvents
  PROVE  Extends(pending, Sent, Publish(Flushed(pending), EventFrame(pushed + 1, pushed + 1)),
                 pushed + 1, status.v)
<1> DEFINE q == Flushed(pending)
<1>1. /\ pushed \in Nat /\ Sent \in Nat /\ Sent <= pushed /\ status.v \in Nat
      /\ pushed + 1 \in 1 .. MaxEvents /\ pushed + 1 \in Nat /\ pushed < pushed + 1
      /\ pushed <= pushed + 1
  BY PushFields, Bounds DEF Pushable
<1>2. Extends(pending, Sent, q, pushed, status.v)
  BY FlushedExtends
<1> HIDE DEF q
<1>3. /\ q \in Seq(Frame) /\ FineN(q, pushed) /\ FullIn(q, pushed) /\ FineV(q, status.v)
      /\ Sized(q) <= Limit
  BY <1>2, ExtendsFine
<1>4. Extends(q, pushed, Publish(q, EventFrame(pushed + 1, pushed + 1)), pushed + 1, status.v)
  BY <1>1, <1>3, EventExtends
<1>5. Extends(pending, Sent, Publish(q, EventFrame(pushed + 1, pushed + 1)), pushed + 1, status.v)
  BY <1>1, <1>2, <1>4, ExtendsOn
<1> QED BY <1>5 DEF q

\* pending goes on, with whatever is sent and said.
Grows ==
    /\ Sent' \in Nat /\ Sent <= Sent' /\ status'.v \in Nat /\ status.v <= status'.v
    /\ pending' \in Seq(Frame) /\ Sized(pending') <= Limit
    /\ GrownN(pending, Sent, pending', Sent')
    /\ GrownV(pending, status.v, pending', status'.v)
    /\ \/ status'.v = status.v /\ asks' = asks /\ Keeps(pending, pending', status.v)
       \/ Tops(pending', status'.v)

LEMMA EventsGrow ==
  ASSUME Pushable, NEW m \in Nat, Sent <= m, Sent' = m, status' = status, asks' = asks,
         Extends(pending, Sent, pending', m, status.v)
  PROVE  Grows
<1>1. status.v \in Nat /\ status'.v = status.v /\ status.v <= status'.v
  BY PushFields DEF Pushable
<1>2. /\ pending' \in Seq(Frame) /\ Sized(pending') <= Limit
      /\ GrownN(pending, Sent, pending', m) /\ GrownV(pending, status.v, pending', status.v)
      /\ Keeps(pending, pending', status.v)
  BY DEF Extends
<1> QED BY <1>1, <1>2 DEF Grows

\* A status goes out, by itself or with the conversation.
LEMMA StatusGrows ==
  ASSUME Pushable, NEW f \in Frame, WellFrame(f), IsState(f),
         f.kind = "state" \/ (f.kind = "checkpoint" /\ f.to = Sent),
         f.v = status'.v, status.v <= status'.v, Sent' = Sent,
         pending' = Publish(pending, f)
  PROVE  Grows
<1>1. /\ pending \in Seq(Frame) /\ Sized(pending) <= Limit /\ status.v \in Nat /\ Sent \in Nat
      /\ FineN(pending, Sent) /\ FullIn(pending, Sent) /\ FineV(pending, status.v)
  BY PushFields DEF Pushable, TypeOK, FullPending
<1>2. f.v \in Nat /\ f.to \in Nat /\ status'.v \in Nat
  BY Fields
<1>3. Continues(Sent, f, Sent)
  <2>1. f.kind # "event" /\ f.kind # "gap" /\ f.to <= Sent
    BY <1>1, <1>2 DEF WellFrame
  <2> QED BY <1>1, <2>1 DEF Continues
<1>4. GrownN(pending, Sent, pending', Sent)
  BY <1>1, <1>3, PublishGrowsN
<1>5. GrownV(pending, status.v, pending', status'.v)
  <2>1. f.v <= status'.v
    BY <1>2
  <2> QED BY <1>1, <1>2, <2>1, PublishGrowsV
<1>6. Tops(pending', status'.v)
  <2>1. Tops(Publish(pending, f), f.v)
    BY <1>1, PublishTops
  <2> QED BY <2>1
<1>7. pending' \in Seq(Frame) /\ Sized(pending') <= Limit
  BY <1>1, PublishFits
<1> QED BY <1>1, <1>2, <1>4, <1>5, <1>6, <1>7 DEF Grows

ProducerType ==
    /\ pushed \in 0..MaxEvents
    /\ held \in [key : Key \cup {"none"}, from : 0..MaxEvents]
    /\ sentKeys \subseteq Key /\ boundary \in BOOLEAN
    /\ status \in [v : 0..MaxStates, busy : BOOLEAN]
    /\ asks \in Nat

LEMMA ProducerTyped ==
  ASSUME Pushable, NEW e \in 1 .. MaxEvents, pushed' = e, sentKeys' \subseteq Key,
         held' \in {held, NotHeld} \cup {[key |-> k, from |-> e] : k \in Key},
         boundary' \in BOOLEAN, status' = status, asks' = asks
  PROVE  ProducerType'
<1>1. pushed' \in 0 .. MaxEvents /\ e \in 0 .. MaxEvents /\ 0 \in 0 .. MaxEvents
  BY Bounds
<1>2. held \in [key : Key \cup {"none"}, from : 0 .. MaxEvents] /\ status \in [v : 0..MaxStates, busy : BOOLEAN]
      /\ asks \in Nat
  BY DEF Pushable, TypeOK
<1>3. held' \in [key : Key \cup {"none"}, from : 0 .. MaxEvents]
  BY <1>1, <1>2 DEF NotHeld
<1> QED BY <1>1, <1>2, <1>3 DEF ProducerType

LEMMA PushEventGrows ==
  ASSUME Pushable, NEW e \in 1 .. MaxEvents, NEW resets \in BOOLEAN, PushEvent(e, resets),
         asks' = asks
  PROVE  Grows /\ Pushing' /\ ProducerType'
<1>1. /\ pushed < MaxEvents /\ e = pushed + 1 /\ pushed' = e /\ held' = NotHeld
      /\ pending' = Publish(Flushed(pending), EventFrame(e, e)) /\ boundary' = TRUE
      /\ status' = status /\ sentKeys' \in {sentKeys, {}}
  BY DEF PushEvent
<1>2. Sent' = pushed + 1 /\ pushed + 1 \in Nat /\ Sent <= pushed + 1
  BY <1>1, PushFields DEF Pushable, Sent
<1>3. Extends(pending, Sent, pending', pushed + 1, status.v)
  BY <1>1, FlushedEventExtends
<1>4. Grows
  BY <1>1, <1>2, <1>3, EventsGrow
<1>5. Pushing'
  BY <1>1 DEF Pushing
<1>6. ProducerType'
  BY <1>1, Bounds DEF Pushable, TypeOK, ProducerType, NotHeld
<1> QED BY <1>4, <1>5, <1>6

LEMMA PushDeltaGrows ==
  ASSUME Pushable, NEW e \in 1 .. MaxEvents, NEW key \in Key, NEW reset \in BOOLEAN,
         PushDelta(e, key, reset), asks' = asks
  PROVE  Grows /\ Pushing' /\ ProducerType'
<1>1. /\ pushed < MaxEvents /\ e = pushed + 1 /\ pushed' = e /\ boundary' = FALSE
      /\ status' = status
  BY DEF PushDelta
<1>2. pushed \in Nat /\ pushed + 1 \in Nat /\ Sent \in Nat /\ Sent <= pushed /\ status.v \in Nat
  BY PushFields DEF Pushable
<1>3. CASE reset \/ key \notin sentKeys
  <2>1. /\ pending' = Publish(Flushed(pending), EventFrame(e, e)) /\ held' = NotHeld
        /\ sentKeys' \in {sentKeys, sentKeys \cup {key}}
    BY <1>3 DEF PushDelta
  <2>2. Sent' = pushed + 1 /\ Sent <= pushed + 1
    BY <1>1, <1>2, <2>1 DEF Sent
  <2>3. Extends(pending, Sent, pending', pushed + 1, status.v)
    BY <1>1, <2>1, FlushedEventExtends
  <2>4. Grows
    BY <1>1, <1>2, <2>2, <2>3, EventsGrow
  <2>5. Pushing'
    BY <1>1, <2>1 DEF Pushing
  <2>6. ProducerType'
    <3>1. sentKeys' \subseteq Key
      BY <2>1 DEF Pushable, TypeOK
    <3> QED BY <1>1, <2>1, <3>1, ProducerTyped
  <2> QED BY <2>4, <2>5, <2>6
<1>4. CASE ~(reset \/ key \notin sentKeys) /\ held.key = key
  <2>1. pending' = pending /\ held' = held /\ sentKeys' = sentKeys
    BY <1>4 DEF PushDelta
  <2>2. held # NotHeld
    BY <1>4, Bounds DEF NotHeld
  <2>3. Sent' = Sent
    BY <2>1, <2>2 DEF Sent
  <2>4. Extends(pending, Sent, pending, Sent, status.v)
    BY <1>2, ExtendsSelf DEF Pushable, TypeOK, FullPending
  <2>5. Grows
    BY <1>1, <1>2, <2>1, <2>3, <2>4, EventsGrow
  <2>6. Pushing'
    BY <1>1, <1>2, <2>1, <2>2, PushFields DEF Pushable, Pushing
  <2>7. ProducerType'
    <3>1. sentKeys' \subseteq Key
      BY <2>1 DEF Pushable, TypeOK
    <3> QED BY <1>1, <2>1, <3>1, ProducerTyped
  <2> QED BY <2>5, <2>6, <2>7
<1>5. CASE ~(reset \/ key \notin sentKeys) /\ held.key # key
  <2>1. /\ pending' = Flushed(pending) /\ held' = [key |-> key, from |-> e]
        /\ sentKeys' = sentKeys
    BY <1>5 DEF PushDelta
  <2>2. held' # NotHeld /\ held'.key = key /\ held'.from = pushed + 1
    BY <1>1, <2>1, Bounds DEF NotHeld
  <2>3. Sent' = pushed
    BY <1>2, <2>2 DEF Sent
  <2>4. Extends(pending, Sent, pending', pushed, status.v)
    BY <2>1, FlushedExtends
  <2>5. Grows
    BY <1>1, <1>2, <2>3, <2>4, EventsGrow
  <2>6. Pushing'
    BY <1>1, <1>2, <2>2 DEF Pushing
  <2>7. ProducerType'
    <3>1. sentKeys' \subseteq Key
      BY <2>1 DEF Pushable, TypeOK
    <3> QED BY <1>1, <2>1, <3>1, ProducerTyped
  <2> QED BY <2>5, <2>6, <2>7
<1> QED BY <1>3, <1>4, <1>5

LEMMA FlushHeldGrows ==
  ASSUME Pushable, FlushHeld, asks' = asks
  PROVE  Grows /\ Pushing' /\ ProducerType'
<1>1. /\ pending' = Flushed(pending) /\ held' = NotHeld /\ pushed' = pushed
      /\ sentKeys' = sentKeys /\ boundary' = boundary /\ status' = status
  BY DEF FlushHeld
<1>2. Sent' = pushed /\ pushed \in Nat /\ Sent <= pushed
  BY <1>1, PushFields DEF Pushable, Sent
<1>3. Extends(pending, Sent, pending', pushed, status.v)
  BY <1>1, FlushedExtends
<1>4. Grows
  BY <1>1, <1>2, <1>3, EventsGrow
<1>5. Pushing'
  BY <1>1 DEF Pushing
<1>6. ProducerType'
  BY <1>1, Bounds DEF Pushable, TypeOK, ProducerType, NotHeld
<1> QED BY <1>4, <1>5, <1>6

LEMMA SendStateGrows ==
  ASSUME Pushable, SendState, asks' = asks
  PROVE  Grows /\ Pushing' /\ ProducerType'
<1>1. /\ status.v < MaxStates /\ status' = [v |-> status.v + 1, busy |-> TRUE]
      /\ pending' = Publish(pending, StateFrame(status'))
      /\ pushed' = pushed /\ held' = held /\ sentKeys' = sentKeys /\ boundary' = boundary
  BY DEF SendState
<1>2. /\ status' \in [v : 0 .. MaxStates, busy : BOOLEAN] /\ status'.v = status.v + 1
      /\ status.v <= status'.v
  BY <1>1, PushFields, Bounds DEF Pushable
<1>3. Sent' = Sent
  BY <1>1 DEF Sent
<1>4. 0 \in 0 .. MaxEvents
  BY Bounds
<1>5. /\ StateFrame(status') \in Frame /\ WellFrame(StateFrame(status'))
      /\ IsState(StateFrame(status')) /\ StateFrame(status').kind = "state"
      /\ StateFrame(status').v = status'.v
  BY <1>2, <1>4, StateFrames
<1>6. Grows
  BY <1>1, <1>2, <1>3, <1>5, StatusGrows
<1>7. Pushing'
  BY <1>1 DEF Pushable, Pushing
<1>8. ProducerType'
  BY <1>1, <1>2 DEF Pushable, TypeOK, ProducerType
<1> QED BY <1>6, <1>7, <1>8

\* At a boundary nothing is held back: the checkpoint goes as far as what was sent.
LEMMA CheckpointGrows ==
  ASSUME Pushable, NEW busy \in BOOLEAN, PublishCheckpoint(busy), asks' = asks
  PROVE  Grows /\ Pushing' /\ ProducerType'
<1>1. /\ boundary /\ status.v < MaxStates /\ status' = [v |-> status.v + 1, busy |-> busy]
      /\ pending' = Publish(pending, Checkpoint(status', pushed))
      /\ pushed' = pushed /\ held' = held /\ sentKeys' = sentKeys /\ boundary' = boundary
  BY DEF PublishCheckpoint
<1>2. /\ status' \in [v : 0 .. MaxStates, busy : BOOLEAN] /\ status'.v = status.v + 1
      /\ status.v <= status'.v
  BY <1>1, PushFields, Bounds DEF Pushable
<1>3. Sent' = Sent /\ Sent = pushed
  BY <1>1 DEF Sent, Pushable, Pushing
<1>4. pushed \in 0 .. MaxEvents
  BY DEF Pushable, TypeOK
<1>5. LET f == Checkpoint(status', pushed)
      IN  /\ f \in Frame /\ WellFrame(f) /\ IsState(f) /\ f.kind = "checkpoint"
          /\ f.to = pushed /\ f.v = status'.v
  BY <1>2, <1>4, StateFrames
<1>6. Grows
  BY <1>1, <1>2, <1>3, <1>5, StatusGrows
<1>7. Pushing'
  BY <1>1 DEF Pushable, Pushing
<1>8. ProducerType'
  BY <1>1, <1>2 DEF Pushable, TypeOK, ProducerType
<1> QED BY <1>6, <1>7, <1>8

LEMMA SayGrows ==
  ASSUME Pushable, UNCHANGED producer, pending' = Publish(pending, StateFrame(status))
  PROVE  Grows
<1>1. status \in [v : 0 .. MaxStates, busy : BOOLEAN] /\ 0 \in 0 .. MaxEvents
  BY Bounds DEF Pushable, TypeOK
<1>2. /\ StateFrame(status) \in Frame /\ WellFrame(StateFrame(status))
      /\ IsState(StateFrame(status)) /\ StateFrame(status).kind = "state"
      /\ StateFrame(status).v = status.v
  BY <1>1, StateFrames
<1>3. Sent' = Sent /\ status' = status /\ status.v <= status'.v
  BY PushFields DEF Pushable, producer, Sent
<1> QED BY <1>2, <1>3, StatusGrows

LEMMA ProducerGrows ==
  ASSUME Pushable, Producer
  PROVE  Grows /\ Pushing' /\ ProducerType'
<1>1. CASE Refresh
  <2>1. UNCHANGED producer /\ pending' = Publish(pending, StateFrame(status))
        /\ asks \in Nat /\ asks > 0 /\ asks' = asks - 1
    BY <1>1 DEF Refresh, Pushable, TypeOK
  <2>2. Grows
    BY <2>1, SayGrows
  <2>3. Pushing' /\ ProducerType'
    BY <2>1 DEF producer, Pushable, Pushing, TypeOK, ProducerType
  <2> QED BY <2>2, <2>3
<1>2. CASE asks' = asks /\ \E e \in 1..MaxEvents, resets \in BOOLEAN : PushEvent(e, resets)
  BY <1>2, PushEventGrows
<1>3. CASE asks' = asks /\ \E e \in 1..MaxEvents, k \in Key, reset \in BOOLEAN : PushDelta(e, k, reset)
  BY <1>3, PushDeltaGrows
<1>4. CASE asks' = asks /\ FlushHeld
  BY <1>4, FlushHeldGrows
<1>5. CASE asks' = asks /\ SendState
  BY <1>5, SendStateGrows
<1>6. CASE asks' = asks /\ \E busy \in BOOLEAN : PublishCheckpoint(busy)
  BY <1>6, CheckpointGrows
<1> QED BY <1>1, <1>2, <1>3, <1>4, <1>5, <1>6 DEF Producer
-----------------------------------------------------------------------------
(***************************************************************************)
(* Steps that leave what the thread keeps and what the clients have.       *)
(***************************************************************************)
LEMMA FineMore ==
  ASSUME NEW q \in Seq(Frame), NEW n \in Nat, NEW m \in Nat, n <= m
  PROVE  (FineN(q, n) => FineN(q, m)) /\ (FineV(q, n) => FineV(q, m))
<1>1. \A i \in DOMAIN q : q[i].to \in Nat /\ q[i].v \in Nat
  BY Places, Fields
<1>2. \A i \in DOMAIN q : (q[i].to <= n => q[i].to <= m) /\ (q[i].v <= n => q[i].v <= m)
  BY <1>1
<1> QED BY <1>2 DEF FineN, FineV

LEMMA Typed ==
  ASSUME TypeOK
  PROVE  /\ pending \in Seq(Frame) /\ batch \in Seq(Frame) /\ replay \in Seq(Frame)
         /\ snapshot \in Frame /\ sequence \in Nat /\ asks \in Nat
         /\ Sized(pending) <= Limit /\ Sized(replay) <= Limit
         /\ snapshot.to \in Nat /\ snapshot.v \in Nat /\ snapshot.seq \in Nat
         /\ status.v \in Nat
  BY Fields, Bounds DEF TypeOK

LEMMA TypedClient ==
  ASSUME TypeOK, NEW c \in Client
  PROVE  /\ out[c] \in Seq(Frame) /\ view[c].n \in Nat /\ view[c].v \in Nat
         /\ view[c].seq \in Nat /\ view[c].on \in BOOLEAN /\ view[c].kept \in BOOLEAN
         /\ view[c].told \in BOOLEAN /\ view[c].based \in BOOLEAN
         /\ view[c].missed \in BOOLEAN /\ view[c].twice \in BOOLEAN
  BY Bounds DEF TypeOK

\* What followed from the queues still does, and what is new comes from them.
Onward ==
    /\ Sent \in Nat /\ Sent' \in Nat /\ Sent <= Sent'
    /\ status.v \in Nat /\ status'.v \in Nat /\ status.v <= status'.v
    /\ \A x \in Nat : PastN(x) => PastN(x)'
    /\ \A x \in Nat : PastV(x) => PastV(x)'
    /\ \A e \in Nat : e <= Sent /\ InBatch(e) => InBatch(e)'
    /\ \A e \in Nat : Sent < e /\ e <= Sent' => InBatch(e)'
    /\ \/ status'.v = status.v /\ (SaidBatch(0) => SaidBatch(0)')
       \/ SaidBatch(0)'

LEMMA StillLearns ==
  ASSUME Onward, NEW q \in Seq(Frame), FineN(q, Sent), NEW at \in SUBSET (DOMAIN q),
         NEW e \in Nat, e <= Sent',
         e <= Sent => Good(q, at, e) /\ (Tells(q, at, e) \/ InBatch(e))
  PROVE  Good(q, at, e) /\ (Tells(q, at, e) \/ InBatch(e)')
<1>1. CASE e <= Sent
  BY <1>1 DEF Onward
<1>2. CASE Sent < e
  <2>1. Sent \in Nat /\ InBatch(e)'
    BY <1>2 DEF Onward
  <2> QED BY <1>2, <2>1, GoodBeyond
<1> QED BY <1>1, <1>2 DEF Onward

LEMMA OnwardServer ==
  ASSUME TypeOK, ServerOK, Onward, UNCHANGED server
  PROVE  ServerOK'
<1>1. /\ snapshot' = snapshot /\ replay' = replay /\ replayGap' = replayGap
      /\ sequence' = sequence
  BY DEF server
<1>2. Snapshotted' /\ Replayed'
  BY <1>1 DEF ServerOK, Snapshotted, Replayed
<1>3. /\ replay \in Seq(Frame) /\ snapshot.to \in Nat /\ snapshot.v \in Nat
      /\ \A i \in DOMAIN replay : replay[i].to \in Nat
  BY Typed, Places, Fields
<1>4. ServerN'
  <2>1. FineN(replay, Sent')
    BY <1>3, FineMore DEF Onward, ServerOK, ServerN
  <2>2. PastN(snapshot.to)' /\ \A i \in DOMAIN replay : PastN(replay[i].to)'
    BY <1>1, <1>3 DEF Onward, ServerOK, ServerN
  <2>3. AboveN(snapshot.to, replay)
    BY DEF ServerOK, ServerN
  <2> QED BY <1>1, <2>1, <2>2, <2>3 DEF ServerN
<1>5. FullReplay'
  <2> SUFFICES ASSUME Based, ~replayGap, NEW e \in snapshot.to + 1 .. Sent'
               PROVE  /\ Good(replay, DOMAIN replay, e)
                      /\ Tells(replay, DOMAIN replay, e) \/ InBatch(e)'
    BY <1>1 DEF FullReplay, Based
  <2>1. e \in Nat /\ e <= Sent' /\ FineN(replay, Sent)
    BY <1>3 DEF Onward, ServerOK, ServerN
  <2>2. e <= Sent => /\ Good(replay, DOMAIN replay, e)
                     /\ Tells(replay, DOMAIN replay, e) \/ InBatch(e)
    BY <1>3 DEF Onward, ServerOK, FullReplay
  <2> QED BY <1>3, <2>1, <2>2, StillLearns
<1>6. ServerV'
  <2>1. PastV(snapshot.v)'
    BY <1>1, <1>3 DEF Onward, ServerOK, ServerV
  <2> QED BY <1>1, <2>1 DEF ServerOK, ServerV
<1>7. SaidServer'
  <2>1. CASE SaidBatch(0)'
    BY <2>1 DEF SaidServer
  <2>2. CASE status'.v = status.v /\ (SaidBatch(0) => SaidBatch(0)')
    BY <1>1, <2>2 DEF ServerOK, SaidServer
  <2> QED BY <2>1, <2>2 DEF Onward
<1> QED BY <1>2, <1>4, <1>5, <1>6, <1>7 DEF ServerOK

LEMMA OnwardClient ==
  ASSUME TypeOK, NEW c \in Client, ClientOK(c), Onward, UNCHANGED server,
         out'[c] = out[c], view'[c] = view[c]
  PROVE  ClientOK(c)'
<1>1. /\ snapshot' = snapshot /\ replay' = replay /\ replayGap' = replayGap
      /\ sequence' = sequence /\ out'[c] = out[c] /\ view'[c] = view[c]
  BY DEF server
<1>2. SequencedClient(c)'
  BY <1>1 DEF ClientOK, SequencedClient, Lined, Holds, Parted, Based
<1>3. /\ out[c] \in Seq(Frame) /\ view[c].n \in Nat /\ view[c].v \in Nat
      /\ \A k \in DOMAIN out[c] : out[c][k].to \in Nat /\ out[c][k].v \in Nat
  BY TypedClient, Places, Fields
<1>4. FineN(out[c], Sent) /\ FineV(out[c], status.v)
  BY DEF ClientOK, ClientN, ClientV
<1>5. ClientN(c)'
  <2>1. FineN(out[c], Sent')
    BY <1>3, <1>4, FineMore DEF Onward
  <2>2. PastN(view[c].n)' /\ \A k \in DOMAIN out[c] : PastN(out[c][k].to)'
    BY <1>1, <1>3 DEF Onward, ClientOK, ClientN
  <2>3. /\ \A k \in Live(view[c], out[c]) : NAfter(view[c].n, out[c][k])
        /\ ~view[c].twice /\ (view[c].based /\ view[c].missed => view[c].told)
    BY DEF ClientOK, ClientN
  <2>4. Up(view[c])' /\ Ahead(view[c])'
    BY <1>1 DEF ClientOK, ClientN, Up, Ahead
  <2> QED BY <1>1, <2>1, <2>2, <2>3, <2>4 DEF ClientN
<1>6. FullOut(c)'
  <2> SUFFICES ASSUME NEW k \in Checks(out[c]), NEW e \in out[c][k].to + 1 .. Sent'
               PROVE  /\ Good(out[c], Behind(out[c], k), e)
                      /\ Tells(out[c], Behind(out[c], k), e) \/ InBatch(e)'
    BY <1>1 DEF FullOut
  <2>1. e \in Nat /\ e <= Sent' /\ Behind(out[c], k) \in SUBSET (DOMAIN out[c])
    BY <1>3 DEF Onward, Checks, Behind
  <2>2. e <= Sent => /\ Good(out[c], Behind(out[c], k), e)
                     /\ Tells(out[c], Behind(out[c], k), e) \/ InBatch(e)
    BY <1>3 DEF Onward, ClientOK, FullOut, Checks
  <2> QED BY <1>3, <1>4, <2>1, <2>2, StillLearns
<1>7. FullView(c)'
  <2> SUFFICES ASSUME view[c].on, Sound(view[c]), NEW e \in view[c].n + 1 .. Sent'
               PROVE  /\ Good(out[c], Live(view[c], out[c]), e)
                      /\ Tells(out[c], Live(view[c], out[c]), e) \/ InBatch(e)'
    BY <1>1 DEF FullView
  <2>1. e \in Nat /\ e <= Sent' /\ Live(view[c], out[c]) \in SUBSET (DOMAIN out[c])
    BY <1>3 DEF Onward, Live
  <2>2. e <= Sent => /\ Good(out[c], Live(view[c], out[c]), e)
                     /\ Tells(out[c], Live(view[c], out[c]), e) \/ InBatch(e)
    BY <1>3 DEF Onward, ClientOK, FullView
  <2> QED BY <1>3, <1>4, <2>1, <2>2, StillLearns
<1>8. ClientV(c)'
  <2>1. FineV(out[c], status'.v)
    BY <1>3, <1>4, FineMore DEF Onward
  <2>2. PastV(view[c].v)' /\ \A k \in DOMAIN out[c] : PastV(out[c][k].v)'
    BY <1>1, <1>3 DEF Onward, ClientOK, ClientV
  <2>3. /\ \A k \in Live(view[c], out[c]) : VAfter(view[c].v, out[c][k])
        /\ ~view[c].on => view[c].v = 0
    BY DEF ClientOK, ClientV
  <2> QED BY <1>1, <2>1, <2>2, <2>3 DEF ClientV
<1>9. SaidClient(c)'
  <2>1. CASE SaidBatch(0)'
    BY <2>1 DEF SaidClient
  <2>2. CASE status'.v = status.v /\ (SaidBatch(0) => SaidBatch(0)')
    BY <1>1, <2>2 DEF ClientOK, SaidClient
  <2> QED BY <2>1, <2>2 DEF Onward
<1> QED BY <1>2, <1>5, <1>6, <1>7, <1>8, <1>9 DEF ClientOK

\* What a queue that has grown means to those before it.
PendingGrown ==
    /\ pending' \in Seq(Frame) /\ FineN(pending', Sent') /\ FullPending' /\ FineV(pending', status'.v)
    /\ \A x \in Nat : x <= Sent /\ AboveN(x, pending) => AboveN(x, pending')
    /\ \A x \in Nat : x <= status.v /\ AboveV(x, pending) => AboveV(x, pending')
    /\ \A e \in Nat : e <= Sent /\ InPending(e) => InPending(e)'
    /\ \A e \in Nat : Sent < e /\ e <= Sent' => InPending(e)'
    /\ \/ status'.v = status.v /\ (SaidPending(0) => SaidPending(0)')
       \/ SaidPending(0)'
    /\ \A i \in DOMAIN pending' : Stale(pending'[i], status'.v) => SaidPending(i)'

LEMMA GrowsPending ==
  ASSUME Grows, QueuesOK, asks \in Nat
  PROVE  PendingGrown
<1>1. GrownN(pending, Sent, pending', Sent') /\ GrownV(pending, status.v, pending', status'.v)
  BY DEF Grows
<1>2. pending' \in Seq(Frame) /\ FineN(pending', Sent') /\ FullPending' /\ FineV(pending', status'.v)
  BY <1>1 DEF GrownN, GrownV, FullPending
<1>3. /\ \A x \in Nat : x <= Sent /\ AboveN(x, pending) => AboveN(x, pending')
      /\ \A x \in Nat : x <= status.v /\ AboveV(x, pending) => AboveV(x, pending')
  BY <1>1 DEF GrownN, GrownV
<1>4. /\ \A e \in Nat : e <= Sent /\ InPending(e) => InPending(e)'
      /\ \A e \in Nat : Sent < e /\ e <= Sent' => InPending(e)'
  BY <1>1 DEF GrownN, InPending
<1>5. CASE status'.v = status.v /\ asks' = asks /\ Keeps(pending, pending', status.v)
  <2>1. SaidPending(0) => SaidPending(0)'
    BY <1>5 DEF SaidPending, Keeps
  <2>2. ASSUME NEW j \in DOMAIN pending', Stale(pending'[j], status.v)
        PROVE  SaidPending(j)'
    <3>1. PICK i \in DOMAIN pending : /\ pending[i] = pending'[j]
                                      /\ SaysBehind(pending, i, status.v) => SaysBehind(pending', j, status.v)
      BY <1>5, <2>2 DEF Keeps, Stale
    <3>2. SaidPending(i)
      BY <2>2, <3>1 DEF QueuesOK, SaidQueues
    <3> QED BY <1>5, <3>1, <3>2 DEF SaidPending
  <2> QED BY <1>2, <1>3, <1>4, <1>5, <2>1, <2>2 DEF PendingGrown
<1>6. CASE Tops(pending', status'.v)
  <2>1. SaidPending(0)' /\ \A i \in DOMAIN pending' : Stale(pending'[i], status'.v) => SaidPending(i)'
    BY <1>6 DEF Tops, SaidPending
  <2> QED BY <1>2, <1>3, <1>4, <2>1 DEF PendingGrown
<1> QED BY <1>5, <1>6 DEF Grows

LEMMA GrowsQueues ==
  ASSUME TypeOK, QueuesOK, Grows, Sent \in Nat, batch' = batch
  PROVE  QueuesOK' /\ Onward
<1>1. PendingGrown
  BY Typed, GrowsPending
<1>2. /\ batch \in Seq(Frame) /\ status.v \in Nat /\ Sent' \in Nat /\ Sent <= Sent'
      /\ status'.v \in Nat /\ status.v <= status'.v
  BY Typed DEF Grows
<1>3. FineN(batch, Sent) /\ FineV(batch, status.v)
  BY DEF QueuesOK, QueuesN, QueuesV
<1>4. \A i \in DOMAIN batch : /\ batch[i].to \in Nat /\ batch[i].to <= Sent
                              /\ batch[i].v \in Nat /\ batch[i].v <= status.v
  BY <1>2, <1>3, Places, Fields DEF FineN, FineV
<1>5. QueuesN'
  <2>1. FineN(batch, Sent')
    BY <1>2, <1>3, FineMore
  <2>2. \A i \in DOMAIN batch : AboveN(batch[i].to, pending')
    BY <1>1, <1>4 DEF PendingGrown, QueuesOK, QueuesN
  <2> QED BY <1>1, <2>1, <2>2 DEF PendingGrown, QueuesN
<1>6. QueuesV'
  <2>1. FineV(batch, status'.v)
    BY <1>2, <1>3, FineMore
  <2>2. \A i \in DOMAIN batch : AboveV(batch[i].v, pending')
    BY <1>1, <1>4 DEF PendingGrown, QueuesOK, QueuesV
  <2> QED BY <1>1, <2>1, <2>2 DEF PendingGrown, QueuesV
<1>7. FullBatch'
  <2> SUFFICES ASSUME NEW k \in Checks(batch), NEW e \in batch[k].to + 1 .. Sent'
               PROVE  /\ Good(batch, Behind(batch, k), e)
                      /\ Tells(batch, Behind(batch, k), e) \/ InPending(e)'
    BY DEF FullBatch
  <2>1. e \in Nat /\ e <= Sent' /\ Behind(batch, k) \in SUBSET (DOMAIN batch)
    BY <1>2, <1>4 DEF Checks, Behind
  <2>2. CASE e <= Sent
    <3>1. e \in batch[k].to + 1 .. Sent
      BY <1>4, <2>1, <2>2 DEF Checks
    <3> QED BY <1>1, <2>1, <2>2, <3>1 DEF PendingGrown, QueuesOK, FullBatch
  <2>3. CASE Sent < e
    BY <1>1, <1>2, <1>3, <2>1, <2>3, GoodBeyond DEF PendingGrown
  <2> QED BY <1>2, <2>1, <2>2, <2>3
<1>8. /\ \A k : status'.v = status.v /\ (SaidPending(0) => SaidPending(0)') /\ SaidBatch(k) => SaidBatch(k)'
      /\ \A k : SaidPending(0)' => SaidBatch(k)'
  BY DEF SaidBatch
<1>9. SaidQueues'
  <2>1. \A i \in DOMAIN batch : Stale(batch[i], status'.v) => SaidBatch(i)'
    <3>1. CASE SaidPending(0)'
      BY <1>8, <3>1
    <3>2. CASE status'.v = status.v /\ (SaidPending(0) => SaidPending(0)')
      BY <1>8, <3>2 DEF QueuesOK, SaidQueues
    <3> QED BY <1>1, <3>1, <3>2 DEF PendingGrown
  <2> QED BY <1>1, <2>1 DEF PendingGrown, SaidQueues
<1>10. \A x \in Nat : (PastN(x) => PastN(x)') /\ (PastV(x) => PastV(x)')
  BY <1>1, <1>2 DEF PendingGrown, PastN, PastV
<1>11. \A e \in Nat : /\ e <= Sent /\ InBatch(e) => InBatch(e)'
                      /\ Sent < e /\ e <= Sent' => InBatch(e)'
  <2> SUFFICES ASSUME NEW e \in Nat
               PROVE  /\ e <= Sent /\ InBatch(e) => InBatch(e)'
                      /\ Sent < e /\ e <= Sent' => InBatch(e)'
    OBVIOUS
  <2>1. e <= Sent /\ InBatch(e) => InBatch(e)'
    BY <1>1 DEF PendingGrown, InBatch
  <2>2. Sent < e => Good(batch, DOMAIN batch, e)
    BY <1>2, <1>3, GoodBeyond
  <2>3. Sent < e /\ e <= Sent' => InBatch(e)'
    BY <1>1, <2>2 DEF PendingGrown, InBatch
  <2> QED BY <2>1, <2>3
<1>12. Onward
  <2>1. \/ status'.v = status.v /\ (SaidBatch(0) => SaidBatch(0)')
        \/ SaidBatch(0)'
    BY <1>1, <1>8 DEF PendingGrown
  <2> QED BY <1>2, <1>10, <1>11, <2>1 DEF Onward
<1> QED BY <1>1, <1>5, <1>6, <1>7, <1>9, <1>12 DEF QueuesOK, PendingGrown

\* The thread takes what there is.
LEMMA SwapQueues ==
  ASSUME TypeOK, Pushing, QueuesOK, Swap
  PROVE  QueuesOK' /\ Onward
<1>1. /\ batch = <<>> /\ batch' = pending /\ pending' = <<>> /\ status' = status /\ asks' = asks
      /\ pushed' = pushed /\ held' = held
  BY DEF Swap, producer
<1>2. /\ Sent \in Nat /\ Sent' = Sent /\ status.v \in Nat /\ pending \in Seq(Frame)
  BY <1>1, Typed, PushFields DEF Sent
<1>3. DOMAIN batch = {} /\ DOMAIN pending' = {} /\ pending' \in Seq(Frame)
  BY <1>1
<1>4. QueuesN'
  <2>1. FineN(pending', Sent) /\ \A x : AboveN(x, pending')
    BY <1>3 DEF FineN, AboveN
  <2>2. FineN(batch', Sent)
    BY <1>1 DEF QueuesOK, QueuesN
  <2> QED BY <1>2, <2>1, <2>2 DEF QueuesN
<1>5. QueuesV'
  <2>1. FineV(pending', status.v) /\ \A x : AboveV(x, pending')
    BY <1>3 DEF FineV, AboveV
  <2>2. FineV(batch', status.v)
    BY <1>1 DEF QueuesOK, QueuesV
  <2> QED BY <1>1, <2>1, <2>2 DEF QueuesV
<1>6. FullPending'
  BY <1>3 DEF FullPending, FullIn, Checks
<1>7. FullBatch'
  BY <1>1, <1>2 DEF QueuesOK, FullPending, FullIn, Learns, FullBatch
<1>8. SaidQueues'
  <2>1. \A k : SaidPending(k) => SaidBatch(k)'
    BY <1>1 DEF SaidPending, SaidBatch
  <2> QED BY <1>1, <1>3, <2>1 DEF QueuesOK, SaidQueues
<1>9. \A x \in Nat : (PastN(x) => PastN(x)') /\ (PastV(x) => PastV(x)')
  <2>1. \A x : AboveN(x, pending') /\ AboveV(x, pending')
    BY <1>3 DEF AboveN, AboveV
  <2> QED BY <1>1, <1>2, <2>1 DEF PastN, PastV
<1>10. \A e \in Nat : InBatch(e) => InBatch(e)'
  BY <1>1, <1>3 DEF InBatch, InPending, Learns, Tells
<1>11. SaidBatch(0) => SaidBatch(0)'
  BY <1>1, <1>3 DEF SaidBatch, SaidPending, SaysBehind
<1>12. Onward
  <2>1. \A e \in Nat : ~(Sent < e /\ e <= Sent')
    BY <1>2
  <2>2. Sent <= Sent' /\ status.v <= status'.v /\ status'.v = status.v
    BY <1>1, <1>2
  <2> QED BY <1>1, <1>2, <1>9, <1>10, <1>11, <2>1, <2>2 DEF Onward
<1> QED BY <1>4, <1>5, <1>6, <1>7, <1>8, <1>12 DEF QueuesOK
-----------------------------------------------------------------------------
(***************************************************************************)
(* The replay without its state.                                           *)
(***************************************************************************)
LEMMA Removed ==
  ASSUME NEW S, NEW q \in Seq(S), NEW i \in DOMAIN q
  PROVE  LET r == RemoveAt(q, i)
         IN  /\ r \in Seq(S) /\ DOMAIN r = 1 .. Len(q) - 1
             /\ \A j \in DOMAIN r : r[j] = q[IF j < i THEN j ELSE j + 1]
<1> DEFINE a == SubSeq(q, 1, i - 1)
           b == SubSeq(q, i + 1, Len(q))
           r == a \o b
<1>1. /\ Len(q) \in Nat /\ DOMAIN q = 1 .. Len(q) /\ i \in Nat /\ 1 <= i /\ i <= Len(q)
      /\ \A j \in DOMAIN q : q[j] \in S
  BY Places
<1>2. /\ i - 1 \in Int /\ 1 \in Int /\ i + 1 \in Int /\ Len(q) \in Int
      /\ \A j \in 1 .. i - 1 : q[j] \in S
      /\ \A j \in i + 1 .. Len(q) : q[j] \in S
  BY <1>1
<1>3. /\ a \in Seq(S) /\ Len(a) = IF 1 <= i - 1 THEN (i - 1) - 1 + 1 ELSE 0
      /\ \A j \in 1 .. (i - 1) - 1 + 1 : a[j] = q[1 + j - 1]
  BY <1>2, SubSeqProperties
<1>4. /\ b \in Seq(S) /\ Len(b) = IF i + 1 <= Len(q) THEN Len(q) - (i + 1) + 1 ELSE 0
      /\ \A j \in 1 .. Len(q) - (i + 1) + 1 : b[j] = q[(i + 1) + j - 1]
  BY <1>2, SubSeqProperties
<1> HIDE DEF a, b
<1>5. /\ r \in Seq(S) /\ Len(r) = Len(a) + Len(b)
      /\ \A j \in 1 .. Len(a) + Len(b) : r[j] = IF j <= Len(a) THEN a[j] ELSE b[j - Len(a)]
  BY <1>3, <1>4, ConcatProperties
<1>6. DOMAIN r = 1 .. Len(r)
  BY <1>5, LenProperties
<1> HIDE DEF r
<1>7. Len(a) = i - 1 /\ Len(b) = Len(q) - i
  BY <1>1, <1>3, <1>4
<1>8. DOMAIN r = 1 .. Len(q) - 1 /\ Len(a) + Len(b) = Len(q) - 1
  BY <1>1, <1>5, <1>6, <1>7
<1>9. ASSUME NEW j \in DOMAIN r
      PROVE  r[j] = q[IF j < i THEN j ELSE j + 1]
  <2>1. j \in Nat /\ 1 <= j /\ j <= Len(q) - 1
    BY <1>1, <1>8
  <2>2. CASE j < i
    <3>1. j <= i - 1 /\ j \in 1 .. (i - 1) - 1 + 1 /\ 1 + j - 1 = j
      BY <1>1, <2>1, <2>2
    <3>2. r[j] = a[j]
      BY <1>5, <1>7, <1>8, <3>1
    <3> QED BY <1>3, <2>2, <3>1, <3>2
  <2>3. CASE ~(j < i)
    <3>1. /\ ~(j <= i - 1) /\ j - (i - 1) \in 1 .. Len(q) - (i + 1) + 1
          /\ (i + 1) + (j - (i - 1)) - 1 = j + 1
      BY <1>1, <2>1, <2>3
    <3>2. r[j] = b[j - (i - 1)]
      BY <1>5, <1>7, <1>8, <3>1
    <3> QED BY <1>4, <2>3, <3>1, <3>2
  <2> QED BY <2>2, <2>3
<1> QED BY <1>5, <1>8, <1>9 DEF r, a, b, RemoveAt

\* r is what h picks from q, in its order, and leaves only states.
Picked(q, r, h) ==
    /\ h \in [DOMAIN r -> DOMAIN q]
    /\ \A i, j \in DOMAIN r : i < j => h[i] < h[j]
    /\ \A j \in DOMAIN r : r[j] = q[h[j]]
    /\ \A i \in DOMAIN q : IsState(q[i]) \/ \E j \in DOMAIN r : h[j] = i

LEMMA PickedAll ==
  ASSUME NEW q
  PROVE  \E h : Picked(q, q, h)
<1> DEFINE h == [j \in DOMAIN q |-> j]
<1>1. Picked(q, q, h)
  BY DEF Picked
<1> QED BY <1>1

LEMMA PickedStates ==
  ASSUME NEW q \in Seq(Frame),
         \A i, j \in DOMAIN q : IsState(q[i]) /\ IsState(q[j]) => i = j
  PROVE  /\ WithoutStates(q) \in Seq(Frame)
         /\ \E h : Picked(q, WithoutStates(q), h)
         /\ \A j \in DOMAIN WithoutStates(q) : ~IsState(WithoutStates(q)[j])
<1>1. CASE StatesAt(q) = {}
  BY <1>1, PickedAll DEF WithoutStates, StatesAt
<1>2. CASE StatesAt(q) # {}
  <2> DEFINE s == CHOOSE i \in StatesAt(q) : TRUE
             r == WithoutStates(q)
             h == [j \in DOMAIN r |-> IF j < s THEN j ELSE j + 1]
  <2>1. s \in DOMAIN q /\ IsState(q[s]) /\ r = RemoveAt(q, s)
    BY <1>2 DEF StatesAt, WithoutStates
  <2> HIDE DEF s
  <2>2. /\ r \in Seq(Frame) /\ DOMAIN r = 1 .. Len(q) - 1
        /\ \A j \in DOMAIN r : r[j] = q[IF j < s THEN j ELSE j + 1]
    BY <2>1, Removed
  <2>3. Len(q) \in Nat /\ DOMAIN q = 1 .. Len(q) /\ s \in Nat /\ 1 <= s /\ s <= Len(q)
    BY <2>1, Places
  <2> HIDE DEF r
  <2>4. \A j \in DOMAIN r : /\ h[j] = IF j < s THEN j ELSE j + 1
                            /\ h[j] \in DOMAIN q /\ h[j] # s
    BY <2>2, <2>3
  <2>5. \A j \in DOMAIN r : r[j] = q[h[j]]
    BY <2>2, <2>4
  <2>6. \A i, j \in DOMAIN r : i < j => h[i] < h[j]
    BY <2>2, <2>3, <2>4
  <2>7. \A i \in DOMAIN q : i # s => \E j \in DOMAIN r : h[j] = i
    <3> SUFFICES ASSUME NEW i \in DOMAIN q, i # s
                 PROVE  \E j \in DOMAIN r : h[j] = i
      OBVIOUS
    <3>1. CASE i < s
      <4>1. i \in DOMAIN r
        BY <2>2, <2>3, <3>1
      <4> QED BY <2>4, <3>1, <4>1
    <3>2. CASE s < i
      <4>1. i - 1 \in DOMAIN r /\ ~(i - 1 < s) /\ (i - 1) + 1 = i
        BY <2>2, <2>3, <3>2
      <4> QED BY <2>4, <4>1
    <3> QED BY <2>3, <3>1, <3>2
  <2>8. Picked(q, r, h)
    <3>1. h \in [DOMAIN r -> DOMAIN q]
      BY <2>4
    <3>2. \A i \in DOMAIN q : IsState(q[i]) \/ \E j \in DOMAIN r : h[j] = i
      BY <2>1, <2>7
    <3> HIDE DEF h
    <3> QED BY <2>5, <2>6, <3>1, <3>2 DEF Picked
  <2>9. \A j \in DOMAIN r : ~IsState(r[j])
    BY <2>1, <2>4, <2>5
  <2> HIDE DEF h
  <2> QED BY <2>2, <2>8, <2>9 DEF r
<1> QED BY <1>1, <1>2
-----------------------------------------------------------------------------
(***************************************************************************)
(* A frame is taken from the batch.                                        *)
(***************************************************************************)
LEMMA SaysCut ==
  ASSUME NEW q \in Seq(Frame), q # <<>>, NEW k \in Nat, NEW v
  PROVE  /\ SaysBehind(q, k + 1, v) => SaysBehind(Tail(q), k, v)
         /\ SaysBehind(q, 0, v) => Says(Head(q), v) \/ SaysBehind(Tail(q), 0, v)
<1>1. /\ 1 \in DOMAIN q /\ Head(q) = q[1]
      /\ \A i \in DOMAIN q : i # 1 => /\ i \in Nat /\ i - 1 \in DOMAIN Tail(q)
                                      /\ Tail(q)[i - 1] = q[i] /\ (i - 1) + 1 = i
  BY Cut
<1>2. \A i \in DOMAIN q : i \in Nat /\ i >= 1
  BY Places
<1>3. ASSUME SaysBehind(q, k + 1, v)
      PROVE  SaysBehind(Tail(q), k, v)
  <2>1. PICK j \in DOMAIN q : j > k + 1 /\ Says(q[j], v)
    BY <1>3 DEF SaysBehind
  <2>2. j \in Nat /\ j # 1 /\ j - 1 > k
    BY <1>2, <2>1
  <2>3. j - 1 \in DOMAIN Tail(q) /\ Says(Tail(q)[j - 1], v)
    BY <1>1, <2>1, <2>2
  <2> QED BY <2>2, <2>3 DEF SaysBehind
<1>4. ASSUME SaysBehind(q, 0, v), ~Says(Head(q), v)
      PROVE  SaysBehind(Tail(q), 0, v)
  <2>1. PICK j \in DOMAIN q : j > 0 /\ Says(q[j], v)
    BY <1>4 DEF SaysBehind
  <2>2. j # 1
    BY <1>1, <1>4, <2>1
  <2>3. j \in Nat /\ j - 1 > 0
    BY <1>2, <2>1, <2>2
  <2>4. j - 1 \in DOMAIN Tail(q) /\ Says(Tail(q)[j - 1], v)
    BY <1>1, <2>1, <2>2
  <2> QED BY <2>3, <2>4 DEF SaysBehind
<1> QED BY <1>3, <1>4

\* f is the frame taken: whatever the batch told, f or what is left tells.
Taken(f) ==
    /\ f \in Frame /\ WellFrame(f) /\ f.seq = sequence + 1
    /\ Sent \in Nat /\ Sent' = Sent /\ status.v \in Nat /\ status'.v = status.v
    /\ f.to <= Sent /\ f.v <= status.v
    /\ \A x \in Nat : PastN(x) => NAfter(x, f) /\ PastN(x)'
    /\ \A x \in Nat : PastV(x) => VAfter(x, f) /\ PastV(x)'
    /\ \A x \in Nat : (x = f.to => PastN(x)') /\ (x = f.v => PastV(x)')
    /\ \A e \in Nat : e <= Sent /\ InBatch(e) => ~Skips(f, e) /\ (Covers(f, e) \/ InBatch(e)')
    /\ f.kind = "checkpoint" => \A e \in f.to + 1 .. Sent : InBatch(e)'
    /\ SaidBatch(0) => Says(f, status.v) \/ SaidBatch(0)'
    /\ Stale(f, status.v) => SaidBatch(0)'

Taking ==
    /\ batch # <<>> /\ batch' = Tail(batch) /\ UNCHANGED <<producer, asks>>
    /\ pending' = pending \/ pending' = Publish(pending, StateFrame(status))

LEMMA TakingPending ==
  ASSUME TypeOK, Pushing, QueuesOK, Taking
  PROVE  /\ PendingGrown /\ pending' \in Seq(Frame) /\ Sized(pending') <= Limit
         /\ Sent \in Nat /\ Sent' = Sent /\ status' = status /\ status.v \in Nat
<1>1. Pushable
  BY DEF Pushable, QueuesOK, QueuesN, QueuesV
<1>2. /\ Sent \in Nat /\ Sent <= Sent /\ Sent' = Sent /\ status' = status /\ status.v \in Nat
      /\ asks' = asks /\ UNCHANGED producer /\ asks \in Nat
  BY PushFields, Typed DEF Taking, producer, Sent
<1>3. CASE pending' = pending
  <2>1. Extends(pending, Sent, pending', Sent, status.v)
    BY <1>1, <1>2, <1>3, ExtendsSelf DEF Pushable, TypeOK, FullPending
  <2>2. Grows
    BY <1>1, <1>2, <2>1, EventsGrow
  <2> QED BY <1>2, <2>2, GrowsPending DEF Grows
<1>4. CASE pending' = Publish(pending, StateFrame(status))
  <2>1. Grows
    BY <1>1, <1>2, <1>4, SayGrows
  <2> QED BY <1>2, <2>1, GrowsPending DEF Grows
<1> QED BY <1>3, <1>4 DEF Taking

LEMMA TakingBatch ==
  ASSUME TypeOK, Pushing, QueuesOK, Taking
  PROVE  QueuesOK' /\ Taken([Head(batch) EXCEPT !.seq = sequence + 1])
<1> DEFINE g == Head(batch)
           r == Tail(batch)
           f == [g EXCEPT !.seq = sequence + 1]
<1>1. /\ PendingGrown /\ Sent \in Nat /\ Sent' = Sent /\ status'.v = status.v
      /\ status.v \in Nat /\ batch' = r /\ asks' = asks
  BY TakingPending DEF Taking
<1>2. batch \in Seq(Frame) /\ batch # <<>> /\ sequence \in Nat
  BY Typed DEF Taking
<1>3. /\ r \in Seq(Frame) /\ 1 \in DOMAIN batch /\ g = batch[1] /\ g \in Frame
      /\ \A i \in DOMAIN r : /\ i \in Nat /\ i >= 1 /\ i + 1 \in DOMAIN batch
                             /\ r[i] = batch[i + 1] /\ 1 < i + 1
      /\ \A i \in DOMAIN batch : i # 1 => /\ i \in Nat /\ i - 1 \in DOMAIN r
                                          /\ r[i - 1] = batch[i] /\ (i - 1) + 1 = i
  BY <1>2, Cut
<1>4. /\ FineN(r, Sent) /\ AboveN(g.to, r) /\ WellFrame(g) /\ g.to <= Sent
      /\ FineV(r, status.v) /\ AboveV(g.v, r) /\ g.v <= status.v
  BY <1>1, <1>2, FineTail DEF QueuesOK, QueuesN, QueuesV
<1>5. /\ f \in Frame /\ f.seq = sequence + 1 /\ f.kind = g.kind /\ f.from = g.from
      /\ f.to = g.to /\ f.v = g.v /\ WellFrame(f) /\ (IsState(f) <=> IsState(g))
  <2>1. sequence + 1 \in Nat
    BY <1>2
  <2> QED BY <1>3, <1>4, <2>1, Renumbered
<1>6. \A i \in DOMAIN batch : /\ batch[i].to \in Nat /\ batch[i].to <= Sent
                              /\ batch[i].v \in Nat /\ batch[i].v <= status.v
                              /\ AboveN(batch[i].to, pending') /\ AboveV(batch[i].v, pending')
  <2>1. \A i \in DOMAIN batch : /\ batch[i].to \in Nat /\ batch[i].to <= Sent
                                /\ batch[i].v \in Nat /\ batch[i].v <= status.v
    BY <1>2, Places, Fields DEF QueuesOK, QueuesN, QueuesV, FineN, FineV
  <2> QED BY <1>1, <2>1 DEF PendingGrown, QueuesOK, QueuesN, QueuesV
<1>7. \A k \in DOMAIN r, e \in Nat :
         /\ Good(batch, Behind(batch, k + 1), e) => Good(r, Behind(r, k), e)
         /\ Tells(batch, Behind(batch, k + 1), e) => Tells(r, Behind(r, k), e)
  <2> SUFFICES ASSUME NEW k \in DOMAIN r, NEW e \in Nat
               PROVE  /\ Good(batch, Behind(batch, k + 1), e) => Good(r, Behind(r, k), e)
                      /\ Tells(batch, Behind(batch, k + 1), e) => Tells(r, Behind(r, k), e)
    OBVIOUS
  <2>1. /\ Behind(batch, k + 1) \in SUBSET (DOMAIN batch) /\ Behind(r, k) \in SUBSET (DOMAIN r)
        /\ 1 \notin Behind(batch, k + 1)
        /\ \A i \in DOMAIN r : i \in Behind(r, k) <=> i + 1 \in Behind(batch, k + 1)
    BY <1>3 DEF Behind
  <2> QED BY <1>2, <2>1, GoodCut
<1>8. \A e \in Nat :
         /\ Good(batch, Behind(batch, 1), e) => Good(r, DOMAIN r, e)
         /\ Tells(batch, Behind(batch, 1), e) => Tells(r, DOMAIN r, e)
  <2> SUFFICES ASSUME NEW e \in Nat
               PROVE  /\ Good(batch, Behind(batch, 1), e) => Good(r, DOMAIN r, e)
                      /\ Tells(batch, Behind(batch, 1), e) => Tells(r, DOMAIN r, e)
    OBVIOUS
  <2>1. /\ Behind(batch, 1) \in SUBSET (DOMAIN batch) /\ DOMAIN r \in SUBSET (DOMAIN r)
        /\ 1 \notin Behind(batch, 1)
        /\ \A i \in DOMAIN r : i \in DOMAIN r <=> i + 1 \in Behind(batch, 1)
    BY <1>3 DEF Behind
  <2> QED BY <1>2, <2>1, GoodCut
<1>9. ASSUME NEW e \in Nat, InBatch(e)
      PROVE  ~Skips(g, e) /\ (Covers(g, e) \/ (Good(r, DOMAIN r, e) /\ (Tells(r, DOMAIN r, e) \/ InPending(e))))
  <2>1. /\ DOMAIN batch \in SUBSET (DOMAIN batch) /\ DOMAIN r \in SUBSET (DOMAIN r)
        /\ \A i \in DOMAIN r : i \in DOMAIN r <=> i + 1 \in DOMAIN batch
    BY <1>3
  <2>2. Good(batch, DOMAIN batch, e) /\ (Tells(batch, DOMAIN batch, e) \/ InPending(e))
    BY <1>9 DEF InBatch
  <2>3. ~Skips(g, e)
    BY <1>2, <1>3, <2>1, <2>2, GoodCut
  <2>4. ~Covers(g, e) => Good(r, DOMAIN r, e) /\ (Tells(batch, DOMAIN batch, e) => Tells(r, DOMAIN r, e))
    BY <1>2, <2>1, <2>2, GoodCut
  <2> QED BY <2>2, <2>3, <2>4
<1>10. /\ \A i \in DOMAIN r : SaysBehind(batch, i + 1, status.v) => SaysBehind(r, i, status.v)
       /\ SaysBehind(batch, 1, status.v) => SaysBehind(r, 0, status.v)
       /\ SaysBehind(batch, 0, status.v) => Says(g, status.v) \/ SaysBehind(r, 0, status.v)
  <2>1. \A i \in Nat : SaysBehind(batch, i + 1, status.v) => SaysBehind(r, i, status.v)
    BY <1>2, SaysCut
  <2>2. 0 \in Nat /\ 0 + 1 = 1 /\ \A i \in DOMAIN r : i \in Nat
    BY <1>3
  <2>3. SaysBehind(batch, 0, status.v) => Says(g, status.v) \/ SaysBehind(r, 0, status.v)
    BY <1>2, SaysCut
  <2>4. SaysBehind(batch, 0 + 1, status.v) => SaysBehind(r, 0, status.v)
    BY <2>1, <2>2
  <2> QED BY <2>1, <2>2, <2>3, <2>4
<1>11. /\ Skips(f, 0) <=> Skips(g, 0)
       /\ \A e : (Skips(f, e) <=> Skips(g, e)) /\ (Covers(f, e) <=> Covers(g, e))
       /\ \A x : (NAfter(x, f) <=> NAfter(x, g)) /\ (VAfter(x, f) <=> VAfter(x, g))
       /\ (Says(f, status.v) <=> Says(g, status.v)) /\ (Stale(f, status.v) <=> Stale(g, status.v))
  BY <1>5 DEF Skips, Covers, NAfter, VAfter, Says, Stale
<1> HIDE DEF f, g, r
<1>12. QueuesN'
  BY <1>1, <1>3, <1>4, <1>6 DEF PendingGrown, QueuesN
<1>13. QueuesV'
  BY <1>1, <1>3, <1>4, <1>6 DEF PendingGrown, QueuesV
<1>14. FullBatch'
  <2> SUFFICES ASSUME NEW k \in Checks(r), NEW e \in r[k].to + 1 .. Sent
               PROVE  /\ Good(r, Behind(r, k), e)
                      /\ Tells(r, Behind(r, k), e) \/ InPending(e)'
    BY <1>1 DEF FullBatch
  <2>1. k \in DOMAIN r /\ k + 1 \in Checks(batch) /\ r[k].to = batch[k + 1].to
    BY <1>3 DEF Checks
  <2>2. e \in Nat /\ e <= Sent /\ e \in batch[k + 1].to + 1 .. Sent
    BY <1>1, <1>6, <2>1 DEF Checks
  <2>3. /\ Good(batch, Behind(batch, k + 1), e)
        /\ Tells(batch, Behind(batch, k + 1), e) \/ InPending(e)
    BY <2>1, <2>2 DEF QueuesOK, FullBatch
  <2>4. InPending(e) => InPending(e)'
    BY <1>1, <2>2 DEF PendingGrown
  <2> QED BY <1>7, <2>1, <2>2, <2>3, <2>4
<1>15. /\ \A k : SaidBatch(k) => SaidPending(0)' \/ SaysBehind(batch, k, status.v)
  BY <1>1 DEF SaidBatch, PendingGrown
<1>16. \A k : SaidBatch(k)' <=> SaidPending(0)' \/ SaysBehind(r, k, status.v)
  BY <1>1 DEF SaidBatch
<1>17. SaidQueues'
  <2>1. ASSUME NEW i \in DOMAIN r, Stale(r[i], status.v)
        PROVE  SaidBatch(i)'
    <3>1. SaidBatch(i + 1)
      BY <1>3, <2>1 DEF QueuesOK, SaidQueues
    <3> QED BY <1>10, <1>15, <1>16, <3>1
  <2> QED BY <1>1, <2>1 DEF SaidQueues, PendingGrown
<1>18. \A x \in Nat : /\ PastN(x) => NAfter(x, f) /\ PastN(x)'
                      /\ PastV(x) => VAfter(x, f) /\ PastV(x)'
  <2> SUFFICES ASSUME NEW x \in Nat
               PROVE  /\ PastN(x) => NAfter(x, f) /\ PastN(x)'
                      /\ PastV(x) => VAfter(x, f) /\ PastV(x)'
    OBVIOUS
  <2>1. AboveN(x, batch) => NAfter(x, f) /\ AboveN(x, r)
    BY <1>3, <1>11 DEF AboveN
  <2>2. AboveV(x, batch) => VAfter(x, f) /\ AboveV(x, r)
    BY <1>3, <1>11 DEF AboveV
  <2>3. PastN(x) => NAfter(x, f) /\ PastN(x)'
    BY <1>1, <2>1 DEF PastN, PendingGrown
  <2>4. PastV(x) => VAfter(x, f) /\ PastV(x)'
    BY <1>1, <2>2 DEF PastV, PendingGrown
  <2> QED BY <2>3, <2>4
<1>19. \A x \in Nat : (x = f.to => PastN(x)') /\ (x = f.v => PastV(x)')
  <2>1. /\ f.to <= Sent /\ AboveN(f.to, r) /\ AboveN(f.to, pending')
        /\ f.v <= status.v /\ AboveV(f.v, r) /\ AboveV(f.v, pending')
    BY <1>3, <1>4, <1>5, <1>6
  <2> QED BY <1>1, <2>1 DEF PastN, PastV
<1>20. \A e \in Nat : e <= Sent /\ InBatch(e) => ~Skips(f, e) /\ (Covers(f, e) \/ InBatch(e)')
  <2> SUFFICES ASSUME NEW e \in Nat, e <= Sent, InBatch(e)
               PROVE  ~Skips(f, e) /\ (Covers(f, e) \/ InBatch(e)')
    OBVIOUS
  <2>1. InPending(e) => InPending(e)'
    BY <1>1 DEF PendingGrown
  <2>2. InBatch(e)' <=> Good(r, DOMAIN r, e) /\ (Tells(r, DOMAIN r, e) \/ InPending(e)')
    BY <1>1 DEF InBatch
  <2> QED BY <1>9, <1>11, <2>1, <2>2
<1>21. f.kind = "checkpoint" => \A e \in f.to + 1 .. Sent : InBatch(e)'
  <2> SUFFICES ASSUME f.kind = "checkpoint", NEW e \in f.to + 1 .. Sent
               PROVE  InBatch(e)'
    OBVIOUS
  <2>1. 1 \in Checks(batch) /\ batch[1].to = f.to
    BY <1>3, <1>5 DEF Checks
  <2>2. e \in Nat /\ e <= Sent /\ e \in batch[1].to + 1 .. Sent
    BY <1>1, <1>3, <1>6, <2>1
  <2>3. /\ Good(batch, Behind(batch, 1), e)
        /\ Tells(batch, Behind(batch, 1), e) \/ InPending(e)
    BY <2>1, <2>2 DEF QueuesOK, FullBatch
  <2>4. InPending(e) => InPending(e)'
    BY <1>1, <2>2 DEF PendingGrown
  <2>5. InBatch(e)' <=> Good(r, DOMAIN r, e) /\ (Tells(r, DOMAIN r, e) \/ InPending(e)')
    BY <1>1 DEF InBatch
  <2> QED BY <1>8, <2>2, <2>3, <2>4, <2>5
<1>22. SaidBatch(0) => Says(f, status.v) \/ SaidBatch(0)'
  BY <1>10, <1>11, <1>15, <1>16
<1>23. Stale(f, status.v) => SaidBatch(0)'
  <2>1. Stale(f, status.v) => SaidBatch(1)
    BY <1>3, <1>11 DEF QueuesOK, SaidQueues
  <2> QED BY <1>10, <1>15, <1>16, <2>1
<1>24. Taken(f)
  BY <1>1, <1>4, <1>5, <1>18, <1>19, <1>20, <1>21, <1>22, <1>23 DEF Taken
<1> QED BY <1>1, <1>12, <1>13, <1>14, <1>17, <1>24 DEF QueuesOK, PendingGrown, f, g
-----------------------------------------------------------------------------
(***************************************************************************)
(* The frame taken is kept for those who join.                             *)
(***************************************************************************)
LEMMA PickedFacts ==
  ASSUME NEW q \in Seq(Frame), NEW r \in Seq(Frame), NEW h, Picked(q, r, h),
         NEW n \in Nat, FineN(q, n), \A i \in DOMAIN q : q[i].kind # "checkpoint"
  PROVE  /\ FineN(r, n)
         /\ \A x : AboveN(x, q) => AboveN(x, r)
         /\ \A e \in Nat : e >= 1 =>
               /\ Good(q, DOMAIN q, e) => Good(r, DOMAIN r, e)
               /\ Tells(q, DOMAIN q, e) => Tells(r, DOMAIN r, e)
<1>1. /\ \A j \in DOMAIN r : h[j] \in DOMAIN q /\ r[j] = q[h[j]]
      /\ \A i, j \in DOMAIN r : i < j => h[i] < h[j]
      /\ \A i \in DOMAIN q : IsState(q[i]) \/ \E j \in DOMAIN r : h[j] = i
  BY DEF Picked
<1>2. FineN(r, n)
  <2>1. \A j \in DOMAIN r : WellFrame(r[j]) /\ r[j].to <= n
    BY <1>1 DEF FineN
  <2>2. \A i, j \in DOMAIN q : i < j => NAfter(q[i].to, q[j])
    BY DEF FineN
  <2>3. ASSUME NEW i \in DOMAIN r, NEW j \in DOMAIN r, i < j
        PROVE  NAfter(r[i].to, r[j])
    <3>1. h[i] \in DOMAIN q /\ h[j] \in DOMAIN q /\ h[i] < h[j]
      BY <1>1, <2>3
    <3>2. NAfter(q[h[i]].to, q[h[j]])
      BY <2>2, <3>1
    <3> QED BY <1>1, <3>2
  <2> QED BY <2>1, <2>3 DEF FineN
<1>3. \A x : AboveN(x, q) => AboveN(x, r)
  BY <1>1 DEF AboveN
<1>4. ASSUME NEW e \in Nat, e >= 1, NEW i \in DOMAIN q, Covers(q[i], e)
      PROVE  \E j \in DOMAIN r : h[j] = i
  <2>1. CASE q[i].kind = "gap"
    BY <1>1, <2>1 DEF IsState
  <2>2. CASE q[i].kind # "gap"
    <3>1. e <= q[i].to
      BY <1>4, <2>2 DEF Covers
    <3>2. q[i].to \in Nat /\ (q[i].kind \notin {"event", "checkpoint"} => q[i].to = 0)
      BY Places, Fields DEF FineN, WellFrame
    <3>3. ~IsState(q[i])
      BY <1>4, <3>1, <3>2 DEF IsState
    <3> QED BY <1>1, <3>3
  <2> QED BY <2>1, <2>2
<1>5. ASSUME NEW e \in Nat, e >= 1, Good(q, DOMAIN q, e)
      PROVE  Good(r, DOMAIN r, e)
  <2> SUFFICES ASSUME NEW j \in DOMAIN r, Skips(r[j], e)
               PROVE  \E i \in DOMAIN r : i < j /\ Covers(r[i], e)
    BY DEF Good
  <2>1. PICK i \in DOMAIN q : i < h[j] /\ Covers(q[i], e)
    BY <1>1, <1>5 DEF Good
  <2>2. PICK k \in DOMAIN r : h[k] = i
    BY <1>4, <1>5, <2>1
  <2>3. k \in Nat /\ j \in Nat /\ h[k] \in Nat /\ h[j] \in Nat
    BY <1>1, Places
  <2>4. k < j
    <3>1. ~(j < k) /\ j # k
      BY <1>1, <2>1, <2>2, <2>3
    <3> QED BY <2>3, <3>1
  <2> QED BY <1>1, <2>1, <2>2, <2>4
<1>6. ASSUME NEW e \in Nat, e >= 1, Tells(q, DOMAIN q, e)
      PROVE  Tells(r, DOMAIN r, e)
  <2>1. PICK i \in DOMAIN q : Covers(q[i], e)
    BY <1>6 DEF Tells
  <2>2. PICK k \in DOMAIN r : h[k] = i
    BY <1>4, <1>6, <2>1
  <2> QED BY <1>1, <2>1, <2>2 DEF Tells
<1> QED BY <1>2, <1>3, <1>5, <1>6

Opens(f) == f.kind = "checkpoint" \/ (IsState(f) /\ snapshot = None)

LEMMA RecordOpens ==
  ASSUME TypeOK, ServerOK, NEW f, Taken(f), Opens(f), sequence' = f.seq,
         snapshot' = f, replay' = <<>>, replayGap' = FALSE
  PROVE  ServerOK'
<1>1. /\ f \in Frame /\ WellFrame(f) /\ IsState(f) /\ sequence \in Nat /\ f.seq = sequence + 1
      /\ f.to \in Nat /\ f.v \in Nat /\ Sent' = Sent /\ status'.v = status.v
  BY Typed, Fields DEF Taken, Opens, IsState
<1>2. DOMAIN replay' = {}
  OBVIOUS
<1>3. Snapshotted' /\ Replayed'
  BY <1>1, <1>2 DEF Snapshotted, Replayed
<1>4. ServerN' /\ ServerV'
  <2>1. PastN(snapshot.to)' /\ PastV(snapshot.v)'
    BY <1>1 DEF Taken
  <2> QED BY <1>2, <2>1 DEF ServerN, ServerV, FineN, AboveN
<1>5. FullReplay'
  <2> SUFFICES ASSUME f.kind = "checkpoint", NEW e \in f.to + 1 .. Sent
               PROVE  InBatch(e)'
    BY <1>1, <1>2 DEF FullReplay, Based, Good
  <2> QED BY DEF Taken
<1>6. SaidServer'
  <2>1. f.v # status.v => SaidBatch(0)'
    BY <1>1 DEF Taken, Stale
  <2> QED BY <1>1, <1>2, <2>1 DEF SaidServer
<1> QED BY <1>3, <1>4, <1>5, <1>6 DEF ServerOK

LEMMA SnapshotFollows ==
  ASSUME TypeOK, ServerOK, NEW f, Taken(f), ~Opens(f), sequence' = f.seq,
         snapshot' = IF IsState(f) THEN Follow(f) ELSE snapshot
  PROVE  /\ snapshot' \in Frame /\ Snapshotted'
         /\ snapshot'.seq = snapshot.seq /\ snapshot'.kind = snapshot.kind
         /\ snapshot'.to = snapshot.to /\ snapshot'.from = snapshot.from
         /\ (Based' <=> Based)
         /\ PastN(snapshot.to)' /\ PastV(snapshot.v)'
         /\ IsState(f) => snapshot'.v = f.v
         /\ ~IsState(f) => snapshot' = snapshot
<1>1. /\ snapshot \in Frame /\ sequence \in Nat /\ snapshot.seq \in Nat /\ snapshot.to \in Nat
      /\ f \in Frame /\ f.seq = sequence + 1 /\ snapshot.v \in Nat /\ f.v \in Nat
  BY Typed, Fields DEF Taken
<1>2. PastN(snapshot.to) /\ PastV(snapshot.v) /\ Snapshotted
  BY DEF ServerOK, ServerN, ServerV
<1>3. /\ \A x \in Nat : (PastN(x) => PastN(x)') /\ (PastV(x) => PastV(x)')
      /\ \A x \in Nat : x = f.v => PastV(x)'
  BY DEF Taken
<1>4. CASE IsState(f)
  <2>1. snapshot # None /\ IsState(snapshot) /\ WellFrame(snapshot)
    BY <1>2, <1>4 DEF Opens, Snapshotted
  <2>2. /\ snapshot' \in Frame /\ snapshot'.seq = snapshot.seq /\ snapshot'.kind = snapshot.kind
        /\ snapshot'.to = snapshot.to /\ snapshot'.from = snapshot.from /\ snapshot'.v = f.v
        /\ WellFrame(snapshot') /\ IsState(snapshot')
    <3>1. snapshot' = Follow(f)
      BY <1>4
    <3>2. /\ Follow(f) \in Frame /\ Follow(f).seq = snapshot.seq
          /\ Follow(f).kind = snapshot.kind /\ Follow(f).to = snapshot.to
          /\ Follow(f).from = snapshot.from /\ Follow(f).v = f.v
          /\ WellFrame(Follow(f)) /\ IsState(Follow(f))
      BY <1>1, <2>1, Followed
    <3> QED BY <3>1, <3>2
  <2>3. Snapshotted'
    BY <1>1, <1>2, <2>1, <2>2 DEF Snapshotted
  <2>4. PastN(snapshot.to)' /\ PastV(snapshot.v)'
    BY <1>1, <1>2, <1>3, <2>2 DEF PastN, PastV
  <2> QED BY <1>4, <2>2, <2>3, <2>4 DEF Based
<1>5. CASE ~IsState(f)
  <2>1. snapshot' = snapshot
    BY <1>5
  <2>2. Snapshotted'
    BY <1>1, <1>2, <2>1 DEF Snapshotted
  <2>3. PastN(snapshot.to)' /\ PastV(snapshot.v)'
    BY <1>1, <1>2, <1>3, <2>1
  <2> QED BY <1>1, <1>5, <2>1, <2>2, <2>3 DEF Based
<1> QED BY <1>4, <1>5

LEMMA RecordOverflows ==
  ASSUME TypeOK, ServerOK, NEW f, Taken(f), ~Opens(f), sequence' = f.seq,
         snapshot' = IF IsState(f) THEN Follow(f) ELSE snapshot,
         replay' = <<>>, replayGap' = TRUE
  PROVE  ServerOK'
<1>1. Snapshotted' /\ PastN(snapshot.to)' /\ PastV(snapshot.v)'
  BY SnapshotFollows
<1>2. DOMAIN replay' = {}
  OBVIOUS
<1>3. Replayed' /\ ServerN' /\ ServerV' /\ FullReplay' /\ SaidServer'
  BY <1>1, <1>2 DEF Replayed, ServerN, ServerV, FullReplay, SaidServer, FineN, AboveN
<1> QED BY <1>1, <1>3 DEF ServerOK

LEMMA RecordAppends ==
  ASSUME TypeOK, ServerOK, NEW f, Taken(f), ~Opens(f), sequence' = f.seq,
         snapshot' = IF IsState(f) THEN Follow(f) ELSE snapshot,
         NEW r, r = IF IsState(f) THEN WithoutStates(replay) ELSE replay,
         replay' = Append(r, f), replayGap' = replayGap
  PROVE  ServerOK' /\ r \in Seq(Frame) /\ \E h : Picked(replay, r, h)
<1>1. /\ Snapshotted' /\ PastN(snapshot.to)' /\ PastV(snapshot.v)'
      /\ snapshot'.seq = snapshot.seq /\ snapshot'.to = snapshot.to
      /\ (Based' <=> Based)
      /\ IsState(f) => snapshot'.v = f.v
      /\ ~IsState(f) => snapshot' = snapshot
  BY SnapshotFollows
<1>2. /\ replay \in Seq(Frame) /\ sequence \in Nat /\ snapshot.to \in Nat /\ snapshot.seq \in Nat
      /\ f \in Frame /\ WellFrame(f) /\ f.seq = sequence + 1 /\ f.to <= Sent /\ Sent \in Nat
      /\ Sent' = Sent /\ status'.v = status.v /\ f.kind # "checkpoint"
  BY Typed DEF Taken, Opens
<1>3. /\ Snapshotted /\ Replayed /\ FineN(replay, Sent) /\ PastN(snapshot.to)
      /\ AboveN(snapshot.to, replay) /\ \A i \in DOMAIN replay : PastN(replay[i].to)
      /\ \A i \in DOMAIN replay : IsState(replay[i]) => replay[i].v = snapshot.v
      /\ \A i, j \in DOMAIN replay : IsState(replay[i]) /\ IsState(replay[j]) => i = j
  BY DEF ServerOK, ServerN, ServerV
<1>4. /\ r \in Seq(Frame) /\ \E h : Picked(replay, r, h)
      /\ IsState(f) => \A j \in DOMAIN r : ~IsState(r[j])
  <2>1. CASE IsState(f)
    <3>1. r = WithoutStates(replay)
      BY <2>1
    <3> QED BY <1>2, <1>3, <3>1, PickedStates
  <2>2. CASE ~IsState(f)
    BY <1>2, <2>2, PickedAll
  <2> QED BY <2>1, <2>2
<1>5. PICK h : Picked(replay, r, h)
  BY <1>4
<1>6. /\ \A j \in DOMAIN r : h[j] \in DOMAIN replay /\ r[j] = replay[h[j]]
      /\ \A i, j \in DOMAIN r : i < j => h[i] < h[j]
      /\ \A i \in DOMAIN replay : IsState(replay[i]) \/ \E j \in DOMAIN r : h[j] = i
  BY <1>5 DEF Picked
<1>7. /\ FineN(r, Sent) /\ AboveN(snapshot.to, r)
      /\ \A e \in Nat : e >= 1 =>
            /\ Good(replay, DOMAIN replay, e) => Good(r, DOMAIN r, e)
            /\ Tells(replay, DOMAIN replay, e) => Tells(r, DOMAIN r, e)
  <2>1. \A i \in DOMAIN replay : replay[i].kind # "checkpoint"
    BY <1>3 DEF Replayed
  <2> QED BY <1>2, <1>3, <1>4, <1>5, <2>1, PickedFacts
<1> DEFINE s == Append(r, f)
           l == Len(r) + 1
<1>8. /\ s \in Seq(Frame) /\ DOMAIN s = DOMAIN r \cup {l} /\ s[l] = f /\ l \in Nat
      /\ \A i \in DOMAIN r : s[i] = r[i] /\ i < l /\ i \in Nat
  BY <1>2, <1>4, Appended, Places
<1> HIDE DEF s, l
<1>9. replay' = s
  BY DEF s
<1>10. /\ \A x \in Nat : PastN(x) => NAfter(x, f) /\ PastN(x)'
       /\ \A x \in Nat : x = f.to => PastN(x)'
  BY DEF Taken
<1>11. \A i \in DOMAIN r : r[i].to \in Nat /\ r[i].seq \in Nat /\ PastN(r[i].to)
  <2>1. \A i \in DOMAIN r : r[i].to \in Nat /\ r[i].seq \in Nat
    BY <1>4, Places, Fields
  <2> QED BY <1>3, <1>6, <2>1
<1>12. Replayed'
  <2>1. \A i \in DOMAIN r : /\ r[i].kind # "checkpoint"
                            /\ snapshot.seq < r[i].seq /\ r[i].seq <= sequence
    BY <1>3, <1>6 DEF Replayed
  <2>2. \A i, j \in DOMAIN r : i < j => r[i].seq < r[j].seq
    BY <1>3, <1>6 DEF Replayed
  <2>3. snapshot.seq <= sequence
    BY <1>3 DEF Snapshotted
  <2>4. \A i \in DOMAIN s : /\ s[i].kind # "checkpoint"
                            /\ snapshot.seq < s[i].seq /\ s[i].seq <= sequence + 1
    BY <1>2, <1>8, <1>11, <2>1, <2>3
  <2>5. \A i, j \in DOMAIN s : i < j => s[i].seq < s[j].seq
    BY <1>2, <1>8, <1>11, <2>1, <2>2
  <2> QED BY <1>1, <1>2, <1>9, <2>4, <2>5 DEF Replayed
<1>13. ServerN'
  <2>1. FineN(s, Sent)
    <3>1. \A i \in DOMAIN r : NAfter(r[i].to, f)
      BY <1>10, <1>11
    <3>2. Sent <= Sent
      BY <1>2
    <3>3. FineN(Append(r, f), Sent)
      BY <1>2, <1>4, <1>7, <3>1, <3>2, FineAppendN
    <3> QED BY <3>3 DEF s
  <2>2. AboveN(snapshot.to, s)
    BY <1>2, <1>3, <1>7, <1>8, <1>10 DEF AboveN
  <2>3. \A i \in DOMAIN s : PastN(s[i].to)'
    <3>1. \A i \in DOMAIN s : s[i].to \in Nat /\ (PastN(s[i].to) \/ s[i].to = f.to)
      BY <1>8, <1>11, Fields, Places
    <3>2. ASSUME NEW i \in DOMAIN s
          PROVE  \A x \in Nat : x = s[i].to => PastN(x)'
      BY <1>10, <3>1
    <3>3. \A i \in DOMAIN s : \A x \in Nat : x = s[i].to => PastN(x)'
      BY <3>2
    <3> QED BY <1>9, <3>1, <3>3 DEF PastN
  <2>4. \A i \in DOMAIN replay' : PastN(replay[i].to)'
    BY <1>9, <2>3 DEF PastN
  <2> QED BY <1>1, <1>2, <1>9, <2>1, <2>2, <2>4 DEF ServerN
<1>14. FullReplay'
  <2> SUFFICES ASSUME Based, ~replayGap, NEW e \in snapshot.to + 1 .. Sent
               PROVE  /\ Good(s, DOMAIN s, e)
                      /\ Tells(s, DOMAIN s, e) \/ InBatch(e)'
    BY <1>1, <1>2, <1>9 DEF FullReplay
  <2>1. e \in Nat /\ e >= 1 /\ e <= Sent
    BY <1>2
  <2>2. /\ Good(replay, DOMAIN replay, e)
        /\ Tells(replay, DOMAIN replay, e) \/ InBatch(e)
    BY DEF ServerOK, FullReplay
  <2>3. Good(r, DOMAIN r, e) /\ (Tells(r, DOMAIN r, e) \/ InBatch(e))
    BY <1>7, <2>1, <2>2
  <2>4. InBatch(e) => ~Skips(f, e) /\ (Covers(f, e) \/ InBatch(e)')
    BY <2>1 DEF Taken
  <2>5. DOMAIN r \in SUBSET (DOMAIN r)
    OBVIOUS
  <2>6. /\ Good(r, DOMAIN r, e) /\ (Tells(r, DOMAIN r, e) \/ ~Skips(f, e)) => Good(s, DOMAIN s, e)
        /\ Tells(r, DOMAIN r, e) => Tells(s, DOMAIN s, e)
        /\ Covers(f, e) => Tells(s, DOMAIN s, e)
    <3>1. LET places == DOMAIN r \cup {Len(r) + 1}
          IN  /\ Good(r, DOMAIN r, e) /\ (Tells(r, DOMAIN r, e) \/ ~Skips(f, e))
                     => Good(Append(r, f), places, e)
              /\ Tells(r, DOMAIN r, e) => Tells(Append(r, f), places, e)
              /\ Covers(f, e) => Tells(Append(r, f), places, e)
      BY <1>2, <1>4, <2>1, <2>5, GoodAppend
    <3>2. s = Append(r, f) /\ l = Len(r) + 1
      BY DEF s, l
    <3> QED BY <1>8, <3>1, <3>2
  <2> QED BY <2>3, <2>4, <2>6
<1>15. ServerV'
  <2>1. \A i \in DOMAIN s : IsState(s[i]) => s[i].v = snapshot'.v
    <3>1. CASE IsState(f)
      BY <1>1, <1>4, <1>8, <3>1
    <3>2. CASE ~IsState(f)
      BY <1>1, <1>3, <1>6, <1>8, <3>2
    <3> QED BY <3>1, <3>2
  <2>2. \A i, j \in DOMAIN s : IsState(s[i]) /\ IsState(s[j]) => i = j
    <3>1. CASE IsState(f)
      BY <1>4, <1>8, <3>1
    <3>2. CASE ~IsState(f)
      <4>1. r = replay
        BY <3>2
      <4> QED BY <1>3, <1>8, <3>2, <4>1
    <3> QED BY <3>1, <3>2
  <2> QED BY <1>1, <1>9, <2>1, <2>2 DEF ServerV
<1>16. /\ SaidBatch(0) => Says(f, status.v) \/ SaidBatch(0)'
       /\ Stale(f, status.v) => SaidBatch(0)'
  BY DEF Taken
<1>17. SaidServer'
  <2>1. CASE IsState(f)
    <3>1. snapshot'.v # status.v => SaidBatch(0)'
      BY <1>1, <1>16, <2>1 DEF Stale
    <3>2. \A i \in DOMAIN s : Stale(s[i], status.v) => SaidBatch(0)'
      BY <1>4, <1>8, <1>16, <2>1 DEF Stale
    <3> QED BY <1>2, <1>9, <3>1, <3>2 DEF SaidServer
  <2>2. CASE ~IsState(f)
    <3>1. r = replay /\ snapshot' = snapshot
      BY <1>1, <2>2
    <3>2. Says(f, status.v) => f.kind = "gap"
      BY <2>2 DEF Says
    <3>3. snapshot.v # status.v =>
             SaidBatch(0)' \/ replayGap \/ \E i \in DOMAIN s : s[i].kind = "gap"
      <4>1. snapshot.v # status.v =>
               SaidBatch(0) \/ replayGap \/ \E i \in DOMAIN replay : replay[i].kind = "gap"
        BY DEF ServerOK, SaidServer
      <4> QED BY <1>8, <1>16, <3>1, <3>2, <4>1
    <3>4. ASSUME NEW i \in DOMAIN s, Stale(s[i], status.v)
          PROVE  SaidBatch(0)' \/ SaysBehind(s, i, status.v)
      <4>1. i \in DOMAIN replay /\ s[i] = replay[i]
        BY <1>8, <2>2, <3>1, <3>4 DEF Stale
      <4>2. SaidBatch(0) \/ SaysBehind(replay, i, status.v)
        BY <3>4, <4>1 DEF ServerOK, SaidServer
      <4>3. SaysBehind(replay, i, status.v) => SaysBehind(s, i, status.v)
        BY <1>8, <3>1 DEF SaysBehind
      <4>4. Says(f, status.v) => SaysBehind(s, i, status.v)
        BY <1>8, <3>1, <4>1 DEF SaysBehind
      <4> QED BY <1>16, <4>2, <4>3, <4>4
    <3> QED BY <1>2, <1>9, <3>1, <3>3, <3>4 DEF SaidServer
  <2> QED BY <2>1, <2>2
<1> QED BY <1>1, <1>4, <1>12, <1>13, <1>14, <1>15, <1>17 DEF ServerOK
-----------------------------------------------------------------------------
(***************************************************************************)
(* The frame taken is sent to everyone.                                    *)
(***************************************************************************)
\* What the clients see of what is kept for those who join.
Recorded(f) ==
    /\ sequence' = f.seq
    /\ \/ /\ Opens(f) /\ snapshot' = f /\ DOMAIN replay' = {}
       \/ /\ ~Opens(f) /\ (Based' <=> Based)
          /\ snapshot'.seq = snapshot.seq /\ snapshot'.kind = snapshot.kind
          /\ snapshot'.to = snapshot.to /\ snapshot'.from = snapshot.from
          /\ \A i \in DOMAIN replay' :
                replay'[i] = f \/ \E k \in DOMAIN replay : replay'[i] = replay[k]

LEMMA RecordedBase ==
  ASSUME NEW f, Recorded(f), Based
  PROVE  Based'
<1>1. CASE Opens(f) /\ snapshot' = f
  <2>1. snapshot # None
    BY GapFrame DEF Based
  <2> QED BY <1>1, <2>1 DEF Opens, Based
<1>2. CASE Based' <=> Based
  BY <1>2
<1> QED BY <1>1, <1>2 DEF Recorded

LEMMA RecordedView ==
  ASSUME TypeOK, NEW c \in Client, NEW f, Taken(f), Recorded(f), view' = view,
         SequencedClient(c), ClientN(c)
  PROVE  Up(view[c])' /\ Ahead(view[c])'
<1>1. /\ view[c].seq \in Nat /\ view[c].n \in Nat /\ sequence \in Nat /\ f.seq = sequence + 1
      /\ view[c].seq <= sequence /\ NAfter(view[c].n, f)
  BY Typed, TypedClient DEF SequencedClient, ClientN, Taken
<1>2. /\ f.seq > view[c].seq /\ ~(f.seq <= view[c].seq) /\ Up(view[c]) /\ Ahead(view[c])
  BY <1>1 DEF ClientN
<1>3. CASE Opens(f) /\ snapshot' = f /\ DOMAIN replay' = {}
  BY <1>1, <1>2, <1>3 DEF Up, Ahead
<1>4. CASE /\ snapshot'.seq = snapshot.seq /\ snapshot'.kind = snapshot.kind
           /\ snapshot'.to = snapshot.to /\ snapshot'.from = snapshot.from
           /\ \A i \in DOMAIN replay' :
                 replay'[i] = f \/ \E k \in DOMAIN replay : replay'[i] = replay[k]
  <2>1. Up(view[c])'
    <3>1. Sound(view[c]) =>
             \A i \in DOMAIN replay' : replay'[i].seq <= view[c].seq =>
                replay'[i].kind # "gap" /\ replay'[i].to <= view[c].n
      BY <1>2, <1>4 DEF Up
    <3>2. Sound(view[c]) => (snapshot'.seq <= view[c].seq => snapshot'.to <= view[c].n)
      BY <1>2, <1>4 DEF Up
    <3> QED BY <3>1, <3>2 DEF Up
  <2>2. Ahead(view[c])'
    <3>1. \A i \in DOMAIN replay' : replay'[i].seq > view[c].seq => NAfter(view[c].n, replay'[i])
      BY <1>1, <1>2, <1>4 DEF Ahead
    <3>2. snapshot'.seq > view[c].seq => NAfter(view[c].n, snapshot')
      <4>1. snapshot'.seq > view[c].seq => NAfter(view[c].n, snapshot)
        BY <1>2, <1>4 DEF Ahead
      <4>2. NAfter(view[c].n, snapshot) => NAfter(view[c].n, snapshot')
        BY <1>4 DEF NAfter
      <4> QED BY <4>1, <4>2
    <3> QED BY <3>1, <3>2 DEF Ahead
  <2> QED BY <2>1, <2>2
<1> QED BY <1>3, <1>4 DEF Recorded

\* A client that is away.
LEMMA SendAway ==
  ASSUME TypeOK, NEW c \in Client, NEW f, Taken(f), Recorded(f), ClientOK(c),
         ~view[c].on, out'[c] = out[c], view' = view
  PROVE  ClientOK(c)'
<1>1. /\ view[c].seq \in Nat /\ view[c].n \in Nat /\ view[c].v \in Nat /\ sequence \in Nat
      /\ f.seq = sequence + 1 /\ view[c].seq <= sequence
  BY Typed, TypedClient DEF ClientOK, SequencedClient, Taken
<1>2. out'[c] = <<>> /\ DOMAIN out'[c] = {} /\ ~view'[c].on /\ view'[c] = view[c]
  BY DEF ClientOK, SequencedClient, Parted
<1>3. SequencedClient(c)'
  <2>1. view'[c].seq <= sequence' /\ (view'[c].based => Based')
    BY <1>1, <1>2, RecordedBase DEF Recorded, ClientOK, SequencedClient
  <2>2. Lined(c)' /\ Holds(c)' /\ Parted(c)'
    BY <1>2 DEF ClientOK, SequencedClient, Lined, Holds, Parted
  <2> QED BY <2>1, <2>2 DEF SequencedClient
<1>4. ClientN(c)'
  <2>1. PastN(view[c].n)'
    BY <1>1 DEF ClientOK, ClientN, Taken
  <2>2. Up(view[c])' /\ Ahead(view[c])'
    BY RecordedView DEF ClientOK
  <2>3. FineN(out'[c], Sent')
    BY <1>2 DEF FineN
  <2>4. ~view[c].twice /\ (view[c].based /\ view[c].missed => view[c].told)
    BY DEF ClientOK, ClientN
  <2> QED BY <1>2, <2>1, <2>2, <2>3, <2>4 DEF ClientN, Live
<1>5. ClientV(c)'
  <2>1. PastV(view[c].v)'
    BY <1>1 DEF ClientOK, ClientV, Taken
  <2>2. FineV(out'[c], status'.v)
    BY <1>2 DEF FineV
  <2> QED BY <1>2, <2>1, <2>2 DEF ClientOK, ClientV, Live
<1>6. FullOut(c)' /\ FullView(c)' /\ SaidClient(c)'
  BY <1>2 DEF FullOut, FullView, SaidClient, Checks
<1> QED BY <1>3, <1>4, <1>5, <1>6 DEF ClientOK

\* A client that is connected: f is behind its lines.
LEMMA SendOn ==
  ASSUME TypeOK, ServerOK, NEW c \in Client, NEW f, Taken(f), Recorded(f), ClientOK(c),
         view[c].on, out'[c] = Append(out[c], f), view' = view
  PROVE  ClientOK(c)'
<1> DEFINE q == out[c]
           r == Append(q, f)
           l == Len(q) + 1
           w == view[c]
<1>1. /\ w.seq \in Nat /\ w.n \in Nat /\ w.v \in Nat /\ sequence \in Nat
      /\ f.seq = sequence + 1 /\ w.seq <= sequence /\ f \in Frame /\ WellFrame(f)
      /\ Sent \in Nat /\ Sent' = Sent /\ status.v \in Nat /\ status'.v = status.v
      /\ f.to \in Nat /\ f.to <= Sent /\ f.v \in Nat /\ f.v <= status.v
      /\ sequence' = sequence + 1
  BY Typed, TypedClient, Fields DEF ClientOK, SequencedClient, Taken, Recorded
<1>2. q \in Seq(Frame)
  BY TypedClient
<1>3. /\ r \in Seq(Frame) /\ DOMAIN r = DOMAIN q \cup {l} /\ r[l] = f /\ l \in Nat
      /\ \A i \in DOMAIN q : r[i] = q[i] /\ i < l /\ i \in Nat
  BY <1>1, <1>2, Appended, Places
<1>4. \A k \in DOMAIN q : /\ q[k].seq \in Nat /\ q[k].to \in Nat /\ q[k].v \in Nat
                          /\ q[k].seq <= sequence
                          /\ q[k].seq = 0 => q[k].kind = "gap"
                          /\ q[k].kind = "checkpoint" => q[k].seq <= snapshot.seq /\ Based
  BY <1>2, Places, Fields DEF ClientOK, SequencedClient, Lined
<1>5. \A j, k \in DOMAIN q : j < k => q[k].seq = 0 \/ q[j].seq < q[k].seq
  BY DEF ClientOK, SequencedClient, Lined
<1>6. /\ FineN(q, Sent) /\ FineV(q, status.v)
      /\ \A k \in DOMAIN q : PastN(q[k].to) /\ PastV(q[k].v)
      /\ PastN(w.n) /\ PastV(w.v)
      /\ \A k \in Live(w, q) : NAfter(w.n, q[k]) /\ VAfter(w.v, q[k])
      /\ ~w.twice /\ (w.based /\ w.missed => w.told)
  BY DEF ClientOK, ClientN, ClientV
<1>7. view'[c] = w
  OBVIOUS
<1>8. w.based => Based'
  BY RecordedBase DEF ClientOK, SequencedClient
<1>9. snapshot.seq \in Nat /\ snapshot.seq <= sequence
  BY Typed DEF ServerOK, Snapshotted
<1>10. /\ \A x \in Nat : PastN(x) => NAfter(x, f) /\ PastN(x)'
       /\ \A x \in Nat : PastV(x) => VAfter(x, f) /\ PastV(x)'
       /\ \A x \in Nat : (x = f.to => PastN(x)') /\ (x = f.v => PastV(x)')
  BY DEF Taken
<1>11. Up(w)' /\ Ahead(w)'
  BY RecordedView DEF ClientOK
<1>12. Lined(c)'
  <2>1. \A k \in DOMAIN r : /\ r[k].seq <= sequence + 1
                            /\ r[k].seq = 0 => r[k].kind = "gap"
    BY <1>1, <1>3, <1>4
  <2>2. \A k \in DOMAIN r : r[k].kind = "checkpoint" => r[k].seq <= snapshot'.seq /\ Based'
    <3>1. CASE Opens(f) /\ snapshot' = f
      <4>1. \A k \in DOMAIN q : q[k].kind = "checkpoint" => q[k].seq <= f.seq /\ Based'
        BY <1>1, <1>4, RecordedBase
      <4>2. f.kind = "checkpoint" => f.seq <= f.seq /\ Based'
        BY <1>1, <3>1 DEF Based
      <4> QED BY <1>3, <3>1, <4>1, <4>2
    <3>2. CASE ~Opens(f) /\ snapshot'.seq = snapshot.seq
      <4>1. f.kind # "checkpoint"
        BY <3>2 DEF Opens
      <4> QED BY <1>3, <1>4, <3>2, <4>1, RecordedBase
    <3> QED BY <3>1, <3>2 DEF Recorded
  <2>3. ASSUME NEW j \in DOMAIN r, NEW k \in DOMAIN r, j < k
        PROVE  r[k].seq = 0 \/ r[j].seq < r[k].seq
    <3>1. j \in DOMAIN q /\ r[j] = q[j]
      BY <1>3, <2>3
    <3>2. CASE k \in DOMAIN q
      BY <1>3, <1>5, <2>3, <3>1, <3>2
    <3>3. CASE k = l
      <4>1. q[j].seq \in Nat /\ q[j].seq <= sequence /\ r[k].seq = sequence + 1
        BY <1>1, <1>3, <1>4, <3>1, <3>3
      <4> QED BY <1>1, <3>1, <4>1
    <3> QED BY <1>3, <3>2, <3>3
  <2> HIDE DEF r
  <2> QED BY <1>1, <2>1, <2>2, <2>3 DEF Lined, r
<1>13. Holds(c)'
  <2>1. CASE Opens(f) /\ snapshot' = f /\ DOMAIN replay' = {}
    BY <1>3, <2>1 DEF Holds
  <2>2. CASE /\ snapshot'.seq = snapshot.seq /\ snapshot'.kind = snapshot.kind
             /\ snapshot'.to = snapshot.to
             /\ \A i \in DOMAIN replay' :
                   replay'[i] = f \/ \E k \in DOMAIN replay : replay'[i] = replay[k]
    <3>1. snapshot.seq > w.seq => \E k \in DOMAIN r : /\ r[k].seq = snapshot.seq
                                                      /\ r[k].kind = snapshot.kind
                                                      /\ r[k].to = snapshot.to
      BY <1>3 DEF ClientOK, SequencedClient, Holds
    <3>2. ASSUME NEW i \in DOMAIN replay', replay'[i].seq > w.seq
          PROVE  \E k \in DOMAIN r : r[k] = replay'[i]
      <4>1. CASE replay'[i] = f
        BY <1>3, <4>1
      <4>2. CASE \E k \in DOMAIN replay : replay'[i] = replay[k]
        BY <1>3, <3>2, <4>2 DEF ClientOK, SequencedClient, Holds
      <4> QED BY <2>2, <4>1, <4>2
    <3> HIDE DEF r
    <3> QED BY <2>2, <3>1, <3>2 DEF Holds, r
  <2> QED BY <2>1, <2>2 DEF Recorded
<1>14. SequencedClient(c)'
  <2>1. w.seq <= sequence + 1
    BY <1>1
  <2> QED BY <1>1, <1>8, <1>12, <1>13, <2>1 DEF SequencedClient, Parted
<1>15. Live(w, r) = Live(w, q) \cup {l}
  BY <1>1, <1>3 DEF Live, Had
<1>16. ClientN(c)'
  <2>1. FineN(r, Sent)
    <3>1. \A i \in DOMAIN q : NAfter(q[i].to, f)
      BY <1>4, <1>6, <1>10
    <3>2. Sent <= Sent
      BY <1>1
    <3> QED BY <1>1, <1>2, <1>6, <3>1, <3>2, FineAppendN
  <2>2. \A k \in DOMAIN r : \A x \in Nat : x = r[k].to => PastN(x)'
    BY <1>3, <1>4, <1>6, <1>10
  <2>3. \A k \in DOMAIN r : r[k].to \in Nat
    BY <1>1, <1>3, <1>4
  <2>4. \A k \in Live(w, r) : NAfter(w.n, r[k])
    BY <1>1, <1>3, <1>6, <1>10, <1>15 DEF Live
  <2>5. PastN(w.n)'
    BY <1>1, <1>6, <1>10
  <2> HIDE DEF r
  <2>6. \A k \in DOMAIN out'[c] : PastN(out[c][k].to)'
    BY <2>2, <2>3 DEF PastN, r
  <2> QED BY <1>1, <1>6, <1>11, <2>1, <2>4, <2>5, <2>6 DEF ClientN, r
<1>17. ClientV(c)'
  <2>1. FineV(r, status.v)
    <3>1. \A i \in DOMAIN q : VAfter(q[i].v, f)
      BY <1>4, <1>6, <1>10
    <3>2. status.v <= status.v
      BY <1>1
    <3> QED BY <1>1, <1>2, <1>6, <3>1, <3>2, FineAppendV
  <2>2. \A k \in DOMAIN r : \A x \in Nat : x = r[k].v => PastV(x)'
    BY <1>3, <1>4, <1>6, <1>10
  <2>3. \A k \in DOMAIN r : r[k].v \in Nat
    BY <1>1, <1>3, <1>4
  <2>4. \A k \in Live(w, r) : VAfter(w.v, r[k])
    BY <1>1, <1>3, <1>6, <1>10, <1>15 DEF Live
  <2>5. PastV(w.v)'
    BY <1>1, <1>6, <1>10
  <2> HIDE DEF r
  <2>6. \A k \in DOMAIN out'[c] : PastV(out[c][k].v)'
    BY <2>2, <2>3 DEF PastV, r
  <2> QED BY <1>1, <2>1, <2>4, <2>5, <2>6 DEF ClientV, r
<1>18. ASSUME NEW at \in SUBSET (DOMAIN q), NEW e \in Nat, e <= Sent, Good(q, at, e),
              Tells(q, at, e) \/ InBatch(e)
       PROVE  /\ Good(r, at \cup {l}, e)
              /\ Tells(r, at \cup {l}, e) \/ InBatch(e)'
  <2>1. InBatch(e) => ~Skips(f, e) /\ (Covers(f, e) \/ InBatch(e)')
    BY <1>18 DEF Taken
  <2>2. /\ Good(q, at, e) /\ (Tells(q, at, e) \/ ~Skips(f, e)) => Good(r, at \cup {l}, e)
        /\ Tells(q, at, e) => Tells(r, at \cup {l}, e)
        /\ Covers(f, e) => Tells(r, at \cup {l}, e)
    BY <1>1, <1>2, <1>18, GoodAppend
  <2> QED BY <1>18, <2>1, <2>2
<1> HIDE DEF r, l
<1>19. FullOut(c)'
  <2> SUFFICES ASSUME NEW k \in Checks(r), NEW e \in r[k].to + 1 .. Sent
               PROVE  /\ Good(r, Behind(r, k), e)
                      /\ Tells(r, Behind(r, k), e) \/ InBatch(e)'
    BY <1>1 DEF FullOut, r
  <2>1. CASE k \in DOMAIN q
    <3>1. k \in Checks(q) /\ r[k] = q[k]
      BY <1>3, <2>1 DEF Checks
    <3>4. q[k].to \in Nat /\ Sent \in Nat
      BY <1>1, <1>4, <2>1
    <3>5. e \in Nat /\ e <= Sent
      BY <3>1, <3>4
    <3>2. /\ Behind(r, k) = Behind(q, k) \cup {l} /\ Behind(q, k) \in SUBSET (DOMAIN q)
      BY <1>3, <2>1 DEF Behind
    <3>3. /\ Good(q, Behind(q, k), e)
          /\ Tells(q, Behind(q, k), e) \/ InBatch(e)
      BY <3>1 DEF ClientOK, FullOut
    <3> QED BY <1>18, <3>2, <3>3, <3>5
  <2>2. CASE k = l
    <3>1. f.kind = "checkpoint" /\ e \in f.to + 1 .. Sent
      BY <1>3, <2>2 DEF Checks
    <3>2. Behind(r, k) = {}
      BY <1>3, <2>2 DEF Behind
    <3>3. InBatch(e)'
      BY <3>1 DEF Taken
    <3> QED BY <3>2, <3>3 DEF Good
  <2> QED BY <1>3, <2>1, <2>2 DEF Checks
<1>20. FullView(c)'
  <2> SUFFICES ASSUME Sound(w), NEW e \in w.n + 1 .. Sent
               PROVE  /\ Good(r, Live(w, r), e)
                      /\ Tells(r, Live(w, r), e) \/ InBatch(e)'
    BY <1>1 DEF FullView, r
  <2>1. /\ Good(q, Live(w, q), e)
        /\ Tells(q, Live(w, q), e) \/ InBatch(e)
    BY DEF ClientOK, FullView
  <2>2. e \in Nat /\ e <= Sent /\ Live(w, q) \in SUBSET (DOMAIN q)
    BY <1>1 DEF Live
  <2> QED BY <1>15, <1>18, <2>1, <2>2
<1>21. /\ SaidBatch(0) => Says(f, status.v) \/ SaidBatch(0)'
       /\ Stale(f, status.v) => SaidBatch(0)'
  BY DEF Taken
<1>22. SaidClient(c)'
  <2>1. ASSUME NEW k \in DOMAIN r, Stale(r[k], status.v)
        PROVE  SaidBatch(0)' \/ SaysBehind(r, k, status.v)
    <3>1. CASE k \in DOMAIN q
      <4>1. SaidBatch(0) \/ SaysBehind(q, k, status.v)
        BY <1>3, <2>1, <3>1 DEF ClientOK, SaidClient
      <4>2. SaysBehind(q, k, status.v) => SaysBehind(r, k, status.v)
        BY <1>3 DEF SaysBehind
      <4>3. Says(f, status.v) => SaysBehind(r, k, status.v)
        BY <1>3, <3>1 DEF SaysBehind
      <4> QED BY <1>21, <4>1, <4>2, <4>3
    <3>2. CASE k = l
      BY <1>3, <1>21, <2>1, <3>2
    <3> QED BY <1>3, <3>1, <3>2
  <2>2. ASSUME ~w.kept, w.v # status.v
        PROVE  SaidBatch(0)' \/ \E k \in Live(w, r) : Says(r[k], status.v)
    <3>1. SaidBatch(0) \/ \E k \in Live(w, q) : Says(q[k], status.v)
      BY <2>2 DEF ClientOK, SaidClient
    <3>2. \A k \in Live(w, q) : r[k] = q[k]
      BY <1>3 DEF Live
    <3> QED BY <1>3, <1>15, <1>21, <3>1, <3>2
  <2> QED BY <1>1, <2>1, <2>2 DEF SaidClient, r
<1> QED BY <1>14, <1>16, <1>17, <1>19, <1>20, <1>22 DEF ClientOK

LEMMA HandleKeeps ==
  ASSUME IInv, Handle
  PROVE  IInv'
<1> DEFINE f == [Head(batch) EXCEPT !.seq = sequence + 1]
           kept == IF IsState(f) THEN WithoutStates(replay) ELSE replay
<1>1. TypeOK /\ Pushing /\ QueuesOK /\ ServerOK /\ \A c \in Client : ClientOK(c)
  BY DEF IInv
<1>2. /\ sequence' = f.seq /\ batch # <<>> /\ batch' = Tail(batch)
      /\ out' = [c \in Client |-> IF view[c].on THEN Append(out[c], f) ELSE out[c]]
      /\ UNCHANGED <<producer, asks, view, joins>>
  BY DEF Handle
<1>3. \/ /\ Opens(f) /\ snapshot' = f /\ replay' = <<>> /\ replayGap' = FALSE
         /\ pending' = pending
      \/ /\ ~Opens(f) /\ snapshot' = (IF IsState(f) THEN Follow(f) ELSE snapshot)
         /\ replay' = <<>> /\ replayGap' = TRUE
         /\ pending' = Publish(pending, StateFrame(status))
      \/ /\ ~Opens(f) /\ snapshot' = (IF IsState(f) THEN Follow(f) ELSE snapshot)
         /\ ~(Sized(kept) + Sized(<<f>>) > Limit)
         /\ replay' = Append(kept, f) /\ replayGap' = replayGap
         /\ pending' = pending
  BY DEF Handle, Overflow, Opens
<1>4. Taking
  BY <1>2, <1>3 DEF Taking
<1>5. QueuesOK' /\ Taken(f)
  BY <1>1, <1>4, TakingBatch
<1>6. /\ pending' \in Seq(Frame) /\ Sized(pending') <= Limit
  BY <1>1, <1>4, TakingPending
<1>7. f \in Frame /\ f.seq = sequence + 1 /\ sequence + 1 \in Nat
  BY <1>1, <1>5, Typed DEF Taken
<1> HIDE DEF f, kept
<1>8. /\ ServerOK' /\ Recorded(f) /\ snapshot' \in Frame /\ replay' \in Seq(Frame)
      /\ Sized(replay') <= Limit /\ replayGap' \in BOOLEAN
  <2>1. Sized(<<>>) <= Limit /\ <<>> \in Seq(Frame) /\ DOMAIN <<>> = {}
    <3>1. {i \in DOMAIN <<>> : <<>>[i].kind # "gap"} = {}
      OBVIOUS
    <3>2. Sized(<<>>) = 0
      BY <3>1, FS_EmptySet DEF Sized
    <3> QED BY <3>2, Bounds
  <2>2. CASE /\ Opens(f) /\ snapshot' = f /\ replay' = <<>> /\ replayGap' = FALSE
    <3>1. ServerOK'
      BY <1>1, <1>2, <1>5, <2>2, RecordOpens
    <3>2. Recorded(f)
      BY <1>2, <2>1, <2>2 DEF Recorded
    <3> QED BY <1>7, <2>1, <2>2, <3>1, <3>2
  <2>3. CASE ~Opens(f) /\ snapshot' = (IF IsState(f) THEN Follow(f) ELSE snapshot)
    <3>1. /\ snapshot' \in Frame /\ (Based' <=> Based)
          /\ snapshot'.seq = snapshot.seq /\ snapshot'.kind = snapshot.kind
          /\ snapshot'.to = snapshot.to /\ snapshot'.from = snapshot.from
      BY <1>1, <1>2, <1>5, <2>3, SnapshotFollows
    <3>2. CASE replay' = <<>> /\ replayGap' = TRUE
      <4>1. ServerOK'
        BY <1>1, <1>2, <1>5, <2>3, <3>2, RecordOverflows
      <4>2. Recorded(f)
        BY <1>2, <2>1, <2>3, <3>1, <3>2 DEF Recorded
      <4> QED BY <2>1, <3>1, <3>2, <4>1, <4>2
    <3>3. CASE /\ ~(Sized(kept) + Sized(<<f>>) > Limit)
               /\ replay' = Append(kept, f) /\ replayGap' = replayGap
      <4>1. ServerOK' /\ kept \in Seq(Frame) /\ \E h : Picked(replay, kept, h)
        BY <1>1, <1>2, <1>5, <2>3, <3>3, RecordAppends DEF kept
      <4>2. /\ DOMAIN replay' = DOMAIN kept \cup {Len(kept) + 1} /\ replay'[Len(kept) + 1] = f
            /\ \A i \in DOMAIN kept : replay'[i] = kept[i]
            /\ replay' \in Seq(Frame)
        BY <1>7, <3>3, <4>1, Appended
      <4>3. \A i \in DOMAIN kept : \E k \in DOMAIN replay : kept[i] = replay[k]
        BY <4>1 DEF Picked
      <4>4. \A i \in DOMAIN replay' :
               replay'[i] = f \/ \E k \in DOMAIN replay : replay'[i] = replay[k]
        BY <4>2, <4>3
      <4>5. Recorded(f)
        BY <1>2, <2>3, <3>1, <4>4 DEF Recorded
      <4>6. Sized(replay') <= Limit
        <5>1. /\ Sized(kept) \in Nat /\ Sized(<<f>>) \in Nat
              /\ Sized(replay') = Sized(kept) + Sized(<<f>>)
          BY <1>7, <3>3, <4>1, SizedAppend
        <5> QED BY <3>3, <5>1, Bounds
      <4> QED BY <1>1, <3>1, <3>3, <4>1, <4>2, <4>5, <4>6 DEF TypeOK
    <3> QED BY <1>3, <2>3, <3>2, <3>3
  <2> QED BY <1>3, <2>2, <2>3
<1>9. \A c \in Client : ClientOK(c)'
  <2> SUFFICES ASSUME NEW c \in Client
               PROVE  ClientOK(c)'
    OBVIOUS
  <2>1. view' = view
    BY <1>2
  <2>2. CASE view[c].on
    <3>1. out'[c] = Append(out[c], f)
      BY <1>2, <2>2
    <3> QED BY <1>1, <1>5, <1>8, <2>1, <2>2, <3>1, SendOn
  <2>3. CASE ~view[c].on
    <3>1. out'[c] = out[c]
      BY <1>2, <2>3
    <3> QED BY <1>1, <1>5, <1>8, <2>1, <2>3, <3>1, SendAway
  <2> QED BY <2>2, <2>3
<1>10. TypeOK'
  <2>1. batch' \in Seq(Frame)
    BY <1>1, <1>2, Typed, Cut
  <2>2. out' \in [Client -> Seq(Frame)]
    <3>1. \A c \in Client : out[c] \in Seq(Frame) /\ Append(out[c], f) \in Seq(Frame)
      BY <1>1, <1>7, TypedClient, Appended
    <3> QED BY <1>2, <3>1
  <2>3. UNCHANGED <<pushed, held, sentKeys, boundary, status, asks, view, joins>>
    BY <1>2 DEF producer
  <2> QED BY <1>1, <1>2, <1>6, <1>7, <1>8, <2>1, <2>2, <2>3 DEF TypeOK
<1>11. Pushing'
  BY <1>1, <1>2 DEF producer, Pushing
<1> QED BY <1>5, <1>8, <1>9, <1>10, <1>11 DEF IInv
-----------------------------------------------------------------------------
(***************************************************************************)
(* One client joins, is dropped or is written a line.                      *)
(***************************************************************************)
Quiet ==
    /\ UNCHANGED <<producer, server, pending, batch>>
    /\ asks' = asks \/ asks' = asks + 1

LEMMA QuietKeeps ==
  ASSUME TypeOK, Pushing, QueuesOK, ServerOK, Quiet
  PROVE  /\ Pushing' /\ QueuesOK' /\ ServerOK' /\ Onward
         /\ Sent' = Sent /\ Sent \in Nat /\ status'.v = status.v /\ asks' \in Nat
         /\ \A e \in Nat : InBatch(e)' <=> InBatch(e)
         /\ \A x \in Nat : (PastN(x)' <=> PastN(x)) /\ (PastV(x)' <=> PastV(x))
         /\ SaidBatch(0) => SaidBatch(0)'
         /\ asks' # asks => SaidBatch(0)'
<1>1. /\ pending' = pending /\ batch' = batch /\ pushed' = pushed /\ held' = held
      /\ boundary' = boundary /\ status' = status /\ asks \in Nat
      /\ Sent \in Nat /\ status.v \in Nat /\ UNCHANGED server
  BY Typed, PushFields DEF Quiet, producer
<1>2. Sent' = Sent
  BY <1>1 DEF Sent
<1>3. asks' \in Nat /\ (asks > 0 => asks' > 0) /\ (asks' # asks => asks' > 0)
  BY <1>1 DEF Quiet
<1>4. /\ \A k : SaidPending(k) => SaidPending(k)'
      /\ \A k : SaidBatch(k) => SaidBatch(k)'
  BY <1>1, <1>3 DEF SaidPending, SaidBatch
<1>5. Pushing'
  BY <1>1 DEF Pushing
<1>6. /\ \A e \in Nat : InBatch(e)' <=> InBatch(e)
      /\ \A x \in Nat : (PastN(x)' <=> PastN(x)) /\ (PastV(x)' <=> PastV(x))
  BY <1>1, <1>2 DEF InBatch, InPending, PastN, PastV
<1>7. QueuesN' /\ QueuesV' /\ FullPending' /\ FullBatch'
  BY <1>1, <1>2 DEF QueuesOK, QueuesN, QueuesV, FullPending, FullBatch, InPending
<1>8. SaidQueues'
  BY <1>1, <1>4 DEF QueuesOK, SaidQueues
<1>9. Onward
  <2>1. \A e \in Nat : ~(Sent < e /\ e <= Sent')
    BY <1>1, <1>2
  <2>2. Sent <= Sent' /\ status.v <= status'.v /\ status'.v = status.v
    BY <1>1, <1>2
  <2> QED BY <1>1, <1>2, <1>4, <1>6, <2>1, <2>2 DEF Onward
<1>10. ServerOK'
  BY <1>1, <1>9, OnwardServer
<1>11. asks' # asks => SaidBatch(0)'
  BY <1>3 DEF SaidBatch, SaidPending
<1> QED BY <1>1, <1>2, <1>3, <1>4, <1>5, <1>6, <1>7, <1>8, <1>9, <1>10, <1>11 DEF QueuesOK

ViewType == [on : BOOLEAN, n : 0..MaxEvents, v : 0..MaxStates, busy : BOOLEAN,
             told : BOOLEAN, missed : BOOLEAN, twice : BOOLEAN, seq : Nat,
             kept : BOOLEAN, based : BOOLEAN]

LEMMA FirstAfter ==
  ASSUME NEW f \in Frame, WellFrame(f) \/ f = None
  PROVE  NAfter(0, f) /\ VAfter(0, f)
<1>1. f.from \in Nat /\ f.to \in Nat /\ f.v \in Nat
  BY Fields
<1>2. CASE WellFrame(f)
  BY <1>1, <1>2 DEF WellFrame, NAfter, VAfter
<1>3. CASE f = None
  BY <1>1, <1>3, GapFrame DEF NAfter, VAfter
<1> QED BY <1>2, <1>3

LEMMA PastZero ==
  ASSUME TypeOK, Pushing, QueuesOK
  PROVE  PastN(0) /\ PastV(0)
<1>1. Sent \in Nat /\ status.v \in Nat /\ pending \in Seq(Frame) /\ batch \in Seq(Frame)
  BY Typed, PushFields
<1>2. ASSUME NEW q \in Seq(Frame), NEW n \in Nat, FineN(q, n)
      PROVE  AboveN(0, q) /\ AboveV(0, q)
  <2>1. \A i \in DOMAIN q : q[i] \in Frame /\ WellFrame(q[i])
    BY <1>2, Places DEF FineN
  <2> QED BY <2>1, FirstAfter DEF AboveN, AboveV
<1>3. FineN(pending, Sent) /\ FineN(batch, Sent)
  BY DEF QueuesOK, QueuesN
<1>4. AboveN(0, pending) /\ AboveV(0, pending) /\ AboveN(0, batch) /\ AboveV(0, batch)
  BY <1>1, <1>2, <1>3
<1> QED BY <1>1, <1>4 DEF PastN, PastV

\* Whoever is away, and knows nothing or what it knew.
LEMMA DropClient ==
  ASSUME TypeOK, Pushing, QueuesOK, ServerOK, NEW c \in Client, ClientOK(c), Quiet,
         NEW busy \in BOOLEAN, out'[c] = <<>>, view'[c] = Broken(view[c], busy)
  PROVE  ClientOK(c)'
<1> DEFINE w == view[c]
<1>1. /\ ServerOK' /\ Sent' = Sent /\ Sent \in Nat /\ status'.v = status.v
      /\ \A x \in Nat : (PastN(x)' <=> PastN(x)) /\ (PastV(x)' <=> PastV(x))
      /\ snapshot' = snapshot /\ replay' = replay /\ sequence' = sequence
  BY QuietKeeps DEF Quiet, server
<1>2. /\ w.n \in Nat /\ w.seq \in Nat /\ snapshot \in Frame /\ sequence \in Nat
      /\ snapshot.seq \in Nat /\ replay \in Seq(Frame)
  BY Typed, TypedClient
<1>3. \/ /\ view'[c].n = w.n /\ view'[c].seq = w.seq /\ view'[c].told = w.told
         /\ view'[c].based = w.based /\ view'[c].missed = w.missed
         /\ view'[c].twice = w.twice /\ view'[c].kept = TRUE
         /\ view'[c].on = FALSE /\ view'[c].v = 0
      \/ /\ view'[c].n = 0 /\ view'[c].seq = 0 /\ view'[c].based = FALSE
         /\ view'[c].twice = FALSE /\ view'[c].on = FALSE /\ view'[c].v = 0
  <2>1. w \in ViewType
    BY DEF TypeOK, ViewType
  <2>2. CASE w.busy
    <3>1. view'[c] = [w EXCEPT !.on = FALSE, !.v = 0, !.busy = busy, !.kept = TRUE]
      BY <2>2 DEF Broken
    <3> QED BY <2>1, <3>1 DEF ViewType
  <2>3. CASE ~w.busy
    <3>1. view'[c] = Unseen
      BY <2>3 DEF Broken
    <3>2. /\ Unseen.n = 0 /\ Unseen.seq = 0 /\ Unseen.based = FALSE
          /\ Unseen.twice = FALSE /\ Unseen.on = FALSE /\ Unseen.v = 0
      BY DEF Unseen
    <3> QED BY <3>1, <3>2
  <2> QED BY <2>2, <2>3
<1>4. DOMAIN out'[c] = {} /\ view'[c].on = FALSE /\ view'[c].v = 0
  BY <1>3
<1>5. PastN(0)' /\ PastV(0)'
  BY <1>1, PastZero DEF PastN, PastV
<1>6. /\ SequencedClient(c) /\ PastN(w.n) /\ Up(w) /\ Ahead(w)
      /\ ~w.twice /\ (w.based /\ w.missed => w.told)
  BY DEF ClientOK, ClientN
<1>7. SequencedClient(c)'
  <2>1. view'[c].seq <= sequence /\ (view'[c].based => Based)
    BY <1>2, <1>3, <1>6 DEF SequencedClient
  <2>2. Based' <=> Based
    BY <1>1 DEF Based
  <2>3. Lined(c)' /\ Holds(c)' /\ Parted(c)'
    BY <1>3, <1>4 DEF Lined, Holds, Parted
  <2> QED BY <1>1, <2>1, <2>2, <2>3 DEF SequencedClient
<1>8. Up(view[c])' /\ Ahead(view[c])'
  <2>1. CASE /\ view'[c].n = w.n /\ view'[c].seq = w.seq /\ view'[c].told = w.told
             /\ view'[c].based = w.based
    BY <1>1, <1>6, <2>1 DEF Up, Ahead, Sound
  <2>2. CASE view'[c].n = 0 /\ view'[c].seq = 0 /\ view'[c].based = FALSE
    <3>1. NAfter(0, snapshot)
      BY <1>2, FirstAfter DEF ServerOK, Snapshotted
    <3>2. \A i \in DOMAIN replay : replay[i] \in Frame /\ WellFrame(replay[i])
      BY <1>2, Places DEF ServerOK, ServerN, FineN
    <3>3. \A i \in DOMAIN replay : NAfter(0, replay[i])
      BY <3>2, FirstAfter
    <3> QED BY <1>1, <2>2, <3>1, <3>3 DEF Up, Ahead, Sound
  <2> QED BY <1>3, <2>1, <2>2
<1>9. PastN(view[c].n)'
  BY <1>1, <1>2, <1>3, <1>5, <1>6 DEF PastN
<1>10. ~view'[c].twice /\ (view'[c].based /\ view'[c].missed => view'[c].told)
  BY <1>3, <1>6
<1>11. ClientN(c)' /\ ClientV(c)'
  <2>1. FineN(out'[c], Sent') /\ FineV(out'[c], status'.v)
    BY <1>4 DEF FineN, FineV
  <2>2. PastV(view[c].v)'
    BY <1>4, <1>5 DEF PastV
  <2> QED BY <1>4, <1>8, <1>9, <1>10, <2>1, <2>2 DEF ClientN, ClientV, Live
<1>12. FullOut(c)' /\ FullView(c)' /\ SaidClient(c)'
  BY <1>4 DEF FullOut, FullView, SaidClient, Checks
<1> QED BY <1>7, <1>11, <1>12 DEF ClientOK

\* What a client that joins is sent: the snapshot, the gap and, from place
\* a + 1, the replay.
Laid(q, a) ==
    /\ q \in Seq(Frame) /\ a \in Nat
    /\ \A k \in DOMAIN q :
          \/ k = 1 /\ k <= a /\ q[k] = snapshot /\ snapshot # None
          \/ k = a /\ q[k] = Gap /\ replayGap
          \/ k > a /\ k - a \in DOMAIN replay /\ q[k] = replay[k - a]
    /\ snapshot # None => a >= 1 /\ 1 \in DOMAIN q /\ q[1] = snapshot
    /\ replayGap => /\ a >= 1 /\ a \in DOMAIN q /\ q[a] = Gap
                    /\ snapshot # None => 1 < a
    /\ \A i \in DOMAIN replay : a + i \in DOMAIN q /\ q[a + i] = replay[i]

LEMMA LaidBehind ==
  ASSUME TypeOK, NEW p \in Seq(Frame),
         \A k \in DOMAIN p : \/ k = 1 /\ p[k] = snapshot /\ snapshot # None
                             \/ k = Len(p) /\ p[k] = Gap /\ replayGap,
         snapshot # None => 1 \in DOMAIN p /\ p[1] = snapshot,
         replayGap => Len(p) >= 1 /\ p[Len(p)] = Gap /\ (snapshot # None => 1 < Len(p))
  PROVE  Laid(p \o replay, Len(p))
<1> DEFINE q == p \o replay
           a == Len(p)
<1>1. /\ replay \in Seq(Frame) /\ a \in Nat /\ DOMAIN p = 1 .. a
      /\ Len(replay) \in Nat /\ DOMAIN replay = 1 .. Len(replay)
  BY Typed, Places
<1>2. /\ q \in Seq(Frame) /\ Len(q) = a + Len(replay)
      /\ \A i \in 1 .. a + Len(replay) : q[i] = IF i <= a THEN p[i] ELSE replay[i - a]
  BY <1>1, ConcatProperties
<1>3. DOMAIN q = 1 .. a + Len(replay)
  BY <1>2, Places
<1> HIDE DEF q, a
<1>4. \A i \in DOMAIN p : i \in DOMAIN q /\ q[i] = p[i] /\ i <= a
  BY <1>1, <1>2, <1>3
<1>5. \A i \in DOMAIN replay : a + i \in DOMAIN q /\ q[a + i] = replay[i]
  <2> SUFFICES ASSUME NEW i \in DOMAIN replay
               PROVE  a + i \in DOMAIN q /\ q[a + i] = replay[i]
    OBVIOUS
  <2>1. a + i \in 1 .. a + Len(replay) /\ ~(a + i <= a) /\ (a + i) - a = i
    BY <1>1
  <2> QED BY <1>2, <1>3, <2>1
<1>6. \A k \in DOMAIN q : k \in DOMAIN p \/ (k > a /\ k - a \in DOMAIN replay /\ q[k] = replay[k - a])
  <2> SUFFICES ASSUME NEW k \in DOMAIN q, k \notin DOMAIN p
               PROVE  k > a /\ k - a \in DOMAIN replay /\ q[k] = replay[k - a]
    OBVIOUS
  <2>1. k > a /\ k - a \in DOMAIN replay /\ ~(k <= a)
    BY <1>1, <1>3
  <2> QED BY <1>2, <1>3, <2>1
<1>7. \A k \in DOMAIN q :
         \/ k = 1 /\ k <= a /\ q[k] = snapshot /\ snapshot # None
         \/ k = a /\ q[k] = Gap /\ replayGap
         \/ k > a /\ k - a \in DOMAIN replay /\ q[k] = replay[k - a]
  BY <1>4, <1>6 DEF a
<1>8. snapshot # None => a >= 1 /\ 1 \in DOMAIN q /\ q[1] = snapshot
  BY <1>1, <1>4
<1>9. replayGap => /\ a >= 1 /\ a \in DOMAIN q /\ q[a] = Gap
                   /\ snapshot # None => 1 < a
  <2>1. replayGap => a >= 1 /\ p[a] = Gap /\ (snapshot # None => 1 < a)
    BY DEF a
  <2>2. a >= 1 => a \in DOMAIN p
    BY <1>1
  <2> QED BY <1>4, <2>1, <2>2
<1>10. Laid(q, a)
  BY <1>1, <1>2, <1>5, <1>7, <1>8, <1>9 DEF Laid
<1> QED BY <1>10 DEF q, a

LEMMA Two ==
  ASSUME NEW S, NEW x \in S, NEW y \in S
  PROVE  <<x>> \o <<y>> = <<x, y>>
<1> DEFINE q == <<x>>
           r == <<y>>
           s == q \o r
           t == <<x, y>>
<1>1. q \in Seq(S) /\ Len(q) = 1 /\ q[1] = x /\ r \in Seq(S) /\ Len(r) = 1 /\ r[1] = y
  OBVIOUS
<1>2. t \in Seq(S) /\ Len(t) = 2 /\ t[1] = x /\ t[2] = y
  <2>1. t \in Seq(S)
    OBVIOUS
  <2>2. Len(t) = 2
    OBVIOUS
  <2>3. t[1] = x /\ t[2] = y
    OBVIOUS
  <2> QED BY <2>1, <2>2, <2>3
<1> HIDE DEF q, r, t
<1>3. /\ s \in Seq(S) /\ Len(s) = Len(q) + Len(r)
      /\ \A i \in 1 .. Len(q) + Len(r) : s[i] = IF i <= Len(q) THEN q[i] ELSE r[i - Len(q)]
  BY <1>1, ConcatProperties
<1> HIDE DEF s
<1>4. s[1] = t[1] /\ s[2] = t[2] /\ Len(s) = Len(t)
  <2>1. /\ 1 \in 1 .. Len(q) + Len(r) /\ 2 \in 1 .. Len(q) + Len(r) /\ 1 <= Len(q)
        /\ ~(2 <= Len(q)) /\ 2 - Len(q) = 1 /\ Len(s) = 2
    BY <1>1, <1>3
  <2>2. s[1] = q[1] /\ s[2] = r[2 - Len(q)]
    BY <1>3, <2>1
  <2> QED BY <1>1, <1>2, <2>1, <2>2
<1>5. \A i \in 1 .. Len(s) : s[i] = t[i]
  BY <1>2, <1>4
<1>6. s = t
  BY <1>2, <1>3, <1>4, <1>5, SeqEqual
<1> QED BY <1>6 DEF q, r, s, t

LEMMA Welcomed ==
  ASSUME TypeOK
  PROVE  \E a : Laid(Welcome, a)
<1> DEFINE h == IF snapshot = None THEN <<>> ELSE <<snapshot>>
           g == IF replayGap THEN <<Gap>> ELSE <<>>
           p == h \o g
<1>1. snapshot \in Frame /\ Gap \in Frame /\ replayGap \in BOOLEAN /\ replay \in Seq(Frame)
  BY GapFrame DEF TypeOK
<1>2. Welcome = p \o replay
  BY DEF Welcome
<1>3. CASE snapshot = None /\ ~replayGap
  <2>1. p = <<>>
    BY <1>3
  <2>2. <<>> \in Seq(Frame) /\ DOMAIN <<>> = {}
    OBVIOUS
  <2>3. Laid(<<>> \o replay, Len(<<>>))
    BY <1>1, <1>3, <2>2, LaidBehind
  <2> QED BY <1>2, <2>1, <2>3
<1>4. CASE snapshot = None /\ replayGap
  <2> DEFINE s == <<Gap>>
  <2>1. p = s
    BY <1>1, <1>4
  <2>2. s \in Seq(Frame) /\ DOMAIN s = {1} /\ s[1] = Gap /\ Len(s) = 1
    BY <1>1
  <2> HIDE DEF s
  <2>3. /\ \A k \in DOMAIN s : \/ k = 1 /\ s[k] = snapshot /\ snapshot # None
                               \/ k = Len(s) /\ s[k] = Gap /\ replayGap
        /\ snapshot # None => 1 \in DOMAIN s /\ s[1] = snapshot
        /\ replayGap => Len(s) >= 1 /\ s[Len(s)] = Gap /\ (snapshot # None => 1 < Len(s))
    BY <1>4, <2>2
  <2>4. Laid(s \o replay, Len(s))
    BY <2>2, <2>3, LaidBehind
  <2> QED BY <1>2, <2>1, <2>4
<1>5. CASE snapshot # None /\ ~replayGap
  <2> DEFINE s == <<snapshot>>
  <2>1. p = s
    BY <1>1, <1>5
  <2>2. s \in Seq(Frame) /\ DOMAIN s = {1} /\ s[1] = snapshot /\ Len(s) = 1
    BY <1>1
  <2> HIDE DEF s
  <2>3. /\ \A k \in DOMAIN s : \/ k = 1 /\ s[k] = snapshot /\ snapshot # None
                               \/ k = Len(s) /\ s[k] = Gap /\ replayGap
        /\ snapshot # None => 1 \in DOMAIN s /\ s[1] = snapshot
        /\ replayGap => Len(s) >= 1 /\ s[Len(s)] = Gap /\ (snapshot # None => 1 < Len(s))
    BY <1>5, <2>2
  <2>4. Laid(s \o replay, Len(s))
    BY <2>2, <2>3, LaidBehind
  <2> QED BY <1>2, <2>1, <2>4
<1>6. CASE snapshot # None /\ replayGap
  <2> DEFINE s == <<snapshot, Gap>>
  <2>1. p = s
    <3>1. p = <<snapshot>> \o <<Gap>>
      BY <1>6
    <3> QED BY <1>1, <3>1, Two
  <2>2. s \in Seq(Frame) /\ DOMAIN s = {1, 2} /\ s[1] = snapshot /\ s[2] = Gap /\ Len(s) = 2
    BY <1>1
  <2> HIDE DEF s
  <2>3. /\ \A k \in DOMAIN s : \/ k = 1 /\ s[k] = snapshot /\ snapshot # None
                               \/ k = Len(s) /\ s[k] = Gap /\ replayGap
        /\ snapshot # None => 1 \in DOMAIN s /\ s[1] = snapshot
        /\ replayGap => Len(s) >= 1 /\ s[Len(s)] = Gap /\ (snapshot # None => 1 < Len(s))
    BY <1>6, <2>2
  <2>4. Laid(s \o replay, Len(s))
    BY <2>2, <2>3, LaidBehind
  <2> QED BY <1>2, <2>1, <2>4
<1> QED BY <1>1, <1>3, <1>4, <1>5, <1>6

LEMMA LaidLearns ==
  ASSUME NEW q, NEW a, Laid(q, a), TypeOK, Snapshotted, NEW e \in Nat,
         NEW at \in SUBSET (DOMAIN q)
  PROVE  /\ (\A i \in DOMAIN replay : Covers(replay[i], e) => a + i \in at) =>
               /\ Good(replay, DOMAIN replay, e) => Good(q, at, e)
               /\ Tells(replay, DOMAIN replay, e) => Tells(q, at, e)
         /\ replayGap /\ a \in at => Good(q, at, e) /\ Tells(q, at, e)
         /\ snapshot # None /\ 1 \in at /\ Covers(snapshot, e) =>
               Good(q, at, e) /\ Tells(q, at, e)
<1>1. /\ q \in Seq(Frame) /\ a \in Nat /\ replay \in Seq(Frame)
      /\ \A k \in DOMAIN q : k \in Nat
      /\ \A i \in DOMAIN replay : i \in Nat /\ i >= 1
  BY Typed, Places DEF Laid
<1>2. snapshot.kind # "event" /\ Gap.kind = "gap"
  BY GapFrame DEF Snapshotted, IsState
<1>3. \A j \in at : Skips(q[j], e) => j > a /\ j - a \in DOMAIN replay /\ q[j] = replay[j - a]
  BY <1>2 DEF Laid, Skips
<1>4. \A i \in DOMAIN replay : a + i \in DOMAIN q /\ q[a + i] = replay[i]
  BY DEF Laid
<1>5. ASSUME \A i \in DOMAIN replay : Covers(replay[i], e) => a + i \in at,
             Good(replay, DOMAIN replay, e)
      PROVE  Good(q, at, e)
  <2> SUFFICES ASSUME NEW j \in at, Skips(q[j], e)
               PROVE  \E i \in at : i < j /\ Covers(q[i], e)
    BY DEF Good
  <2>1. j > a /\ j - a \in DOMAIN replay /\ q[j] = replay[j - a]
    BY <1>3
  <2>2. PICK i \in DOMAIN replay : i < j - a /\ Covers(replay[i], e)
    BY <1>5, <2>1 DEF Good
  <2>3. a + i < j /\ a + i \in at /\ Covers(q[a + i], e)
    BY <1>1, <1>4, <1>5, <2>2
  <2> QED BY <2>3
<1>6. ASSUME \A i \in DOMAIN replay : Covers(replay[i], e) => a + i \in at,
             Tells(replay, DOMAIN replay, e)
      PROVE  Tells(q, at, e)
  BY <1>4, <1>6 DEF Tells
<1>7. ASSUME NEW k \in at, k <= a \/ k = 1, a >= 1, Covers(q[k], e)
      PROVE  Good(q, at, e) /\ Tells(q, at, e)
  <2>1. \A j \in at : Skips(q[j], e) => k < j
    BY <1>1, <1>3, <1>7
  <2> QED BY <1>7, <2>1 DEF Good, Tells
<1>8. replayGap /\ a \in at => Good(q, at, e) /\ Tells(q, at, e)
  <2>1. replayGap => a >= 1 /\ q[a] = Gap /\ a <= a
    BY <1>1 DEF Laid
  <2>2. Covers(Gap, e)
    BY <1>2 DEF Covers
  <2> QED BY <1>7, <2>1, <2>2
<1>9. snapshot # None /\ 1 \in at /\ Covers(snapshot, e) => Good(q, at, e) /\ Tells(q, at, e)
  <2>1. snapshot # None => a >= 1 /\ q[1] = snapshot
    BY DEF Laid
  <2> QED BY <1>7, <2>1
<1> QED BY <1>5, <1>6, <1>8, <1>9

\* The lines themselves.
LEMMA LaidFine ==
  ASSUME TypeOK, Pushing, QueuesOK, ServerOK, NEW q, NEW a, Laid(q, a)
  PROVE  /\ FineN(q, Sent) /\ FineV(q, status.v)
         /\ \A k \in DOMAIN q :
               /\ PastN(q[k].to) /\ PastV(q[k].v) /\ VAfter(0, q[k])
               /\ q[k].seq <= sequence
               /\ q[k].seq = 0 => q[k].kind = "gap"
               /\ q[k].kind = "checkpoint" => q[k].seq <= snapshot.seq /\ Based
         /\ \A j, k \in DOMAIN q : j < k => q[k].seq = 0 \/ q[j].seq < q[k].seq
<1>1. /\ q \in Seq(Frame) /\ a \in Nat /\ replay \in Seq(Frame) /\ sequence \in Nat
      /\ Sent \in Nat /\ status.v \in Nat /\ snapshot \in Frame
      /\ snapshot.to \in Nat /\ snapshot.v \in Nat /\ snapshot.seq \in Nat
  BY Typed, PushFields DEF Laid
<1>2. \A k \in DOMAIN q : k \in Nat /\ k >= 1 /\ q[k] \in Frame
  BY <1>1, Places
<1>3. \A i \in DOMAIN replay : /\ i \in Nat /\ replay[i] \in Frame
                               /\ replay[i].to \in Nat /\ replay[i].seq \in Nat
                               /\ replay[i].v \in Nat
  BY <1>1, Places, Fields
<1>4. \A k \in DOMAIN q :
         \/ k = 1 /\ q[k] = snapshot /\ snapshot # None
         \/ k = a /\ q[k] = Gap
         \/ k > a /\ k - a \in DOMAIN replay /\ q[k] = replay[k - a]
  BY DEF Laid
<1>5. /\ Snapshotted /\ Replayed /\ FineN(replay, Sent) /\ PastN(snapshot.to)
      /\ AboveN(snapshot.to, replay) /\ \A i \in DOMAIN replay : PastN(replay[i].to)
      /\ PastV(snapshot.v)
      /\ \A i \in DOMAIN replay : IsState(replay[i]) => replay[i].v = snapshot.v
  BY DEF ServerOK, ServerN, ServerV
<1>6. PastN(0) /\ PastV(0)
  BY PastZero
<1>7. /\ Gap \in Frame /\ WellFrame(Gap) /\ ~IsState(Gap) /\ Gap.kind = "gap"
      /\ Gap.to = 0 /\ Gap.v = 0 /\ Gap.seq = 0
  BY GapFrame
<1>8. snapshot.to <= Sent /\ snapshot.v <= status.v
  BY <1>5 DEF PastN, PastV
<1>9. \A i \in DOMAIN replay : WellFrame(replay[i]) /\ replay[i].to <= Sent /\ NAfter(0, replay[i])
  <2>1. \A i \in DOMAIN replay : WellFrame(replay[i]) /\ replay[i].to <= Sent
    BY <1>5 DEF FineN
  <2> QED BY <1>3, <2>1, FirstAfter
<1>10. \A i \in DOMAIN replay : replay[i].v = 0 \/ replay[i].v = snapshot.v
  BY <1>5, <1>9 DEF WellFrame
<1>11. \A k \in DOMAIN q : WellFrame(q[k]) /\ q[k].to <= Sent /\ PastN(q[k].to)
  BY <1>1, <1>4, <1>5, <1>6, <1>7, <1>8, <1>9 DEF Snapshotted
<1>12. ASSUME NEW j \in DOMAIN q, NEW k \in DOMAIN q, j < k
       PROVE  /\ NAfter(q[j].to, q[k])
              /\ q[k].seq = 0 \/ q[j].seq < q[k].seq
  <2>1. CASE k = 1
    BY <1>2, <1>12, <2>1
  <2>2. CASE k = a /\ q[k] = Gap
    BY <1>7, <2>2 DEF NAfter
  <2>3. CASE k > a /\ k - a \in DOMAIN replay /\ q[k] = replay[k - a]
    <3>1. replay[k - a].seq > snapshot.seq /\ NAfter(snapshot.to, replay[k - a])
      BY <1>5, <2>3 DEF Replayed, AboveN
    <3>2. CASE q[j] = snapshot
      BY <2>3, <3>1, <3>2
    <3>3. CASE q[j] = Gap
      BY <1>1, <1>3, <1>7, <1>9, <2>3, <3>1, <3>3
    <3>4. CASE j > a /\ j - a \in DOMAIN replay /\ q[j] = replay[j - a]
      <4>1. j - a < k - a
        BY <1>1, <1>2, <1>12
      <4> QED BY <1>5, <2>3, <3>4, <4>1 DEF Replayed, FineN
    <3> QED BY <1>4, <3>2, <3>3, <3>4
  <2> QED BY <1>4, <2>1, <2>2, <2>3
<1>13. \A k \in DOMAIN q : /\ q[k].v = 0 \/ q[k].v = snapshot.v
                           /\ IsState(q[k]) => q[k].v = snapshot.v
  BY <1>4, <1>5, <1>7, <1>10
<1>14. FineN(q, Sent)
  BY <1>11, <1>12 DEF FineN
<1>15. FineV(q, status.v)
  <2>1. \A k \in DOMAIN q : q[k].v <= status.v
    BY <1>1, <1>8, <1>13
  <2>2. \A j, k \in DOMAIN q : VAfter(q[j].v, q[k])
    BY <1>1, <1>13 DEF VAfter
  <2> QED BY <2>1, <2>2 DEF FineV
<1>16. \A k \in DOMAIN q : PastV(q[k].v) /\ VAfter(0, q[k])
  BY <1>1, <1>5, <1>6, <1>13 DEF VAfter
<1>17. ASSUME NEW k \in DOMAIN q
       PROVE  /\ q[k].seq <= sequence
              /\ q[k].seq = 0 => q[k].kind = "gap"
              /\ q[k].kind = "checkpoint" => q[k].seq <= snapshot.seq /\ Based
  <2>1. CASE q[k] = snapshot /\ snapshot # None
    <3>1. snapshot.seq >= 1 /\ snapshot.seq <= sequence /\ snapshot.seq # 0
      BY <1>1, <1>5, <2>1 DEF Snapshotted
    <3> QED BY <1>1, <2>1, <3>1 DEF Based
  <2>2. CASE q[k] = Gap
    BY <1>1, <1>7, <2>2
  <2>3. CASE k - a \in DOMAIN replay /\ q[k] = replay[k - a]
    <3>1. /\ replay[k - a].kind # "checkpoint" /\ snapshot.seq < replay[k - a].seq
          /\ replay[k - a].seq <= sequence /\ replay[k - a].seq \in Nat
      BY <1>3, <1>5, <2>3 DEF Replayed
    <3> QED BY <1>1, <2>3, <3>1
  <2> QED BY <1>4, <2>1, <2>2, <2>3
<1> QED BY <1>11, <1>12, <1>14, <1>15, <1>16, <1>17

LEMMA JoinClient ==
  ASSUME TypeOK, Pushing, QueuesOK, ServerOK, NEW c \in Client, ClientOK(c), Quiet,
         ~view[c].on, out'[c] = Welcome, view'[c] = [view[c] EXCEPT !.on = TRUE]
  PROVE  ClientOK(c)'
<1> DEFINE w == view[c]
           u == view'[c]
           q == Welcome
<1>1. /\ ServerOK' /\ Sent' = Sent /\ Sent \in Nat /\ status'.v = status.v
      /\ \A e \in Nat : InBatch(e)' <=> InBatch(e)
      /\ \A x \in Nat : (PastN(x)' <=> PastN(x)) /\ (PastV(x)' <=> PastV(x))
      /\ SaidBatch(0) => SaidBatch(0)'
      /\ snapshot' = snapshot /\ replay' = replay /\ sequence' = sequence
      /\ replayGap' = replayGap
  BY QuietKeeps DEF Quiet, server
<1>2. /\ u.on = TRUE /\ u.n = w.n /\ u.v = w.v /\ u.seq = w.seq /\ u.told = w.told
      /\ u.based = w.based /\ u.missed = w.missed /\ u.twice = w.twice /\ u.kept = w.kept
  <2>1. w \in ViewType
    BY DEF TypeOK, ViewType
  <2> QED BY <2>1 DEF ViewType
<1>3. /\ w.n \in Nat /\ w.seq \in Nat /\ w.v \in Nat /\ snapshot \in Frame /\ sequence \in Nat
      /\ snapshot.seq \in Nat /\ snapshot.to \in Nat /\ replay \in Seq(Frame)
  BY Typed, TypedClient
<1>4. PICK a : Laid(q, a)
  BY Welcomed
<1> HIDE DEF q, u, w
<1>5. /\ SequencedClient(c) /\ PastN(w.n) /\ Up(w) /\ Ahead(w)
      /\ ~w.twice /\ (w.based /\ w.missed => w.told) /\ PastV(w.v) /\ w.v = 0
      /\ w.seq <= sequence /\ (w.based => Based) /\ (~w.kept => w.seq = 0)
  BY DEF ClientOK, ClientN, ClientV, SequencedClient, Parted, w
<1>6. /\ FineN(q, Sent) /\ FineV(q, status.v)
      /\ \A k \in DOMAIN q :
            /\ PastN(q[k].to) /\ PastV(q[k].v) /\ VAfter(0, q[k])
            /\ q[k].seq <= sequence
            /\ q[k].seq = 0 => q[k].kind = "gap"
            /\ q[k].kind = "checkpoint" => q[k].seq <= snapshot.seq /\ Based
      /\ \A j, k \in DOMAIN q : j < k => q[k].seq = 0 \/ q[j].seq < q[k].seq
  BY <1>4, LaidFine
<1>7. /\ q \in Seq(Frame) /\ a \in Nat
      /\ \A k \in DOMAIN q :
            \/ k = 1 /\ k <= a /\ q[k] = snapshot /\ snapshot # None
            \/ k = a /\ q[k] = Gap /\ replayGap
            \/ k > a /\ k - a \in DOMAIN replay /\ q[k] = replay[k - a]
      /\ snapshot # None => a >= 1 /\ 1 \in DOMAIN q /\ q[1] = snapshot
      /\ replayGap => /\ a >= 1 /\ a \in DOMAIN q /\ q[a] = Gap
                      /\ snapshot # None => 1 < a
      /\ \A i \in DOMAIN replay : a + i \in DOMAIN q /\ q[a + i] = replay[i]
  BY <1>4 DEF Laid
<1>8. /\ snapshot = None \/ (IsState(snapshot) /\ snapshot.seq >= 1)
      /\ \A i \in DOMAIN replay : /\ i \in Nat /\ i >= 1 /\ replay[i].seq \in Nat
                                  /\ replay[i].to \in Nat
                                  /\ replay[i].kind # "checkpoint"
                                  /\ snapshot.seq < replay[i].seq
  BY <1>3, Places, Fields DEF ServerOK, Snapshotted, Replayed
<1>9. /\ Gap.kind = "gap" /\ Gap.seq = 0 /\ Gap.v = 0 /\ ~IsState(Gap)
      /\ None.seq = 0 /\ None.v = 0 /\ None.kind = "none"
  BY GapFrame
<1>10. out'[c] = q /\ view'[c] = u
  BY DEF q, u
<1>11. \A f : Had(u, f) <=> Had(w, f)
  BY <1>2 DEF Had
<1>12. Live(u, q) = Live(w, q) /\ Live(w, q) \in SUBSET (DOMAIN q)
  BY <1>11 DEF Live
<1>13. SequencedClient(c)'
  <2>1. Lined(c)'
    BY <1>1, <1>6, <1>10 DEF Lined, Based
  <2>2. Holds(c)'
    <3>1. snapshot.seq > w.seq => \E k \in DOMAIN q : q[k] = snapshot
      BY <1>3, <1>7, <1>9
    <3>2. \A i \in DOMAIN replay : \E k \in DOMAIN q : q[k] = replay[i]
      BY <1>7
    <3> QED BY <1>1, <1>2, <1>10, <3>1, <3>2 DEF Holds
  <2>3. Parted(c)'
    BY <1>2, <1>10 DEF Parted
  <2> QED BY <1>1, <1>2, <1>5, <1>10, <2>1, <2>2, <2>3 DEF SequencedClient, Based
<1>14. ClientN(c)'
  <2>1. \A k \in Live(w, q) : NAfter(w.n, q[k])
    <3> SUFFICES ASSUME NEW k \in DOMAIN q, ~Had(w, q[k])
                 PROVE  NAfter(w.n, q[k])
      BY DEF Live
    <3>1. CASE q[k] = snapshot /\ snapshot # None
      <4>1. snapshot.seq > w.seq
        BY <1>3, <1>8, <3>1 DEF Had
      <4> QED BY <1>5, <3>1, <4>1 DEF Ahead
    <3>2. CASE q[k] = Gap
      BY <1>9, <3>2 DEF NAfter
    <3>3. CASE k - a \in DOMAIN replay /\ q[k] = replay[k - a]
      <4>1. replay[k - a].seq > w.seq
        BY <1>3, <1>8, <3>3 DEF Had
      <4> QED BY <1>5, <3>3, <4>1 DEF Ahead
    <3> QED BY <1>7, <3>1, <3>2, <3>3
  <2>2. \A k \in DOMAIN q : \A x \in Nat : x = q[k].to => PastN(x)'
    BY <1>1, <1>6
  <2>3. \A k \in DOMAIN q : q[k].to \in Nat
    BY <1>7, Places, Fields
  <2>4. \A k \in DOMAIN out'[c] : PastN(out[c][k].to)'
    BY <1>10, <2>2, <2>3 DEF PastN
  <2>5. PastN(view[c].n)'
    <3>1. \A x \in Nat : x = w.n => PastN(x)'
      BY <1>1, <1>5
    <3>2. view'[c].n = w.n
      BY <1>2, <1>10
    <3> QED BY <1>3, <3>1, <3>2 DEF PastN
  <2>6. Up(view[c])' /\ Ahead(view[c])'
    <3>1. Sound(u) <=> Sound(w)
      BY <1>2 DEF Sound
    <3> QED BY <1>1, <1>2, <1>5, <1>10, <3>1 DEF Up, Ahead
  <2> QED BY <1>1, <1>2, <1>5, <1>6, <1>10, <1>12, <2>1, <2>4, <2>5, <2>6 DEF ClientN
<1>15. ClientV(c)'
  <2>1. \A k \in DOMAIN q : \A x \in Nat : x = q[k].v => PastV(x)'
    BY <1>1, <1>6
  <2>2. \A k \in DOMAIN q : q[k].v \in Nat
    BY <1>7, Places, Fields
  <2>3. \A k \in DOMAIN out'[c] : PastV(out[c][k].v)'
    BY <1>10, <2>1, <2>2 DEF PastV
  <2>4. PastV(view[c].v)'
    <3>1. \A x \in Nat : x = w.v => PastV(x)'
      BY <1>1, <1>5
    <3>2. view'[c].v = w.v
      BY <1>2, <1>10
    <3> QED BY <1>3, <3>1, <3>2 DEF PastV
  <2> QED BY <1>1, <1>2, <1>5, <1>6, <1>10, <1>12, <2>3, <2>4 DEF ClientV
<1>16. ASSUME Based, ~replayGap, NEW e \in Nat, snapshot.to < e, e <= Sent,
              NEW at \in SUBSET (DOMAIN q),
              \A i \in DOMAIN replay : Covers(replay[i], e) => a + i \in at
       PROVE  Good(q, at, e) /\ (Tells(q, at, e) \/ InBatch(e)')
  <2>1. e \in snapshot.to + 1 .. Sent
    BY <1>1, <1>3, <1>16
  <2>2. Good(replay, DOMAIN replay, e) /\ (Tells(replay, DOMAIN replay, e) \/ InBatch(e))
    BY <1>16, <2>1 DEF ServerOK, FullReplay
  <2>3. /\ Good(replay, DOMAIN replay, e) => Good(q, at, e)
        /\ Tells(replay, DOMAIN replay, e) => Tells(q, at, e)
    BY <1>4, <1>16, LaidLearns DEF ServerOK
  <2> QED BY <1>1, <1>16, <2>2, <2>3
<1>17. FullOut(c)'
  <2> SUFFICES ASSUME NEW k \in Checks(q), NEW e \in q[k].to + 1 .. Sent
               PROVE  /\ Good(q, Behind(q, k), e)
                      /\ Tells(q, Behind(q, k), e) \/ InBatch(e)'
    BY <1>1, <1>10 DEF FullOut
  <2>1. k = 1 /\ 1 <= a /\ q[k] = snapshot /\ snapshot # None /\ Based
    BY <1>7, <1>8, <1>9 DEF Checks, Based
  <2>2. e \in Nat /\ snapshot.to < e /\ e <= Sent
    BY <1>1, <1>3, <2>1
  <2>3. Behind(q, k) \in SUBSET (DOMAIN q)
    BY DEF Behind
  <2>4. CASE replayGap
    <3>1. a \in Behind(q, k)
      BY <1>7, <2>1, <2>4 DEF Behind
    <3> QED BY <1>4, <2>2, <2>3, <2>4, <3>1, LaidLearns DEF ServerOK
  <2>5. CASE ~replayGap
    <3>1. \A i \in DOMAIN replay : a + i \in Behind(q, k)
      BY <1>7, <1>8, <2>1 DEF Behind
    <3> QED BY <1>16, <2>1, <2>2, <2>3, <2>5, <3>1
  <2> QED BY <2>4, <2>5
<1>18. FullView(c)'
  <2> SUFFICES ASSUME Sound(w), NEW e \in w.n + 1 .. Sent
               PROVE  /\ Good(q, Live(w, q), e)
                      /\ Tells(q, Live(w, q), e) \/ InBatch(e)'
    <3>1. Sound(u) <=> Sound(w)
      BY <1>2 DEF Sound
    <3> QED BY <1>1, <1>2, <1>10, <1>12, <3>1 DEF FullView
  <2>1. e \in Nat /\ w.n < e /\ e <= Sent
    BY <1>1, <1>3
  <2>2. Based /\ snapshot # None
    BY <1>5, <1>9 DEF Sound, Based
  <2>3. CASE replayGap
    <3>1. a \in Live(w, q)
      BY <1>7, <1>9, <2>3 DEF Live, Had
    <3>2. Snapshotted
      BY DEF ServerOK
    <3>3. replayGap /\ a \in Live(w, q) => Good(q, Live(w, q), e) /\ Tells(q, Live(w, q), e)
      BY <1>4, <1>12, <2>1, <3>2, LaidLearns
    <3> QED BY <2>3, <3>1, <3>3
  <2>4. CASE ~replayGap /\ snapshot.seq > w.seq
    <3>1. 1 \in Live(w, q)
      BY <1>3, <1>7, <2>2, <2>4 DEF Live, Had
    <3>2. \A i \in DOMAIN replay : a + i \in Live(w, q)
      <4>1. \A i \in DOMAIN replay : a + i \in DOMAIN q /\ q[a + i] = replay[i]
        BY <1>7
      <4>2. \A i \in DOMAIN replay : ~Had(w, replay[i])
        BY <1>3, <1>8, <2>4 DEF Had
      <4> QED BY <4>1, <4>2 DEF Live
    <3>3. CASE e <= snapshot.to
      <4>1. Covers(snapshot, e)
        BY <2>2, <3>3 DEF Covers, Based
      <4> QED BY <1>4, <1>12, <2>1, <2>2, <3>1, <4>1, LaidLearns DEF ServerOK
    <3>4. CASE snapshot.to < e
      BY <1>12, <1>16, <2>1, <2>2, <2>4, <3>2, <3>4
    <3> QED BY <1>3, <2>1, <3>3, <3>4
  <2>5. CASE ~replayGap /\ snapshot.seq <= w.seq
    <3>1. snapshot.to < e
      BY <1>3, <1>5, <2>1, <2>5 DEF Up
    <3>2. ASSUME NEW i \in DOMAIN replay, Covers(replay[i], e)
          PROVE  a + i \in Live(w, q)
      <4>1. ~(replay[i].seq <= w.seq)
        <5>1. replay[i].seq <= w.seq => replay[i].kind # "gap" /\ replay[i].to <= w.n
          BY <1>5 DEF Up
        <5>2. replay[i].kind # "gap" => e <= replay[i].to
          BY <3>2 DEF Covers
        <5> QED BY <1>3, <1>8, <2>1, <5>1, <5>2
      <4> QED BY <1>7, <4>1 DEF Live, Had
    <3> QED BY <1>12, <1>16, <2>1, <2>2, <2>5, <3>1, <3>2
  <2> QED BY <1>3, <2>3, <2>4, <2>5
<1>19. SaidClient(c)'
  <2>1. ASSUME snapshot.v # status.v
        PROVE  SaidBatch(0)' \/ (\E k \in DOMAIN q : /\ q[k].kind = "gap"
                                                     /\ snapshot # None => k > 1)
    <3>1. CASE SaidBatch(0)
      BY <1>1, <3>1
    <3>2. CASE replayGap
      BY <1>7, <1>9, <3>2
    <3>3. CASE \E i \in DOMAIN replay : replay[i].kind = "gap"
      <4>1. PICK i \in DOMAIN replay : replay[i].kind = "gap"
        BY <3>3
      <4>2. a + i \in DOMAIN q /\ q[a + i].kind = "gap" /\ (snapshot # None => a + i > 1)
        BY <1>7, <1>8, <4>1
      <4> QED BY <4>2
    <3> QED BY <2>1, <3>1, <3>2, <3>3 DEF ServerOK, SaidServer
  <2>2. ASSUME NEW k \in DOMAIN q, Stale(q[k], status.v)
        PROVE  SaidBatch(0)' \/ SaysBehind(q, k, status.v)
    <3>1. CASE k = 1 /\ q[k] = snapshot /\ snapshot # None
      BY <2>1, <2>2, <3>1 DEF Stale, SaysBehind, Says
    <3>2. CASE q[k] = Gap
      BY <1>9, <2>2, <3>2 DEF Stale
    <3>3. CASE k > a /\ k - a \in DOMAIN replay /\ q[k] = replay[k - a]
      <4>1. SaidBatch(0) \/ SaysBehind(replay, k - a, status.v)
        BY <2>2, <3>3 DEF ServerOK, SaidServer
      <4>2. ASSUME SaysBehind(replay, k - a, status.v)
            PROVE  SaysBehind(q, k, status.v)
        <5>1. PICK j \in DOMAIN replay : j > k - a /\ Says(replay[j], status.v)
          BY <4>2 DEF SaysBehind
        <5>2. k \in Nat
          BY <1>7, Places
        <5>3. a + j \in DOMAIN q /\ a + j > k /\ Says(q[a + j], status.v)
          BY <1>7, <1>8, <5>1, <5>2
        <5> QED BY <5>3 DEF SaysBehind
      <4> QED BY <1>1, <4>1, <4>2
    <3> QED BY <1>7, <3>1, <3>2, <3>3
  <2>3. ASSUME ~w.kept, w.v # status.v
        PROVE  SaidBatch(0)' \/ \E k \in Live(w, q) : Says(q[k], status.v)
    <3>1. Live(w, q) = DOMAIN q
      <4>1. \A k \in DOMAIN q : q[k].seq \in Nat
        BY <1>7, Places, Fields
      <4>2. w.seq = 0
        BY <1>5, <2>3
      <4>3. \A k \in DOMAIN q : ~Had(w, q[k])
        BY <4>1, <4>2 DEF Had
      <4> QED BY <4>3 DEF Live
    <3>2. CASE snapshot.v = status.v
      <4>1. snapshot # None
        BY <1>5, <1>9, <2>3, <3>2
      <4>2. Says(q[1], status.v) /\ 1 \in DOMAIN q
        BY <1>7, <1>8, <3>2, <4>1 DEF Says
      <4> QED BY <3>1, <4>2
    <3>3. CASE snapshot.v # status.v
      BY <2>1, <3>1, <3>3 DEF Says
    <3> QED BY <3>2, <3>3
  <2> QED BY <1>1, <1>2, <1>10, <1>12, <2>2, <2>3 DEF SaidClient
<1> QED BY <1>13, <1>14, <1>15, <1>17, <1>18, <1>19 DEF ClientOK
-----------------------------------------------------------------------------
\* What one line does to what its client has understood: nothing, when the
\* client has had it.
Read(w, f) == IF Had(w, f) THEN w ELSE Applied(w, f)
\* The client reads f; r is what is left then, and u what it has understood.
Reading(c, f, r, u) ==
    /\ out[c] # <<>> /\ f = Head(out[c]) /\ r = Tail(out[c])
    /\ u = Read(view[c], f)

LEMMA AppliedIs ==
  ASSUME NEW w \in ViewType, NEW f \in Frame, WellFrame(f), NAfter(w.n, f)
  PROVE  LET u == Applied(w, f)
         IN  /\ u \in ViewType /\ u.on = w.on /\ u.twice = w.twice
             /\ u.seq = IF f.seq = 0 THEN w.seq ELSE f.seq
             /\ f.kind = "gap" =>
                  /\ u.n = w.n /\ u.v = w.v /\ u.told = TRUE /\ u.based = w.based
                  /\ u.missed = w.missed /\ u.kept = w.kept
             /\ f.kind = "state" =>
                  /\ u.n = w.n /\ u.v = f.v /\ u.told = w.told /\ u.based = w.based
                  /\ u.missed = w.missed /\ u.kept = FALSE
             /\ f.kind = "checkpoint" =>
                  /\ u.n = f.to /\ u.v = f.v /\ u.told = FALSE /\ u.based = TRUE
                  /\ u.missed = FALSE /\ u.kept = FALSE
             /\ f.kind = "event" =>
                  /\ u.n = f.to /\ u.v = w.v /\ u.told = w.told /\ u.based = w.based
                  /\ f.from = w.n + 1 => u.missed = w.missed
                  /\ u.kept = w.kept
<1> DEFINE s == IF f.seq = 0 THEN w ELSE [w EXCEPT !.seq = f.seq]
           u == Applied(w, f)
<1>1. /\ f.kind \in {"none", "gap", "event", "state", "checkpoint"} /\ f.kind # "none"
      /\ f.from \in Nat /\ f.to \in 0 .. MaxEvents /\ f.v \in 0 .. MaxStates
      /\ f.busy \in BOOLEAN /\ f.seq \in Nat
  BY Fields DEF WellFrame
<1>2. /\ s \in ViewType /\ s.seq = (IF f.seq = 0 THEN w.seq ELSE f.seq)
      /\ s.on = w.on /\ s.n = w.n /\ s.v = w.v /\ s.busy = w.busy /\ s.told = w.told
      /\ s.missed = w.missed /\ s.twice = w.twice /\ s.kept = w.kept /\ s.based = w.based
  <2>1. CASE f.seq = 0
    BY <2>1
  <2>2. CASE f.seq # 0
    BY <1>1, <2>2 DEF ViewType
  <2> QED BY <2>1, <2>2
<1>3. /\ f.kind = "gap" => u = [s EXCEPT !.told = TRUE]
      /\ f.kind = "state" => u = [s EXCEPT !.v = f.v, !.busy = f.busy, !.kept = FALSE]
      /\ f.kind = "checkpoint" =>
           u = [s EXCEPT !.v = f.v, !.busy = f.busy, !.n = f.to, !.told = FALSE,
                         !.missed = FALSE, !.kept = FALSE, !.based = TRUE]
      /\ f.kind = "event" =>
           u = IF f.from = w.n + 1 THEN [s EXCEPT !.n = f.to]
               ELSE IF f.from > w.n THEN [s EXCEPT !.n = f.to, !.missed = TRUE]
               ELSE [s EXCEPT !.twice = TRUE]
  BY DEF Applied
<1> HIDE DEF s, u
<1>4. CASE f.kind = "gap"
  <2>1. u = [s EXCEPT !.told = TRUE]
    BY <1>3, <1>4
  <2>2. /\ u \in ViewType /\ u.on = s.on /\ u.twice = s.twice /\ u.seq = s.seq /\ u.n = s.n
        /\ u.v = s.v /\ u.told = TRUE /\ u.based = s.based /\ u.missed = s.missed
        /\ u.kept = s.kept
    BY <1>2, <2>1 DEF ViewType
  <2> QED BY <1>2, <1>4, <2>2 DEF u
<1>5. CASE f.kind = "state"
  <2>1. u = [s EXCEPT !.v = f.v, !.busy = f.busy, !.kept = FALSE]
    BY <1>3, <1>5
  <2>2. u \in ViewType
    BY <1>1, <1>2, <2>1 DEF ViewType
  <2>3. /\ u.on = s.on /\ u.twice = s.twice /\ u.seq = s.seq /\ u.n = s.n
        /\ u.v = f.v /\ u.told = s.told /\ u.based = s.based /\ u.missed = s.missed
        /\ u.kept = FALSE
    BY <1>2, <2>1 DEF ViewType
  <2> QED BY <1>2, <1>5, <2>2, <2>3 DEF u
<1>6. CASE f.kind = "checkpoint"
  <2>1. u = [s EXCEPT !.v = f.v, !.busy = f.busy, !.n = f.to, !.told = FALSE,
                      !.missed = FALSE, !.kept = FALSE, !.based = TRUE]
    BY <1>3, <1>6
  <2>2. u \in ViewType
    <3> DEFINE m == [s EXCEPT !.v = f.v, !.busy = f.busy, !.n = f.to]
    <3>1. m \in ViewType
      BY <1>1, <1>2 DEF ViewType
    <3>2. u = [m EXCEPT !.told = FALSE, !.missed = FALSE, !.kept = FALSE, !.based = TRUE]
      BY <2>1
    <3> HIDE DEF m
    <3> QED BY <3>1, <3>2 DEF ViewType
  <2>3. /\ u.on = s.on /\ u.twice = s.twice /\ u.seq = s.seq /\ u.n = f.to
        /\ u.v = f.v /\ u.told = FALSE /\ u.based = TRUE /\ u.missed = FALSE
        /\ u.kept = FALSE
    BY <1>2, <2>1 DEF ViewType
  <2> QED BY <1>2, <1>6, <2>2, <2>3 DEF u
<1>7. CASE f.kind = "event"
  <2>1. w.n < f.from /\ w.n \in Nat
    BY <1>7, Bounds DEF NAfter, ViewType
  <2>2. CASE f.from = w.n + 1
    <3>1. u = [s EXCEPT !.n = f.to]
      BY <1>3, <1>7, <2>2
    <3>2. /\ u \in ViewType /\ u.on = s.on /\ u.twice = s.twice /\ u.seq = s.seq
          /\ u.n = f.to /\ u.v = s.v /\ u.told = s.told /\ u.based = s.based
          /\ u.missed = s.missed /\ u.kept = s.kept
      BY <1>1, <1>2, <3>1 DEF ViewType
    <3> QED BY <1>2, <1>7, <3>2 DEF u
  <2>3. CASE f.from # w.n + 1
    <3>1. u = [s EXCEPT !.n = f.to, !.missed = TRUE]
      BY <1>1, <1>3, <1>7, <2>1, <2>3
    <3>2. /\ u \in ViewType /\ u.on = s.on /\ u.twice = s.twice /\ u.seq = s.seq
          /\ u.n = f.to /\ u.v = s.v /\ u.told = s.told /\ u.based = s.based
          /\ u.kept = s.kept
      BY <1>1, <1>2, <3>1 DEF ViewType
    <3> QED BY <1>2, <1>7, <2>3, <3>2 DEF u
  <2> QED BY <2>2, <2>3
<1> QED BY <1>1, <1>4, <1>5, <1>6, <1>7

\* The numbers of one line read: its place is taken by the next.
LEMMA ReadPlaces ==
  ASSUME TypeOK, NEW c \in Client, ClientOK(c), NEW f, NEW r, NEW u, Reading(c, f, r, u)
  PROVE  /\ f \in Frame /\ WellFrame(f) /\ f = out[c][1] /\ 1 \in DOMAIN out[c]
         /\ f.seq \in Nat /\ f.to \in Nat /\ f.v \in Nat /\ f.seq <= sequence
         /\ u \in ViewType /\ view[c].on = TRUE /\ u.on = TRUE
         /\ u.seq \in Nat /\ view[c].seq \in Nat
         /\ u.seq \in {view[c].seq, f.seq}
         /\ view[c].seq <= u.seq /\ f.seq <= u.seq /\ u.seq <= sequence
         /\ r \in Seq(Frame) /\ r = Tail(out[c]) /\ out[c] # <<>> /\ f = Head(out[c])
         /\ ~Had(view[c], f) => u = Applied(view[c], f) /\ NAfter(view[c].n, f)
                                /\ VAfter(view[c].v, f) /\ 1 \in Live(view[c], out[c])
         /\ Had(view[c], f) => u = view[c] /\ 1 \notin Live(view[c], out[c])
         /\ ~Had(view[c], f) /\ f.seq # 0 => u.seq \in {f.seq} /\ view[c].seq < f.seq
         /\ f.seq = 0 => f.kind = "gap"
<1> DEFINE w == view[c]
           q == out[c]
<1>0. q # <<>> /\ f = Head(q) /\ r = Tail(q) /\ u = Read(w, f)
  BY DEF Reading
<1>1. /\ q \in Seq(Frame) /\ w \in ViewType /\ w.seq \in Nat /\ w.on \in BOOLEAN
      /\ sequence \in Nat
  BY Typed, TypedClient DEF TypeOK, ViewType
<1>2. /\ 1 \in DOMAIN q /\ f = q[1] /\ f \in Frame /\ r \in Seq(Frame)
  BY <1>0, <1>1, Cut
<1>3. f.seq \in Nat /\ f.to \in Nat /\ f.v \in Nat
  BY <1>2, Fields
<1>4. /\ Lined(c) /\ Parted(c) /\ w.seq <= sequence /\ FineN(q, Sent)
      /\ \A k \in Live(w, q) : NAfter(w.n, q[k])
      /\ \A k \in Live(w, q) : VAfter(w.v, q[k])
  BY DEF ClientOK, SequencedClient, ClientN, ClientV
<1>5. WellFrame(f) /\ f.seq <= sequence /\ (f.seq = 0 => f.kind = "gap")
  BY <1>2, <1>4 DEF FineN, Lined
<1>6. w.on = TRUE
  BY <1>0, <1>1, <1>4 DEF Parted
<1> HIDE DEF w, q
<1>7. CASE Had(w, f)
  <2>1. u = w /\ f.seq <= w.seq /\ 1 \notin Live(w, q)
    BY <1>0, <1>2, <1>7 DEF Read, Had, Live, w
  <2> QED BY <1>0, <1>1, <1>2, <1>3, <1>4, <1>5, <1>6, <1>7, <2>1 DEF w, q
<1>8. CASE ~Had(w, f)
  <2>1. u = Applied(w, f) /\ 1 \in Live(w, q)
    BY <1>0, <1>2, <1>8 DEF Read, Live, w
  <2>2. NAfter(w.n, f) /\ VAfter(w.v, f)
    BY <1>2, <1>4, <2>1
  <2>3. u \in ViewType /\ u.on = w.on /\ u.seq = IF f.seq = 0 THEN w.seq ELSE f.seq
    <3>1. /\ Applied(w, f) \in ViewType /\ Applied(w, f).on = w.on
          /\ Applied(w, f).seq = IF f.seq = 0 THEN w.seq ELSE f.seq
      BY <1>1, <1>2, <1>5, <2>2, AppliedIs
    <3> QED BY <2>1, <3>1
  <2>4. f.seq = 0 \/ w.seq < f.seq
    BY <1>1, <1>3, <1>8 DEF Had
  <2>5. CASE f.seq = 0
    BY <1>0, <1>1, <1>2, <1>3, <1>4, <1>5, <1>6, <1>8, <2>1, <2>2, <2>3, <2>5 DEF w, q
  <2>6. CASE f.seq # 0
    <3>1. u.seq = f.seq /\ w.seq < f.seq
      BY <2>3, <2>4, <2>6
    <3> QED BY <1>0, <1>1, <1>2, <1>3, <1>4, <1>5, <1>6, <1>8, <2>1, <2>2, <2>3, <2>6, <3>1 DEF w, q
  <2> QED BY <2>5, <2>6
<1>9. u.seq \in Nat
  BY <1>7, <1>8 DEF ViewType
<1> QED BY <1>1, <1>7, <1>8, <1>9 DEF w

\* What it has not had it still has not; after a numbered line, all of the rest.
LEMMA ReadLive ==
  ASSUME TypeOK, NEW c \in Client, ClientOK(c), NEW f, NEW r, NEW u, Reading(c, f, r, u)
  PROVE  /\ \A i \in DOMAIN r : i \in Live(u, r) <=> i + 1 \in Live(view[c], out[c])
         /\ ~Had(view[c], f) /\ f.seq # 0 => Live(u, r) = DOMAIN r
<1> DEFINE w == view[c]
           q == out[c]
<1>1. /\ q \in Seq(Frame) /\ w.seq \in Nat
  BY TypedClient
<1>2. /\ f = out[c][1] /\ 1 \in DOMAIN out[c] /\ f.seq \in Nat
      /\ u.seq = view[c].seq \/ u.seq = f.seq
      /\ view[c].seq <= u.seq /\ f.seq <= u.seq
      /\ ~Had(view[c], f) /\ f.seq # 0 => u.seq = f.seq
  <2>1. f = out[c][1] /\ 1 \in DOMAIN out[c] /\ f.seq \in Nat
    BY ReadPlaces
  <2>2. u.seq \in {view[c].seq, f.seq}
    BY ReadPlaces
  <2>3. view[c].seq <= u.seq /\ f.seq <= u.seq
    BY ReadPlaces
  <2>4. ~Had(view[c], f) /\ f.seq # 0 => u.seq \in {f.seq}
    BY ReadPlaces
  <2> QED BY <2>1, <2>2, <2>3, <2>4
<1>3. Lined(c) /\ r = Tail(q) /\ q # <<>>
  BY DEF ClientOK, SequencedClient, Reading
<1>4. \A i \in DOMAIN r : i + 1 \in DOMAIN q /\ r[i] = q[i + 1] /\ 1 < i + 1
  BY <1>1, <1>3, Cut
<1>5. \A k \in DOMAIN q : q[k].seq \in Nat
  BY <1>1, Places, Fields
<1>6. \A k \in DOMAIN q : 1 < k => q[k].seq = 0 \/ f.seq < q[k].seq
  BY <1>2, <1>3 DEF Lined
<1>7. ASSUME NEW i \in DOMAIN r
      PROVE  /\ r[i].seq \in Nat /\ r[i] = q[i + 1] /\ i + 1 \in DOMAIN q
             /\ r[i].seq = 0 \/ f.seq < r[i].seq
  BY <1>4, <1>5, <1>6
<1> HIDE DEF w, q
<1>8. ASSUME NEW i \in DOMAIN r
      PROVE  Had(u, r[i]) <=> Had(w, q[i + 1])
  <2>1. CASE r[i].seq = 0
    BY <1>7, <2>1 DEF Had
  <2>2. CASE r[i].seq # 0
    <3>1. /\ u.seq = w.seq \/ u.seq = f.seq
          /\ w.seq <= u.seq /\ f.seq < r[i].seq /\ r[i].seq \in Nat
          /\ w.seq \in Nat /\ f.seq \in Nat
      BY <1>1, <1>2, <1>7, <2>2 DEF w
    <3>2. Had(u, r[i]) <=> r[i].seq <= u.seq
      BY <2>2 DEF Had
    <3>3. Had(w, q[i + 1]) <=> r[i].seq <= w.seq
      BY <1>7, <2>2 DEF Had
    <3> QED BY <3>1, <3>2, <3>3
  <2> QED BY <2>1, <2>2
<1>9. ASSUME ~Had(w, f), f.seq # 0, NEW i \in DOMAIN r
      PROVE  ~Had(u, r[i])
  <2>1. u.seq = f.seq
    BY <1>2, <1>9 DEF w
  <2> QED BY <1>2, <1>7, <2>1 DEF Had
<1>10. \A i \in DOMAIN r : i \in Live(u, r) <=> i + 1 \in Live(w, q)
  BY <1>7, <1>8 DEF Live
<1>11. ~Had(w, f) /\ f.seq # 0 => Live(u, r) = DOMAIN r
  BY <1>9 DEF Live
<1> QED BY <1>10, <1>11 DEF w, q

\* What was true of the lines is true of those that are left.
LEMMA ReadLines ==
  ASSUME TypeOK, Pushing, NEW c \in Client, ClientOK(c), NEW f, NEW r, NEW u,
         Reading(c, f, r, u)
  PROVE  /\ \A k \in DOMAIN r :
               /\ r[k].seq <= sequence
               /\ r[k].seq = 0 => r[k].kind = "gap"
               /\ r[k].kind = "checkpoint" => r[k].seq <= snapshot.seq /\ Based
               /\ PastN(r[k].to) /\ PastV(r[k].v) /\ r[k].to \in Nat /\ r[k].v \in Nat
         /\ \A j, k \in DOMAIN r : j < k => r[k].seq = 0 \/ r[j].seq < r[k].seq
         /\ FineN(r, Sent) /\ FineV(r, status.v)
         /\ \A k \in Checks(r) : \A e \in r[k].to + 1 .. Sent :
               /\ Good(r, Behind(r, k), e)
               /\ Tells(r, Behind(r, k), e) \/ InBatch(e)
         /\ \A k \in DOMAIN r :
               Stale(r[k], status.v) => SaidBatch(0) \/ SaysBehind(r, k, status.v)
<1> DEFINE q == out[c]
<1>1. /\ q \in Seq(Frame) /\ q # <<>> /\ r = Tail(q) /\ Sent \in Nat /\ status.v \in Nat
  BY TypedClient, PushFields DEF Reading
<1>2. /\ Lined(c) /\ FineN(q, Sent) /\ FineV(q, status.v)
      /\ \A k \in DOMAIN q : PastN(q[k].to) /\ PastV(q[k].v)
      /\ FullOut(c)
      /\ \A k \in DOMAIN q :
            Stale(q[k], status.v) => SaidBatch(0) \/ SaysBehind(q, k, status.v)
  BY DEF ClientOK, SequencedClient, ClientN, ClientV, SaidClient
<1>3. /\ \A k \in DOMAIN q :
            /\ q[k].seq <= sequence
            /\ q[k].seq = 0 => q[k].kind = "gap"
            /\ q[k].kind = "checkpoint" => q[k].seq <= snapshot.seq /\ Based
      /\ \A j, k \in DOMAIN q : j < k => q[k].seq = 0 \/ q[j].seq < q[k].seq
  BY <1>2 DEF Lined
<1>4. \A k \in Checks(q) : \A e \in q[k].to + 1 .. Sent :
         /\ Good(q, Behind(q, k), e)
         /\ Tells(q, Behind(q, k), e) \/ InBatch(e)
  BY <1>2 DEF FullOut
<1> HIDE DEF q
<1>5. \A k \in DOMAIN r : k \in Nat /\ k >= 1 /\ k + 1 \in DOMAIN q /\ r[k] = q[k + 1] /\ 1 < k + 1
  BY <1>1, Cut
<1>6. \A k \in DOMAIN q : q[k].to \in Nat /\ q[k].v \in Nat
  BY <1>1, Places, Fields
<1>7. FineN(r, Sent) /\ FineV(r, status.v)
  BY <1>1, <1>2, FineTail
<1>8. ASSUME NEW j \in DOMAIN r, NEW k \in DOMAIN r, j < k
      PROVE  r[k].seq = 0 \/ r[j].seq < r[k].seq
  <2>1. j + 1 < k + 1
    BY <1>5, <1>8
  <2> QED BY <1>3, <1>5, <2>1
<1>9. ASSUME NEW k \in Checks(r), NEW e \in r[k].to + 1 .. Sent
      PROVE  Good(r, Behind(r, k), e) /\ (Tells(r, Behind(r, k), e) \/ InBatch(e))
  <2>1. k \in DOMAIN r /\ k \in Nat /\ k >= 1 /\ k + 1 \in Checks(q) /\ r[k] = q[k + 1]
    BY <1>5 DEF Checks
  <2>2. e \in q[k + 1].to + 1 .. Sent /\ e \in Nat
    BY <1>1, <1>5, <1>6, <2>1
  <2>3. /\ Good(q, Behind(q, k + 1), e)
        /\ Tells(q, Behind(q, k + 1), e) \/ InBatch(e)
    BY <1>4, <2>1, <2>2
  <2>4. /\ Behind(q, k + 1) \in SUBSET (DOMAIN q) /\ Behind(r, k) \in SUBSET (DOMAIN r)
        /\ 1 \notin Behind(q, k + 1)
        /\ \A i \in DOMAIN r : i \in Behind(r, k) <=> i + 1 \in Behind(q, k + 1)
    BY <1>5, <2>1 DEF Behind
  <2>5. /\ \A i \in DOMAIN Tail(q) : i \in Behind(r, k) <=> i + 1 \in Behind(q, k + 1)
        /\ Behind(r, k) \in SUBSET (DOMAIN Tail(q))
    BY <1>1, <2>4
  <2>6. /\ Good(q, Behind(q, k + 1), e) => Good(Tail(q), Behind(r, k), e)
        /\ Tells(q, Behind(q, k + 1), e) => Tells(Tail(q), Behind(r, k), e)
    BY <1>1, <2>2, <2>4, <2>5, GoodCut
  <2> QED BY <1>1, <2>3, <2>6
<1>10. ASSUME NEW k \in DOMAIN r, Stale(r[k], status.v)
       PROVE  SaidBatch(0) \/ SaysBehind(r, k, status.v)
  <2>1. SaidBatch(0) \/ SaysBehind(q, k + 1, status.v)
    BY <1>2, <1>5, <1>10 DEF q
  <2>2. SaysBehind(q, k + 1, status.v) => SaysBehind(Tail(q), k, status.v)
    BY <1>1, <1>5, SaysCut
  <2> QED BY <1>1, <2>1, <2>2
<1>11. ASSUME NEW k \in DOMAIN r
       PROVE  /\ r[k].seq <= sequence
              /\ r[k].seq = 0 => r[k].kind = "gap"
              /\ r[k].kind = "checkpoint" => r[k].seq <= snapshot.seq /\ Based
              /\ PastN(r[k].to) /\ PastV(r[k].v) /\ r[k].to \in Nat /\ r[k].v \in Nat
  <2>1. r[k] = q[k + 1] /\ k + 1 \in DOMAIN q
    BY <1>5
  <2>2. PastN(q[k + 1].to) /\ PastV(q[k + 1].v)
    BY <1>2, <2>1 DEF q
  <2> QED BY <1>3, <1>6, <2>1, <2>2
<1> QED BY <1>7, <1>8, <1>9, <1>10, <1>11

\* What is kept for those who join is still on its way, or has been read just now.
LEMMA ReadHolds ==
  ASSUME TypeOK, ServerOK, NEW c \in Client, ClientOK(c), NEW f, NEW r, NEW u,
         Reading(c, f, r, u)
  PROVE  /\ snapshot.seq > u.seq =>
               \E k \in DOMAIN r : /\ r[k].seq = snapshot.seq
                                   /\ r[k].kind = snapshot.kind /\ r[k].to = snapshot.to
         /\ \A i \in DOMAIN replay :
               replay[i].seq > u.seq => \E k \in DOMAIN r : r[k] = replay[i]
         /\ snapshot.seq > view[c].seq /\ snapshot.seq <= u.seq =>
               f.kind = snapshot.kind /\ f.to = snapshot.to
         /\ \A i \in DOMAIN replay :
               replay[i].seq > view[c].seq /\ replay[i].seq <= u.seq => f = replay[i]
<1> DEFINE w == view[c]
           q == out[c]
<1>1. /\ q \in Seq(Frame) /\ q # <<>> /\ r = Tail(q) /\ w.seq \in Nat /\ snapshot.seq \in Nat
      /\ replay \in Seq(Frame)
  BY Typed, TypedClient DEF Reading
<1>2. /\ f = q[1] /\ 1 \in DOMAIN q /\ f.seq \in Nat /\ u.seq \in Nat /\ w.on = TRUE
      /\ u.seq \in {w.seq, f.seq} /\ w.seq <= u.seq /\ f.seq <= u.seq
  BY ReadPlaces
<1>3. Lined(c) /\ Holds(c)
  BY DEF ClientOK, SequencedClient
<1>4. /\ snapshot.seq > w.seq =>
            \E k \in DOMAIN q :
                /\ q[k].seq = snapshot.seq
                /\ q[k].kind = snapshot.kind /\ q[k].to = snapshot.to
      /\ \A i \in DOMAIN replay :
            replay[i].seq > w.seq => \E k \in DOMAIN q : q[k] = replay[i]
  BY <1>2, <1>3 DEF Holds
<1>5. \A j, k \in DOMAIN q : j < k => q[k].seq = 0 \/ q[j].seq < q[k].seq
  BY <1>3 DEF Lined
<1> HIDE DEF w, q
<1>6. \A k \in DOMAIN q : k \in Nat /\ k >= 1 /\ q[k].seq \in Nat
  BY <1>1, Places, Fields
<1>7. \A k \in DOMAIN q : k # 1 => k - 1 \in DOMAIN r /\ r[k - 1] = q[k]
  BY <1>1, Cut
<1>8. \A i \in DOMAIN replay : replay[i].seq \in Nat
  BY <1>1, Places, Fields
<1>9. ASSUME NEW k \in DOMAIN q, q[k].seq > u.seq
      PROVE  k # 1
  BY <1>2, <1>6, <1>9
<1>10. ASSUME NEW k \in DOMAIN q, q[k].seq > w.seq, q[k].seq <= u.seq
       PROVE  q[k] = f
  <2>1. u.seq = f.seq /\ q[k].seq # 0
    BY <1>1, <1>2, <1>6, <1>10
  <2>2. ~(1 < k)
    BY <1>2, <1>5, <1>6, <1>10, <2>1
  <2>3. k = 1
    BY <1>6, <2>2
  <2> QED BY <1>2, <2>3
<1>11. ASSUME snapshot.seq > u.seq
       PROVE  \E k \in DOMAIN r : /\ r[k].seq = snapshot.seq
                                  /\ r[k].kind = snapshot.kind /\ r[k].to = snapshot.to
  <2>1. snapshot.seq > w.seq
    BY <1>1, <1>2, <1>11
  <2>2. PICK k \in DOMAIN q : /\ q[k].seq = snapshot.seq
                              /\ q[k].kind = snapshot.kind /\ q[k].to = snapshot.to
    BY <1>4, <2>1
  <2>3. k # 1
    BY <1>9, <1>11, <2>2
  <2> QED BY <1>7, <2>2, <2>3
<1>12. ASSUME NEW i \in DOMAIN replay, replay[i].seq > u.seq
       PROVE  \E k \in DOMAIN r : r[k] = replay[i]
  <2>1. replay[i].seq > w.seq
    BY <1>1, <1>2, <1>8, <1>12
  <2>2. PICK k \in DOMAIN q : q[k] = replay[i]
    BY <1>4, <2>1
  <2>3. k # 1
    BY <1>9, <1>12, <2>2
  <2> QED BY <1>7, <2>2, <2>3
<1>13. ASSUME snapshot.seq > w.seq, snapshot.seq <= u.seq
       PROVE  f.kind = snapshot.kind /\ f.to = snapshot.to
  <2>1. PICK k \in DOMAIN q : /\ q[k].seq = snapshot.seq
                              /\ q[k].kind = snapshot.kind /\ q[k].to = snapshot.to
    BY <1>4, <1>13
  <2>2. q[k] = f
    BY <1>10, <1>13, <2>1
  <2> QED BY <2>1, <2>2
<1>14. ASSUME NEW i \in DOMAIN replay, replay[i].seq > w.seq, replay[i].seq <= u.seq
       PROVE  f = replay[i]
  <2>1. PICK k \in DOMAIN q : q[k] = replay[i]
    BY <1>4, <1>14
  <2>2. q[k] = f
    BY <1>10, <1>14, <2>1
  <2> QED BY <2>1, <2>2
<1> QED BY <1>11, <1>12, <1>13, <1>14 DEF w

\* A line that is read by its kind.
LEMMA ReadKinds ==
  ASSUME TypeOK, NEW c \in Client, ClientOK(c), NEW f, NEW r, NEW u, Reading(c, f, r, u),
         ~Had(view[c], f)
  PROVE  /\ f.kind \in {"gap", "state", "checkpoint", "event"}
         /\ u.twice \in {view[c].twice}
         /\ f.kind = "gap" => u.told = TRUE
         /\ f.kind \in {"gap", "state"} => /\ u.n \in {view[c].n} /\ u.based \in {view[c].based}
                                           /\ u.missed \in {view[c].missed}
         /\ f.kind = "state" => u.told \in {view[c].told}
         /\ f.kind \in {"state", "checkpoint"} => u.v \in {f.v} /\ u.kept = FALSE
         /\ f.kind \in {"gap", "event"} => u.v \in {view[c].v} /\ u.kept \in {view[c].kept}
         /\ f.kind \in {"checkpoint", "event"} => u.n \in {f.to}
         /\ f.kind = "checkpoint" => u.told = FALSE /\ u.missed = FALSE /\ u.based = TRUE
         /\ f.kind = "event" => /\ u.told \in {view[c].told} /\ u.based \in {view[c].based}
                                /\ f.from \in {view[c].n + 1} => u.missed \in {view[c].missed}
<1> DEFINE w == view[c]
           a == Applied(w, f)
<1>1. w \in ViewType /\ u = a
  BY DEF TypeOK, ViewType, Reading, Read
<1>2. f \in Frame /\ WellFrame(f) /\ NAfter(w.n, f)
  BY ReadPlaces
<1> HIDE DEF w
<1>3. f.kind \in {"gap", "state", "checkpoint", "event"}
  BY <1>2, Fields DEF WellFrame
<1>4. /\ a.twice = w.twice
      /\ f.kind = "gap" =>
           /\ a.n = w.n /\ a.v = w.v /\ a.told = TRUE /\ a.based = w.based
           /\ a.missed = w.missed /\ a.kept = w.kept
      /\ f.kind = "state" =>
           /\ a.n = w.n /\ a.v = f.v /\ a.told = w.told /\ a.based = w.based
           /\ a.missed = w.missed /\ a.kept = FALSE
      /\ f.kind = "checkpoint" =>
           /\ a.n = f.to /\ a.v = f.v /\ a.told = FALSE /\ a.based = TRUE
           /\ a.missed = FALSE /\ a.kept = FALSE
      /\ f.kind = "event" =>
           /\ a.n = f.to /\ a.v = w.v /\ a.told = w.told /\ a.based = w.based
           /\ f.from = w.n + 1 => a.missed = w.missed
           /\ a.kept = w.kept
  BY <1>1, <1>2, AppliedIs
<1> HIDE DEF a
<1>5. CASE f.kind = "gap"
  BY <1>1, <1>4, <1>5 DEF w
<1>6. CASE f.kind = "state"
  BY <1>1, <1>4, <1>6 DEF w
<1>7. CASE f.kind = "checkpoint"
  BY <1>1, <1>4, <1>7 DEF w
<1>8. CASE f.kind = "event"
  BY <1>1, <1>4, <1>8 DEF w
<1> QED BY <1>3, <1>5, <1>6, <1>7, <1>8

\* A client with nothing to be told is read the next event.
LEMMA ReadNext ==
  ASSUME TypeOK, Pushing, NEW c \in Client, ClientOK(c), NEW f, NEW r, NEW u,
         Reading(c, f, r, u), ~Had(view[c], f), f.kind = "event", Sound(view[c])
  PROVE  f.from \in {view[c].n + 1}
<1> DEFINE w == view[c]
           q == out[c]
           e == w.n + 1
<1>1. /\ f \in Frame /\ WellFrame(f) /\ f = q[1] /\ 1 \in DOMAIN q /\ w.on = TRUE
      /\ NAfter(w.n, f) /\ 1 \in Live(w, q)
  BY ReadPlaces
<1>2. w.n \in Nat /\ Sent \in Nat /\ FineN(q, Sent) /\ FullView(c)
  BY TypedClient, PushFields DEF ClientOK, ClientN
<1>3. f.from \in Nat /\ f.to \in Nat
  BY <1>1, Fields
<1>4. f.to <= Sent /\ f.from <= f.to /\ w.n < f.from
  BY <1>1, <1>2 DEF FineN, WellFrame, NAfter
<1>5. e \in w.n + 1 .. Sent
  BY <1>2, <1>3, <1>4
<1>6. Good(q, Live(w, q), e)
  BY <1>1, <1>2, <1>5 DEF FullView
<1>7. ASSUME e < f.from
      PROVE  FALSE
  <2>1. Skips(q[1], e)
    BY <1>1, <1>7 DEF Skips
  <2>2. PICK i \in Live(w, q) : i < 1
    BY <1>1, <1>6, <2>1 DEF Good
  <2>3. q \in Seq(Frame) /\ i \in DOMAIN q
    BY <2>2, TypedClient DEF Live
  <2>4. i \in Nat /\ i >= 1
    BY <2>3, Places
  <2> QED BY <2>2, <2>4
<1> QED BY <1>2, <1>3, <1>4, <1>7

\* What has been read fits what there is to read.
LEMMA ReadN ==
  ASSUME TypeOK, Pushing, ServerOK, NEW c \in Client, ClientOK(c), NEW f, NEW r, NEW u,
         Reading(c, f, r, u)
  PROVE  /\ PastN(u.n) /\ u.n \in Nat
         /\ \A k \in Live(u, r) : NAfter(u.n, r[k])
         /\ ~u.twice /\ (u.based /\ u.missed => u.told)
<1> DEFINE w == view[c]
           q == out[c]
<1>1. /\ q \in Seq(Frame) /\ q # <<>> /\ r = Tail(q) /\ w.n \in Nat /\ Sent \in Nat
  BY TypedClient, PushFields DEF Reading
<1>2. /\ f = q[1] /\ 1 \in DOMAIN q /\ f = Head(q) /\ f.to \in Nat
      /\ Had(w, f) => u = w
  BY ReadPlaces
<1>3. /\ FineN(q, Sent) /\ PastN(w.n) /\ PastN(f.to)
      /\ \A k \in Live(w, q) : NAfter(w.n, q[k])
      /\ ~w.twice /\ (w.based /\ w.missed => w.told)
  BY <1>2 DEF ClientOK, ClientN
<1>4. \A i \in DOMAIN r : i \in Live(u, r) <=> i + 1 \in Live(w, q)
  BY ReadLive
<1> HIDE DEF q
<1>5. \A i \in DOMAIN r : r[i] = q[i + 1]
  BY <1>1, Cut
<1>6. \A k \in Live(u, r) : NAfter(w.n, r[k])
  BY <1>3, <1>4, <1>5 DEF Live
<1>7. AboveN(f.to, r)
  BY <1>1, <1>2, <1>3, FineTail
<1>8. CASE Had(w, f)
  BY <1>1, <1>2, <1>3, <1>6, <1>8
<1>9. CASE ~Had(w, f)
  <2>1. u.n \in {w.n, f.to} /\ u.twice \in {w.twice}
    <3>1. /\ f.kind \in {"gap", "state", "checkpoint", "event"}
          /\ u.twice \in {w.twice}
      BY <1>9, ReadKinds
    <3>2. f.kind \in {"gap", "state"} => u.n \in {w.n}
      BY <1>9, ReadKinds
    <3>3. f.kind \in {"checkpoint", "event"} => u.n \in {f.to}
      BY <1>9, ReadKinds
    <3> QED BY <3>1, <3>2, <3>3
  <2>2. u.based /\ u.missed => u.told
    <3>1. CASE f.kind \in {"gap", "checkpoint"}
      BY <1>9, <3>1, ReadKinds
    <3>2. CASE f.kind = "state"
      <4>1. u.based \in {w.based} /\ u.missed \in {w.missed} /\ u.told \in {w.told}
        BY <1>9, <3>2, ReadKinds
      <4> QED BY <1>3, <4>1
    <3>3. CASE f.kind = "event"
      <4>1. u.based \in {w.based} /\ u.told \in {w.told}
        BY <1>9, <3>3, ReadKinds
      <4>2. Sound(w) => u.missed \in {w.missed}
        <5>1. Sound(w) => f.from \in {w.n + 1}
          BY <1>9, <3>3, ReadNext
        <5>2. f.from \in {w.n + 1} => u.missed \in {w.missed}
          BY <1>9, <3>3, ReadKinds
        <5> QED BY <5>1, <5>2
      <4> QED BY <1>3, <4>1, <4>2 DEF Sound
    <3>4. f.kind \in {"gap", "state", "checkpoint", "event"}
      BY <1>9, ReadKinds
    <3> QED BY <3>1, <3>2, <3>3, <3>4
  <2>3. CASE u.n = w.n
    BY <1>1, <1>3, <1>6, <2>1, <2>2, <2>3
  <2>4. CASE u.n = f.to
    BY <1>2, <1>3, <1>7, <2>1, <2>2, <2>4 DEF AboveN, Live
  <2> QED BY <2>1, <2>3, <2>4
<1> QED BY <1>8, <1>9

LEMMA ReadUp ==
  ASSUME TypeOK, Pushing, ServerOK, NEW c \in Client, ClientOK(c), NEW f, NEW r, NEW u,
         Reading(c, f, r, u)
  PROVE  Up(u)
<1> DEFINE w == view[c]
<1>1. /\ w.n \in Nat /\ w.seq \in Nat /\ snapshot.seq \in Nat /\ snapshot.to \in Nat
      /\ \A i \in DOMAIN replay : /\ replay[i].seq \in Nat /\ replay[i].to \in Nat
                                  /\ snapshot.seq < replay[i].seq
  BY Typed, TypedClient, Places, Fields DEF ServerOK, Replayed
<1>2. /\ u.seq \in Nat /\ f.seq \in Nat /\ f.to \in Nat /\ WellFrame(f) /\ f.from \in Nat
      /\ f \in Frame /\ (f.seq = 0 => f.kind = "gap")
  <2>1. f \in Frame
    BY ReadPlaces
  <2> QED BY <2>1, Fields, ReadPlaces
<1>3. /\ Had(w, f) => u = w
      /\ ~Had(w, f) => NAfter(w.n, f)
      /\ ~Had(w, f) /\ f.seq # 0 => u.seq \in {f.seq} /\ w.seq < f.seq
  BY ReadPlaces
<1>4. /\ Up(w)
      /\ f.kind = "checkpoint" => f.seq <= snapshot.seq
  <2>1. Lined(c) /\ Up(w)
    BY DEF ClientOK, SequencedClient, ClientN
  <2>2. f = out[c][1] /\ 1 \in DOMAIN out[c]
    BY ReadPlaces
  <2> QED BY <2>1, <2>2 DEF Lined
<1>5. /\ snapshot.seq > w.seq /\ snapshot.seq <= u.seq => f.to = snapshot.to
      /\ \A i \in DOMAIN replay :
            replay[i].seq > w.seq /\ replay[i].seq <= u.seq => f = replay[i]
  BY ReadHolds
<1>6. CASE Had(w, f)
  BY <1>3, <1>4, <1>6
<1>7. CASE ~Had(w, f)
  <2>1. CASE f.kind = "gap"
    BY <1>7, <2>1, ReadKinds DEF Up, Sound
  <2>2. CASE f.kind = "checkpoint"
    <3>1. u.n = f.to /\ f.seq # 0
      BY <1>2, <1>7, <2>2, ReadKinds
    <3>2. u.seq = f.seq /\ w.seq < f.seq /\ f.seq <= snapshot.seq
      BY <1>3, <1>4, <1>7, <2>2, <3>1
    <3>3. snapshot.seq <= u.seq => snapshot.to <= u.n
      BY <1>1, <1>2, <1>5, <3>1, <3>2
    <3>4. \A i \in DOMAIN replay : ~(replay[i].seq <= u.seq)
      BY <1>1, <1>2, <3>2
    <3> QED BY <3>3, <3>4 DEF Up
  <2>3. CASE f.kind \in {"state", "event"}
    <3>1. Sound(u) <=> Sound(w)
      <4>1. f.kind = "state" => u.based \in {w.based} /\ u.told \in {w.told}
        BY <1>7, ReadKinds
      <4>2. f.kind = "event" => u.based \in {w.based} /\ u.told \in {w.told}
        BY <1>7, ReadKinds
      <4> QED BY <2>3, <4>1, <4>2 DEF Sound
    <3>2. u.n \in Nat /\ w.n <= u.n /\ f.to <= u.n
      <4>1. CASE f.kind = "state"
        <5>1. u.n \in {w.n}
          BY <1>7, <4>1, ReadKinds
        <5>2. f.to = 0
          BY <1>2, <4>1 DEF WellFrame
        <5> QED BY <1>1, <5>1, <5>2
      <4>2. CASE f.kind = "event"
        <5>1. u.n = f.to
          BY <1>7, <4>2, ReadKinds
        <5>2. w.n < f.from /\ f.from <= f.to
          BY <1>2, <1>3, <1>7, <4>2 DEF NAfter, WellFrame
        <5> QED BY <1>1, <1>2, <5>1, <5>2
      <4> QED BY <2>3, <4>1, <4>2
    <3> SUFFICES ASSUME Sound(w)
                 PROVE  /\ snapshot.seq <= u.seq => snapshot.to <= u.n
                        /\ \A i \in DOMAIN replay :
                              replay[i].seq <= u.seq => replay[i].kind # "gap" /\ replay[i].to <= u.n
      BY <3>1 DEF Up
    <3>3. snapshot.seq <= w.seq => snapshot.to <= w.n
      BY <1>4 DEF Up
    <3>4. snapshot.seq <= u.seq => snapshot.to <= u.n
      BY <1>1, <1>2, <1>5, <3>2, <3>3
    <3>5. ASSUME NEW i \in DOMAIN replay, replay[i].seq <= u.seq
          PROVE  replay[i].kind # "gap" /\ replay[i].to <= u.n
      <4>1. CASE replay[i].seq <= w.seq
        <5>1. replay[i].kind # "gap" /\ replay[i].to <= w.n
          BY <1>4, <4>1 DEF Up
        <5> QED BY <1>1, <3>2, <5>1
      <4>2. CASE ~(replay[i].seq <= w.seq)
        <5>1. replay[i].seq > w.seq
          BY <1>1, <4>2
        <5>2. f = replay[i]
          BY <1>5, <3>5, <5>1
        <5> QED BY <2>3, <3>2, <5>2
      <4> QED BY <4>1, <4>2
    <3> QED BY <3>4, <3>5
  <2>4. f.kind \in {"gap", "state", "checkpoint", "event"}
    BY <1>7, ReadKinds
  <2> QED BY <2>1, <2>2, <2>3, <2>4
<1> QED BY <1>6, <1>7

LEMMA ReadAhead ==
  ASSUME TypeOK, Pushing, ServerOK, NEW c \in Client, ClientOK(c), NEW f, NEW r, NEW u,
         Reading(c, f, r, u)
  PROVE  Ahead(u)
<1> DEFINE w == view[c]
<1>1. /\ w.seq \in Nat /\ snapshot.seq \in Nat
      /\ \A i \in DOMAIN replay : replay[i].seq \in Nat
  BY Typed, TypedClient, Places, Fields
<1>2. u.seq \in Nat /\ w.seq <= u.seq /\ (Had(w, f) => u = w)
  BY ReadPlaces
<1>3. Ahead(w) /\ FineN(out[c], Sent) /\ Sent \in Nat
  BY PushFields DEF ClientOK, ClientN
<1>4. AboveN(f.to, r)
  <2>1. out[c] \in Seq(Frame) /\ out[c] # <<>> /\ r = Tail(out[c]) /\ f = Head(out[c])
    BY TypedClient DEF Reading
  <2> QED BY <1>3, <2>1, FineTail
<1>5. /\ snapshot.seq > u.seq =>
            \E k \in DOMAIN r : /\ r[k].seq = snapshot.seq
                                /\ r[k].kind = snapshot.kind /\ r[k].to = snapshot.to
      /\ \A i \in DOMAIN replay :
            replay[i].seq > u.seq => \E k \in DOMAIN r : r[k] = replay[i]
  BY ReadHolds
<1>6. snapshot.kind # "event"
  BY GapFrame DEF ServerOK, Snapshotted, IsState
<1> HIDE DEF w
<1>7. CASE Had(w, f)
  BY <1>2, <1>3, <1>7
<1>8. CASE ~Had(w, f) /\ u.n \in {w.n}
  <2>1. snapshot.seq > u.seq => NAfter(w.n, snapshot)
    BY <1>1, <1>2, <1>3 DEF Ahead
  <2>2. \A i \in DOMAIN replay : replay[i].seq > u.seq => NAfter(w.n, replay[i])
    BY <1>1, <1>2, <1>3 DEF Ahead
  <2>3. u.n = w.n
    BY <1>8
  <2> QED BY <2>1, <2>2, <2>3 DEF Ahead
<1>9. CASE u.n \in {f.to}
  <2>1. snapshot.seq > u.seq => NAfter(f.to, snapshot)
    BY <1>4, <1>5, <1>6 DEF AboveN, NAfter
  <2>2. \A i \in DOMAIN replay : replay[i].seq > u.seq => NAfter(f.to, replay[i])
    BY <1>4, <1>5 DEF AboveN
  <2>3. u.n = f.to
    BY <1>9
  <2> QED BY <2>1, <2>2, <2>3 DEF Ahead
<1>10. ~Had(w, f) => u.n \in {w.n} \/ u.n \in {f.to}
  <2>1. ~Had(w, f) => f.kind \in {"gap", "state", "checkpoint", "event"}
    BY ReadKinds DEF w
  <2>2. ~Had(w, f) /\ f.kind \in {"gap", "state"} => u.n \in {w.n}
    BY ReadKinds DEF w
  <2>3. ~Had(w, f) /\ f.kind \in {"checkpoint", "event"} => u.n \in {f.to}
    BY ReadKinds DEF w
  <2> QED BY <2>1, <2>2, <2>3
<1> QED BY <1>7, <1>8, <1>9, <1>10

\* What a client with nothing to be told does not know is on its way still.
LEMMA ReadView ==
  ASSUME TypeOK, Pushing, NEW c \in Client, ClientOK(c), NEW f, NEW r, NEW u,
         Reading(c, f, r, u), Sound(u), NEW e \in u.n + 1 .. Sent
  PROVE  /\ Good(r, Live(u, r), e)
         /\ Tells(r, Live(u, r), e) \/ InBatch(e)
<1> DEFINE w == view[c]
           q == out[c]
           at == Live(w, q)
           places == Live(u, r)
<1>1. /\ q \in Seq(Frame) /\ q # <<>> /\ r = Tail(q) /\ f = Head(q) /\ f = q[1]
      /\ 1 \in DOMAIN q /\ w.n \in Nat /\ Sent \in Nat /\ w.on = TRUE /\ f.to \in Nat
      /\ WellFrame(f)
  BY TypedClient, PushFields, ReadPlaces DEF Reading
<1>2. u \in ViewType /\ (Had(w, f) => u = w /\ 1 \notin at) /\ (~Had(w, f) => NAfter(w.n, f))
  BY ReadPlaces
<1>3. u.n \in Nat
  BY <1>2, Bounds DEF ViewType
<1>4. e \in Nat /\ u.n < e /\ e <= Sent
  BY <1>1, <1>3
<1>5. \A i \in DOMAIN r : i \in places <=> i + 1 \in at
  BY ReadLive
<1>6. FullView(c) /\ FullOut(c)
  BY DEF ClientOK
<1>7. at \in SUBSET (DOMAIN q) /\ places \in SUBSET (DOMAIN r)
  BY DEF Live
<1>8. Sound(w) => \A x \in w.n + 1 .. Sent : Good(q, at, x) /\ (Tells(q, at, x) \/ InBatch(x))
  BY <1>1, <1>6 DEF FullView
<1>9. f.kind = "checkpoint" => \A x \in f.to + 1 .. Sent :
         Good(q, Behind(q, 1), x) /\ (Tells(q, Behind(q, 1), x) \/ InBatch(x))
  BY <1>1, <1>6 DEF FullOut, Checks
<1>10. ~Had(w, f) /\ f.seq # 0 => places = DOMAIN r
  BY ReadLive
<1>11. f.seq = 0 => f.kind = "gap"
  BY ReadPlaces
<1> HIDE DEF w, q, at, places
<1>12. ASSUME Sound(w), w.n < e, ~(1 \in at /\ Covers(f, e))
       PROVE  Good(r, places, e) /\ (Tells(r, places, e) \/ InBatch(e))
  <2>1. e \in w.n + 1 .. Sent
    BY <1>1, <1>4, <1>12
  <2>2. Good(q, at, e) /\ (Tells(q, at, e) \/ InBatch(e))
    BY <1>8, <1>12, <2>1
  <2>3. /\ Good(q, at, e) /\ ~(1 \in at /\ Covers(Head(q), e)) => Good(Tail(q), places, e)
        /\ Tells(q, at, e) /\ ~(1 \in at /\ Covers(Head(q), e)) => Tells(Tail(q), places, e)
    <3>1. /\ \A i \in DOMAIN Tail(q) : i \in places <=> i + 1 \in at
          /\ places \in SUBSET (DOMAIN Tail(q))
      BY <1>1, <1>5, <1>7
    <3> QED BY <1>1, <1>4, <1>7, <3>1, GoodCut
  <2> QED BY <1>1, <1>12, <2>2, <2>3
<1>13. CASE Had(w, f)
  <2>1. Sound(w) /\ w.n < e /\ 1 \notin at
    BY <1>2, <1>4, <1>13
  <2> QED BY <1>12, <2>1 DEF places
<1>14. CASE ~Had(w, f)
  <2>1. f.kind \in {"state", "checkpoint", "event"}
    <3>1. f.kind \in {"gap", "state", "checkpoint", "event"}
      BY <1>14, ReadKinds DEF w
    <3>2. f.kind = "gap" => u.told = TRUE
      BY <1>14, ReadKinds DEF w
    <3> QED BY <3>1, <3>2 DEF Sound
  <2>2. CASE f.kind = "state"
    <3>1. u.n \in {w.n} /\ u.based \in {w.based} /\ u.told \in {w.told}
      BY <1>14, <2>2, ReadKinds DEF w
    <3>2. f.to = 0
      BY <1>1, <2>2 DEF WellFrame
    <3>3. Sound(w) /\ w.n < e
      BY <1>4, <3>1 DEF Sound
    <3>4. ~Covers(f, e)
      BY <1>3, <1>4, <2>2, <3>2 DEF Covers
    <3> QED BY <1>12, <3>3, <3>4 DEF places
  <2>3. CASE f.kind = "event"
    <3>1. u.n \in {f.to} /\ u.based \in {w.based} /\ u.told \in {w.told}
      BY <1>14, <2>3, ReadKinds DEF w
    <3>2. w.n < e
      <4>1. f \in Frame
        BY ReadPlaces
      <4>2. f.from \in Nat
        BY <4>1, Fields
      <4>3. w.n < f.from /\ f.from <= f.to
        BY <1>1, <1>2, <1>14, <2>3 DEF NAfter, WellFrame
      <4> QED BY <1>1, <1>4, <3>1, <4>2, <4>3
    <3>3. Sound(w)
      BY <3>1 DEF Sound
    <3>4. ~Covers(f, e)
      BY <1>1, <1>4, <2>3, <3>1 DEF Covers
    <3> QED BY <1>12, <3>2, <3>3, <3>4 DEF places
  <2>4. CASE f.kind = "checkpoint"
    <3>1. u.n \in {f.to}
      BY <1>14, <2>4, ReadKinds DEF w
    <3>2. e \in f.to + 1 .. Sent
      BY <1>1, <1>4, <3>1
    <3>3. Good(q, Behind(q, 1), e) /\ (Tells(q, Behind(q, 1), e) \/ InBatch(e))
      BY <1>9, <2>4, <3>2
    <3>4. places = DOMAIN r
      BY <1>10, <1>11, <1>14, <2>4
    <3>5. /\ Behind(q, 1) \in SUBSET (DOMAIN q) /\ 1 \notin Behind(q, 1)
      BY DEF Behind
    <3>6. \A i \in DOMAIN Tail(q) : i \in places <=> i + 1 \in Behind(q, 1)
      <4>1. \A i \in DOMAIN Tail(q) : i + 1 \in DOMAIN q /\ 1 < i + 1 /\ i \in Nat
        BY <1>1, Cut
      <4> QED BY <1>1, <3>4, <4>1 DEF Behind
    <3>7. /\ Good(q, Behind(q, 1), e) => Good(Tail(q), places, e)
          /\ Tells(q, Behind(q, 1), e) => Tells(Tail(q), places, e)
      BY <1>1, <1>4, <1>7, <3>5, <3>6, GoodCut
    <3> QED BY <1>1, <3>3, <3>7 DEF places
  <2> QED BY <2>1, <2>2, <2>3, <2>4
<1> QED BY <1>13, <1>14

LEMMA ReadV ==
  ASSUME TypeOK, Pushing, NEW c \in Client, ClientOK(c), NEW f, NEW r, NEW u,
         Reading(c, f, r, u)
  PROVE  /\ PastV(u.v) /\ u.v \in Nat
         /\ \A k \in Live(u, r) : VAfter(u.v, r[k])
         /\ VAfter(view[c].v, f) => view[c].v <= u.v
<1> DEFINE w == view[c]
           q == out[c]
<1>1. /\ q \in Seq(Frame) /\ q # <<>> /\ r = Tail(q) /\ w.v \in Nat /\ status.v \in Nat
  BY TypedClient, PushFields DEF Reading
<1>2. /\ f = q[1] /\ 1 \in DOMAIN q /\ f = Head(q) /\ f.v \in Nat
      /\ Had(w, f) => u = w
  BY ReadPlaces
<1>3. /\ FineV(q, status.v) /\ PastV(w.v) /\ PastV(f.v)
      /\ \A k \in Live(w, q) : VAfter(w.v, q[k])
  BY <1>2 DEF ClientOK, ClientV
<1>4. \A i \in DOMAIN r : i \in Live(u, r) <=> i + 1 \in Live(w, q)
  BY ReadLive
<1>5. ~Had(w, f) => f.kind \in {"gap", "state", "checkpoint", "event"}
  BY ReadKinds
<1>6. ~Had(w, f) /\ f.kind \in {"gap", "event"} => u.v \in {w.v}
  BY ReadKinds
<1>7. ~Had(w, f) /\ f.kind \in {"state", "checkpoint"} => u.v \in {f.v}
  BY ReadKinds
<1> HIDE DEF q, w
<1>8. \A i \in DOMAIN r : r[i] = q[i + 1]
  BY <1>1, Cut
<1>9. \A k \in Live(u, r) : VAfter(w.v, r[k])
  BY <1>3, <1>4, <1>8 DEF Live
<1>10. AboveV(f.v, r)
  BY <1>1, <1>2, <1>3, FineTail
<1>11. CASE u.v = w.v
  <2>1. PastV(u.v) /\ u.v \in Nat
    BY <1>1, <1>3, <1>11
  <2>2. \A k \in Live(u, r) : VAfter(u.v, r[k])
    BY <1>9, <1>11
  <2>3. w.v <= u.v
    BY <1>1, <1>11
  <2> QED BY <2>1, <2>2, <2>3 DEF w
<1>12. CASE u.v = f.v /\ IsState(f)
  <2>1. \A k \in Live(u, r) : VAfter(u.v, r[k])
    BY <1>10, <1>12 DEF AboveV, Live
  <2>2. VAfter(w.v, f) => w.v <= u.v
    BY <1>12 DEF VAfter
  <2> QED BY <1>2, <1>3, <1>12, <2>1, <2>2 DEF w
<1>13. u.v = w.v \/ (u.v = f.v /\ IsState(f))
  <2>1. f.kind \in {"state", "checkpoint"} => IsState(f)
    BY DEF IsState
  <2> QED BY <1>2, <1>5, <1>6, <1>7, <2>1
<1> QED BY <1>11, <1>12, <1>13

\* A client that does not know the status is still to be told, or asks.
LEMMA ReadSays ==
  ASSUME TypeOK, Pushing, NEW c \in Client, ClientOK(c), NEW f, NEW r, NEW u,
         Reading(c, f, r, u), ~u.kept, u.v # status.v,
         Had(view[c], f) \/ f.kind # "gap"
  PROVE  SaidBatch(0) \/ \E k \in Live(u, r) : Says(r[k], status.v)
<1> DEFINE w == view[c]
           q == out[c]
<1>1. /\ q \in Seq(Frame) /\ q # <<>> /\ r = Tail(q) /\ w.on = TRUE /\ f = q[1] /\ 1 \in DOMAIN q
      /\ Had(w, f) => u = w /\ 1 \notin Live(w, q)
  <2>1. q \in Seq(Frame) /\ q # <<>> /\ r = Tail(q)
    BY TypedClient DEF Reading
  <2>2. w.on = TRUE /\ f = q[1] /\ 1 \in DOMAIN q
    BY ReadPlaces
  <2>3. Had(w, f) => u = w /\ 1 \notin Live(w, q)
    BY ReadPlaces
  <2> QED BY <2>1, <2>2, <2>3
<1>2. /\ \A k \in DOMAIN q :
            Stale(q[k], status.v) => SaidBatch(0) \/ SaysBehind(q, k, status.v)
      /\ ~w.kept /\ w.v # status.v =>
            SaidBatch(0) \/ \E k \in Live(w, q) : Says(q[k], status.v)
  BY <1>1 DEF ClientOK, SaidClient
<1>3. \A i \in DOMAIN r : i \in Live(u, r) <=> i + 1 \in Live(w, q)
  BY ReadLive
<1>4. \A k \in DOMAIN q : k # 1 => k - 1 \in DOMAIN r /\ r[k - 1] = q[k] /\ (k - 1) + 1 = k
  BY <1>1, Cut
<1> HIDE DEF w, q
<1>5. ASSUME ~w.kept, w.v # status.v, 1 \in Live(w, q) => ~Says(f, status.v)
      PROVE  SaidBatch(0) \/ \E k \in Live(u, r) : Says(r[k], status.v)
  <2>1. CASE \E k \in Live(w, q) : Says(q[k], status.v)
    <3>1. PICK k \in Live(w, q) : Says(q[k], status.v)
      BY <2>1
    <3>2. k \in DOMAIN q /\ k # 1
      BY <1>1, <1>5, <3>1 DEF Live
    <3>3. k - 1 \in Live(u, r) /\ Says(r[k - 1], status.v)
      BY <1>3, <1>4, <3>1, <3>2
    <3> QED BY <3>3
  <2> QED BY <1>2, <1>5, <2>1
<1>6. CASE Had(w, f)
  <2>1. u = w /\ 1 \notin Live(w, q)
    BY <1>1, <1>6
  <2>2. ~w.kept /\ w.v # status.v
    BY <2>1
  <2> QED BY <1>5, <2>1, <2>2
<1>7. CASE ~Had(w, f)
  <2>1. f.kind \in {"state", "checkpoint", "event"}
    <3>1. f.kind \in {"gap", "state", "checkpoint", "event"}
      BY <1>7, ReadKinds DEF w
    <3> QED BY <1>7, <3>1 DEF w
  <2>2. CASE f.kind = "event"
    <3>1. u.v \in {w.v} /\ u.kept \in {w.kept}
      BY <1>7, <2>2, ReadKinds DEF w
    <3>2. ~Says(f, status.v)
      BY <2>2 DEF Says, IsState
    <3> QED BY <1>5, <3>1, <3>2
  <2>3. CASE f.kind \in {"state", "checkpoint"}
    <3>1. u.v \in {f.v}
      BY <1>7, <2>3, ReadKinds DEF w
    <3>2. Stale(q[1], status.v)
      BY <1>1, <2>3, <3>1 DEF Stale, IsState
    <3>3. SaidBatch(0) \/ SaysBehind(q, 1, status.v)
      BY <1>1, <1>2, <3>2
    <3>4. Live(u, r) = DOMAIN r
      <4>1. f.seq # 0
        BY <2>3, ReadPlaces
      <4> QED BY <1>7, <4>1, ReadLive DEF w
    <3>5. SaysBehind(q, 1, status.v) => \E k \in DOMAIN r : Says(r[k], status.v)
      <4>1. \A k \in DOMAIN q : k > 1 => k # 1
        BY <1>1, Places
      <4> QED BY <1>4, <4>1 DEF SaysBehind
    <3> QED BY <3>3, <3>4, <3>5
  <2> QED BY <2>1, <2>2, <2>3
<1> QED BY <1>6, <1>7

LEMMA WriteClient ==
  ASSUME TypeOK, Pushing, QueuesOK, ServerOK, NEW c \in Client, ClientOK(c), Quiet,
         NEW f, NEW r, NEW u, Reading(c, f, r, u), out'[c] = r, view'[c] = u,
         ~Had(view[c], f) /\ f.kind = "gap" => asks' # asks
  PROVE  ClientOK(c)'
<1>1. /\ Sent' = Sent /\ Sent \in Nat /\ status'.v = status.v
      /\ \A e \in Nat : InBatch(e)' <=> InBatch(e)
      /\ \A x \in Nat : (PastN(x)' <=> PastN(x)) /\ (PastV(x)' <=> PastV(x))
      /\ SaidBatch(0) => SaidBatch(0)'
      /\ asks' # asks => SaidBatch(0)'
      /\ snapshot' = snapshot /\ replay' = replay /\ sequence' = sequence
      /\ replayGap' = replayGap
  BY QuietKeeps DEF Quiet, server
<1>2. u.on = TRUE /\ u.seq <= sequence /\ r \in Seq(Frame)
  BY ReadPlaces
<1>3. /\ \A k \in DOMAIN r :
            /\ r[k].seq <= sequence
            /\ r[k].seq = 0 => r[k].kind = "gap"
            /\ r[k].kind = "checkpoint" => r[k].seq <= snapshot.seq /\ Based
            /\ PastN(r[k].to) /\ PastV(r[k].v) /\ r[k].to \in Nat /\ r[k].v \in Nat
      /\ \A j, k \in DOMAIN r : j < k => r[k].seq = 0 \/ r[j].seq < r[k].seq
      /\ FineN(r, Sent) /\ FineV(r, status.v)
      /\ \A k \in Checks(r) : \A e \in r[k].to + 1 .. Sent :
            /\ Good(r, Behind(r, k), e)
            /\ Tells(r, Behind(r, k), e) \/ InBatch(e)
      /\ \A k \in DOMAIN r :
            Stale(r[k], status.v) => SaidBatch(0) \/ SaysBehind(r, k, status.v)
  BY ReadLines
<1>4. SequencedClient(c)'
  <2>1. Lined(c)'
    BY <1>1, <1>3 DEF Lined, Based
  <2>2. Holds(c)'
    <3>1. /\ snapshot.seq > u.seq =>
                \E k \in DOMAIN r : /\ r[k].seq = snapshot.seq
                                    /\ r[k].kind = snapshot.kind /\ r[k].to = snapshot.to
          /\ \A i \in DOMAIN replay :
                replay[i].seq > u.seq => \E k \in DOMAIN r : r[k] = replay[i]
      BY ReadHolds
    <3> QED BY <1>1, <3>1 DEF Holds
  <2>3. Parted(c)'
    BY <1>2 DEF Parted
  <2>4. u.based => Based
    <3>1. view[c].based => Based
      BY DEF ClientOK, SequencedClient
    <3>2. CASE Had(view[c], f)
      <4>1. u = view[c]
        BY <3>2, ReadPlaces
      <4> QED BY <3>1, <4>1
    <3>3. CASE ~Had(view[c], f) /\ f.kind = "checkpoint"
      <4>1. f = out[c][1] /\ 1 \in DOMAIN out[c]
        BY ReadPlaces
      <4> QED BY <3>3, <4>1 DEF ClientOK, SequencedClient, Lined
    <3>4. CASE ~Had(view[c], f) /\ f.kind # "checkpoint"
      <4>1. f.kind \in {"gap", "state", "checkpoint", "event"}
        BY <3>4, ReadKinds
      <4>2. f.kind \in {"gap", "state"} => u.based \in {view[c].based}
        BY <3>4, ReadKinds
      <4>3. f.kind = "event" => u.based \in {view[c].based}
        BY <3>4, ReadKinds
      <4>4. u.based = view[c].based
        BY <3>4, <4>1, <4>2, <4>3
      <4> QED BY <3>1, <4>4
    <3> QED BY <3>2, <3>3, <3>4
  <2> QED BY <1>1, <1>2, <2>1, <2>2, <2>3, <2>4 DEF SequencedClient, Based
<1>5. ClientN(c)'
  <2>1. /\ PastN(u.n) /\ u.n \in Nat
        /\ \A k \in Live(u, r) : NAfter(u.n, r[k])
        /\ ~u.twice /\ (u.based /\ u.missed => u.told)
    BY ReadN
  <2>2. Up(u) /\ Ahead(u)
    BY ReadUp, ReadAhead
  <2>3. Up(view[c])' /\ Ahead(view[c])'
    BY <1>1, <2>2 DEF Up, Ahead
  <2>4. \A x \in Nat : PastN(x) => PastN(x)'
    BY <1>1
  <2>5. PastN(view[c].n)'
    BY <2>1, <2>4 DEF PastN
  <2>6. \A k \in DOMAIN out'[c] : PastN(out[c][k].to)'
    BY <1>3, <2>4 DEF PastN
  <2> QED BY <1>1, <1>3, <2>1, <2>3, <2>5, <2>6 DEF ClientN
<1>6. ClientV(c)'
  <2>1. PastV(u.v) /\ u.v \in Nat /\ \A k \in Live(u, r) : VAfter(u.v, r[k])
    BY ReadV
  <2>2. \A x \in Nat : PastV(x) => PastV(x)'
    BY <1>1
  <2>3. PastV(view[c].v)'
    BY <2>1, <2>2 DEF PastV
  <2>4. \A k \in DOMAIN out'[c] : PastV(out[c][k].v)'
    BY <1>3, <2>2 DEF PastV
  <2> QED BY <1>1, <1>2, <1>3, <2>1, <2>3, <2>4 DEF ClientV
<1>7. FullOut(c)'
  <2> SUFFICES ASSUME NEW k \in Checks(r), NEW e \in r[k].to + 1 .. Sent
               PROVE  /\ Good(r, Behind(r, k), e)
                      /\ Tells(r, Behind(r, k), e) \/ InBatch(e)'
    BY <1>1 DEF FullOut
  <2>1. e \in Nat
    BY <1>1, <1>3 DEF Checks
  <2>2. Good(r, Behind(r, k), e) /\ (Tells(r, Behind(r, k), e) \/ InBatch(e))
    BY <1>3
  <2> QED BY <1>1, <2>1, <2>2
<1>8. FullView(c)'
  <2> SUFFICES ASSUME Sound(u), NEW e \in u.n + 1 .. Sent
               PROVE  /\ Good(r, Live(u, r), e)
                      /\ Tells(r, Live(u, r), e) \/ InBatch(e)'
    BY <1>1 DEF FullView
  <2>1. u.n \in Nat
    BY ReadN
  <2>2. e \in Nat
    BY <1>1, <2>1
  <2>3. Good(r, Live(u, r), e) /\ (Tells(r, Live(u, r), e) \/ InBatch(e))
    BY ReadView
  <2> QED BY <1>1, <2>2, <2>3
<1>9. SaidClient(c)'
  <2>1. ASSUME ~u.kept, u.v # status.v
        PROVE  SaidBatch(0)' \/ \E k \in Live(u, r) : Says(r[k], status.v)
    <3>1. CASE Had(view[c], f) \/ f.kind # "gap"
      <4>1. SaidBatch(0) \/ \E k \in Live(u, r) : Says(r[k], status.v)
        BY <2>1, <3>1, ReadSays
      <4> QED BY <1>1, <4>1
    <3>2. CASE ~Had(view[c], f) /\ f.kind = "gap"
      BY <1>1, <3>2
    <3> QED BY <3>1, <3>2
  <2>2. \A k \in DOMAIN r :
           Stale(r[k], status.v) => SaidBatch(0)' \/ SaysBehind(r, k, status.v)
    BY <1>1, <1>3
  <2> QED BY <1>1, <2>1, <2>2 DEF SaidClient
<1> QED BY <1>4, <1>5, <1>6, <1>7, <1>8, <1>9 DEF ClientOK
-----------------------------------------------------------------------------
(***************************************************************************)
(* Every step keeps the invariant.                                         *)
(***************************************************************************)
LEMMA InitKeeps ==
  ASSUME Init
  PROVE  IInv
<1> USE DEF Init
<1>1. /\ Sized(<<>>) = 0 /\ <<>> \in Seq(Frame) /\ DOMAIN <<>> = {}
      /\ snapshot.seq = 0 /\ snapshot.to = 0 /\ snapshot.v = 0 /\ snapshot = None
      /\ snapshot.kind = "none" /\ snapshot \in Frame
  <2>1. {i \in DOMAIN <<>> : <<>>[i].kind # "gap"} = {}
    OBVIOUS
  <2> QED BY <2>1, FS_EmptySet, GapFrame DEF Sized
<1>2. /\ DOMAIN pending = {} /\ DOMAIN batch = {} /\ DOMAIN replay = {}
      /\ \A c \in Client : out[c] = <<>> /\ view[c] = Unseen
  BY <1>1
<1>3. /\ Unseen.n = 0 /\ Unseen.v = 0 /\ Unseen.seq = 0 /\ Unseen.on = FALSE
      /\ Unseen.based = FALSE /\ Unseen.twice = FALSE /\ Unseen \in ViewType
  BY Bounds DEF Unseen, ViewType
<1>4. held = NotHeld /\ held.key = "none" /\ held.from = 0 /\ Sent = 0
  BY DEF NotHeld, Sent
<1>5. TypeOK
  <2>1. /\ pushed \in 0 .. MaxEvents /\ joins \in 0 .. MaxJoins /\ 0 <= Limit
        /\ status.v \in 0 .. MaxStates /\ held.from \in 0 .. MaxEvents
    BY <1>4, Bounds
  <2>2. held \in [key : Key \cup {"none"}, from : 0 .. MaxEvents]
    BY <2>1 DEF NotHeld
  <2>3. status \in [v : 0 .. MaxStates, busy : BOOLEAN]
    BY <2>1
  <2>4. view \in [Client -> ViewType] /\ out \in [Client -> Seq(Frame)]
    BY <1>1, <1>3
  <2> QED BY <1>1, <2>1, <2>2, <2>3, <2>4 DEF TypeOK, ViewType
<1>6. Pushing
  BY <1>4 DEF Pushing
<1>7. status.v = 0
  OBVIOUS
<1>8. PastN(0) /\ PastV(0)
  BY <1>2, <1>4, <1>7 DEF PastN, PastV, AboveN, AboveV
<1>9. QueuesOK
  BY <1>2 DEF QueuesOK, QueuesN, FineN, AboveN, FullPending, FullIn, FullBatch, Checks,
             QueuesV, FineV, AboveV, SaidQueues
<1>10. ServerOK
  <2>1. Snapshotted /\ Replayed
    BY <1>1, <1>2 DEF Snapshotted, Replayed
  <2>2. ServerN /\ FullReplay
    BY <1>1, <1>2, <1>8 DEF ServerN, FineN, AboveN, FullReplay, Based
  <2>3. ServerV /\ SaidServer
    BY <1>1, <1>2, <1>7, <1>8 DEF ServerV, SaidServer
  <2> QED BY <2>1, <2>2, <2>3 DEF ServerOK
<1>11. ASSUME NEW c \in Client
       PROVE  ClientOK(c)
  <2>1. DOMAIN out[c] = {} /\ out[c] = <<>> /\ view[c] = Unseen
    BY <1>2
  <2>2. SequencedClient(c)
    BY <1>3, <2>1 DEF SequencedClient, Lined, Holds, Parted
  <2>3. Up(view[c]) /\ Ahead(view[c])
    BY <1>1, <1>2, <1>3, <2>1 DEF Up, Ahead, Sound
  <2>4. PastN(view[c].n) /\ PastV(view[c].v)
    BY <1>3, <1>8, <2>1
  <2>5. ClientN(c) /\ ClientV(c)
    BY <1>3, <2>1, <2>3, <2>4 DEF ClientN, ClientV, FineN, FineV, Live
  <2>6. FullOut(c) /\ FullView(c) /\ SaidClient(c)
    BY <1>3, <2>1 DEF FullOut, FullView, SaidClient, Checks
  <2> QED BY <2>2, <2>5, <2>6 DEF ClientOK
<1> QED BY <1>5, <1>6, <1>9, <1>10, <1>11 DEF IInv

LEMMA ProducerKeeps ==
  ASSUME IInv, Producer
  PROVE  IInv'
<1>1. TypeOK /\ Pushing /\ QueuesOK /\ ServerOK /\ \A c \in Client : ClientOK(c)
  BY DEF IInv
<1>2. UNCHANGED <<batch, snapshot, replay, replayGap, sequence, out, view, joins>>
  BY DEF Producer, server
<1>3. Grows /\ Pushing' /\ ProducerType'
  <2>1. Pushable
    BY <1>1 DEF Pushable, QueuesOK, QueuesN, QueuesV
  <2> QED BY <2>1, ProducerGrows
<1>4. QueuesOK' /\ Onward
  BY <1>1, <1>2, <1>3, PushFields, GrowsQueues
<1>5. ServerOK'
  BY <1>1, <1>2, <1>4, OnwardServer DEF server
<1>6. ASSUME NEW c \in Client
      PROVE  ClientOK(c)'
  BY <1>1, <1>2, <1>4, OnwardClient DEF server
<1>7. TypeOK'
  <2>1. pending' \in Seq(Frame) /\ Sized(pending') <= Limit
    BY <1>3 DEF Grows
  <2> QED BY <1>1, <1>2, <1>3, <2>1 DEF TypeOK, ProducerType
<1> QED BY <1>3, <1>4, <1>5, <1>6, <1>7 DEF IInv

LEMMA SwapKeeps ==
  ASSUME IInv, Swap
  PROVE  IInv'
<1>1. TypeOK /\ Pushing /\ QueuesOK /\ ServerOK /\ \A c \in Client : ClientOK(c)
  BY DEF IInv
<1>2. /\ UNCHANGED <<producer, server, out, asks, view, joins>>
      /\ batch' = pending /\ pending' = <<>>
  BY DEF Swap
<1>3. QueuesOK' /\ Onward
  BY <1>1, SwapQueues
<1>4. ServerOK'
  BY <1>1, <1>2, <1>3, OnwardServer
<1>5. ASSUME NEW c \in Client
      PROVE  ClientOK(c)'
  BY <1>1, <1>2, <1>3, OnwardClient
<1>6. TypeOK'
  <2>1. {i \in DOMAIN <<>> : <<>>[i].kind # "gap"} = {}
    OBVIOUS
  <2>2. Sized(<<>>) = 0 /\ <<>> \in Seq(Frame)
    BY <2>1, FS_EmptySet DEF Sized
  <2> QED BY <1>1, <1>2, <2>2, Bounds DEF TypeOK, producer, server
<1>7. Pushing'
  BY <1>1, <1>2 DEF producer, Pushing
<1> QED BY <1>3, <1>4, <1>5, <1>6, <1>7 DEF IInv

\* One client's lines and what it has understood change; of the rest, no more
\* than what is asked.
LEMMA ClientKeeps ==
  ASSUME IInv, Quiet, joins' \in 0 .. MaxJoins, NEW c \in Client, ClientOK(c)',
         NEW r \in Seq(Frame), NEW u \in ViewType,
         out' = [out EXCEPT ![c] = r], view' = [view EXCEPT ![c] = u]
  PROVE  IInv'
<1>1. TypeOK /\ Pushing /\ QueuesOK /\ ServerOK /\ \A d \in Client : ClientOK(d)
  BY DEF IInv
<1>2. Pushing' /\ QueuesOK' /\ ServerOK' /\ Onward /\ asks' \in Nat /\ UNCHANGED server
  BY <1>1, QuietKeeps DEF Quiet
<1>3. out \in [Client -> Seq(Frame)] /\ view \in [Client -> ViewType]
  BY <1>1 DEF TypeOK, ViewType
<1>4. ASSUME NEW d \in Client
      PROVE  ClientOK(d)'
  <2>1. CASE d = c
    BY <2>1
  <2>2. CASE d # c
    <3>1. out'[d] = out[d] /\ view'[d] = view[d]
      BY <1>3, <2>2
    <3> QED BY <1>1, <1>2, <3>1, OnwardClient
  <2> QED BY <2>1, <2>2
<1>5. TypeOK'
  <2>1. out' \in [Client -> Seq(Frame)] /\ view' \in [Client -> ViewType]
    BY <1>3
  <2> QED BY <1>1, <1>2, <2>1 DEF TypeOK, ViewType, Quiet, producer, server
<1> QED BY <1>2, <1>4, <1>5 DEF IInv

LEMMA JoinKeeps ==
  ASSUME IInv, NEW c \in Client, Join(c)
  PROVE  IInv'
<1>1. TypeOK /\ Pushing /\ QueuesOK /\ ServerOK /\ ClientOK(c)
  BY DEF IInv
<1>2. Quiet /\ ~view[c].on
  BY DEF Join, Quiet
<1>3. joins' \in 0 .. MaxJoins
  <2>1. joins \in 0 .. MaxJoins
    BY <1>1 DEF TypeOK
  <2>2. joins < MaxJoins /\ joins' = joins + 1
    BY DEF Join
  <2> QED BY <2>1, <2>2, Bounds
<1>4. out \in [Client -> Seq(Frame)] /\ view \in [Client -> ViewType] /\ Welcome \in Seq(Frame)
  BY <1>1, Welcomed DEF TypeOK, ViewType, Laid
<1> DEFINE u == [view[c] EXCEPT !.on = TRUE]
<1>5. /\ out' = [out EXCEPT ![c] = Welcome]
      /\ view' = [view EXCEPT ![c] = u]
  BY <1>4 DEF Join
<1>6. u \in ViewType
  BY <1>4 DEF ViewType
<1>7. out'[c] = Welcome /\ view'[c] = u
  BY <1>4, <1>5
<1>8. ClientOK(c)'
  BY <1>1, <1>2, <1>7, JoinClient
<1> HIDE DEF u
<1> QED BY <1>2, <1>3, <1>4, <1>5, <1>6, <1>8, ClientKeeps

LEMMA DropKeeps ==
  ASSUME IInv, NEW c \in Client, Drop(c)
  PROVE  IInv'
<1>1. TypeOK /\ Pushing /\ QueuesOK /\ ServerOK /\ ClientOK(c)
  BY DEF IInv
<1>2. Quiet
  BY DEF Drop, Quiet
<1>3. joins' \in 0 .. MaxJoins
  BY <1>1 DEF Drop, TypeOK
<1>4. out \in [Client -> Seq(Frame)] /\ view \in [Client -> ViewType] /\ <<>> \in Seq(Frame)
  BY <1>1 DEF TypeOK, ViewType
<1>0. PICK busy \in BOOLEAN : view' = [view EXCEPT ![c] = Broken(@, busy)]
  BY DEF Drop
<1> DEFINE u == Broken(view[c], busy)
<1>5. /\ out' = [out EXCEPT ![c] = <<>>]
      /\ view' = [view EXCEPT ![c] = u]
  BY <1>0, <1>4 DEF Drop
<1>6. u \in ViewType
  <2>1. Unseen \in ViewType
    BY Bounds DEF Unseen, ViewType
  <2>2. CASE view[c].busy
    <3>1. view[c] \in ViewType /\ 0 \in 0 .. MaxStates
      BY <1>4, Bounds
    <3> QED BY <2>2, <3>1 DEF ViewType, Broken
  <2> QED BY <2>1, <2>2 DEF Broken
<1>7. out'[c] = <<>> /\ view'[c] = u
  BY <1>4, <1>5
<1>8. ClientOK(c)'
  BY <1>1, <1>2, <1>7, DropClient
<1> HIDE DEF u
<1> QED BY <1>2, <1>3, <1>4, <1>5, <1>6, <1>8, ClientKeeps

LEMMA WriteIs ==
  ASSUME TypeOK, NEW c \in Client, Write(c)
  PROVE  \E f, r, u :
            /\ Reading(c, f, r, u)
            /\ out' = [out EXCEPT ![c] = r] /\ view' = [view EXCEPT ![c] = u]
            /\ ~Had(view[c], f) /\ f.kind = "gap" => asks' = asks + 1
            /\ Quiet
<1> DEFINE f == Head(out[c])
           u == Read(view[c], f)
<1>1. out \in [Client -> Seq(Frame)] /\ view \in [Client -> ViewType]
  BY DEF TypeOK, ViewType
<1>2. /\ out[c] # <<>> /\ out' = [out EXCEPT ![c] = Tail(out[c])]
      /\ UNCHANGED <<producer, pending, batch, server, joins>>
  BY <1>1 DEF Write
<1>3. IF Had(view[c], f)
      THEN view' = view /\ asks' = asks
      ELSE /\ view' = [view EXCEPT ![c] = Applied(view[c], f)]
           /\ asks' = IF f.kind = "gap" THEN asks + 1 ELSE asks
  <2>1. IF Had(view[c], f)
        THEN UNCHANGED <<view, asks>>
        ELSE /\ view' = [view EXCEPT ![c] = Applied(@, f)]
             /\ asks' = IF f.kind = "gap" THEN asks + 1 ELSE asks
    BY DEF Write
  <2> HIDE DEF f
  <2>2. [view EXCEPT ![c] = Applied(@, f)] = [view EXCEPT ![c] = Applied(view[c], f)]
    BY <1>1
  <2>3. CASE Had(view[c], f)
    BY <2>1, <2>3
  <2>4. CASE ~Had(view[c], f)
    BY <2>1, <2>2, <2>4
  <2> QED BY <2>3, <2>4
<1>4. Reading(c, f, Tail(out[c]), u)
  BY <1>2 DEF Reading
<1> HIDE DEF f
<1>5. CASE Had(view[c], f)
  <2>1. view' = [view EXCEPT ![c] = u] /\ asks' = asks
    BY <1>1, <1>3, <1>5 DEF Read
  <2> QED BY <1>2, <1>4, <1>5, <2>1 DEF Quiet
<1>6. CASE ~Had(view[c], f)
  <2>1. /\ view' = [view EXCEPT ![c] = u]
        /\ asks' = IF f.kind = "gap" THEN asks + 1 ELSE asks
    BY <1>3, <1>6 DEF Read
  <2> QED BY <1>2, <1>4, <1>6, <2>1 DEF Quiet
<1> QED BY <1>5, <1>6

LEMMA WriteKeeps ==
  ASSUME IInv, NEW c \in Client, Write(c)
  PROVE  IInv'
<1>1. TypeOK /\ Pushing /\ QueuesOK /\ ServerOK /\ ClientOK(c)
  BY DEF IInv
<1>2. PICK f, r, u :
         /\ Reading(c, f, r, u)
         /\ out' = [out EXCEPT ![c] = r] /\ view' = [view EXCEPT ![c] = u]
         /\ ~Had(view[c], f) /\ f.kind = "gap" => asks' = asks + 1
         /\ Quiet
  BY <1>1, WriteIs
<1>3. r \in Seq(Frame) /\ u \in ViewType
  BY <1>1, <1>2, ReadPlaces
<1>4. out'[c] = r /\ view'[c] = u
  BY <1>1, <1>2 DEF TypeOK
<1>5. ~Had(view[c], f) /\ f.kind = "gap" => asks' # asks
  BY <1>1, <1>2, Typed
<1>6. ClientOK(c)'
  BY <1>1, <1>2, <1>4, <1>5, WriteClient
<1>7. joins' \in 0 .. MaxJoins
  BY <1>1 DEF Write, TypeOK
<1> QED BY <1>2, <1>3, <1>6, <1>7, ClientKeeps

LEMMA StutterKeeps ==
  ASSUME IInv, UNCHANGED vars
  PROVE  IInv'
<1>1. TypeOK /\ Pushing /\ QueuesOK /\ ServerOK /\ \A c \in Client : ClientOK(c)
  BY DEF IInv
<1>2. Quiet /\ UNCHANGED <<producer, server, pending, batch, out, view, asks, joins>>
  BY DEF vars, Quiet, producer, server
<1>3. Pushing' /\ QueuesOK' /\ ServerOK' /\ Onward
  BY <1>1, <1>2, QuietKeeps
<1>4. ASSUME NEW c \in Client
      PROVE  ClientOK(c)'
  BY <1>1, <1>2, <1>3, OnwardClient
<1>5. TypeOK'
  BY <1>1, <1>2 DEF TypeOK, producer, server
<1> QED BY <1>3, <1>4, <1>5 DEF IInv

LEMMA NextKeeps ==
  ASSUME IInv, [Next]_vars
  PROVE  IInv'
<1>1. CASE Producer
  BY <1>1, ProducerKeeps
<1>2. CASE Swap
  BY <1>2, SwapKeeps
<1>3. CASE Handle
  BY <1>3, HandleKeeps
<1>4. ASSUME NEW c \in Client, Join(c)
      PROVE  IInv'
  BY <1>4, JoinKeeps
<1>5. ASSUME NEW c \in Client, Drop(c)
      PROVE  IInv'
  BY <1>5, DropKeeps
<1>6. ASSUME NEW c \in Client, Write(c)
      PROVE  IInv'
  BY <1>6, WriteKeeps
<1>7. CASE UNCHANGED vars
  BY <1>7, StutterKeeps
<1> QED BY <1>1, <1>2, <1>3, <1>4, <1>5, <1>6, <1>7 DEF Next, Run

\* The inductive invariant holds throughout, for any clients, streams and bounds.
THEOREM Invariant == Spec => []IInv
<1>1. Init => IInv
  BY InitKeeps
<1>2. IInv /\ [Next]_vars => IInv'
  BY NextKeeps
<1> QED BY <1>1, <1>2, PTL DEF Spec
-----------------------------------------------------------------------------
(***************************************************************************)
(* The properties.                                                         *)
(***************************************************************************)
\* Every variable keeps its type; Server::Publish never lets a queue, nor Run
\* the replay, grow beyond kQueueBytes.
THEOREM TypeCorrect == Spec => []TypeOK
<1>1. IInv => TypeOK
  BY DEF IInv
<1> QED BY <1>1, Invariant, PTL

\* Whatever queues overflow and whoever is dropped and joins again, a client
\* that misses an event has been told of a gap, and it applies none twice
\* (Server::Publish, Server::State::Run, SessionHost::Received).
THEOREM NothingLostSilently == Spec => []NoSilentLoss
<1>1. IInv => NoSilentLoss
  BY DEF IInv, ClientOK, ClientN, NoSilentLoss
<1> QED BY <1>1, Invariant, PTL

\* A client that has read all there is knows the runtime's status, whatever
\* was dropped on the way: the gap in its place made it ask again.
THEOREM StatusKnown == Spec => []StatusIsCurrent
<1>1. ASSUME IInv
      PROVE  StatusIsCurrent
  <2> SUFFICES ASSUME pending = <<>>, batch = <<>>, asks = 0, NEW c \in Client,
                      view[c].on, out[c] = <<>>, ~view[c].kept
               PROVE  view[c].v = status.v
    BY DEF StatusIsCurrent
  <2>1. SaidClient(c)
    BY <1>1 DEF IInv, ClientOK
  <2>2. DOMAIN pending = {} /\ DOMAIN batch = {} /\ DOMAIN out[c] = {}
    OBVIOUS
  <2>3. ~SaidBatch(0)
    BY <2>2 DEF SaidBatch, SaidPending, SaysBehind
  <2>4. Live(view[c], out[c]) = {}
    BY <2>2 DEF Live
  <2> QED BY <2>1, <2>3, <2>4 DEF SaidClient
<1> QED BY <1>1, Invariant, PTL

\* What a connected client shows of the runtime's status never goes back,
\* also not to what the snapshot and the replay said of it as it joined.
THEOREM StatusRises == Spec => StatusNeverGoesBack
<1> DEFINE Rises == \A c \in Client :
                       view[c].on /\ view'[c].on => view'[c].v >= view[c].v
<1>1. ASSUME IInv, Next
      PROVE  Rises
  <2> SUFFICES ASSUME NEW c \in Client, view[c].on, view'[c].on
               PROVE  view'[c].v >= view[c].v
    OBVIOUS
  <2>1. TypeOK /\ Pushing /\ view \in [Client -> ViewType] /\ view[c].v \in Nat
    BY <1>1, TypedClient DEF IInv, TypeOK, ViewType
  <2>2. ASSUME view'[c] = view[c]
        PROVE  view'[c].v >= view[c].v
    BY <2>1, <2>2
  <2>3. CASE Producer \/ Swap \/ Handle
    BY <2>2, <2>3 DEF Producer, Swap, Handle
  <2>4. ASSUME NEW d \in Client, Join(d)
        PROVE  view'[c].v >= view[c].v
    <3>1. view' = [view EXCEPT ![d].on = TRUE] /\ view[c] \in ViewType
      BY <2>1, <2>4 DEF Join
    <3>2. CASE d = c
      <4>1. view'[c] = [view[c] EXCEPT !.on = TRUE]
        BY <2>1, <3>1, <3>2
      <4>2. view'[c].v = view[c].v
        BY <3>1, <4>1 DEF ViewType
      <4> QED BY <2>1, <4>2
    <3>3. CASE d # c
      BY <2>1, <2>2, <3>1, <3>3
    <3> QED BY <3>2, <3>3
  <2>5. ASSUME NEW d \in Client, Drop(d)
        PROVE  view'[c].v >= view[c].v
    <3>0. PICK busy \in BOOLEAN : view' = [view EXCEPT ![d] = Broken(@, busy)]
      BY <2>5 DEF Drop
    <3> DEFINE u == Broken(view[d], busy)
    <3>1. view' = [view EXCEPT ![d] = u]
      BY <3>0
    <3>2. ~u.on
      <4>1. view[d] \in ViewType /\ ~Unseen.on
        BY <2>1 DEF Unseen
      <4> QED BY <4>1 DEF ViewType, Broken
    <3> HIDE DEF u
    <3>3. d # c
      BY <2>1, <3>1, <3>2
    <3> QED BY <2>1, <2>2, <3>1, <3>3
  <2>6. ASSUME NEW d \in Client, Write(d)
        PROVE  view'[c].v >= view[c].v
    <3>1. PICK f, r, u : Reading(d, f, r, u) /\ view' = [view EXCEPT ![d] = u]
      BY <2>1, <2>6, WriteIs
    <3>2. CASE d = c
      <4>1. ClientOK(c) /\ Reading(c, f, r, u) /\ view'[c] = u
        BY <1>1, <2>1, <3>1, <3>2 DEF IInv
      <4>2. CASE Had(view[c], f)
        <5>1. u = view[c]
          BY <2>1, <4>1, <4>2, ReadPlaces
        <5> QED BY <2>2, <4>1, <5>1
      <4>3. CASE ~Had(view[c], f)
        <5>1. VAfter(view[c].v, f)
          BY <2>1, <4>1, <4>3, ReadPlaces
        <5>2. view[c].v <= u.v /\ u.v \in Nat
          BY <2>1, <4>1, <5>1, ReadV
        <5> QED BY <2>1, <4>1, <5>2
      <4> QED BY <4>2, <4>3
    <3>3. CASE d # c
      BY <2>1, <2>2, <3>1, <3>3
    <3> QED BY <3>2, <3>3
  <2> QED BY <1>1, <2>3, <2>4, <2>5, <2>6 DEF Next, Run
<1>2. IInv /\ [Next]_vars => [Rises]_vars
  BY <1>1
<1> QED BY <1>2, Invariant, PTL DEF Spec, StatusNeverGoesBack
=============================================================================
