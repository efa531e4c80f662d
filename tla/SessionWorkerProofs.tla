------------------------ MODULE SessionWorkerProofs ------------------------
(***************************************************************************)
(* Proofs about a session's runtime (SessionWorker), for any messages,     *)
(* controls and renames and queues of any length.                          *)
(*                                                                         *)
(* The invariant follows an input from the client that sent it to the      *)
(* conversation: it is in one place at a time (the slot, the controls      *)
(* behind it, Steering's queue, the guidance taken and not yet applied,    *)
(* the application's hand), and what a client was told is accepted is in   *)
(* one of them until it is handled, read or recalled.                      *)
(***************************************************************************)
EXTENDS SessionWorker, SequenceTheorems, FiniteSetTheorems, WellFoundedInduction, TLAPS

Elems(s) == {s[i] : i \in DOMAIN s}
\* Where an input may be.
InSlot == {input} \ {None}
InHand == IF app \in {"deliver", "start"} THEN {current} \ {None} ELSE {}
\* What is read or taken back.
Gone == {m \in Message : joined[m] > 0} \cup recalled

\* Each is in one place, and there once.
Apart ==
    /\ Ids(queued) \cap (Elems(inbox) \cup batch \cup Elems(controls) \cup InSlot
                            \cup InHand \cup Gone) = {}
    /\ Elems(inbox) \cap (batch \cup InSlot \cup InHand \cup Gone) = {}
    /\ batch \cap (Elems(controls) \cup InSlot \cup InHand \cup Gone) = {}
    /\ Elems(controls) \cap (InSlot \cup InHand \cup Gone) = {}
    /\ InSlot \cap (InHand \cup Gone) = {}
    /\ InHand \cap Gone = {}
DistinctIds(s) == \A i, j \in DOMAIN s : s[i].id = s[j].id => i = j
Distinct(s) == \A i, j \in DOMAIN s : s[i] = s[j] => i = j
Once ==
    /\ DistinctIds(queued) /\ Distinct(inbox) /\ Distinct(controls)
    /\ \A m \in Message : joined[m] <= 1
    /\ \A m \in recalled : m \in Message => joined[m] = 0

\* What did not come as mail was accepted from a client.
Known ==
    (Ids(queued) \cup batch \cup Elems(controls) \cup InSlot \cup InHand \cup Gone) \ Mail
        \subseteq accepted

\* What was accepted is handled, gone or in some place.
Accounted ==
    accepted \subseteq handled \cup Gone \cup Ids(queued) \cup batch \cup Elems(controls)
                          \cup InSlot \cup {current}

\* A command is completed with its own input.
Commanded ==
    /\ inputCommand \in {None, input} /\ activeCommand \in {None, current}
    /\ app \in {"check", "wait", "woke", "retiring", "stopped"} =>
          current = None /\ activeCommand = None
    /\ completed \subseteq handled

\* The slot is empty only with nothing behind it, and guidance is in the
\* hand of the application only between its two halves.
Slotted ==
    /\ input = None => controls = <<>>
    /\ batch # {} => app = "apply"

\* The turn is active until it is reported, and nothing may start one then.
Idling ==
    /\ unreported => turnActive
    /\ Waiting => ~turnActive /\ \A i \in DOMAIN queued : ~queued[i].auto
    /\ app = "retiring" /\ input = None => queued = <<>>

Stops ==
    retired => /\ closed /\ app = "stopped"
               /\ accepted \subseteq handled \cup Gone

\* The messages of clients among some entries: what the limit bounds.
TextAt(q) == {i \in DOMAIN q : q[i].id \in Text}
TextCount(q) == Cardinality(TextAt(q))

\* The type invariant, in the parts that change together.
QueueTyped == queued \in Seq(Steer) /\ TextCount(queued) <= GuidanceLimit
InboxTyped == inbox \in Seq(Mail)
ControlsTyped == controls \in Seq(Control) /\ Len(controls) <= ControlLimit
SlotTyped ==
    /\ input \in Input \cup {None}
    /\ inputCommand \in Text \cup Control \cup {None}
HandTyped ==
    /\ activeCommand \in Text \cup Control \cup {None}
    /\ current \in Input \cup {None}
FlagsTyped ==
    /\ clients \in BOOLEAN /\ closed \in BOOLEAN /\ turnActive \in BOOLEAN
    /\ woken \in BOOLEAN /\ requested \in BOOLEAN /\ abort \in BOOLEAN
    /\ cancelled \in BOOLEAN /\ unreported \in BOOLEAN /\ retired \in BOOLEAN
TurnTyped ==
    /\ app \in Phase /\ batch \in SUBSET Message
    /\ resume \in {"check step", "prepare", "ended"}
HistoryTyped ==
    /\ accepted \in SUBSET Accepted /\ recalled \in SUBSET Text
    /\ joined \in [Message -> Nat]
    /\ handled \in SUBSET Accepted /\ completed \in SUBSET (Text \cup Control)
Typed == /\ QueueTyped /\ InboxTyped /\ ControlsTyped /\ SlotTyped /\ HandTyped
         /\ FlagsTyped /\ TurnTyped /\ HistoryTyped

Located == Apart /\ Once /\ Known /\ Accounted
IInv == Typed /\ Located /\ Commanded /\ Slotted /\ Idling /\ Stops

-----------------------------------------------------------------------------
(***************************************************************************)
(* What stands in some places of a sequence.                               *)
(***************************************************************************)
\* Every set of numbers has a least one.
LEMMA Least ==
  ASSUME NEW T \in SUBSET Nat, T # {}
  PROVE  \E x \in T : \A y \in T : x <= y
<1> DEFINE R == OpToRel(<, Nat)
<1>1. IsWellFoundedOn(R, Nat)
  BY NatLessThanWellFounded
<1>2. R = {ss \in Nat \X Nat : ss[1] < ss[2]}
  BY DEF OpToRel
<1> HIDE DEF R
<1>3. PICK x \in T : \A y \in T : ~ (<<y, x>> \in R)
  BY <1>1, WFMin
<1>4. ASSUME NEW y \in T
      PROVE  x <= y
  <2>1. x \in Nat /\ y \in Nat
    OBVIOUS
  <2>2. ~(y < x)
    BY <1>2, <1>3, <2>1
  <2> QED BY <2>1, <2>2
<1> QED BY <1>4

\* The rank of a place grows by one at every place.
LEMMA RankFacts ==
  ASSUME NEW n \in Nat, NEW at \in SUBSET (1 .. n)
  PROVE  /\ IsFiniteSet(at) /\ Cardinality(at) \in Nat
         /\ \A i \in Int : Rank(at, i) \in Nat
         /\ Rank(at, 0) = 0 /\ Rank(at, n) = Cardinality(at)
         /\ \A i \in Nat \ {0} : Rank(at, i) = Rank(at, i - 1) + (IF i \in at THEN 1 ELSE 0)
         /\ \A i, j \in at : i < j => Rank(at, i) < Rank(at, j)
<1>1. IsFiniteSet(at) /\ Cardinality(at) \in Nat
  <2>1. IsFiniteSet(1 .. n)
    BY FS_Interval
  <2>2. IsFiniteSet(at)
    BY <2>1, FS_Subset
  <2> QED BY <2>2, FS_CardinalityType
<1>0. \A j \in at : j \in Int /\ 1 <= j /\ j <= n
  OBVIOUS
<1>2. ASSUME NEW i
      PROVE  IsFiniteSet({j \in at : j <= i})
  <2>1. {j \in at : j <= i} \in SUBSET at
    OBVIOUS
  <2> QED BY <1>1, <2>1, FS_Subset
<1>3. \A i \in Int : Rank(at, i) \in Nat
  BY <1>2, FS_CardinalityType DEF Rank
<1>4. Rank(at, 0) = 0
  <2>1. {j \in at : j <= 0} = {}
    <3>1. ASSUME NEW j \in at
          PROVE  ~(j <= 0)
      <4>1. j \in Int /\ 1 <= j
        BY <1>0
      <4> QED BY <4>1
    <3> QED BY <3>1
  <2>2. Cardinality({}) = 0
    BY FS_EmptySet
  <2> QED BY <2>1, <2>2 DEF Rank
<1>5. Rank(at, n) = Cardinality(at)
  <2>1. {j \in at : j <= n} = at
    BY <1>0
  <2> QED BY <2>1 DEF Rank
<1>6. ASSUME NEW i \in Nat \ {0}
      PROVE  Rank(at, i) = Rank(at, i - 1) + (IF i \in at THEN 1 ELSE 0)
  <2> DEFINE A == {j \in at : j <= i - 1}
  <2>1. IsFiniteSet(A) /\ i \notin A
    <3>1. i \notin A
      OBVIOUS
    <3> QED BY <1>2, <3>1
  <2>0. \A j \in at : j <= i <=> j <= i - 1 \/ j = i
    BY <1>0
  <2>2. CASE i \in at
    <3>1. {j \in at : j <= i} = A \cup {i}
      BY <2>0, <2>2
    <3>2. Cardinality(A \cup {i}) = Cardinality(A) + 1
      BY <2>1, FS_AddElement
    <3> QED BY <2>2, <3>1, <3>2 DEF Rank
  <2>3. CASE i \notin at
    <3>1. {j \in at : j <= i} = A
      BY <2>0, <2>3
    <3>2. Rank(at, i) = Rank(at, i - 1)
      BY <3>1 DEF Rank
    <3>3. i - 1 \in Int
      OBVIOUS
    <3>4. Rank(at, i - 1) \in Nat
      BY <1>3, <3>3
    <3> QED BY <2>3, <3>2, <3>4
  <2> QED BY <2>2, <2>3
<1>7. ASSUME NEW i \in at, NEW j \in at, i < j
      PROVE  Rank(at, i) < Rank(at, j)
  <2> DEFINE A == {k \in at : k <= i}
             B == {k \in at : k <= j}
  <2>1. IsFiniteSet(A) /\ IsFiniteSet(B) /\ A \in SUBSET B /\ j \in B /\ j \notin A
    <3>0. i \in Int /\ j \in Int /\ \A k \in at : k \in Int
      BY <1>0
    <3>1. ASSUME NEW k \in A
          PROVE  k \in B
      <4>1. k \in at /\ k \in Int /\ k <= i
        BY <3>0
      <4>2. k <= j
        BY <1>7, <3>0, <4>1
      <4> QED BY <4>1, <4>2
    <3>2. j \in B /\ j \notin A
      BY <1>7, <3>0
    <3> QED BY <1>2, <3>1, <3>2
  <2>2. Cardinality(A) <= Cardinality(B) /\ (Cardinality(A) = Cardinality(B) => A = B)
    BY <2>1, FS_Subset
  <2>3. Cardinality(A) \in Nat /\ Cardinality(B) \in Nat /\ A # B
    BY <2>1, FS_CardinalityType
  <2>4. Cardinality(A) < Cardinality(B)
    BY <2>2, <2>3
  <2> QED BY <2>4 DEF Rank
<1> QED BY <1>1, <1>3, <1>4, <1>5, <1>6, <1>7

\* An interval from one has one end.
LEMMA SameInterval ==
  ASSUME NEW a \in Nat, NEW b \in Nat, 1 .. a = 1 .. b
  PROVE  a = b
<1>1. CASE a < b
  <2>1. b \in 1 .. b /\ b \notin 1 .. a
    BY <1>1
  <2> QED BY <2>1
<1>2. CASE b < a
  <2>1. a \in 1 .. a /\ a \notin 1 .. b
    BY <1>2
  <2> QED BY <2>1
<1> QED BY <1>1, <1>2

\* Some place has each rank.
LEMMA RankReached ==
  ASSUME NEW n \in Nat, NEW at \in SUBSET (1 .. n), NEW k \in 1 .. Cardinality(at)
  PROVE  \E i \in at : Rank(at, i) = k
<1> DEFINE T == {i \in Nat : Rank(at, i) >= k}
<1>1. /\ Cardinality(at) \in Nat /\ Rank(at, 0) = 0 /\ Rank(at, n) = Cardinality(at)
      /\ \A i \in Int : Rank(at, i) \in Nat
      /\ \A i \in Nat \ {0} :
            Rank(at, i) = Rank(at, i - 1) + (IF i \in at THEN 1 ELSE 0)
  BY RankFacts
<1>2. n \in T
  BY <1>1
<1>3. PICK m \in T : \A y \in T : m <= y
  BY <1>2, Least
<1>4. m \in Nat /\ Rank(at, m) >= k /\ Rank(at, m) \in Nat
  BY <1>1, <1>3
<1>5. m # 0
  BY <1>1, <1>4
<1>6. m - 1 \in Nat /\ ~(Rank(at, m - 1) >= k) /\ Rank(at, m - 1) \in Nat
  <2>1. m - 1 \in Nat /\ m - 1 \in Int /\ ~(m <= m - 1)
    BY <1>4, <1>5
  <2>2. m - 1 \notin T
    BY <1>3, <2>1
  <2> QED BY <1>1, <2>1, <2>2
<1>7. Rank(at, m) = Rank(at, m - 1) + (IF m \in at THEN 1 ELSE 0)
  BY <1>1, <1>4, <1>5
<1>8. m \in at
  BY <1>4, <1>6, <1>7
<1>9. Rank(at, m) = k
  BY <1>4, <1>6, <1>7, <1>8
<1> QED BY <1>8, <1>9

\* The place of the k-th kept element.
Pick(at) == [k \in 1 .. Cardinality(at) |-> CHOOSE i \in at : Rank(at, i) = k]

LEMMA KeptFacts ==
  ASSUME NEW S, NEW s \in Seq(S), NEW at \in SUBSET (DOMAIN s)
  PROVE  /\ Kept(s, at) \in Seq(S) /\ Len(Kept(s, at)) = Cardinality(at)
         /\ Cardinality(at) \in Nat /\ IsFiniteSet(at)
         /\ DOMAIN Kept(s, at) = 1 .. Cardinality(at)
         /\ \A k \in 1 .. Cardinality(at) :
               Pick(at)[k] \in at /\ Kept(s, at)[k] = s[Pick(at)[k]]
         /\ \A k, l \in 1 .. Cardinality(at) : Pick(at)[k] = Pick(at)[l] => k = l
         /\ \A i \in at : \E k \in 1 .. Cardinality(at) : Pick(at)[k] = i
<1> DEFINE n == Len(s)
           c == Cardinality(at)
<1>1. n \in Nat /\ DOMAIN s = 1 .. n /\ at \in SUBSET (1 .. n)
  BY LenProperties
<1>2. /\ IsFiniteSet(at) /\ c \in Nat
      /\ \A i \in Int : Rank(at, i) \in Nat
      /\ Rank(at, n) = c
      /\ \A i, j \in at : i < j => Rank(at, i) < Rank(at, j)
      /\ \A i \in Nat \ {0} :
            Rank(at, i) = Rank(at, i - 1) + (IF i \in at THEN 1 ELSE 0)
  BY <1>1, RankFacts
<1>3. ASSUME NEW k \in 1 .. c
      PROVE  /\ Pick(at)[k] \in at /\ Rank(at, Pick(at)[k]) = k
             /\ Kept(s, at)[k] = s[Pick(at)[k]] /\ Kept(s, at)[k] \in S
  <2>1. \E i \in at : Rank(at, i) = k
    BY <1>1, RankReached
  <2>2. Pick(at)[k] \in at /\ Rank(at, Pick(at)[k]) = k
    BY <2>1 DEF Pick
  <2>3. Kept(s, at)[k] = s[Pick(at)[k]]
    BY DEF Kept, Pick
  <2>4. s[Pick(at)[k]] \in S
    BY <1>1, <2>2, ElementOfSeq
  <2> QED BY <2>2, <2>3, <2>4
<1>4. DOMAIN Kept(s, at) = 1 .. c
  BY DEF Kept
<1>5. Kept(s, at) \in Seq(S) /\ Len(Kept(s, at)) = c
  <2>1. Kept(s, at) = [k \in 1 .. c |-> Kept(s, at)[k]]
    BY DEF Kept
  <2>2. Kept(s, at) \in [1 .. c -> S]
    BY <1>3, <2>1
  <2>3. Kept(s, at) \in Seq(S)
    <3>1. c \in Nat
      BY <1>2
    <3> HIDE DEF c
    <3> QED BY <2>2, <3>1, SeqDef
  <2>4. Len(Kept(s, at)) \in Nat /\ DOMAIN Kept(s, at) = 1 .. Len(Kept(s, at))
    BY <2>3, LenProperties
  <2> HIDE DEF c
  <2>5. 1 .. c = 1 .. Len(Kept(s, at))
    BY <1>4, <2>4
  <2>6. Len(Kept(s, at)) = c
    BY <1>2, <2>4, <2>5, SameInterval
  <2> QED BY <2>3, <2>6
<1>6. ASSUME NEW i \in at
      PROVE  \E k \in 1 .. c : Pick(at)[k] = i
  <2>1. i \in 1 .. n /\ Rank(at, i) \in Nat
    BY <1>1, <1>2
  <2>2. Rank(at, i) >= 1
    <3>1. Rank(at, i) = Rank(at, i - 1) + 1
      BY <1>2, <2>1
    <3>2. i - 1 \in Int
      BY <2>1
    <3>3. Rank(at, i - 1) \in Nat
      BY <1>2, <3>2
    <3> QED BY <3>1, <3>3
  <2>3. Rank(at, i) <= c
    <3> DEFINE A == {j \in at : j <= i}
    <3>1. A \in SUBSET at
      OBVIOUS
    <3>2. Cardinality(A) <= Cardinality(at)
      BY <1>2, <3>1, FS_Subset
    <3> QED BY <3>2 DEF Rank
  <2>4. Rank(at, i) \in 1 .. c
    <3>1. c \in Nat
      BY <1>2
    <3> HIDE DEF c
    <3>2. Rank(at, i) <= c
      BY <2>3 DEF c
    <3> QED BY <2>1, <2>2, <3>1, <3>2
  <2>5. /\ Pick(at)[Rank(at, i)] \in at
        /\ Rank(at, Pick(at)[Rank(at, i)]) = Rank(at, i)
    BY <1>3, <2>4
  <2>6. ASSUME NEW j \in at, Rank(at, j) = Rank(at, i)
        PROVE  j = i
    <3>1. j \in 1 .. n /\ Rank(at, j) \in Nat
      BY <1>1, <1>2
    <3>2. ~(i < j) /\ ~(j < i)
      <4>1. /\ i < j => Rank(at, i) < Rank(at, j)
            /\ j < i => Rank(at, j) < Rank(at, i)
        BY <1>2
      <4> QED BY <2>1, <2>6, <3>1, <4>1
    <3>3. i \in Int /\ j \in Int
      BY <2>1, <3>1
    <3> QED BY <3>2, <3>3
  <2>7. Pick(at)[Rank(at, i)] = i
    BY <2>5, <2>6
  <2> QED BY <2>4, <2>7
<1>7. ASSUME NEW k \in 1 .. c, NEW l \in 1 .. c, Pick(at)[k] = Pick(at)[l]
      PROVE  k = l
  BY <1>3, <1>7
<1> QED BY <1>2, <1>3, <1>4, <1>5, <1>6, <1>7

-----------------------------------------------------------------------------
(***************************************************************************)
(* What the operations of Steering leave of a queue.                       *)
(***************************************************************************)
\* Fields of an entry.
LEMMA Entries ==
  ASSUME NEW q \in Seq(Steer)
  PROVE  /\ Len(q) \in Nat /\ DOMAIN q = 1 .. Len(q)
         /\ \A i \in DOMAIN q : q[i] \in Steer
         /\ \A i \in DOMAIN q :
               q[i].id \in Message /\ q[i].later \in BOOLEAN /\ q[i].auto \in BOOLEAN
<1>1. Len(q) \in Nat /\ DOMAIN q = 1 .. Len(q)
  BY LenProperties
<1>2. \A i \in DOMAIN q : q[i] \in Steer
  BY <1>1, ElementOfSeq
<1> QED BY <1>1, <1>2 DEF Steer

LEMMA Texts ==
  ASSUME NEW q \in Seq(Steer)
  PROVE  /\ IsFiniteSet(TextAt(q)) /\ TextCount(q) \in Nat
         /\ TextCount(q) <= Len(q)
<1>1. Len(q) \in Nat /\ TextAt(q) \in SUBSET (1 .. Len(q))
  BY LenProperties DEF TextAt
<1>2. /\ IsFiniteSet(1 .. Len(q))
      /\ Cardinality(1 .. Len(q)) = Len(q)
  <2>1. /\ IsFiniteSet(1 .. Len(q))
        /\ Cardinality(1 .. Len(q)) = IF 1 > Len(q) THEN 0 ELSE Len(q) - 1 + 1
    BY <1>1, FS_Interval
  <2> QED BY <1>1, <2>1
<1>3. /\ IsFiniteSet(TextAt(q))
      /\ Cardinality(TextAt(q)) <= Cardinality(1 .. Len(q))
  BY <1>1, <1>2, FS_Subset
<1>4. Cardinality(TextAt(q)) \in Nat
  BY <1>3, FS_CardinalityType
<1> QED BY <1>2, <1>3, <1>4 DEF TextCount

\* Leaving places out repeats nothing and adds no client's message.
LEMMA KeptQueue ==
  ASSUME NEW q \in Seq(Steer), NEW at \in SUBSET (DOMAIN q)
  PROVE  /\ Kept(q, at) \in Seq(Steer)
         /\ Ids(Kept(q, at)) = {q[i].id : i \in at}
         /\ \A k \in DOMAIN Kept(q, at) : \E i \in at : Kept(q, at)[k] = q[i]
         /\ DistinctIds(q) => DistinctIds(Kept(q, at))
         /\ TextCount(Kept(q, at)) <= TextCount(q)
         /\ Kept(q, at) = <<>> <=> at = {}
<1> DEFINE p == Kept(q, at)
           D == 1 .. Cardinality(at)
           f == Pick(at)
<1>1. /\ p \in Seq(Steer) /\ Len(p) = Cardinality(at) /\ DOMAIN p = D
      /\ \A k \in D : f[k] \in at /\ p[k] = q[f[k]]
      /\ \A k, l \in D : f[k] = f[l] => k = l
      /\ \A i \in at : \E k \in D : f[k] = i
      /\ IsFiniteSet(at)
  BY KeptFacts
<1> HIDE DEF p, D, f
<1>2. Ids(p) = {q[i].id : i \in at}
  BY <1>1 DEF Ids
<1>3. \A k \in DOMAIN p : \E i \in at : p[k] = q[i]
  BY <1>1
<1>4. ASSUME DistinctIds(q), NEW k \in DOMAIN p, NEW l \in DOMAIN p, p[k].id = p[l].id
      PROVE  k = l
  <2>1. f[k] \in DOMAIN q /\ f[l] \in DOMAIN q /\ q[f[k]].id = q[f[l]].id
    BY <1>1, <1>4
  <2>2. f[k] = f[l]
    BY <1>4, <2>1 DEF DistinctIds
  <2> QED BY <1>1, <2>2
<1>5. TextCount(p) <= TextCount(q)
  <2> DEFINE g == [k \in TextAt(p) |-> f[k]]
  <2>1. TextAt(p) \in SUBSET D /\ g \in [TextAt(p) -> TextAt(q)]
    BY <1>1 DEF TextAt
  <2>2. g \in Injection(TextAt(p), TextAt(q))
    BY <1>1, <2>1 DEF Injection, IsInjective
  <2>3. IsFiniteSet(TextAt(q))
    BY Texts
  <2> HIDE DEF g
  <2>4. Cardinality(TextAt(p)) <= Cardinality(TextAt(q))
    BY <2>2, <2>3, FS_Injection
  <2> QED BY <2>4 DEF TextCount
<1>6. p = <<>> <=> at = {}
  <2>1. CASE at = {}
    <3>1. Cardinality(at) = 0
      BY <2>1, FS_EmptySet
    <3>2. Len(p) = 0
      BY <1>1, <3>1
    <3> QED BY <1>1, <2>1, <3>2, EmptySeq
  <2>2. CASE at # {}
    <3>1. PICK k \in D : TRUE
      BY <1>1, <2>2
    <3>2. p # <<>>
      BY <1>1, <3>1
    <3> QED BY <2>2, <3>2
  <2> QED BY <2>1, <2>2
<1>7. DistinctIds(q) => DistinctIds(p)
  BY <1>4 DEF DistinctIds
<1> QED BY <1>1, <1>2, <1>3, <1>5, <1>6, <1>7 DEF p

\* A queue gets an entry.
LEMMA QueueAppend ==
  ASSUME NEW q \in Seq(Steer), NEW e \in Steer
  PROVE  /\ Append(q, e) \in Seq(Steer)
         /\ Ids(Append(q, e)) = Ids(q) \cup {e.id}
         /\ DistinctIds(q) /\ e.id \notin Ids(q) => DistinctIds(Append(q, e))
         /\ TextCount(Append(q, e)) <= Len(q) + 1
         /\ e.id \notin Text => TextCount(Append(q, e)) = TextCount(q)
<1> DEFINE p == Append(q, e)
           n == Len(q)
<1>1. /\ p \in Seq(Steer) /\ Len(p) = n + 1 /\ n \in Nat
      /\ \A i \in 1 .. n : p[i] = q[i]
      /\ p[n + 1] = e
  BY AppendProperties, LenProperties
<1>2. DOMAIN q = 1 .. n /\ DOMAIN p = 1 .. (n + 1)
  BY <1>1, LenProperties
<1> HIDE DEF p, n
<1>3. 1 .. (n + 1) = (1 .. n) \cup {n + 1} /\ n + 1 \notin 1 .. n
  BY <1>1
<1>4. Ids(p) = Ids(q) \cup {e.id}
  <2>1. {p[i].id : i \in 1 .. n} = {q[i].id : i \in 1 .. n}
    BY <1>1
  <2>2. Ids(p) = {p[i].id : i \in 1 .. n} \cup {p[n + 1].id}
    BY <1>2, <1>3 DEF Ids
  <2> QED BY <1>1, <1>2, <2>1, <2>2 DEF Ids
<1>5. ASSUME DistinctIds(q), e.id \notin Ids(q),
             NEW i \in DOMAIN p, NEW j \in DOMAIN p, p[i].id = p[j].id
      PROVE  i = j
  <2>1. \A k \in 1 .. n : p[k].id = q[k].id /\ p[k].id # e.id
    BY <1>1, <1>2, <1>5 DEF Ids
  <2>2. CASE i \in 1 .. n /\ j \in 1 .. n
    BY <1>2, <1>5, <2>1, <2>2 DEF DistinctIds
  <2>3. CASE i = n + 1 \/ j = n + 1
    BY <1>1, <1>2, <1>3, <1>5, <2>1, <2>3
  <2> QED BY <1>2, <1>3, <2>2, <2>3
<1>6. TextCount(p) <= n + 1
  BY <1>1, Texts
<1>7. ASSUME e.id \notin Text
      PROVE  TextCount(p) = TextCount(q)
  <2>1. TextAt(p) = TextAt(q)
    BY <1>1, <1>2, <1>3, <1>7 DEF TextAt
  <2> QED BY <2>1 DEF TextCount
<1>8. DistinctIds(q) /\ e.id \notin Ids(q) => DistinctIds(p)
  BY <1>5 DEF DistinctIds
<1> QED BY <1>1, <1>4, <1>6, <1>7, <1>8 DEF p, n

\* Mail goes to the end of a queue.
LEMMA DeliveredFacts ==
  ASSUME queued \in Seq(Steer), inbox \in Seq(Mail), Mail \cap Text = {},
         DistinctIds(queued), Distinct(inbox), Ids(queued) \cap Elems(inbox) = {}
  PROVE  /\ Delivered \in Seq(Steer)
         /\ Ids(Delivered) = Ids(queued) \cup Elems(inbox)
         /\ DistinctIds(Delivered)
         /\ TextCount(Delivered) = TextCount(queued)
<1> DEFINE q == queued
           n == Len(queued)
           l == Len(inbox)
           m == [i \in DOMAIN inbox |-> Entry(inbox[i], FALSE, TRUE)]
           d == Delivered
<1>1. /\ n \in Nat /\ DOMAIN q = 1 .. n /\ l \in Nat /\ DOMAIN inbox = 1 .. l
      /\ \A i \in 1 .. l : inbox[i] \in Mail
  BY LenProperties, ElementOfSeq
<1>2. /\ m \in [1 .. l -> Steer] /\ m \in Seq(Steer)
      /\ \A i \in 1 .. l : m[i].id = inbox[i]
  <2>1. \A i \in 1 .. l : Entry(inbox[i], FALSE, TRUE) \in Steer
    BY <1>1 DEF Entry, Steer, Message
  <2>2. m \in [1 .. l -> Steer]
    BY <1>1, <2>1
  <2>3. \A i \in 1 .. l : m[i].id = inbox[i]
    BY <1>1 DEF Entry
  <2> HIDE DEF m, l
  <2>4. m \in Seq(Steer)
    BY <1>1, <2>2, SeqDef
  <2> QED BY <2>2, <2>3, <2>4
<1>3. Len(m) = l
  <2>1. Len(m) \in Nat /\ DOMAIN m = 1 .. Len(m)
    BY <1>2, LenProperties
  <2>2. DOMAIN m = 1 .. l
    BY <1>2
  <2> HIDE DEF m, l
  <2> QED BY <1>1, <2>1, <2>2, SameInterval
<1>4. d = q \o m
  BY DEF Delivered
<1> HIDE DEF m, d, n, l
<1>5. /\ d \in Seq(Steer) /\ Len(d) = n + l
      /\ \A i \in 1 .. (n + l) : d[i] = IF i <= n THEN q[i] ELSE m[i - n]
  <2>1. /\ q \o m \in Seq(Steer) /\ Len(q \o m) = Len(q) + Len(m)
        /\ \A i \in 1 .. Len(q) + Len(m) :
              (q \o m)[i] = IF i <= Len(q) THEN q[i] ELSE m[i - Len(q)]
    BY <1>2, ConcatProperties
  <2> QED BY <1>3, <1>4, <2>1 DEF n
<1>6. DOMAIN d = 1 .. (n + l)
  BY <1>5, LenProperties
<1>7. \A i \in 1 .. n : i \in DOMAIN d /\ d[i] = q[i]
  BY <1>1, <1>5, <1>6
<1>8. ASSUME NEW i \in 1 .. l
      PROVE  i + n \in DOMAIN d /\ d[i + n].id = inbox[i]
  <2>1. i + n \in 1 .. (n + l) /\ ~(i + n <= n) /\ (i + n) - n = i
    BY <1>1
  <2>2. d[i + n] = m[i]
    BY <1>5, <2>1
  <2> QED BY <1>2, <1>6, <2>1, <2>2
<1>9. ASSUME NEW i \in DOMAIN d
      PROVE  \/ i \in 1 .. n
             \/ i - n \in 1 .. l /\ d[i].id = inbox[i - n] /\ i \notin 1 .. n
  <2>1. i \in 1 .. (n + l) /\ i \in Nat
    BY <1>1, <1>6
  <2>2. CASE i <= n
    BY <1>1, <2>1, <2>2
  <2>3. CASE ~(i <= n)
    <3>1. i - n \in 1 .. l /\ i = (i - n) + n
      BY <1>1, <2>1, <2>3
    <3>2. d[(i - n) + n].id = inbox[i - n]
      BY <1>8, <3>1
    <3> QED BY <1>1, <2>3, <3>1, <3>2
  <2> QED BY <2>2, <2>3
<1>10. Ids(d) = Ids(q) \cup Elems(inbox)
  <2>1. Ids(d) \subseteq Ids(q) \cup Elems(inbox)
    BY <1>1, <1>7, <1>9 DEF Ids, Elems
  <2>2. Ids(q) \subseteq Ids(d)
    BY <1>1, <1>7 DEF Ids
  <2>3. Elems(inbox) \subseteq Ids(d)
    BY <1>1, <1>8 DEF Ids, Elems
  <2> QED BY <2>1, <2>2, <2>3
<1>11. ASSUME NEW i \in DOMAIN d, NEW j \in DOMAIN d, d[i].id = d[j].id
       PROVE  i = j
  <2>1. CASE i \in 1 .. n /\ j \in 1 .. n
    BY <1>1, <1>7, <1>11, <2>1 DEF DistinctIds
  <2>2. CASE i \notin 1 .. n /\ j \notin 1 .. n
    <3>1. /\ i - n \in DOMAIN inbox /\ j - n \in DOMAIN inbox
          /\ inbox[i - n] = inbox[j - n]
      BY <1>1, <1>9, <1>11, <2>2
    <3>2. i - n = j - n
      BY <3>1 DEF Distinct
    <3>3. i \in Nat /\ j \in Nat
      BY <1>1, <1>6
    <3> QED BY <1>1, <3>2, <3>3
  <2>3. ASSUME NEW a \in 1 .. n, NEW b \in DOMAIN d, b \notin 1 .. n
        PROVE  d[a].id # d[b].id
    <3>1. d[a].id \in Ids(queued)
      BY <1>1, <1>7 DEF Ids
    <3>2. d[b].id \in Elems(inbox)
      BY <1>1, <1>9, <2>3 DEF Elems
    <3> QED BY <3>1, <3>2
  <2> QED BY <1>11, <2>1, <2>2, <2>3
<1>12. TextCount(d) = TextCount(q)
  <2>1. ASSUME NEW i \in DOMAIN d, i \notin 1 .. n
        PROVE  d[i].id \notin Text
    BY <1>1, <1>9, <2>1
  <2>2. TextAt(d) = TextAt(q)
    BY <1>1, <1>7, <2>1 DEF TextAt
  <2> QED BY <2>2 DEF TextCount
<1>13. DistinctIds(d)
  BY <1>11 DEF DistinctIds
<1> QED BY <1>5, <1>10, <1>12, <1>13 DEF d

\* TakeMessages splits a queue into what it takes and what it leaves.
LEMMA LaterFacts ==
  ASSUME NEW q \in Seq(Steer)
  PROVE  /\ Later(q) \in Seq(Steer) /\ Now(q) \in SUBSET Message
         /\ Ids(Later(q)) \cup Now(q) = Ids(q)
         /\ DistinctIds(q) => DistinctIds(Later(q)) /\ Ids(Later(q)) \cap Now(q) = {}
         /\ TextCount(Later(q)) <= TextCount(q)
<1> DEFINE at == {i \in DOMAIN q : q[i].later}
<1>1. at \in SUBSET (DOMAIN q) /\ Later(q) = Kept(q, at)
  BY DEF Later
<1>2. /\ Kept(q, at) \in Seq(Steer)
      /\ Ids(Kept(q, at)) = {q[i].id : i \in at}
      /\ DistinctIds(q) => DistinctIds(Kept(q, at))
      /\ TextCount(Kept(q, at)) <= TextCount(q)
  BY <1>1, KeptQueue
<1>3. Now(q) = {q[i].id : i \in DOMAIN q \ at}
  BY DEF Now
<1>4. Now(q) \in SUBSET Message
  BY <1>3, Entries
<1>5. {q[i].id : i \in at} \cup {q[i].id : i \in DOMAIN q \ at} = Ids(q)
  BY <1>1 DEF Ids
<1>6. ASSUME DistinctIds(q)
      PROVE  {q[i].id : i \in at} \cap {q[i].id : i \in DOMAIN q \ at} = {}
  BY <1>1, <1>6 DEF DistinctIds
<1> QED BY <1>1, <1>2, <1>3, <1>4, <1>5, <1>6

\* Recall, and a start, take one message out.
LEMMA WithoutFacts ==
  ASSUME queued \in Seq(Steer), NEW m
  PROVE  /\ Without(m) \in Seq(Steer) /\ Ids(Without(m)) = Ids(queued) \ {m}
         /\ DistinctIds(queued) => DistinctIds(Without(m))
         /\ TextCount(Without(m)) <= TextCount(queued)
         /\ \A k \in DOMAIN Without(m) : \E i \in DOMAIN queued : Without(m)[k] = queued[i]
<1> DEFINE at == {i \in DOMAIN queued : queued[i].id # m}
<1>1. at \in SUBSET (DOMAIN queued) /\ Without(m) = Kept(queued, at)
  BY DEF Without
<1>2. /\ Kept(queued, at) \in Seq(Steer)
      /\ Ids(Kept(queued, at)) = {queued[i].id : i \in at}
      /\ DistinctIds(queued) => DistinctIds(Kept(queued, at))
      /\ TextCount(Kept(queued, at)) <= TextCount(queued)
      /\ \A k \in DOMAIN Kept(queued, at) : \E i \in at : Kept(queued, at)[k] = queued[i]
  BY <1>1, KeptQueue
<1>3. {queued[i].id : i \in at} = Ids(queued) \ {m}
  BY DEF Ids
<1> QED BY <1>1, <1>2, <1>3

\* What may start a turn.
LEMMA AutoFacts ==
  ASSUME queued \in Seq(Steer)
  PROVE  /\ AutoStarts = <<>> <=> \A i \in DOMAIN queued : ~queued[i].auto
         /\ AutoStarts # <<>> => Head(AutoStarts).id \in Ids(queued)
<1> DEFINE at == {i \in DOMAIN queued : queued[i].auto}
<1>1. at \in SUBSET (DOMAIN queued) /\ AutoStarts = Kept(queued, at)
  BY DEF AutoStarts
<1>2. /\ Kept(queued, at) \in Seq(Steer)
      /\ Kept(queued, at) = <<>> <=> at = {}
      /\ \A k \in DOMAIN Kept(queued, at) : \E i \in at : Kept(queued, at)[k] = queued[i]
  BY <1>1, KeptQueue
<1>3. ASSUME AutoStarts # <<>>
      PROVE  Head(AutoStarts).id \in Ids(queued)
  <2>1. AutoStarts \in Seq(Steer) /\ Len(AutoStarts) \in Nat \ {0}
    BY <1>1, <1>2, <1>3, EmptySeq
  <2>2. Head(AutoStarts) = AutoStarts[1] /\ DOMAIN AutoStarts = 1 .. Len(AutoStarts)
    BY <2>1, LenProperties
  <2>3. 1 \in DOMAIN AutoStarts
    BY <2>1, <2>2
  <2>4. PICK i \in at : AutoStarts[1] = queued[i]
    BY <1>1, <1>2, <2>3
  <2> QED BY <1>1, <2>2, <2>4 DEF Ids
<1> QED BY <1>1, <1>2, <1>3

-----------------------------------------------------------------------------
(***************************************************************************)
(* Where inputs are.                                                       *)
(***************************************************************************)
\* A sequence gets an element that is not in it.
LEMMA ElemsAppend ==
  ASSUME NEW S, NEW s \in Seq(S), NEW e \in S
  PROVE  /\ Elems(Append(s, e)) = Elems(s) \cup {e}
         /\ Distinct(s) /\ e \notin Elems(s) => Distinct(Append(s, e))
<1> DEFINE p == Append(s, e)
           n == Len(s)
<1>1. /\ p \in Seq(S) /\ Len(p) = n + 1 /\ n \in Nat
      /\ \A i \in 1 .. n : p[i] = s[i]
      /\ p[n + 1] = e
  BY AppendProperties, LenProperties
<1>2. DOMAIN s = 1 .. n /\ DOMAIN p = 1 .. (n + 1)
  BY <1>1, LenProperties
<1> HIDE DEF p, n
<1>3. 1 .. (n + 1) = (1 .. n) \cup {n + 1} /\ n + 1 \notin 1 .. n
  BY <1>1
<1>4. Elems(p) = Elems(s) \cup {e}
  BY <1>1, <1>2, <1>3 DEF Elems
<1>5. ASSUME Distinct(s), e \notin Elems(s), NEW i \in DOMAIN p, NEW j \in DOMAIN p,
             p[i] = p[j]
      PROVE  i = j
  <2>1. \A k \in 1 .. n : p[k] = s[k] /\ p[k] # e
    BY <1>1, <1>2, <1>5 DEF Elems
  <2>2. CASE i \in 1 .. n /\ j \in 1 .. n
    BY <1>2, <1>5, <2>1, <2>2 DEF Distinct
  <2>3. CASE i = n + 1 \/ j = n + 1
    BY <1>1, <1>2, <1>3, <1>5, <2>1, <2>3
  <2> QED BY <1>2, <1>3, <2>2, <2>3
<1>6. Distinct(s) /\ e \notin Elems(s) => Distinct(p)
  BY <1>5 DEF Distinct
<1> QED BY <1>4, <1>6 DEF p

\* A sequence loses its first.
LEMMA ElemsTail ==
  ASSUME NEW S, NEW s \in Seq(S), s # <<>>
  PROVE  /\ Head(s) \in S /\ Tail(s) \in Seq(S) /\ Len(Tail(s)) = Len(s) - 1
         /\ Len(s) \in Nat
         /\ Elems(s) = Elems(Tail(s)) \cup {Head(s)}
         /\ Distinct(s) => Distinct(Tail(s)) /\ Head(s) \notin Elems(Tail(s))
<1> DEFINE t == Tail(s)
           n == Len(t)
<1>1. /\ Head(s) \in S /\ t \in Seq(S) /\ n = Len(s) - 1
      /\ \A i \in 1 .. n : t[i] = s[i + 1]
      /\ Head(s) = s[1] /\ Len(s) \in Nat \ {0} /\ n \in Nat
  BY HeadTailProperties, EmptySeq, LenProperties
<1>2. DOMAIN t = 1 .. n /\ DOMAIN s = 1 .. (n + 1)
  <2>1. DOMAIN s = 1 .. Len(s) /\ Len(s) = n + 1
    BY <1>1, LenProperties
  <2> QED BY <1>1, <2>1, LenProperties
<1> HIDE DEF t, n
<1>3. /\ \A i \in 1 .. (n + 1) : i = 1 \/ i - 1 \in 1 .. n
      /\ \A i \in 1 .. n : i + 1 \in 1 .. (n + 1) /\ i + 1 # 1
      /\ 1 \in 1 .. (n + 1)
  BY <1>1
<1>4. ASSUME NEW i \in 1 .. (n + 1), i # 1
      PROVE  i - 1 \in 1 .. n /\ s[i] = t[i - 1]
  <2>1. i - 1 \in 1 .. n /\ (i - 1) + 1 = i
    BY <1>1, <1>4
  <2> QED BY <1>1, <2>1
<1>5. Elems(s) = Elems(t) \cup {s[1]}
  <2>1. ASSUME NEW i \in DOMAIN s
        PROVE  s[i] \in Elems(t) \cup {s[1]}
    BY <1>2, <1>4 DEF Elems
  <2>2. ASSUME NEW i \in DOMAIN t
        PROVE  t[i] \in Elems(s)
    BY <1>1, <1>2, <1>3 DEF Elems
  <2>3. s[1] \in Elems(s)
    BY <1>2, <1>3 DEF Elems
  <2>4. Elems(s) \subseteq Elems(t) \cup {s[1]}
    BY <2>1 DEF Elems
  <2>5. Elems(t) \subseteq Elems(s)
    BY <2>2 DEF Elems
  <2> QED BY <2>3, <2>4, <2>5
<1>6. ASSUME Distinct(s)
      PROVE  Distinct(t) /\ s[1] \notin Elems(t)
  <2>1. ASSUME NEW i \in 1 .. n, NEW j \in 1 .. n, t[i] = t[j]
        PROVE  i = j
    <3>1. s[i + 1] = s[j + 1] /\ i + 1 \in DOMAIN s /\ j + 1 \in DOMAIN s
      BY <1>1, <1>2, <1>3, <2>1
    <3>2. i + 1 = j + 1
      BY <1>6, <3>1 DEF Distinct
    <3> QED BY <3>2
  <2>2. ASSUME NEW i \in 1 .. n
        PROVE  t[i] # s[1]
    <3>1. i + 1 \in DOMAIN s /\ 1 \in DOMAIN s /\ i + 1 # 1 /\ t[i] = s[i + 1]
      BY <1>1, <1>2, <1>3
    <3> QED BY <1>6, <3>1 DEF Distinct
  <2> QED BY <1>2, <2>1, <2>2 DEF Distinct, Elems
<1> QED BY <1>1, <1>5, <1>6 DEF t, n

LEMMA EmptyPlaces ==
  /\ Elems(<<>>) = {} /\ Ids(<<>>) = {} /\ Distinct(<<>>) /\ DistinctIds(<<>>)
  BY DEF Elems, Ids, Distinct, DistinctIds

LEMMA TypesCover == Typed <=> TypeOK
  BY DEF TypeOK, Typed, QueueTyped, InboxTyped, ControlsTyped, SlotTyped, HandTyped,
         FlagsTyped, TurnTyped, HistoryTyped, TextCount, TextAt

LEMMA Constants ==
  /\ Slash \subseteq Text /\ Reverting \subseteq Control
  /\ None \notin Accepted /\ None \notin Mail /\ None \notin Message
  /\ Text \subseteq Message /\ Mail \subseteq Message /\ Reverting \subseteq Message
  /\ \A m \in Text : m \notin Mail /\ m \notin Control /\ m \notin Rename
  /\ \A m \in Mail : m \notin Accepted /\ m \notin Control /\ m \notin Reverting
  /\ \A c \in Control : c \notin Rename
  /\ Text \subseteq Accepted /\ Control \subseteq Accepted /\ Rename \subseteq Accepted
  /\ Accepted \subseteq Input /\ Mail \subseteq Input /\ Input = Accepted \cup Mail
  /\ Message \subseteq Input
  /\ GuidanceLimit \in Nat /\ ControlLimit \in Nat
  BY InputAssumption DEF Message, Accepted, Input

\* Each part of the types stands while what it is about does.
LEMMA TypeFrames ==
  ASSUME Typed
  PROVE  /\ UNCHANGED queued => QueueTyped'
         /\ UNCHANGED inbox => InboxTyped'
         /\ UNCHANGED controls => ControlsTyped'
         /\ UNCHANGED <<input, inputCommand>> => SlotTyped'
         /\ UNCHANGED <<activeCommand, current>> => HandTyped'
         /\ UNCHANGED <<batch, resume>> /\ app' \in Phase => TurnTyped'
         /\ UNCHANGED <<accepted, recalled, joined, handled, completed>> => HistoryTyped'
  BY DEF Typed, QueueTyped, InboxTyped, ControlsTyped, SlotTyped, HandTyped, TurnTyped,
         HistoryTyped

\* Every input stays where it is, or leaves the hand.
LEMMA LocatedStays ==
  ASSUME Located, InHand' \subseteq InHand,
         UNCHANGED <<queued, inbox, batch, controls, input, joined, recalled, accepted,
                     current, handled>>
  PROVE  Located'
<1>1. Apart'
  BY DEF Located, Apart, InSlot, Gone
<1>2. Once'
  BY DEF Located, Once
<1>3. Known'
  BY DEF Located, Known, InSlot, Gone
<1>4. Accounted'
  BY DEF Located, Accounted, InSlot, Gone
<1> QED BY <1>1, <1>2, <1>3, <1>4 DEF Located

\* The hand is what it was while the application does not move.
LEMMA HandStays ==
  ASSUME UNCHANGED <<app, current>>
  PROVE  InHand' = InHand
  BY DEF InHand

\* Where the others stand when the application does.
LEMMA RestStays ==
  ASSUME IInv
  PROVE  /\ UNCHANGED <<input, inputCommand, activeCommand, current, app, completed, handled>>
               => Commanded'
         /\ UNCHANGED <<input, controls, batch, app>> => Slotted'
         /\ UNCHANGED <<unreported, turnActive, app, input, queued>> => Idling'
         /\ UNCHANGED <<retired, closed, app, accepted, handled, joined, recalled>> => Stops'
<1>1. UNCHANGED <<input, inputCommand, activeCommand, current, app, completed, handled>>
          => Commanded'
  BY DEF IInv, Commanded
<1>2. UNCHANGED <<input, controls, batch, app>> => Slotted'
  BY DEF IInv, Slotted
<1>3. UNCHANGED <<unreported, turnActive, app, input, queued>> => Idling'
  BY DEF IInv, Idling, Waiting
<1>4. UNCHANGED <<retired, closed, app, accepted, handled, joined, recalled>> => Stops'
  BY DEF IInv, Stops, Gone
<1> QED BY <1>1, <1>2, <1>3, <1>4

\* What was never accepted is in no place.
LEMMA Fresh ==
  ASSUME IInv, NEW m \in Accepted \ accepted
  PROVE  /\ m \notin Ids(queued) /\ m \notin Elems(inbox) /\ m \notin batch
         /\ m \notin Elems(controls) /\ m \notin InSlot /\ m \notin InHand
         /\ m \notin Gone /\ m # None
<1>1. m \notin Mail /\ m # None
  BY Constants
<1>2. \A i \in DOMAIN inbox : inbox[i] \in Mail
  <2>1. inbox \in Seq(Mail)
    BY DEF IInv, Typed, InboxTyped
  <2> QED BY <2>1, LenProperties, ElementOfSeq
<1>3. m \notin Elems(inbox)
  BY <1>1, <1>2 DEF Elems
<1> QED BY <1>1, <1>3 DEF IInv, Located, Known

-----------------------------------------------------------------------------
(***************************************************************************)
(* Steps that move no input.                                               *)
(***************************************************************************)
placed == <<queued, inbox, batch, controls, input, current, joined, recalled,
            accepted, handled>>
commands == <<inputCommand, activeCommand, completed>>
AtRest == {"check", "wait", "woke", "retiring"}

\* The variables, one by one.
LEMMA Unfolded ==
  /\ UNCHANGED clientSide <=> UNCHANGED <<clients, accepted, recalled>>
  /\ UNCHANGED slot <=> UNCHANGED <<input, inputCommand, activeCommand, controls>>
  /\ UNCHANGED steering <=> UNCHANGED <<queued, requested>>
  /\ UNCHANGED turnState <=> UNCHANGED <<batch, resume, cancelled>>
  /\ UNCHANGED outcome <=> UNCHANGED <<joined, handled, completed, unreported, retired>>
  BY DEF clientSide, slot, steering, turnState, outcome

\* The application goes on with what it has.
LEMMA MoveKeeps ==
  ASSUME IInv, UNCHANGED <<placed, commands, resume, retired>>, FlagsTyped',
         app \notin {"apply", "stopped"}, app' \in Phase, InHand' \subseteq InHand,
         unreported' => turnActive',
         app' \in AtRest \cup {"stopped"} => app \in AtRest,
         app' \in AtRest => turnActive' = turnActive,
         app' = "retiring" /\ input = None => queued = <<>>
  PROVE  IInv'
<1>1. /\ UNCHANGED <<queued, inbox, batch, controls, input, current, joined, recalled,
                     accepted, handled>>
      /\ UNCHANGED <<inputCommand, activeCommand, completed>>
  BY DEF placed, commands
<1>2. Typed'
  BY <1>1, TypeFrames DEF IInv, Typed
<1>3. Located'
  BY <1>1, LocatedStays DEF IInv
<1>4. Commanded'
  BY <1>1 DEF IInv, Commanded, AtRest
<1>5. Slotted'
  BY <1>1 DEF IInv, Slotted
<1>6. Idling'
  <2>1. Waiting' => Waiting /\ turnActive' = turnActive
    BY <1>1 DEF Waiting, AtRest
  <2> QED BY <1>1, <2>1 DEF IInv, Idling
<1>7. Stops'
  BY <1>1 DEF IInv, Stops
<1> QED BY <1>2, <1>3, <1>4, <1>5, <1>6, <1>7 DEF IInv

\* A client comes, goes, interrupts or closes.
LEMMA QuietKeeps ==
  ASSUME IInv, UNCHANGED <<placed, commands, resume, retired, app, unreported, turnActive>>,
         FlagsTyped', closed => closed'
  PROVE  IInv'
<1>1. /\ UNCHANGED <<queued, inbox, batch, controls, input, current, joined, recalled,
                     accepted, handled>>
      /\ UNCHANGED <<inputCommand, activeCommand, completed>>
  BY DEF placed, commands
<1>2. Typed'
  <2>1. app' \in Phase
    BY DEF IInv, Typed, TurnTyped
  <2> QED BY <1>1, <2>1, TypeFrames DEF IInv, Typed
<1>3. Located'
  BY <1>1, LocatedStays, HandStays DEF IInv
<1>4. Commanded' /\ Slotted' /\ Idling'
  BY <1>1, RestStays
<1>5. Stops'
  BY <1>1 DEF IInv, Stops, Gone
<1> QED BY <1>2, <1>3, <1>4, <1>5 DEF IInv

LEMMA AttachKeeps == IInv /\ Attach => IInv'
<1> SUFFICES ASSUME IInv, Attach
             PROVE  IInv'
  OBVIOUS
<1>1. /\ UNCHANGED <<accepted, recalled, closed, turnActive, slot, woken,
                     steering, abort, inbox, app, current, turnState, outcome>>
      /\ clients' = ~clients
  BY DEF Attach
<1>2. FlagsTyped'
  BY <1>1, Unfolded DEF IInv, Typed, FlagsTyped
<1> QED BY <1>1, <1>2, Unfolded, QuietKeeps DEF placed, commands

LEMMA InterruptKeeps == IInv /\ (Interrupt \/ CloseCommand) => IInv'
<1> SUFFICES ASSUME IInv, Interrupt \/ CloseCommand
             PROVE  IInv'
  OBVIOUS
<1>1. /\ UNCHANGED <<clientSide, turnActive, slot, steering, inbox, app, current,
                     turnState, outcome>>
      /\ abort' = TRUE /\ woken' = TRUE /\ (closed' = closed \/ closed' = TRUE)
  BY DEF Interrupt, CloseCommand
<1>2. FlagsTyped'
  BY <1>1, Unfolded DEF IInv, Typed, FlagsTyped
<1> QED BY <1>1, <1>2, Unfolded, QuietKeeps DEF placed, commands

LEMMA NextInputKeeps ==
  IInv /\ (StopClosed \/ NoInput \/ Wake \/ Look \/ Idle \/ StayUp) => IInv'
<1> SUFFICES ASSUME IInv, StopClosed \/ NoInput \/ Wake \/ Look \/ Idle \/ StayUp
             PROVE  IInv'
  OBVIOUS
<1>1. /\ UNCHANGED <<clientSide, closed, turnActive, slot, steering, abort, inbox,
                     turnState, outcome>>
      /\ woken' = woken \/ woken' = FALSE
  BY DEF StopClosed, NoInput, Wake, Look, Idle, StayUp
<1>2. FlagsTyped'
  BY <1>1, Unfolded DEF IInv, Typed, FlagsTyped
<1>3. app \in AtRest
  BY DEF StopClosed, NoInput, Wake, Look, Idle, StayUp, AtRest
<1>4. current = None
  BY <1>3 DEF IInv, Commanded, AtRest
<1>5. current' = current
  BY <1>4 DEF StopClosed, NoInput, Wake, Look, Idle, StayUp
<1>6. app' \in Phase
  BY DEF StopClosed, NoInput, Wake, Look, Idle, StayUp, Phase
<1>7. InHand' = {}
  BY <1>4, <1>5 DEF InHand
<1>8. app' = "retiring" /\ input = None => queued = <<>>
  BY DEF StopClosed, NoInput, Wake, Look, Idle, StayUp
<1>9. unreported => turnActive
  BY DEF IInv, Idling
<1>10. app \notin {"apply", "stopped"} /\ unreported' => turnActive'
  BY <1>1, <1>3, <1>9, Unfolded DEF AtRest
<1>11. app \notin {"apply", "stopped"}
  BY <1>3 DEF AtRest
<1>12. UNCHANGED <<placed, commands, resume, retired>>
  BY <1>1, <1>5, Unfolded DEF placed, commands
<1>13. turnActive' = turnActive /\ (unreported' => turnActive')
  BY <1>1, <1>10, <1>11
<1> QED BY <1>2, <1>3, <1>6, <1>7, <1>8, <1>11, <1>12, <1>13, MoveKeeps

LEMMA TurnKeeps ==
  IInv /\ (RefuseTurn \/ CheckStep \/ ModelCall \/ RunCalls \/ EndTurn \/ FollowPlan)
      => IInv'
<1> SUFFICES ASSUME IInv,
                    RefuseTurn \/ CheckStep \/ ModelCall \/ RunCalls \/ EndTurn \/ FollowPlan
             PROVE  IInv'
  OBVIOUS
<1>1. /\ UNCHANGED <<clientSide, closed, slot, woken, queued, inbox, current, batch,
                     resume, joined, handled, completed, retired>>
      /\ app \in {"start", "check step", "model", "tools", "ended", "plan"}
  BY Unfolded DEF RefuseTurn, CheckStep, ModelCall, RunCalls, EndTurn, FollowPlan
<1>2. app' \in {"save", "ended", "model", "prepare", "cut", "tools", "finish",
                "tools done", "plan"}
  BY DEF RefuseTurn, CheckStep, ModelCall, RunCalls, EndTurn, FollowPlan
<1>3. \/ UNCHANGED <<turnActive, unreported>>
      \/ turnActive' = TRUE /\ unreported' = TRUE
  BY Unfolded DEF RefuseTurn, CheckStep, ModelCall, RunCalls, EndTurn, FollowPlan
<1>4. requested' \in BOOLEAN /\ abort' \in BOOLEAN
  <2>1. requested \in BOOLEAN /\ abort \in BOOLEAN
    BY DEF IInv, Typed, FlagsTyped
  <2>2. requested' \in {requested, FALSE} /\ abort' \in {abort, FALSE}
    BY Unfolded DEF RefuseTurn, CheckStep, ModelCall, RunCalls, EndTurn, FollowPlan
  <2> QED BY <2>1, <2>2
<1>5. cancelled' \in BOOLEAN
  <2>1. cancelled' = cancelled \/ cancelled' = (abort /\ ~requested)
    BY Unfolded DEF RefuseTurn, CheckStep, ModelCall, RunCalls, EndTurn, FollowPlan
  <2> QED BY <2>1 DEF IInv, Typed, FlagsTyped
<1>6. FlagsTyped'
  BY <1>1, <1>3, <1>4, <1>5, Unfolded DEF IInv, Typed, FlagsTyped
<1>7. app' \in Phase /\ app' \notin AtRest \cup {"stopped", "deliver", "start"}
  BY <1>2 DEF Phase, AtRest
<1>8. InHand' = {}
  BY <1>7 DEF InHand
<1>9. unreported => turnActive
  BY DEF IInv, Idling
<1>10. unreported' => turnActive'
  <2>1. CASE turnActive' = TRUE
    BY <2>1
  <2>2. CASE turnActive' = turnActive /\ unreported' = unreported
    BY <1>9, <2>2
  <2> QED BY <1>3, <2>1, <2>2
<1>11. UNCHANGED <<placed, commands, resume, retired>>
  BY <1>1, Unfolded DEF placed, commands
<1>12. app \notin {"apply", "stopped"} /\ app' # "retiring"
  BY <1>1, <1>2
<1> QED BY <1>6, <1>7, <1>8, <1>10, <1>11, <1>12, MoveKeeps

-----------------------------------------------------------------------------
(***************************************************************************)
(* The commands.                                                           *)
(***************************************************************************)
\* A message takes the slot.
LEMMA SubmitKeeps == \A m \in Text : IInv /\ SubmitLocked(m) => IInv'
<1> SUFFICES ASSUME IInv, NEW m \in Text, SubmitLocked(m)
             PROVE  IInv'
  OBVIOUS
<1>1. /\ Command /\ m \in Accepted \ accepted /\ m # None /\ input = None
      /\ input' = m /\ inputCommand' = m /\ accepted' = accepted \cup {m}
  BY Constants DEF SubmitLocked
<1>2. /\ UNCHANGED <<queued, inbox, batch, controls, current, joined, recalled, handled>>
      /\ UNCHANGED <<activeCommand, completed, resume, app, unreported, retired, closed>>
      /\ UNCHANGED <<clients, requested, cancelled>>
  BY Unfolded DEF SubmitLocked
<1>3. FlagsTyped'
  <2>1. abort' = FALSE /\ woken' = TRUE /\ turnActive' \in BOOLEAN
    BY DEF SubmitLocked
  <2> QED BY <1>2, <2>1 DEF IInv, Typed, FlagsTyped
<1>4. Typed'
  <2>1. SlotTyped'
    BY <1>1, Constants DEF SlotTyped
  <2>2. HistoryTyped'
    BY <1>1, <1>2, Constants DEF IInv, Typed, HistoryTyped
  <2>3. app' \in Phase
    BY <1>2 DEF IInv, Typed, TurnTyped
  <2> QED BY <1>2, <1>3, <2>1, <2>2, <2>3, TypeFrames DEF IInv, Typed
<1>5. /\ InSlot' = {m} /\ InSlot = {} /\ InHand' = InHand /\ Gone' = Gone
  BY <1>1, <1>2 DEF InSlot, InHand, Gone
<1>6. /\ m \notin Ids(queued) /\ m \notin Elems(inbox) /\ m \notin batch
      /\ m \notin Elems(controls) /\ m \notin InHand /\ m \notin Gone
  BY <1>1, Fresh
<1>7. Apart'
  BY <1>2, <1>5, <1>6 DEF IInv, Located, Apart
<1>8. Once'
  BY <1>2 DEF IInv, Located, Once
<1>9. Known'
  BY <1>1, <1>2, <1>5 DEF IInv, Located, Known
<1>10. Accounted'
  BY <1>1, <1>2, <1>5 DEF IInv, Located, Accounted
<1>11. Commanded'
  BY <1>1, <1>2 DEF IInv, Commanded
<1>12. Slotted'
  BY <1>1, <1>2 DEF IInv, Slotted
<1>13. Idling'
  <2>1. ~unreported
    BY DEF IInv, Idling, SubmitLocked
  <2>2. ~unreported' /\ ~Waiting' /\ input' # None
    BY <1>1, <1>2, <2>1 DEF Waiting
  <2> QED BY <2>2 DEF Idling
<1>14. Stops'
  BY <1>1, <1>2 DEF IInv, Stops, Command
<1> QED BY <1>4, <1>7, <1>8, <1>9, <1>10, <1>11, <1>12, <1>13, <1>14 DEF IInv, Located

\* A message during a turn joins the guidance.
LEMMA SteerKeeps == \A m \in Text, later \in BOOLEAN : IInv /\ SteerLocked(m, later) => IInv'
<1> SUFFICES ASSUME IInv, NEW m \in Text, NEW later \in BOOLEAN, SteerLocked(m, later)
             PROVE  IInv'
  OBVIOUS
<1> DEFINE e == Entry(m, later, TRUE)
<1>1. /\ Command /\ m \in Accepted \ accepted /\ m # None /\ turnActive
      /\ Len(queued) < GuidanceLimit
      /\ queued' = Append(queued, e) /\ accepted' = accepted \cup {m}
  BY Constants DEF SteerLocked
<1>2. /\ UNCHANGED <<inbox, batch, controls, input, current, joined, recalled, handled>>
      /\ UNCHANGED <<inputCommand, activeCommand, completed, resume, app, unreported>>
      /\ UNCHANGED <<retired, closed, clients, turnActive, woken, requested, abort>>
      /\ UNCHANGED cancelled
  BY Unfolded DEF SteerLocked
<1>3. queued \in Seq(Steer) /\ e \in Steer /\ e.id = m
  <2>1. e \in Steer /\ e.id = m
    BY Constants DEF Entry, Steer
  <2> QED BY <2>1 DEF IInv, Typed, QueueTyped
<1> HIDE DEF e
<1>4. /\ m \notin Ids(queued) /\ m \notin Elems(inbox) /\ m \notin batch
      /\ m \notin Elems(controls) /\ m \notin InSlot /\ m \notin InHand /\ m \notin Gone
  BY <1>1, Fresh
<1>5. DistinctIds(queued)
  BY DEF IInv, Located, Once
<1>6. /\ queued' \in Seq(Steer) /\ Ids(queued') = Ids(queued) \cup {m}
      /\ DistinctIds(queued') /\ TextCount(queued') <= Len(queued) + 1
  BY <1>1, <1>3, <1>4, <1>5, QueueAppend
<1>7. TextCount(queued') <= GuidanceLimit
  <2>1. TextCount(queued') \in Nat /\ Len(queued) \in Nat /\ GuidanceLimit \in Nat
    BY <1>3, <1>6, Texts, LenProperties, Constants
  <2> QED BY <1>1, <1>6, <2>1
<1>8. Typed'
  <2>1. QueueTyped'
    BY <1>6, <1>7 DEF QueueTyped
  <2>2. HistoryTyped'
    BY <1>1, <1>2, Constants DEF IInv, Typed, HistoryTyped
  <2>3. app' \in Phase
    BY <1>2 DEF IInv, Typed, TurnTyped
  <2>4. FlagsTyped'
    BY <1>2 DEF IInv, Typed, FlagsTyped
  <2> QED BY <1>2, <2>1, <2>2, <2>3, <2>4, TypeFrames DEF IInv, Typed
<1>9. InSlot' = InSlot /\ InHand' = InHand /\ Gone' = Gone
  BY <1>2 DEF InSlot, InHand, Gone
<1>10. Apart'
  BY <1>2, <1>4, <1>6, <1>9 DEF IInv, Located, Apart
<1>11. Once'
  BY <1>2, <1>6 DEF IInv, Located, Once
<1>12. Known'
  BY <1>1, <1>2, <1>6, <1>9 DEF IInv, Located, Known
<1>13. Accounted'
  BY <1>1, <1>2, <1>6, <1>9 DEF IInv, Located, Accounted
<1>14. Commanded' /\ Slotted'
  BY <1>2, RestStays
<1>15. Idling'
  <2>1. ~Waiting /\ (unreported => turnActive)
    BY <1>1 DEF IInv, Idling
  <2>2. ~Waiting' /\ turnActive' /\ (app' = "retiring" => input' # None)
    BY <1>1, <1>2, <2>1 DEF Waiting
  <2> QED BY <2>2 DEF Idling
<1>16. Stops'
  BY <1>1, <1>2 DEF IInv, Stops, Command
<1> QED BY <1>8, <1>10, <1>11, <1>12, <1>13, <1>14, <1>15, <1>16 DEF IInv, Located

\* A control waits behind the slot, or takes it.
LEMMA QueueControlKeeps == \A c \in Control : IInv /\ QueueIdleControl(c) => IInv'
<1> SUFFICES ASSUME IInv, NEW c \in Control, QueueIdleControl(c)
             PROVE  IInv'
  OBVIOUS
<1>1. /\ Command /\ c \in Accepted \ accepted /\ c # None /\ ~turnActive
      /\ Len(controls) < ControlLimit /\ accepted' = accepted \cup {c}
  BY Constants DEF QueueIdleControl
<1>2. /\ UNCHANGED <<queued, inbox, batch, current, joined, recalled, handled>>
      /\ UNCHANGED <<activeCommand, completed, resume, app, unreported, retired, closed>>
      /\ UNCHANGED <<clients, turnActive, requested, abort, cancelled>>
  BY Unfolded DEF QueueIdleControl
<1>3. FlagsTyped'
  <2>1. woken' = TRUE
    BY DEF QueueIdleControl
  <2> QED BY <1>2, <2>1 DEF IInv, Typed, FlagsTyped
<1>4. controls \in Seq(Control) /\ Distinct(controls)
  BY DEF IInv, Typed, ControlsTyped, Located, Once
<1>5. /\ c \notin Ids(queued) /\ c \notin Elems(inbox) /\ c \notin batch
      /\ c \notin Elems(controls) /\ c \notin InSlot /\ c \notin InHand /\ c \notin Gone
  BY <1>1, Fresh
<1>6. /\ \/ input = None /\ input' = c /\ inputCommand' = c /\ UNCHANGED controls
         \/ /\ input # None /\ controls' = Append(controls, c)
            /\ UNCHANGED <<input, inputCommand>>
  <2>1. CASE input = None
    <3>1. controls = <<>>
      BY <2>1 DEF IInv, Slotted
    <3>2. Head(Append(controls, c)) = c /\ Tail(Append(controls, c)) = <<>>
      BY <1>4, <3>1, HeadTailAppend
    <3> QED BY <2>1, <3>1, <3>2 DEF QueueIdleControl
  <2>2. CASE input # None
    BY <2>2 DEF QueueIdleControl
  <2> QED BY <2>1, <2>2
<1>7. /\ controls' \in Seq(Control) /\ Len(controls') <= ControlLimit /\ Distinct(controls')
  <2>1. CASE controls' = controls
    BY <1>4, <2>1 DEF IInv, Typed, ControlsTyped
  <2>2. CASE controls' = Append(controls, c)
    <3>1. /\ controls' \in Seq(Control) /\ Len(controls') = Len(controls) + 1
          /\ Len(controls) \in Nat /\ ControlLimit \in Nat
      BY <1>4, <2>2, AppendProperties, LenProperties, Constants
    <3>2. Distinct(controls')
      BY <1>4, <1>5, <2>2, ElemsAppend
    <3> QED BY <1>1, <3>1, <3>2
  <2> QED BY <1>6, <2>1, <2>2
<1>8. Typed'
  <2>1. ControlsTyped'
    BY <1>7 DEF ControlsTyped
  <2>2. SlotTyped'
    BY <1>6, Constants DEF IInv, Typed, SlotTyped
  <2>3. HistoryTyped'
    BY <1>1, <1>2, Constants DEF IInv, Typed, HistoryTyped
  <2>4. app' \in Phase
    BY <1>2 DEF IInv, Typed, TurnTyped
  <2> QED BY <1>2, <1>3, <2>1, <2>2, <2>3, <2>4, TypeFrames DEF IInv, Typed
<1>9. InHand' = InHand /\ Gone' = Gone
  BY <1>2 DEF InHand, Gone
<1>10. \/ InSlot = {} /\ InSlot' = {c} /\ Elems(controls') = Elems(controls)
       \/ InSlot' = InSlot /\ Elems(controls') = Elems(controls) \cup {c}
  <2>1. CASE input = None
    BY <1>1, <1>6, <2>1 DEF InSlot
  <2>2. CASE input # None
    <3>1. Elems(controls') = Elems(controls) \cup {c}
      <4>1. controls' = Append(controls, c)
        BY <1>6, <2>2
      <4>2. Elems(Append(controls, c)) = Elems(controls) \cup {c}
        BY <1>4, ElemsAppend
      <4> QED BY <4>1, <4>2
    <3>2. InSlot' = InSlot
      BY <1>6, <2>2 DEF InSlot
    <3> QED BY <3>1, <3>2
  <2> QED BY <2>1, <2>2
<1>11. Apart'
  BY <1>2, <1>5, <1>9, <1>10 DEF IInv, Located, Apart
<1>12. Once'
  BY <1>2, <1>7 DEF IInv, Located, Once
<1>13. Known'
  BY <1>1, <1>2, <1>9, <1>10 DEF IInv, Located, Known
<1>14. Accounted'
  BY <1>1, <1>2, <1>9, <1>10 DEF IInv, Located, Accounted
<1>15. Commanded'
  BY <1>2, <1>6 DEF IInv, Commanded
<1>16. Slotted'
  BY <1>1, <1>2, <1>6 DEF IInv, Slotted
<1>17. Idling'
  <2>1. input' # None
    BY <1>1, <1>6
  <2>2. ~Waiting'
    BY <2>1 DEF Waiting
  <2> QED BY <1>2, <2>1, <2>2 DEF IInv, Idling
<1>18. Stops'
  BY <1>1, <1>2 DEF IInv, Stops, Command
<1> QED BY <1>8, <1>11, <1>12, <1>13, <1>14, <1>15, <1>16, <1>17, <1>18 DEF IInv, Located

\* A rename takes the free slot.
LEMMA RenameKeeps == \A r \in Rename : IInv /\ RenameCommand(r) => IInv'
<1> SUFFICES ASSUME IInv, NEW r \in Rename, RenameCommand(r)
             PROVE  IInv'
  OBVIOUS
<1>1. /\ Command /\ r \in Accepted \ accepted /\ r # None /\ input = None
      /\ input' = r /\ accepted' = accepted \cup {r}
  BY Constants DEF RenameCommand
<1>2. /\ UNCHANGED <<queued, inbox, batch, controls, current, joined, recalled, handled>>
      /\ UNCHANGED <<inputCommand, activeCommand, completed, resume, app, unreported>>
      /\ UNCHANGED <<retired, closed, clients, turnActive, requested, abort, cancelled>>
  BY Unfolded DEF RenameCommand
<1>3. FlagsTyped'
  <2>1. woken' = TRUE
    BY DEF RenameCommand
  <2> QED BY <1>2, <2>1 DEF IInv, Typed, FlagsTyped
<1>4. Typed'
  <2>1. SlotTyped'
    BY <1>1, <1>2, Constants DEF IInv, Typed, SlotTyped
  <2>2. HistoryTyped'
    BY <1>1, <1>2, Constants DEF IInv, Typed, HistoryTyped
  <2>3. app' \in Phase
    BY <1>2 DEF IInv, Typed, TurnTyped
  <2> QED BY <1>2, <1>3, <2>1, <2>2, <2>3, TypeFrames DEF IInv, Typed
<1>5. InSlot' = {r} /\ InSlot = {} /\ InHand' = InHand /\ Gone' = Gone
  BY <1>1, <1>2 DEF InSlot, InHand, Gone
<1>6. /\ r \notin Ids(queued) /\ r \notin Elems(inbox) /\ r \notin batch
      /\ r \notin Elems(controls) /\ r \notin InHand /\ r \notin Gone
  BY <1>1, Fresh
<1>7. Apart'
  BY <1>2, <1>5, <1>6 DEF IInv, Located, Apart
<1>8. Once'
  BY <1>2 DEF IInv, Located, Once
<1>9. Known'
  BY <1>1, <1>2, <1>5 DEF IInv, Located, Known
<1>10. Accounted'
  BY <1>1, <1>2, <1>5 DEF IInv, Located, Accounted
<1>11. Commanded'
  BY <1>1, <1>2 DEF IInv, Commanded
<1>12. Slotted'
  BY <1>1, <1>2 DEF IInv, Slotted
<1>13. Idling'
  BY <1>1, <1>2 DEF IInv, Idling, Waiting
<1>14. Stops'
  BY <1>1, <1>2 DEF IInv, Stops, Command
<1> QED BY <1>4, <1>7, <1>8, <1>9, <1>10, <1>11, <1>12, <1>13, <1>14 DEF IInv, Located

\* What is queued joins the running step: the entries stay, one no longer for
\* later.
LEMMA InsertKeeps == \A m \in Text : IInv /\ InsertNow(m) => IInv'
<1> SUFFICES ASSUME IInv, NEW m \in Text, InsertNow(m)
             PROVE  IInv'
  OBVIOUS
<1>1. /\ Command /\ m \in Ids(queued)
      /\ queued' = [i \in DOMAIN queued |->
                      [queued[i] EXCEPT !.later = @ /\ queued[i].id # m]]
  BY DEF InsertNow
<1>2. /\ UNCHANGED <<inbox, batch, controls, input, current, joined, recalled, handled>>
      /\ UNCHANGED <<inputCommand, activeCommand, completed, resume, app, unreported>>
      /\ UNCHANGED <<retired, closed, clients, turnActive, accepted, cancelled>>
      /\ requested' = TRUE /\ abort' = TRUE /\ woken' = TRUE
  BY Unfolded DEF InsertNow
<1>3. queued \in Seq(Steer) /\ Len(queued) \in Nat /\ DOMAIN queued = 1 .. Len(queued)
  <2>1. queued \in Seq(Steer)
    BY DEF IInv, Typed, QueueTyped
  <2> QED BY <2>1, LenProperties
<1>4. ASSUME NEW i \in DOMAIN queued
      PROVE  /\ queued'[i] \in Steer /\ queued'[i].id = queued[i].id
             /\ queued'[i].auto = queued[i].auto
  <2>1. queued[i] \in Steer
    BY <1>3, ElementOfSeq
  <2>2. (queued[i].later /\ queued[i].id # m) \in BOOLEAN
    OBVIOUS
  <2> QED BY <1>1, <2>1, <2>2 DEF Steer
<1>5. DOMAIN queued' = DOMAIN queued
  BY <1>1
<1>6. queued' \in Seq(Steer)
  <2>1. queued' \in [DOMAIN queued -> Steer]
    BY <1>1, <1>4
  <2> QED BY <1>3, <2>1, SeqDef
<1>7. Ids(queued') = Ids(queued)
  BY <1>4, <1>5 DEF Ids
<1>8. DistinctIds(queued')
  BY <1>4, <1>5 DEF DistinctIds, IInv, Located, Once
<1>9. TextCount(queued') = TextCount(queued)
  BY <1>4, <1>5 DEF TextCount, TextAt
<1>10. Typed'
  <2>1. QueueTyped'
    BY <1>6, <1>9 DEF IInv, Typed, QueueTyped
  <2>2. app' \in Phase
    BY <1>2 DEF IInv, Typed, TurnTyped
  <2>3. FlagsTyped'
    BY <1>2 DEF IInv, Typed, FlagsTyped
  <2> QED BY <1>2, <2>1, <2>2, <2>3, TypeFrames DEF IInv, Typed
<1>11. InSlot' = InSlot /\ InHand' = InHand /\ Gone' = Gone
  BY <1>2 DEF InSlot, InHand, Gone
<1>12. Apart'
  BY <1>2, <1>7, <1>11 DEF IInv, Located, Apart
<1>13. Once'
  BY <1>2, <1>8 DEF IInv, Located, Once
<1>14. Known'
  BY <1>2, <1>7, <1>11 DEF IInv, Located, Known
<1>15. Accounted'
  BY <1>2, <1>7, <1>11 DEF IInv, Located, Accounted
<1>16. Commanded' /\ Slotted'
  BY <1>2, RestStays
<1>17. Idling'
  <2>1. Waiting' = Waiting
    BY <1>2 DEF Waiting
  <2>2. \A i \in DOMAIN queued' : queued'[i].auto = queued[i].auto
    BY <1>4, <1>5
  <2>3. queued # <<>>
    BY <1>1, EmptyPlaces
  <2>4. Waiting => \A i \in DOMAIN queued' : ~queued'[i].auto
    BY <1>5, <2>2 DEF IInv, Idling
  <2>5. ~(app' = "retiring" /\ input' = None)
    BY <1>2, <2>3 DEF IInv, Idling
  <2> QED BY <1>2, <2>1, <2>4, <2>5 DEF IInv, Idling
<1>18. Stops'
  BY <1>1, <1>2 DEF IInv, Stops, Command
<1> QED BY <1>10, <1>12, <1>13, <1>14, <1>15, <1>16, <1>17, <1>18 DEF IInv, Located

\* What is queued is taken back.
LEMMA RecallKeeps == \A m \in Text : IInv /\ Recall(m) => IInv'
<1> SUFFICES ASSUME IInv, NEW m \in Text, Recall(m)
             PROVE  IInv'
  OBVIOUS
<1>1. /\ Command /\ m \in Ids(queued) /\ m \in Message
      /\ queued' = Without(m) /\ recalled' = recalled \cup {m}
  BY Constants DEF Recall
<1>2. /\ UNCHANGED <<inbox, batch, controls, input, current, joined, handled>>
      /\ UNCHANGED <<inputCommand, activeCommand, completed, resume, app, unreported>>
      /\ UNCHANGED <<retired, closed, clients, turnActive, accepted, cancelled>>
      /\ UNCHANGED <<requested, abort, woken>>
  BY Unfolded DEF Recall
<1>3. queued \in Seq(Steer) /\ DistinctIds(queued)
  BY DEF IInv, Typed, QueueTyped, Located, Once
<1>4. /\ queued' \in Seq(Steer) /\ Ids(queued') = Ids(queued) \ {m}
      /\ DistinctIds(queued') /\ TextCount(queued') <= TextCount(queued)
      /\ \A k \in DOMAIN queued' : \E i \in DOMAIN queued : queued'[k] = queued[i]
  BY <1>1, <1>3, WithoutFacts
<1>5. TextCount(queued') <= GuidanceLimit
  <2>1. /\ TextCount(queued') \in Nat /\ TextCount(queued) \in Nat /\ GuidanceLimit \in Nat
    BY <1>3, <1>4, Texts, Constants
  <2>2. TextCount(queued) <= GuidanceLimit
    BY DEF IInv, Typed, QueueTyped
  <2> QED BY <1>4, <2>1, <2>2
<1>6. Typed'
  <2>1. QueueTyped'
    BY <1>4, <1>5 DEF QueueTyped
  <2>2. HistoryTyped'
    BY <1>1, <1>2 DEF IInv, Typed, HistoryTyped
  <2>3. app' \in Phase
    BY <1>2 DEF IInv, Typed, TurnTyped
  <2>4. FlagsTyped'
    BY <1>2 DEF IInv, Typed, FlagsTyped
  <2> QED BY <1>2, <2>1, <2>2, <2>3, <2>4, TypeFrames DEF IInv, Typed
<1>7. InSlot' = InSlot /\ InHand' = InHand /\ Gone' = Gone \cup {m}
  BY <1>1, <1>2 DEF InSlot, InHand, Gone
<1>8. /\ m \notin Elems(inbox) /\ m \notin batch /\ m \notin Elems(controls)
      /\ m \notin InSlot /\ m \notin InHand /\ m \notin Gone
  BY <1>1 DEF IInv, Located, Apart
<1>9. Apart'
  BY <1>2, <1>4, <1>7, <1>8 DEF IInv, Located, Apart
<1>10. Once'
  <2>1. joined \in [Message -> Nat]
    BY DEF IInv, Typed, HistoryTyped
  <2>2. joined[m] = 0
    BY <1>1, <1>8, <2>1 DEF Gone
  <2> QED BY <1>1, <1>2, <1>4, <2>2 DEF IInv, Located, Once
<1>11. Known'
  BY <1>1, <1>2, <1>4, <1>7 DEF IInv, Located, Known
<1>12. Accounted'
  BY <1>1, <1>2, <1>4, <1>7 DEF IInv, Located, Accounted
<1>13. Commanded' /\ Slotted'
  BY <1>2, RestStays
<1>14. Idling'
  <2>1. Waiting' = Waiting
    BY <1>2 DEF Waiting
  <2>2. queued # <<>>
    BY <1>1, EmptyPlaces
  <2>3. Waiting => \A i \in DOMAIN queued' : ~queued'[i].auto
    BY <1>4 DEF IInv, Idling
  <2>4. ~(app' = "retiring" /\ input' = None)
    BY <1>2, <2>2 DEF IInv, Idling
  <2> QED BY <1>2, <2>1, <2>3, <2>4 DEF IInv, Idling
<1>15. Stops'
  BY <1>1, <1>2 DEF IInv, Stops, Command
<1> QED BY <1>6, <1>9, <1>10, <1>11, <1>12, <1>13, <1>14, <1>15 DEF IInv, Located

\* The queue once what has arrived is in it.
LEMMA Delivers ==
  ASSUME IInv
  PROVE  /\ queued \in Seq(Steer) /\ DistinctIds(queued) /\ TextCount(queued) <= GuidanceLimit
         /\ Delivered \in Seq(Steer) /\ DistinctIds(Delivered)
         /\ TextCount(Delivered) <= GuidanceLimit
         /\ Ids(Delivered) = Ids(queued) \cup Elems(inbox)
         /\ Elems(inbox) \subseteq Mail
<1>1. /\ queued \in Seq(Steer) /\ inbox \in Seq(Mail) /\ TextCount(queued) <= GuidanceLimit
      /\ DistinctIds(queued) /\ Distinct(inbox) /\ Ids(queued) \cap Elems(inbox) = {}
  BY DEF IInv, Typed, QueueTyped, InboxTyped, Located, Once, Apart
<1>2. Mail \cap Text = {}
  BY Constants
<1>3. /\ Delivered \in Seq(Steer)
      /\ Ids(Delivered) = Ids(queued) \cup Elems(inbox)
      /\ DistinctIds(Delivered)
      /\ TextCount(Delivered) = TextCount(queued)
  BY <1>1, <1>2, DeliveredFacts
<1>4. Elems(inbox) \subseteq Mail
  <2>1. \A i \in DOMAIN inbox : inbox[i] \in Mail
    BY <1>1, LenProperties, ElementOfSeq
  <2> QED BY <2>1 DEF Elems
<1> QED BY <1>1, <1>3, <1>4

\* Mail is in the inbox or behind the slot, never both.
LEMMA InboxApart ==
  ASSUME IInv
  PROVE  Elems(inbox) \cap Elems(controls) = {}
<1>1. \A i \in DOMAIN controls : controls[i] \in Control
  <2>1. controls \in Seq(Control)
    BY DEF IInv, Typed, ControlsTyped
  <2> QED BY <2>1, LenProperties, ElementOfSeq
<1>2. Elems(inbox) \subseteq Mail
  BY Delivers
<1> QED BY <1>1, <1>2, Constants DEF Elems

\* Mail arrives.
LEMMA ArriveKeeps == \A m \in Mail : IInv /\ Arrive(m) => IInv'
<1> SUFFICES ASSUME IInv, NEW m \in Mail, Arrive(m)
             PROVE  IInv'
  OBVIOUS
<1>1. /\ m \notin Ids(Delivered) /\ m \notin batch /\ m # input /\ m # current
      /\ joined[m] = 0 /\ inbox' = Append(inbox, m)
      /\ m \notin Control /\ m \notin Text /\ m \in Message
  BY Constants DEF Arrive
<1>2. /\ UNCHANGED <<queued, batch, controls, input, current, joined, handled>>
      /\ UNCHANGED <<inputCommand, activeCommand, completed, resume, app, unreported>>
      /\ UNCHANGED <<retired, closed, clients, turnActive, accepted, recalled, cancelled>>
      /\ UNCHANGED <<requested, abort>> /\ woken' = TRUE
  BY Unfolded DEF Arrive
<1>3. queued \in Seq(Steer) /\ inbox \in Seq(Mail) /\ controls \in Seq(Control)
  BY DEF IInv, Typed, QueueTyped, InboxTyped, ControlsTyped
<1>4. Ids(Delivered) = Ids(queued) \cup Elems(inbox)
  BY Delivers
<1>5. /\ inbox' \in Seq(Mail) /\ Elems(inbox') = Elems(inbox) \cup {m} /\ Distinct(inbox')
  <2>1. m \notin Elems(inbox) /\ Distinct(inbox)
    BY <1>1, <1>4 DEF IInv, Located, Once
  <2> QED BY <1>1, <1>3, <2>1, ElemsAppend, AppendProperties
<1>6. m \notin Elems(controls)
  <2>1. \A i \in DOMAIN controls : controls[i] \in Control
    BY <1>3, LenProperties, ElementOfSeq
  <2> QED BY <1>1, <2>1 DEF Elems
<1>7. m \notin Gone
  <2>1. m \notin recalled
    BY <1>1 DEF IInv, Typed, HistoryTyped
  <2> QED BY <1>1, <2>1 DEF Gone
<1>8. m \notin Ids(queued) /\ m \notin InSlot /\ m \notin InHand
  BY <1>1, <1>4 DEF InSlot, InHand
<1>9. Typed'
  <2>1. InboxTyped'
    BY <1>5 DEF InboxTyped
  <2>2. app' \in Phase
    BY <1>2 DEF IInv, Typed, TurnTyped
  <2>3. FlagsTyped'
    BY <1>2 DEF IInv, Typed, FlagsTyped
  <2> QED BY <1>2, <2>1, <2>2, <2>3, TypeFrames DEF IInv, Typed
<1>10. InSlot' = InSlot /\ InHand' = InHand /\ Gone' = Gone
  BY <1>2 DEF InSlot, InHand, Gone
<1>11. Apart'
  BY <1>1, <1>2, <1>5, <1>7, <1>8, <1>10 DEF IInv, Located, Apart
<1>12. Once'
  BY <1>2, <1>5 DEF IInv, Located, Once
<1>13. Known'
  BY <1>2, <1>10 DEF IInv, Located, Known
<1>14. Accounted'
  BY <1>2, <1>10 DEF IInv, Located, Accounted
<1>15. Commanded' /\ Slotted' /\ Idling' /\ Stops'
  BY <1>2, RestStays
<1> QED BY <1>9, <1>11, <1>12, <1>13, <1>14, <1>15 DEF IInv, Located

-----------------------------------------------------------------------------
(***************************************************************************)
(* NextInput and PublishState.                                             *)
(***************************************************************************)
\* The slot's input comes to hand and the next control moves up.
LEMMA TakeInputKeeps == IInv /\ TakeInput => IInv'
<1> SUFFICES ASSUME IInv, TakeInput
             PROVE  IInv'
  OBVIOUS
<1>1. /\ app = "check" /\ input # None /\ current' = input /\ activeCommand' = inputCommand
      /\ app' = "deliver" /\ ~closed
  BY DEF TakeInput
<1>2. /\ UNCHANGED <<queued, inbox, batch, joined, recalled, handled, accepted>>
      /\ UNCHANGED <<completed, resume, unreported, retired, closed, clients>>
      /\ UNCHANGED <<turnActive, woken, requested, abort, cancelled>>
  BY Unfolded DEF TakeInput
<1>3. controls \in Seq(Control) /\ Distinct(controls) /\ current = None
  BY <1>1 DEF IInv, Typed, ControlsTyped, Located, Once, Commanded
<1>4. \/ controls = <<>> /\ controls' = <<>> /\ input' = None /\ inputCommand' = None
      \/ controls # <<>> /\ input' = Head(controls) /\ inputCommand' = Head(controls)
         /\ controls' = Tail(controls)
  BY DEF TakeInput
<1>5. /\ controls' \in Seq(Control) /\ Len(controls') <= ControlLimit /\ Distinct(controls')
      /\ input' # None => input' \in Control
      /\ inputCommand' = input'
      /\ input' = None => controls' = <<>>
      /\ Elems(controls') \cup InSlot' = Elems(controls)
      /\ Elems(controls') \cap InSlot' = {}
  <2>1. CASE controls = <<>>
    <3>1. InSlot' = {}
      BY <1>4, <2>1 DEF InSlot
    <3>2. controls' = controls
      BY <1>4, <2>1
    <3> QED BY <1>3, <1>4, <2>1, <3>1, <3>2, EmptyPlaces DEF IInv, Typed, ControlsTyped
  <2>2. CASE controls # <<>>
    <3>1. /\ Head(controls) \in Control /\ Tail(controls) \in Seq(Control)
          /\ Len(Tail(controls)) = Len(controls) - 1 /\ Len(controls) \in Nat
          /\ Elems(controls) = Elems(Tail(controls)) \cup {Head(controls)}
          /\ Distinct(Tail(controls)) /\ Head(controls) \notin Elems(Tail(controls))
      BY <1>3, <2>2, ElemsTail
    <3>2. /\ controls' = Tail(controls) /\ input' = Head(controls)
          /\ inputCommand' = Head(controls)
      BY <1>4, <2>2
    <3>3. Head(controls) # None
      BY <3>1, Constants
    <3>4. InSlot' = {Head(controls)}
      BY <3>2, <3>3 DEF InSlot
    <3>5. Len(controls') <= ControlLimit
      <4>1. Len(controls) <= ControlLimit /\ ControlLimit \in Nat
        BY Constants DEF IInv, Typed, ControlsTyped
      <4> QED BY <3>1, <3>2, <4>1
    <3> QED BY <3>1, <3>2, <3>3, <3>4, <3>5
  <2> QED BY <2>1, <2>2
<1>6. Typed'
  <2>1. ControlsTyped'
    BY <1>5 DEF ControlsTyped
  <2>2. SlotTyped'
    BY <1>5, Constants DEF SlotTyped
  <2>3. HandTyped'
    BY <1>1 DEF IInv, Typed, SlotTyped, HandTyped
  <2>4. app' \in Phase
    BY <1>1 DEF Phase
  <2>5. FlagsTyped'
    BY <1>2 DEF IInv, Typed, FlagsTyped
  <2> QED BY <1>2, <2>1, <2>2, <2>3, <2>4, <2>5, TypeFrames DEF IInv, Typed
<1>7. InHand' = InSlot /\ InHand = {} /\ Gone' = Gone
  BY <1>1, <1>2 DEF InSlot, InHand, Gone
<1>8. Apart'
  <2>1. /\ Elems(controls') \subseteq Elems(controls) /\ InSlot' \subseteq Elems(controls)
        /\ Elems(controls') \cap InSlot' = {}
    BY <1>5
  <2>2. Apart
    BY DEF IInv, Located
  <2>3. /\ Ids(queued)' = Ids(queued) /\ Elems(inbox)' = Elems(inbox) /\ batch' = batch
        /\ InHand' = InSlot /\ Gone' = Gone
    BY <1>2, <1>7
  <2>4. /\ Ids(queued)' \cap (Elems(inbox)' \cup batch' \cup Elems(controls') \cup InSlot'
                                \cup InHand' \cup Gone') = {}
        /\ Elems(inbox)' \cap (batch' \cup InSlot' \cup InHand' \cup Gone') = {}
    BY <2>1, <2>2, <2>3, InboxApart DEF Apart
  <2>5. /\ batch' \cap (Elems(controls') \cup InSlot' \cup InHand' \cup Gone') = {}
        /\ Elems(controls') \cap (InSlot' \cup InHand' \cup Gone') = {}
    BY <2>1, <2>2, <2>3 DEF Apart
  <2>6. /\ InSlot' \cap (InHand' \cup Gone') = {}
        /\ InHand' \cap Gone' = {}
    BY <2>1, <2>2, <2>3 DEF Apart
  <2> QED BY <2>4, <2>5, <2>6 DEF Apart
<1>9. Once'
  BY <1>2, <1>5 DEF IInv, Located, Once
<1>10. Known'
  BY <1>2, <1>5, <1>7 DEF IInv, Located, Known
<1>11. Accounted'
  <2>1. InSlot \subseteq {current'} /\ None \notin accepted
    BY <1>1, Constants DEF InSlot, IInv, Typed, HistoryTyped
  <2>2. accepted \subseteq handled \cup Gone \cup Ids(queued) \cup batch \cup Elems(controls)
                               \cup InSlot
    BY <1>3, <2>1 DEF IInv, Located, Accounted
  <2> QED BY <1>2, <1>5, <1>7, <2>1, <2>2 DEF Accounted
<1>12. Commanded'
  BY <1>1, <1>2, <1>5 DEF IInv, Commanded
<1>13. Slotted'
  BY <1>1, <1>2, <1>5 DEF IInv, Slotted
<1>14. Idling'
  BY <1>1, <1>2 DEF IInv, Idling, Waiting
<1>15. Stops'
  BY <1>1, <1>2 DEF IInv, Stops
<1> QED BY <1>6, <1>8, <1>9, <1>10, <1>11, <1>12, <1>13, <1>14, <1>15 DEF IInv, Located

\* With nothing left the runtime stops.
LEMMA RetireKeeps == IInv /\ Retire => IInv'
<1> SUFFICES ASSUME IInv, Retire
             PROVE  IInv'
  OBVIOUS
<1>1. /\ app = "retiring" /\ input = None
      /\ closed' = TRUE /\ retired' = TRUE /\ app' = "stopped"
  BY DEF Retire
<1>2. /\ UNCHANGED <<queued, inbox, batch, controls, input, current, joined, recalled,
                     accepted, handled>>
      /\ UNCHANGED <<inputCommand, activeCommand, completed, resume, unreported, clients>>
      /\ UNCHANGED <<turnActive, woken, requested, abort, cancelled>>
  BY Unfolded DEF Retire
<1>3. Typed'
  <2>1. app' \in Phase
    BY <1>1 DEF Phase
  <2>2. FlagsTyped'
    BY <1>1, <1>2 DEF IInv, Typed, FlagsTyped
  <2> QED BY <1>2, <2>1, <2>2, TypeFrames DEF IInv, Typed
<1>4. Located'
  <2>1. InHand' = {}
    BY <1>1 DEF InHand
  <2> QED BY <1>2, <2>1, LocatedStays DEF IInv
<1>5. Commanded'
  BY <1>1, <1>2 DEF IInv, Commanded
<1>6. Slotted'
  BY <1>1, <1>2 DEF IInv, Slotted
<1>7. Idling'
  BY <1>1, <1>2 DEF IInv, Idling, Waiting
<1>8. Stops'
  <2>1. queued = <<>> /\ controls = <<>> /\ batch = {} /\ current = None
    BY <1>1 DEF IInv, Idling, Slotted, Commanded
  <2>2. Ids(queued) = {} /\ Elems(controls) = {} /\ InSlot = {} /\ None \notin accepted
    BY <1>1, <2>1, EmptyPlaces, Constants DEF InSlot, IInv, Typed, HistoryTyped
  <2>3. accepted \subseteq handled \cup Gone
    BY <2>1, <2>2 DEF IInv, Located, Accounted
  <2>4. Gone' = Gone
    BY <1>2 DEF Gone
  <2> QED BY <1>1, <1>2, <2>3, <2>4 DEF Stops
<1> QED BY <1>3, <1>4, <1>5, <1>6, <1>7, <1>8 DEF IInv

\* What a checkpoint announces.
LEMMA CheckpointFacts ==
  ASSUME IInv, Checkpoint
  PROVE  /\ completed' \subseteq handled' /\ HandTyped'
         /\ handled' \in SUBSET Accepted /\ completed' \in SUBSET (Text \cup Control)
         /\ handled \subseteq handled'
         /\ accepted \cap {current} \subseteq handled'
         /\ activeCommand' = None /\ current' = None /\ app' = "check"
<1>1. /\ handled' = handled \cup ({current} \cap Accepted)
      /\ completed' = completed \cup ({activeCommand} \ {None})
      /\ activeCommand' = None /\ current' = None /\ app' = "check"
  BY DEF Checkpoint
<1>2. /\ completed \subseteq handled /\ activeCommand \in {None, current}
      /\ activeCommand \in Text \cup Control \cup {None}
      /\ accepted \subseteq Accepted /\ handled \subseteq Accepted
      /\ completed \subseteq Text \cup Control
  BY DEF IInv, Commanded, Typed, HandTyped, HistoryTyped
<1>3. HandTyped'
  BY <1>1 DEF HandTyped
<1>4. completed' \subseteq handled'
  BY <1>1, <1>2, Constants
<1> QED BY <1>1, <1>2, <1>3, <1>4

\* A checkpoint with an input waiting.
LEMMA PublishBusyKeeps == IInv /\ PublishBusy => IInv'
<1> SUFFICES ASSUME IInv, PublishBusy
             PROVE  IInv'
  OBVIOUS
<1>1. app = "publish" /\ input # None /\ Checkpoint
  BY DEF PublishBusy
<1>2. /\ UNCHANGED <<queued, inbox, batch, controls, input, joined, recalled, accepted>>
      /\ UNCHANGED <<inputCommand, resume, unreported, clients, closed, retired>>
      /\ UNCHANGED <<turnActive, woken, requested, abort, cancelled>>
  BY Unfolded DEF PublishBusy
<1>3. /\ completed' \subseteq handled' /\ HandTyped'
      /\ handled' \in SUBSET Accepted /\ completed' \in SUBSET (Text \cup Control)
      /\ handled \subseteq handled'
      /\ accepted \cap {current} \subseteq handled'
      /\ activeCommand' = None /\ current' = None /\ app' = "check"
  BY <1>1, CheckpointFacts
<1>4. Typed'
  <2>1. HistoryTyped'
    BY <1>2, <1>3 DEF IInv, Typed, HistoryTyped
  <2>2. app' \in Phase
    BY <1>3 DEF Phase
  <2>3. FlagsTyped'
    BY <1>2 DEF IInv, Typed, FlagsTyped
  <2> QED BY <1>2, <1>3, <2>1, <2>2, <2>3, TypeFrames DEF IInv, Typed
<1>5. InHand' = {} /\ InHand = {} /\ Gone' = Gone /\ InSlot' = InSlot
  BY <1>1, <1>2, <1>3 DEF InSlot, InHand, Gone
<1>6. Apart'
  BY <1>2, <1>5 DEF IInv, Located, Apart
<1>7. Once'
  BY <1>2 DEF IInv, Located, Once
<1>8. Known'
  BY <1>2, <1>5 DEF IInv, Located, Known
<1>9. Accounted'
  BY <1>2, <1>3, <1>5 DEF IInv, Located, Accounted
<1>10. Commanded'
  BY <1>2, <1>3 DEF IInv, Commanded
<1>11. Slotted'
  BY <1>1, <1>2, <1>3 DEF IInv, Slotted
<1>12. Idling'
  BY <1>1, <1>2, <1>3 DEF IInv, Idling, Waiting
<1>13. Stops'
  BY <1>1, <1>2 DEF IInv, Stops
<1> QED BY <1>4, <1>6, <1>7, <1>8, <1>9, <1>10, <1>11, <1>12, <1>13 DEF IInv, Located

\* A checkpoint with none: the turn is over, or the oldest message that may
\* starts the next.
LEMMA PublishIdleKeeps == IInv /\ PublishIdle => IInv'
<1> SUFFICES ASSUME IInv, PublishIdle
             PROVE  IInv'
  OBVIOUS
<1> DEFINE m == Head(AutoStarts).id
<1>1. /\ app = "publish" /\ input = None /\ Checkpoint
      /\ unreported' = (unreported /\ ~turnActive) /\ abort' = FALSE
      /\ \/ AutoStarts = <<>> /\ turnActive' = FALSE /\ UNCHANGED <<input, queued, woken>>
         \/ AutoStarts # <<>> /\ input' = m /\ queued' = Without(m)
            /\ turnActive' = TRUE /\ woken' = TRUE
  BY DEF PublishIdle
<1>2. /\ UNCHANGED <<inbox, batch, controls, joined, recalled, accepted>>
      /\ UNCHANGED <<inputCommand, resume, clients, closed, retired>>
      /\ UNCHANGED <<requested, cancelled>>
  BY Unfolded DEF PublishIdle
<1>3. /\ completed' \subseteq handled' /\ HandTyped'
      /\ handled' \in SUBSET Accepted /\ completed' \in SUBSET (Text \cup Control)
      /\ handled \subseteq handled'
      /\ accepted \cap {current} \subseteq handled'
      /\ activeCommand' = None /\ current' = None /\ app' = "check"
  BY <1>1, CheckpointFacts
<1>4. queued \in Seq(Steer) /\ DistinctIds(queued)
  BY DEF IInv, Typed, QueueTyped, Located, Once
<1>5. AutoStarts # <<>> => m \in Ids(queued) /\ m \in Message /\ m # None
  <2>1. \A i \in DOMAIN queued : queued[i].id \in Message
    BY <1>4, Entries
  <2>2. AutoStarts # <<>> => m \in Ids(queued)
    BY <1>4, AutoFacts
  <2>3. Ids(queued) \subseteq Message
    BY <2>1 DEF Ids
  <2> QED BY <2>2, <2>3, Constants
<1> HIDE DEF m
<1>6. /\ queued' \in Seq(Steer) /\ DistinctIds(queued')
      /\ TextCount(queued') <= GuidanceLimit
  <2>0. TextCount(queued) <= GuidanceLimit /\ TextCount(queued) \in Nat /\ GuidanceLimit \in Nat
    BY <1>4, Texts, Constants DEF IInv, Typed, QueueTyped
  <2>1. CASE queued' = queued
    BY <1>4, <2>0, <2>1
  <2>2. CASE queued' = Without(m)
    <3>1. /\ queued' \in Seq(Steer) /\ DistinctIds(queued')
          /\ TextCount(queued') <= TextCount(queued)
      BY <1>4, <2>2, WithoutFacts
    <3>2. TextCount(queued') \in Nat
      BY <3>1, Texts
    <3> QED BY <2>0, <3>1, <3>2
  <2> QED BY <1>1, <2>1, <2>2
<1>7. Ids(queued') \cup InSlot' = Ids(queued) /\ Ids(queued') \cap InSlot' = {}
  <2>1. CASE AutoStarts = <<>>
    <3>1. InSlot' = {} /\ queued' = queued
      BY <1>1, <2>1 DEF InSlot
    <3> QED BY <3>1
  <2>2. CASE AutoStarts # <<>>
    <3>1. InSlot' = {m}
      BY <1>1, <1>5, <2>2 DEF InSlot
    <3>2. Ids(queued') = Ids(queued) \ {m}
      <4>1. queued' = Without(m)
        BY <1>1, <2>2
      <4> QED BY <1>4, <4>1, WithoutFacts
    <3> QED BY <1>5, <2>2, <3>1, <3>2
  <2> QED BY <2>1, <2>2
<1>8. InHand' = {} /\ InHand = {} /\ Gone' = Gone /\ InSlot = {}
  BY <1>1, <1>2, <1>3 DEF InSlot, InHand, Gone
<1>9. Typed'
  <2>1. QueueTyped'
    BY <1>6 DEF QueueTyped
  <2>2. SlotTyped'
    <3>1. input' \in Input \cup {None}
      BY <1>1, <1>5, Constants
    <3> QED BY <1>2, <3>1 DEF IInv, Typed, SlotTyped
  <2>3. HistoryTyped'
    BY <1>2, <1>3 DEF IInv, Typed, HistoryTyped
  <2>4. app' \in Phase
    BY <1>3 DEF Phase
  <2>5. FlagsTyped'
    <3>1. unreported' \in BOOLEAN
      BY <1>1
    <3>2. turnActive' \in BOOLEAN /\ abort' \in BOOLEAN
      BY <1>1
    <3>3. woken' \in BOOLEAN
      BY <1>1 DEF IInv, Typed, FlagsTyped
    <3> QED BY <1>2, <3>1, <3>2, <3>3 DEF IInv, Typed, FlagsTyped
  <2> QED BY <1>2, <1>3, <2>1, <2>2, <2>3, <2>4, <2>5, TypeFrames DEF IInv, Typed
<1>10. Apart'
  BY <1>2, <1>7, <1>8 DEF IInv, Located, Apart
<1>11. Once'
  BY <1>2, <1>6 DEF IInv, Located, Once
<1>12. Known'
  BY <1>2, <1>7, <1>8 DEF IInv, Located, Known
<1>13. Accounted'
  BY <1>2, <1>3, <1>7, <1>8 DEF IInv, Located, Accounted
<1>14. Commanded'
  <2>1. inputCommand' = None
    BY <1>1, <1>2 DEF IInv, Commanded
  <2> QED BY <1>3, <2>1 DEF Commanded
<1>15. Slotted'
  BY <1>1, <1>2, <1>3 DEF IInv, Slotted
<1>16. Idling'
  <2>1. CASE AutoStarts = <<>>
    <3>1. \A i \in DOMAIN queued' : ~queued'[i].auto
      BY <1>1, <1>4, <2>1, AutoFacts
    <3>2. ~unreported'
      BY <1>1 DEF IInv, Idling
    <3>3. ~turnActive'
      BY <1>1, <2>1
    <3> QED BY <1>3, <3>1, <3>2, <3>3 DEF Idling
  <2>2. CASE AutoStarts # <<>>
    <3>1. input' # None /\ turnActive'
      BY <1>1, <1>5, <2>2
    <3>2. ~Waiting'
      BY <3>1 DEF Waiting
    <3> QED BY <3>1, <3>2 DEF Idling
  <2> QED BY <2>1, <2>2
<1>17. Stops'
  BY <1>1, <1>2 DEF IInv, Stops
<1> QED BY <1>9, <1>10, <1>11, <1>12, <1>13, <1>14, <1>15, <1>16, <1>17 DEF IInv, Located

-----------------------------------------------------------------------------
(***************************************************************************)
(* A turn.                                                                 *)
(***************************************************************************)
\* Mail joins the queue, and a control that reverts files leaves its note.
LEMMA HandleInputKeeps == IInv /\ HandleInput => IInv'
<1> SUFFICES ASSUME IInv, HandleInput
             PROVE  IInv'
  OBVIOUS
<1> DEFINE e == Entry(current, FALSE, FALSE)
           note == {current} \cap Reverting
<1>1. /\ app = "deliver" /\ inbox' = <<>>
      /\ \/ current \in Reverting /\ queued' = Append(Delivered, e)
         \/ current \notin Reverting /\ queued' = Delivered
      /\ app' \in {"start", "save", "publish"}
      /\ current \in Reverting => app' # "start"
  <2>1. current \in Reverting => current \notin (Text \ Slash) \cup Mail
    BY Constants
  <2>2. app = "deliver" /\ inbox' = <<>>
    BY DEF HandleInput
  <2>3. \/ current \in Reverting /\ queued' = Append(Delivered, e)
        \/ current \notin Reverting /\ queued' = Delivered
    BY DEF HandleInput
  <2>4. app' \in {"start", "save", "publish"} /\ (current \in Reverting => app' # "start")
    BY <2>1 DEF HandleInput
  <2> QED BY <2>2, <2>3, <2>4
<1>2. /\ UNCHANGED <<batch, controls, input, current, joined, recalled, handled, accepted>>
      /\ UNCHANGED <<inputCommand, activeCommand, completed, resume, unreported, retired>>
      /\ UNCHANGED <<closed, clients, turnActive, woken, cancelled>>
  BY Unfolded DEF HandleInput
<1>3. FlagsTyped'
  <2>1. requested' \in BOOLEAN /\ abort' \in BOOLEAN
    <3>1. \/ requested' = requested /\ abort' = abort
          \/ requested' = FALSE /\ abort' = FALSE
      BY DEF HandleInput
    <3> QED BY <3>1 DEF IInv, Typed, FlagsTyped
  <2> QED BY <1>2, <2>1 DEF IInv, Typed, FlagsTyped
<1>4. /\ Delivered \in Seq(Steer) /\ DistinctIds(Delivered)
      /\ TextCount(Delivered) <= GuidanceLimit
      /\ Ids(Delivered) = Ids(queued) \cup Elems(inbox)
      /\ Elems(inbox) \subseteq Mail
  BY Delivers
<1>5. InHand = {current} \ {None} /\ note \subseteq InHand
  <2>1. InHand = {current} \ {None}
    BY <1>1 DEF InHand
  <2> QED BY <2>1, Constants
<1>6. /\ queued' \in Seq(Steer) /\ DistinctIds(queued') /\ TextCount(queued') <= GuidanceLimit
      /\ Ids(queued') = Ids(queued) \cup Elems(inbox) \cup note
  <2>1. CASE current \in Reverting
    <3>1. e \in Steer /\ e.id = current /\ current \notin Text
      BY <2>1, Constants DEF Entry, Steer
    <3>2. current \notin Ids(Delivered)
      <4>1. current \in InHand
        BY <1>5, <2>1
      <4> QED BY <1>4, <4>1 DEF IInv, Located, Apart
    <3> HIDE DEF e
    <3>3. queued' = Append(Delivered, e)
      BY <1>1, <2>1
    <3>4. /\ Append(Delivered, e) \in Seq(Steer)
          /\ Ids(Append(Delivered, e)) = Ids(Delivered) \cup {e.id}
          /\ DistinctIds(Append(Delivered, e))
          /\ TextCount(Append(Delivered, e)) = TextCount(Delivered)
      BY <1>4, <3>1, <3>2, QueueAppend
    <3> QED BY <1>4, <2>1, <3>1, <3>3, <3>4
  <2>2. CASE current \notin Reverting
    BY <1>1, <1>4, <2>2
  <2> QED BY <2>1, <2>2
<1>7. /\ InHand' \subseteq InHand /\ InHand' \cap note = {}
      /\ InSlot' = InSlot /\ Gone' = Gone
  <2>1. InHand' \subseteq InHand /\ InHand' \cap note = {}
    BY <1>1, <1>2, <1>5 DEF InHand
  <2> QED BY <1>2, <2>1 DEF InSlot, Gone
<1>8. Elems(inbox') = {} /\ Distinct(inbox')
  BY <1>1, EmptyPlaces
<1> HIDE DEF e, note
<1>9. Typed'
  <2>1. QueueTyped'
    BY <1>6 DEF QueueTyped
  <2>2. InboxTyped'
    BY <1>1, EmptySeq DEF InboxTyped
  <2>3. app' \in Phase
    BY <1>1 DEF Phase
  <2> QED BY <1>2, <1>3, <2>1, <2>2, <2>3, TypeFrames DEF IInv, Typed
<1>10. Elems(inbox) \cap Elems(controls) = {}
  BY InboxApart
<1>11. Apart'
  BY <1>2, <1>5, <1>6, <1>7, <1>8, <1>10 DEF IInv, Located, Apart
<1>12. Once'
  BY <1>2, <1>6, <1>8 DEF IInv, Located, Once
<1>13. Known'
  BY <1>2, <1>4, <1>5, <1>6, <1>7 DEF IInv, Located, Known
<1>14. Accounted'
  BY <1>2, <1>6, <1>7 DEF IInv, Located, Accounted
<1>15. Commanded'
  BY <1>1, <1>2 DEF IInv, Commanded
<1>16. Slotted'
  BY <1>1, <1>2 DEF IInv, Slotted
<1>17. Idling'
  BY <1>1, <1>2 DEF IInv, Idling, Waiting
<1>18. Stops'
  BY <1>1, <1>2 DEF IInv, Stops
<1> QED BY <1>9, <1>11, <1>12, <1>13, <1>14, <1>15, <1>16, <1>17, <1>18 DEF IInv, Located

\* Mail that came as the turn was ending.
LEMMA SaveKeeps == IInv /\ Save => IInv'
<1> SUFFICES ASSUME IInv, Save
             PROVE  IInv'
  OBVIOUS
<1>1. app = "save" /\ queued' = Delivered /\ inbox' = <<>> /\ app' = "publish"
  BY DEF Save
<1>2. /\ UNCHANGED <<batch, controls, input, current, joined, recalled, handled, accepted>>
      /\ UNCHANGED <<inputCommand, activeCommand, completed, resume, unreported, retired>>
      /\ UNCHANGED <<closed, clients, turnActive, woken, requested, abort, cancelled>>
  BY Unfolded DEF Save
<1>3. /\ queued' \in Seq(Steer) /\ DistinctIds(queued') /\ TextCount(queued') <= GuidanceLimit
      /\ Ids(queued') = Ids(queued) \cup Elems(inbox)
      /\ Elems(inbox) \subseteq Mail /\ Elems(inbox) \cap Elems(controls) = {}
  BY <1>1, Delivers, InboxApart
<1>4. Elems(inbox') = {} /\ Distinct(inbox')
  BY <1>1, EmptyPlaces
<1>5. InHand' = {} /\ InHand = {} /\ InSlot' = InSlot /\ Gone' = Gone
  BY <1>1, <1>2 DEF InHand, InSlot, Gone
<1>6. Typed'
  <2>1. QueueTyped'
    BY <1>3 DEF QueueTyped
  <2>2. InboxTyped'
    BY <1>1, EmptySeq DEF InboxTyped
  <2>3. app' \in Phase
    BY <1>1 DEF Phase
  <2>4. FlagsTyped'
    BY <1>2 DEF IInv, Typed, FlagsTyped
  <2> QED BY <1>2, <2>1, <2>2, <2>3, <2>4, TypeFrames DEF IInv, Typed
<1>7. Apart'
  BY <1>2, <1>3, <1>4, <1>5 DEF IInv, Located, Apart
<1>8. Once'
  BY <1>2, <1>3, <1>4 DEF IInv, Located, Once
<1>9. Known'
  BY <1>2, <1>3, <1>5 DEF IInv, Located, Known
<1>10. Accounted'
  BY <1>2, <1>3, <1>5 DEF IInv, Located, Accounted
<1>11. Commanded'
  BY <1>1, <1>2 DEF IInv, Commanded
<1>12. Slotted'
  BY <1>1, <1>2 DEF IInv, Slotted
<1>13. Idling'
  BY <1>1, <1>2 DEF IInv, Idling, Waiting
<1>14. Stops'
  BY <1>1, <1>2 DEF IInv, Stops
<1> QED BY <1>6, <1>7, <1>8, <1>9, <1>10, <1>11, <1>12, <1>13, <1>14 DEF IInv, Located

\* Messages that are in no other place join the conversation, once.
LEMMA Joins ==
  ASSUME IInv, NEW ids, Join(ids), ids \cap Gone = {}, UNCHANGED recalled
  PROVE  /\ joined' \in [Message -> Nat] /\ Gone' = Gone \cup (ids \cap Message)
         /\ \A m \in Message : joined'[m] <= 1
         /\ \A m \in recalled' : m \in Message => joined'[m] = 0
<1>1. /\ joined \in [Message -> Nat] /\ recalled \in SUBSET Text
      /\ \A m \in Message : joined[m] <= 1
      /\ \A m \in recalled : m \in Message => joined[m] = 0
  BY DEF IInv, Typed, HistoryTyped, Located, Once
<1>2. joined' = [m \in Message |-> IF m \in ids THEN joined[m] + 1 ELSE joined[m]]
  BY DEF Join
<1>3. ASSUME NEW m \in Message
      PROVE  /\ joined[m] \in Nat /\ joined'[m] \in Nat /\ joined'[m] <= 1
             /\ joined'[m] > 0 <=> joined[m] > 0 \/ m \in ids
             /\ m \in recalled => joined'[m] = 0
  <2>1. joined[m] \in Nat /\ joined[m] <= 1
    BY <1>1
  <2>2. CASE m \in ids
    <3>1. joined[m] = 0 /\ m \notin recalled
      BY <2>1, <2>2 DEF Gone
    <3>2. joined'[m] = joined[m] + 1
      BY <1>2, <2>2
    <3> QED BY <2>2, <3>1, <3>2
  <2>3. CASE m \notin ids
    <3>1. joined'[m] = joined[m]
      BY <1>2, <2>3
    <3> QED BY <1>1, <2>1, <2>3, <3>1
  <2> QED BY <2>2, <2>3
<1>4. joined' \in [Message -> Nat]
  BY <1>2, <1>3
<1>5. Gone' = Gone \cup (ids \cap Message)
  BY <1>3 DEF Gone
<1> QED BY <1>3, <1>4, <1>5

\* The turn's message joins.
LEMMA StartTurnKeeps == IInv /\ StartTurn => IInv'
<1> SUFFICES ASSUME IInv, StartTurn
             PROVE  IInv'
  OBVIOUS
<1>1. /\ app = "start" /\ turnActive' = TRUE /\ unreported' = TRUE /\ Join({current})
      /\ app' \in {"ended", "prepare"}
  BY DEF StartTurn
<1>2. /\ UNCHANGED <<queued, inbox, batch, controls, input, current, recalled, handled>>
      /\ UNCHANGED <<inputCommand, activeCommand, completed, resume, retired, accepted>>
      /\ UNCHANGED <<closed, clients, woken, requested, abort, cancelled>>
  BY Unfolded DEF StartTurn
<1>3. InHand = {current} \ {None} /\ InHand' = {} /\ InSlot' = InSlot
  BY <1>1, <1>2 DEF InHand, InSlot
<1>4. None \notin Gone
  BY Constants DEF IInv, Typed, HistoryTyped, Gone
<1>5. {current} \cap Gone = {}
  BY <1>3, <1>4 DEF IInv, Located, Apart
<1>6. /\ joined' \in [Message -> Nat] /\ Gone' = Gone \cup ({current} \cap Message)
      /\ \A m \in Message : joined'[m] <= 1
      /\ \A m \in recalled' : m \in Message => joined'[m] = 0
  BY <1>1, <1>2, <1>5, Joins
<1>7. Gone' \subseteq Gone \cup InHand /\ Gone \subseteq Gone'
  BY <1>3, <1>6, Constants
<1>8. Typed'
  <2>1. HistoryTyped'
    BY <1>2, <1>6 DEF IInv, Typed, HistoryTyped
  <2>2. app' \in Phase
    BY <1>1 DEF Phase
  <2>3. FlagsTyped'
    BY <1>1, <1>2 DEF IInv, Typed, FlagsTyped
  <2> QED BY <1>2, <2>1, <2>2, <2>3, TypeFrames DEF IInv, Typed
<1>9. Apart'
  BY <1>2, <1>3, <1>7 DEF IInv, Located, Apart
<1>10. Once'
  BY <1>2, <1>6 DEF IInv, Located, Once
<1>11. Known'
  BY <1>2, <1>3, <1>7 DEF IInv, Located, Known
<1>12. Accounted'
  BY <1>2, <1>3, <1>7 DEF IInv, Located, Accounted
<1>13. Commanded'
  BY <1>1, <1>2 DEF IInv, Commanded
<1>14. Slotted'
  BY <1>1, <1>2 DEF IInv, Slotted
<1>15. Idling'
  BY <1>1, <1>2 DEF IInv, Idling, Waiting
<1>16. Stops'
  BY <1>1, <1>2 DEF IInv, Stops
<1> QED BY <1>8, <1>9, <1>10, <1>11, <1>12, <1>13, <1>14, <1>15, <1>16 DEF IInv, Located

\* The guidance taken joins.
LEMMA ApplyKeeps == IInv /\ ApplyQueuedSteering => IInv'
<1> SUFFICES ASSUME IInv, ApplyQueuedSteering
             PROVE  IInv'
  OBVIOUS
<1>1. /\ app = "apply" /\ Join(batch) /\ batch' = {} /\ resume' = "prepare"
      /\ app' = resume /\ requested' = FALSE /\ abort' = FALSE
  BY DEF ApplyQueuedSteering
<1>2. /\ UNCHANGED <<queued, inbox, controls, input, current, recalled, handled, accepted>>
      /\ UNCHANGED <<inputCommand, activeCommand, completed, retired, turnActive>>
      /\ UNCHANGED <<closed, clients, woken, cancelled, unreported>>
  BY Unfolded DEF ApplyQueuedSteering
<1>3. /\ resume \in {"check step", "prepare", "ended"} /\ batch \subseteq Message
  BY DEF IInv, Typed, TurnTyped
<1>4. InHand = {} /\ InHand' = {} /\ InSlot' = InSlot
  BY <1>1, <1>2, <1>3 DEF InHand, InSlot
<1>5. batch \cap Gone = {}
  BY DEF IInv, Located, Apart
<1>6. /\ joined' \in [Message -> Nat] /\ Gone' = Gone \cup (batch \cap Message)
      /\ \A m \in Message : joined'[m] <= 1
      /\ \A m \in recalled' : m \in Message => joined'[m] = 0
  BY <1>1, <1>2, <1>5, Joins
<1>7. Gone' = Gone \cup batch
  BY <1>3, <1>6
<1>8. Typed'
  <2>1. HistoryTyped'
    BY <1>2, <1>6 DEF IInv, Typed, HistoryTyped
  <2>2. TurnTyped'
    BY <1>1, <1>3 DEF TurnTyped, Phase
  <2>3. FlagsTyped'
    BY <1>1, <1>2 DEF IInv, Typed, FlagsTyped
  <2> QED BY <1>2, <2>1, <2>2, <2>3, TypeFrames DEF IInv, Typed
<1>9. Apart'
  BY <1>1, <1>2, <1>4, <1>7 DEF IInv, Located, Apart
<1>10. Once'
  BY <1>2, <1>6 DEF IInv, Located, Once
<1>11. Known'
  BY <1>1, <1>2, <1>4, <1>7 DEF IInv, Located, Known
<1>12. Accounted'
  BY <1>1, <1>2, <1>4, <1>7 DEF IInv, Located, Accounted
<1>13. Commanded'
  BY <1>1, <1>2, <1>3 DEF IInv, Commanded
<1>14. Slotted'
  BY <1>1, <1>2 DEF IInv, Slotted
<1>15. Idling'
  BY <1>1, <1>2, <1>3 DEF IInv, Idling, Waiting
<1>16. Stops'
  BY <1>1, <1>2 DEF IInv, Stops
<1> QED BY <1>8, <1>9, <1>10, <1>11, <1>12, <1>13, <1>14, <1>15, <1>16 DEF IInv, Located

\* Guidance is taken (TakeMessages) while everything else stands.
Takes(entries, next, otherwise) ==
    /\ app \in {"prepare", "cut", "tools done", "finish"}
    /\ TakeMessages(entries, next, otherwise)
    /\ next \subseteq {"check step", "prepare", "ended"}
    /\ otherwise \subseteq {"check step", "prepare", "ended"}
Holds(entries) ==
    /\ entries \in Seq(Steer) /\ DistinctIds(entries)
    /\ TextCount(entries) <= GuidanceLimit
    /\ Ids(entries) \cup Elems(inbox') = Ids(queued) \cup Elems(inbox)
    /\ Ids(entries) \cap Elems(inbox') = {}
    /\ inbox' \in Seq(Mail) /\ Distinct(inbox')
Aside ==
    /\ UNCHANGED <<controls, input, current, joined, recalled, handled, accepted>>
    /\ UNCHANGED <<inputCommand, activeCommand, completed, turnActive, unreported>>
    /\ UNCHANGED <<closed, retired>>

\* A step that reports nothing and retires nobody leaves these as they are.
LEMMA AsideStops == IInv /\ app # "stopped" /\ Aside => Stops'
<1> SUFFICES ASSUME IInv, app # "stopped", Aside
             PROVE  Stops'
  OBVIOUS
<1>1. retired' = retired
  BY DEF Aside
<1>2. retired = FALSE
  BY DEF IInv, Stops, Typed, FlagsTyped
<1> QED BY <1>1, <1>2 DEF Stops

LEMMA AsideIdles == IInv /\ app' \notin AtRest /\ Aside => Idling'
<1> SUFFICES ASSUME IInv, app' \notin AtRest, Aside
             PROVE  Idling'
  OBVIOUS
<1>1. turnActive' = turnActive
  BY DEF Aside
<1>2. unreported' = unreported
  BY DEF Aside
<1>3. unreported => turnActive
  BY DEF IInv, Idling
<1>4. unreported' => turnActive'
  BY <1>1, <1>2, <1>3
<1>5. ~Waiting' /\ app' # "retiring"
  BY DEF Waiting, AtRest
<1> QED BY <1>4, <1>5 DEF Idling

\* Guidance is taken out of a queue that all of it is in, into a batch that was
\* empty.
LEMMA TakeKeeps ==
  ASSUME IInv, NEW entries, NEW next, NEW otherwise,
         Holds(entries), Takes(entries, next, otherwise), Aside, FlagsTyped'
  PROVE  IInv'
<1>1. /\ UNCHANGED <<controls, input, current, joined, recalled, handled, accepted>>
      /\ UNCHANGED <<inputCommand, activeCommand, completed>>
  BY DEF Aside
<1>a. /\ entries \in Seq(Steer) /\ DistinctIds(entries)
      /\ TextCount(entries) <= GuidanceLimit
      /\ Ids(entries) \cup Elems(inbox') = Ids(queued) \cup Elems(inbox)
      /\ Ids(entries) \cap Elems(inbox') = {}
      /\ inbox' \in Seq(Mail) /\ Distinct(inbox')
  BY DEF Holds
<1>b. app \in {"prepare", "cut", "tools done", "finish"}
  BY DEF Takes
<1>2. batch = {}
  BY <1>b DEF IInv, Slotted
<1>3. /\ queued' = Later(entries) /\ batch' = Now(entries)
      /\ app' = "apply" \/ (batch' = {} /\ app' \in {"check step", "prepare", "ended"})
      /\ resume' \in {"check step", "prepare", "ended"}
  <2>1. queued' = Later(entries)
    BY DEF Takes, TakeMessages
  <2>2. resume \in {"check step", "prepare", "ended"}
    BY DEF IInv, Typed, TurnTyped
  <2>3. CASE Now(entries) = {}
    BY <1>2, <2>1, <2>2, <2>3 DEF Takes, TakeMessages
  <2>4. CASE Now(entries) # {}
    BY <2>1, <2>4 DEF Takes, TakeMessages
  <2> QED BY <2>3, <2>4
<1>4. /\ queued' \in Seq(Steer) /\ batch' \in SUBSET Message
      /\ Ids(queued') \cup batch' = Ids(entries)
      /\ DistinctIds(queued') /\ Ids(queued') \cap batch' = {}
      /\ TextCount(queued') <= TextCount(entries)
  BY <1>a, <1>3, LaterFacts
<1>5. TextCount(queued') <= GuidanceLimit
  <2>1. TextCount(queued') \in Nat /\ TextCount(entries) \in Nat /\ GuidanceLimit \in Nat
    BY <1>a, <1>4, Texts, Constants
  <2>2. TextCount(queued') <= TextCount(entries) /\ TextCount(entries) <= GuidanceLimit
    BY <1>a, <1>4
  <2> QED BY <2>1, <2>2
<1>6. /\ app' \in Phase /\ app' \notin AtRest \cup {"stopped", "deliver", "start"}
      /\ app' # "apply" => batch' = {}
  BY <1>3 DEF Phase, AtRest
<1>7. InHand' = {} /\ InHand = {} /\ InSlot' = InSlot /\ Gone' = Gone
  <2>1. InHand' = {} /\ InHand = {}
    BY <1>b, <1>6 DEF InHand
  <2> QED BY <1>1, <2>1 DEF InSlot, Gone
<1>8. Typed'
  <2>1. QueueTyped' /\ InboxTyped'
    BY <1>a, <1>4, <1>5 DEF QueueTyped, InboxTyped
  <2>2. HistoryTyped'
    BY <1>1, TypeFrames DEF IInv
  <2>3. TurnTyped'
    BY <1>3, <1>4, <1>6 DEF TurnTyped
  <2> QED BY <1>1, <2>1, <2>2, <2>3, TypeFrames DEF IInv, Typed
<1>9. Apart'
  <2>1. /\ Ids(queued') \subseteq Ids(queued) \cup Elems(inbox)
        /\ batch' \subseteq Ids(queued) \cup Elems(inbox)
        /\ Elems(inbox') \subseteq Ids(queued) \cup Elems(inbox)
    BY <1>a, <1>4
  <2>2. (Ids(queued) \cup Elems(inbox))
            \cap (Elems(controls) \cup InSlot \cup InHand \cup Gone) = {}
    BY InboxApart DEF IInv, Located, Apart
  <2>3. /\ Ids(queued') \cap (Elems(inbox') \cup batch') = {}
        /\ Elems(inbox') \cap batch' = {}
    BY <1>a, <1>4
  <2>4. /\ Elems(controls') \cap (InSlot' \cup InHand' \cup Gone') = {}
        /\ InSlot' \cap (InHand' \cup Gone') = {} /\ InHand' \cap Gone' = {}
    BY <1>1, <1>7 DEF IInv, Located, Apart
  <2>5. /\ Ids(queued') \cap (Elems(controls') \cup InSlot' \cup InHand' \cup Gone') = {}
        /\ batch' \cap (Elems(controls') \cup InSlot' \cup InHand' \cup Gone') = {}
        /\ Elems(inbox') \cap (InSlot' \cup InHand' \cup Gone') = {}
    BY <1>1, <1>7, <2>1, <2>2
  <2> QED BY <2>3, <2>4, <2>5 DEF Apart
<1>10. Once'
  BY <1>a, <1>1, <1>4 DEF IInv, Located, Once
<1>11. Known'
  <2>1. Elems(inbox) \subseteq Mail
    BY Delivers
  <2>2. Ids(queued') \cup batch' \subseteq Ids(queued) \cup Mail
    BY <1>a, <1>4, <2>1
  <2> QED BY <1>1, <1>7, <2>2 DEF IInv, Located, Known
<1>12. Accounted'
  <2>1. accepted \cap Elems(inbox) = {}
    <3>1. Elems(inbox) \subseteq Mail
      BY Delivers
    <3> QED BY <3>1, Constants DEF IInv, Typed, HistoryTyped
  <2>2. accepted \cap Elems(inbox') = {}
    <3>1. \A i \in DOMAIN inbox' : inbox'[i] \in Mail
      <4>1. DOMAIN inbox' = 1 .. Len(inbox')
        BY <1>a, LenProperties
      <4>2. \A i \in 1 .. Len(inbox') : inbox'[i] \in Mail
        BY <1>a, ElementOfSeq
      <4> QED BY <4>1, <4>2
    <3>2. Elems(inbox') \subseteq Mail
      BY <3>1 DEF Elems
    <3> QED BY <3>2, Constants DEF IInv, Typed, HistoryTyped
  <2>3. accepted \cap Ids(queued) \subseteq Ids(queued') \cup batch'
    BY <1>a, <1>4, <2>1, <2>2
  <2> QED BY <1>1, <1>2, <1>7, <2>3 DEF IInv, Located, Accounted
<1>13. Commanded'
  BY <1>1, <1>6 DEF IInv, Commanded, AtRest
<1>14. Slotted'
  BY <1>1, <1>6 DEF IInv, Slotted
<1>15. Idling'
  BY <1>6, AsideIdles
<1>16. Stops'
  BY <1>b, AsideStops
<1> QED BY <1>8, <1>9, <1>10, <1>11, <1>12, <1>13, <1>14, <1>15, <1>16 DEF IInv, Located

\* Before a step and as a turn ends with prose, with the mail that has arrived.
LEMMA PrepareKeeps == IInv /\ (PrepareStep \/ FinishWithProse) => IInv'
<1> SUFFICES ASSUME IInv, PrepareStep \/ FinishWithProse
             PROVE  IInv'
  OBVIOUS
<1>1. /\ app \in {"prepare", "finish"} /\ inbox' = <<>>
      /\ \/ TakeMessages(Delivered, {"check step"}, {"check step"})
         \/ TakeMessages(Delivered, {"prepare"}, {"ended"})
  BY DEF PrepareStep, FinishWithProse
<1>2. /\ UNCHANGED <<controls, input, current, joined, recalled, handled, accepted>>
      /\ UNCHANGED <<inputCommand, activeCommand, completed, turnActive, unreported>>
      /\ UNCHANGED <<closed, retired, clients, woken, requested, abort, cancelled>>
  BY Unfolded DEF PrepareStep, FinishWithProse
<1>3. FlagsTyped'
  BY <1>2 DEF IInv, Typed, FlagsTyped
<1>4. /\ Delivered \in Seq(Steer) /\ DistinctIds(Delivered)
      /\ TextCount(Delivered) <= GuidanceLimit
      /\ Ids(Delivered) = Ids(queued) \cup Elems(inbox)
  BY Delivers
<1>5. Elems(inbox') = {} /\ Distinct(inbox') /\ inbox' \in Seq(Mail)
  BY <1>1, EmptyPlaces, EmptySeq
<1>6. Aside
  BY <1>2 DEF Aside
<1>7. app \in {"prepare", "cut", "tools done", "finish"}
  BY <1>1
<1>8. /\ Ids(Delivered) \cup Elems(inbox') = Ids(queued) \cup Elems(inbox)
      /\ Ids(Delivered) \cap Elems(inbox') = {}
  BY <1>4, <1>5
<1>h. Holds(Delivered)
  BY <1>4, <1>5, <1>8 DEF Holds
<1>9. CASE TakeMessages(Delivered, {"check step"}, {"check step"})
  <2>1. {"check step"} \subseteq {"check step", "prepare", "ended"}
    OBVIOUS
  <2>2. Takes(Delivered, {"check step"}, {"check step"})
    BY <1>7, <1>9, <2>1 DEF Takes
  <2> QED BY <1>3, <1>6, <1>h, <2>2, TakeKeeps
<1>10. CASE TakeMessages(Delivered, {"prepare"}, {"ended"})
  <2>1. /\ {"prepare"} \subseteq {"check step", "prepare", "ended"}
        /\ {"ended"} \subseteq {"check step", "prepare", "ended"}
    OBVIOUS
  <2>2. Takes(Delivered, {"prepare"}, {"ended"})
    BY <1>7, <1>10, <2>1 DEF Takes
  <2> QED BY <1>3, <1>6, <1>h, <2>2, TakeKeeps
<1> QED BY <1>1, <1>9, <1>10

\* After an interrupt and after the tools, without.
LEMMA CutKeeps == IInv /\ (Cut \/ ExecuteToolCalls) => IInv'
<1> SUFFICES ASSUME IInv, Cut \/ ExecuteToolCalls
             PROVE  IInv'
  OBVIOUS
<1>1. /\ app \in {"cut", "tools done"} /\ inbox' = inbox
      /\ \/ TakeMessages(queued, {"prepare"}, {"ended"})
         \/ TakeMessages(queued, {"prepare", "ended"}, {"prepare", "ended"})
  BY DEF Cut, ExecuteToolCalls
<1>2. /\ UNCHANGED <<controls, input, current, joined, recalled, handled, accepted>>
      /\ UNCHANGED <<inputCommand, activeCommand, completed, turnActive, unreported>>
      /\ UNCHANGED <<closed, retired, clients, woken, requested>>
  BY Unfolded DEF Cut, ExecuteToolCalls
<1>3. FlagsTyped'
  <2>1. \/ abort' = abort /\ cancelled' = cancelled
        \/ abort' = (abort /\ requested) /\ cancelled' = FALSE
    BY DEF Cut, ExecuteToolCalls
  <2>2. abort' \in BOOLEAN /\ cancelled' \in BOOLEAN
    <3>1. CASE abort' = abort /\ cancelled' = cancelled
      BY <3>1 DEF IInv, Typed, FlagsTyped
    <3>2. CASE abort' = (abort /\ requested) /\ cancelled' = FALSE
      BY <3>2
    <3> QED BY <2>1, <3>1, <3>2
  <2> QED BY <1>2, <2>2 DEF IInv, Typed, FlagsTyped
<1>4. /\ queued \in Seq(Steer) /\ DistinctIds(queued) /\ TextCount(queued) <= GuidanceLimit
  BY Delivers
<1>5. /\ Ids(queued) \cup Elems(inbox') = Ids(queued) \cup Elems(inbox)
      /\ Ids(queued) \cap Elems(inbox') = {}
      /\ inbox' \in Seq(Mail) /\ Distinct(inbox')
  BY <1>1 DEF IInv, Typed, InboxTyped, Located, Once, Apart
<1>6. Aside
  BY <1>2 DEF Aside
<1>7. app \in {"prepare", "cut", "tools done", "finish"}
  BY <1>1
<1>h. Holds(queued)
  BY <1>4, <1>5 DEF Holds
<1>8. CASE TakeMessages(queued, {"prepare"}, {"ended"})
  <2>1. /\ {"prepare"} \subseteq {"check step", "prepare", "ended"}
        /\ {"ended"} \subseteq {"check step", "prepare", "ended"}
    OBVIOUS
  <2>2. Takes(queued, {"prepare"}, {"ended"})
    BY <1>7, <1>8, <2>1 DEF Takes
  <2> QED BY <1>3, <1>6, <1>h, <2>2, TakeKeeps
<1>9. CASE TakeMessages(queued, {"prepare", "ended"}, {"prepare", "ended"})
  <2>1. {"prepare", "ended"} \subseteq {"check step", "prepare", "ended"}
    OBVIOUS
  <2>2. Takes(queued, {"prepare", "ended"}, {"prepare", "ended"})
    BY <1>7, <1>9, <2>1 DEF Takes
  <2> QED BY <1>3, <1>6, <1>h, <2>2, TakeKeeps
<1> QED BY <1>1, <1>8, <1>9

-----------------------------------------------------------------------------
(***************************************************************************)
(* The runtime.                                                            *)
(***************************************************************************)
LEMMA InitKeeps == Init => IInv
<1> SUFFICES ASSUME Init
             PROVE  IInv
  OBVIOUS
<1>1. /\ input = None /\ inputCommand = None /\ activeCommand = None /\ current = None
      /\ controls = <<>> /\ queued = <<>> /\ inbox = <<>> /\ batch = {}
      /\ app = "save" /\ resume = "prepare"
      /\ accepted = {} /\ recalled = {} /\ handled = {} /\ completed = {}
      /\ joined = [m \in Message |-> 0]
  BY DEF Init
<1>2. /\ clients = FALSE /\ closed = FALSE /\ turnActive = FALSE /\ woken = FALSE
      /\ requested = FALSE /\ abort = FALSE /\ cancelled = FALSE
      /\ unreported = FALSE /\ retired = FALSE
  BY DEF Init
<1>3. QueueTyped
  <2>1. <<>> \in Seq(Steer) /\ Len(<<>>) = 0
    BY EmptySeq
  <2>2. TextCount(<<>>) \in Nat /\ TextCount(<<>>) <= 0
    BY <2>1, Texts
  <2> QED BY <1>1, <2>1, <2>2, Constants DEF QueueTyped
<1>4. InboxTyped /\ ControlsTyped
  <2>1. <<>> \in Seq(Mail) /\ <<>> \in Seq(Control) /\ Len(<<>>) = 0
    BY EmptySeq
  <2> QED BY <1>1, <2>1, Constants DEF InboxTyped, ControlsTyped
<1>5. SlotTyped /\ HandTyped /\ TurnTyped
  BY <1>1 DEF SlotTyped, HandTyped, TurnTyped, Phase
<1>6. FlagsTyped
  BY <1>2 DEF FlagsTyped
<1>7. HistoryTyped
  BY <1>1 DEF HistoryTyped
<1>8. Located
  <2>1. /\ Ids(queued) = {} /\ Elems(inbox) = {} /\ Elems(controls) = {}
        /\ InSlot = {} /\ InHand = {} /\ Gone = {}
    BY <1>1, EmptyPlaces DEF InSlot, InHand, Gone
  <2>2. Apart /\ Known /\ Accounted
    BY <1>1, <2>1 DEF Apart, Known, Accounted
  <2>3. Once
    BY <1>1, EmptyPlaces DEF Once
  <2> QED BY <2>2, <2>3 DEF Located
<1>9. Commanded /\ Slotted
  BY <1>1 DEF Commanded, Slotted
<1>10. Idling
  BY <1>1, <1>2 DEF Idling, Waiting
<1>11. Stops
  BY <1>2 DEF Stops
<1> QED BY <1>3, <1>4, <1>5, <1>6, <1>7, <1>8, <1>9, <1>10, <1>11 DEF IInv, Typed

LEMMA NextKeeps == IInv /\ [Next]_vars => IInv'
<1> SUFFICES ASSUME IInv, [Next]_vars
             PROVE  IInv'
  OBVIOUS
<1>1. CASE Commands
  BY <1>1, SubmitKeeps, InsertKeeps, RecallKeeps, SteerKeeps, QueueControlKeeps,
     RenameKeeps, InterruptKeeps, AttachKeeps DEF Commands
<1>2. CASE \E m \in Mail : Arrive(m)
  BY <1>2, ArriveKeeps
<1>3. CASE Serve
  BY <1>3, TakeInputKeeps, NextInputKeeps, HandleInputKeeps, SaveKeeps, PublishIdleKeeps,
     PublishBusyKeeps DEF Serve
<1>4. CASE Retiring
  BY <1>4, NextInputKeeps, RetireKeeps DEF Retiring
<1>5. CASE Turn
  BY <1>5, StartTurnKeeps, TurnKeeps, PrepareKeeps, ApplyKeeps, CutKeeps DEF Turn
<1>6. CASE UNCHANGED vars
  <2>1. /\ UNCHANGED <<clientSide, closed, turnActive, slot, woken, steering, abort, inbox,
                       app, current, turnState, outcome>>
    BY <1>6 DEF vars
  <2>2. FlagsTyped'
    BY <2>1, Unfolded DEF IInv, Typed, FlagsTyped
  <2> QED BY <2>1, <2>2, Unfolded, QuietKeeps DEF placed, commands
<1> QED BY <1>1, <1>2, <1>3, <1>4, <1>5, <1>6 DEF Next

\* The invariant of every behaviour.
THEOREM AlwaysIInv == Spec => []IInv
<1>1. Init => IInv
  BY InitKeeps
<1>2. IInv /\ [Next]_vars => IInv'
  BY NextKeeps
<1> QED BY <1>1, <1>2, PTL DEF Spec

(***************************************************************************)
(* What the invariant says of the properties.                              *)
(***************************************************************************)
LEMMA OnceFollows == IInv => RunsOnce
<1> SUFFICES ASSUME IInv
             PROVE  RunsOnce
  OBVIOUS
<1>1. completed \subseteq handled
  BY DEF IInv, Commanded
<1>2. ASSUME NEW m \in Message
      PROVE  joined[m] + (IF m \in recalled THEN 1 ELSE 0) <= 1
  <2>1. joined[m] \in Nat /\ joined[m] <= 1 /\ (m \in recalled => joined[m] = 0)
    BY DEF IInv, Typed, HistoryTyped, Located, Once
  <2> QED BY <2>1
<1> QED BY <1>1, <1>2 DEF RunsOnce

LEMMA OwesNothingFollows == IInv => RetiredOwesNothing
  BY DEF IInv, Stops, Gone, RetiredOwesNothing

LEMMA IdleFollows == IInv => WaitingIsIdle
<1> SUFFICES ASSUME IInv, Waiting
             PROVE  ~turnActive /\ AutoStarts = <<>> /\ controls = <<>> /\ ~unreported
  BY DEF WaitingIsIdle
<1>1. queued \in Seq(Steer)
  BY DEF IInv, Typed, QueueTyped
<1>2. ~turnActive /\ AutoStarts = <<>>
  BY <1>1, AutoFacts DEF IInv, Idling
<1>3. ~unreported
  BY <1>2 DEF IInv, Idling
<1>4. controls = <<>>
  BY DEF IInv, Slotted, Waiting
<1> QED BY <1>2, <1>3, <1>4

\* The slot, the controls behind it, the guidance and the mail keep their shapes
\* and their bounds, kControlQueueLimit and kGuidanceQueueLimit, whatever the
\* clients send and however a turn is interrupted (WorkerChannel, Steering).
THEOREM WorkerTypeCorrect == Spec => []TypeOK
<1>1. IInv => TypeOK
  BY TypesCover DEF IInv
<1> QED BY <1>1, AlwaysIInv, PTL

\* A message joins the conversation at most once and not at all once it is
\* recalled, and a checkpoint completes only a command whose own input was
\* handled (Steering::Take, Recall, SendState).
THEOREM MessagesRunOnce == Spec => []RunsOnce
  BY OnceFollows, AlwaysIInv, PTL

\* A runtime that stopped for being idle owes its clients nothing it accepted
\* (NextInput's idle period, WorkerChannel::Retire).
THEOREM RetiredRuntimeOwesNothing == Spec => []RetiredOwesNothing
  BY OwesNothingFollows, AlwaysIInv, PTL

\* While the application waits with an empty slot no turn is active or
\* unreported, no guidance may start one and no control waits (PublishState,
\* NextControlLocked).
THEOREM WaitingRuntimeIsIdle == Spec => []WaitingIsIdle
  BY IdleFollows, AlwaysIInv, PTL
=============================================================================
