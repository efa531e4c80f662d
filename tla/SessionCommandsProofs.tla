----------------------- MODULE SessionCommandsProofs -----------------------
(***************************************************************************)
(* Proofs about a command's way to its runtime and its receipt's way back  *)
(* (SessionCommands), for any requests, logs of any size and any number of *)
(* posts, runtimes, faults and decisions.                                  *)
(*                                                                         *)
(* The invariant follows a command and its answers along both wires.  What *)
(* is still to come of a request over the host's connection (the command   *)
(* itself, an outcome that is final, one the runtime's log or a replay     *)
(* owes) is counted: at most one of it, and one more while the request is  *)
(* awaited.  That is why a replay that reads "pending" finds no final      *)
(* outcome ahead of it.                                                    *)
(***************************************************************************)
EXTENDS SessionCommands, SequenceTheorems, FiniteSetTheorems, TLAPS

Final == {"accepted", "refused"}
\* A request PendingIsAwaited makes no promise of.
Exempt(r) == r \in overtaken \cup slipped
\* A command that ran in some runtime.
Happened(r) == \E g \in Run : ran[r][g] > 0
\* The reader reads: what the runtime sends can arrive.
Up == link # "none" /\ ~ending
\* An outcome is on its way for it, or the command itself.
Owed(r) == r \in awaiting /\ call[r] # "registered"

\* A runtime that is gone keeps nothing, and a connection is to a runtime.
Serving ==
    /\ run = 0 =>
          /\ \A r \in Request : log[r] = "none"
          /\ logOrder = <<>> /\ controls = <<>> /\ ~deciding
    /\ run # 0 => run = last
    /\ link # "none" => gen \in Run
    /\ ending => link # "none"
    /\ ~Up => toHost = <<>>

\* Controls wait once, in the log and not run.
Queued ==
    /\ IsInjective(controls)
    /\ \A i \in 1 .. Len(controls) :
          /\ log[controls[i]] = "pending"
          /\ ran[controls[i]][run] = 0 \/ <<controls[i], run>> \in forgotten
          /\ controls[i] \in Named =>
                name[controls[i]] = run \/ controls[i] \in slipped

\* What is not in the log has not run, or was forgotten.
Ran1 ==
    /\ \A r \in Posted, g \in Run : ran[r][g] <= 1 \/ <<r, g>> \in forgotten
    /\ \A r \in Posted, g \in Run : g > last => ran[r][g] = 0
    /\ run # 0 => \A r \in Posted :
          log[r] = "none" => ran[r][run] = 0 \/ <<r, run>> \in forgotten

\* A request that names a runtime is on its way to that one.
Addressed ==
    /\ \A i \in 1 .. Len(toWorker) : toWorker[i][1] \in Named =>
          toWorker[i][2] = name[toWorker[i][1]] \/ toWorker[i][1] \in slipped
    /\ \A r \in Named, g \in Run :
          ran[r][g] > 0 => g = name[r] \/ r \in slipped

\* Whoever says that a command was accepted is right.
Truthful ==
    /\ \A r \in Posted :
          "accepted" \in {web[r], receipt[r], log[r]} => Happened(r)
    /\ \A i \in 1 .. Len(toHost) :
          toHost[i][2] = "accepted" => Happened(toHost[i][1])
    /\ replaying # None /\ replaying[2] = "accepted" => Happened(replaying[1])
    /\ \A r \in assured : Happened(r)

\* What the runtime's replay has read is what the log says, or was completed since.
Replays ==
    replaying # None =>
        \/ log[replaying[1]] = replaying[2]
        \/ log[replaying[1]] = "accepted" /\ replaying[2] = "pending"

\* The host awaits a receipt while its handler or its browser does.
Awaits ==
    /\ \A r \in awaiting : r \in ToSet(order) /\ receipt[r] = "pending"
    /\ \A r \in awaiting :
          \/ call[r] \in {"registered", "sent"}
          \/ call[r] = "none" /\ web[r] = "pending"
    /\ ~Up => \A r \in awaiting : call[r] = "registered" \/ r \in stranded
    /\ \A r \in Posted : web[r] = "none" => call[r] = "none"

\* How many elements of s are in M.
Count(s, M) == Cardinality({i \in 1 .. Len(s) : s[i] \in M})
InLog(r) == IF log[r] = "pending" THEN 1 ELSE 0
InReplay(r) ==
    IF replaying # None /\ replaying[1] = r /\ replaying[2] \in Final THEN 1 ELSE 0
\* What is still to come of a request, that ends in a final outcome.
ToCome(r) ==
    Count(toWorker, {r} \X Run) + Count(toHost, {r} \X Final) + InLog(r) + InReplay(r)
Bounded ==
    Up =>
        \A r \in Posted : Exempt(r) \/ ToCome(r) <= (IF Owed(r) THEN 2 ELSE 1)

\* "pending" comes of a request that is awaited, ahead of every final outcome.
Ahead ==
    /\ \A i \in 1 .. Len(toHost) :
          toHost[i][2] = "pending" /\ ~Exempt(toHost[i][1]) =>
              /\ Owed(toHost[i][1])
              /\ \A j \in 1 .. i - 1 : toHost[j] \notin {toHost[i][1]} \X Final
    /\ Up /\ replaying # None /\ replaying[2] = "pending"
          /\ ~Exempt(replaying[1]) /\ log[replaying[1]] = "pending" =>
              /\ Owed(replaying[1])
              /\ \A j \in 1 .. Len(toHost) : toHost[j] \notin {replaying[1]} \X Final

\* A receipt is pending only while it is awaited.
Shown == \A r \in Posted : receipt[r] = "pending" => r \in awaiting \/ Exempt(r)

\* One reply decides, while it is the replier's to give.
Decides ==
    /\ \A d \in Decision : accepted[d] = {} \/ \E x \in accepted[d] : accepted[d] = {x}
    /\ \A d \in Decision : answer[d] # None => accepted[d] = {answer[d]}
    /\ \A d \in Decision : d > asked => accepted[d] = {} /\ answer[d] = None
    /\ deciding => /\ asked \in Decision /\ accepted[asked] = {reply} \ {None}
                   /\ answer[asked] = None
    /\ ~deciding => reply = None /\ ~notified
    /\ notified => route = "human"
    /\ late = {}

USE DEF Up, endVars

-----------------------------------------------------------------------------
(***************************************************************************)
(* Sequences and what they count.                                          *)
(***************************************************************************)
\* Append adds one element at the end.
LEMMA Appended ==
  ASSUME NEW S, NEW s \in Seq(S), NEW e \in S
  PROVE  /\ Append(s, e) \in Seq(S) /\ Len(Append(s, e)) = Len(s) + 1
         /\ \A i \in 1 .. Len(s) : Append(s, e)[i] = s[i]
         /\ Append(s, e)[Len(s) + 1] = e
         /\ Len(s) \in Nat
  OBVIOUS

\* Tail drops the first.
LEMMA Tailed ==
  ASSUME NEW S, NEW s \in Seq(S), s # <<>>
  PROVE  /\ Tail(s) \in Seq(S) /\ Len(Tail(s)) = Len(s) - 1
         /\ \A i \in 1 .. Len(s) - 1 : Tail(s)[i] = s[i + 1]
         /\ Head(s) = s[1] /\ Head(s) \in S /\ Len(s) \in Nat \ {0}
  BY HeadTailProperties, EmptySeq

\* What a broken connection lets through.
LEMMA Prefixed ==
  ASSUME NEW S, NEW s \in Seq(S), NEW t \in Prefixes(s)
  PROVE  /\ t \in Seq(S) /\ Len(t) <= Len(s) /\ Len(t) \in Nat /\ Len(s) \in Nat
         /\ \A i \in 1 .. Len(t) : t[i] = s[i]
<1>1. PICK n \in 0 .. Len(s) : t = SubSeq(s, 1, n)
  BY DEF Prefixes
<1>2. Len(s) \in Nat /\ \A i \in 1 .. n : s[i] \in S
  BY LenProperties
<1>3. /\ SubSeq(s, 1, n) \in Seq(S)
      /\ Len(SubSeq(s, 1, n)) = IF 1 <= n THEN n - 1 + 1 ELSE 0
      /\ \A i \in 1 .. n - 1 + 1 : SubSeq(s, 1, n)[i] = s[1 + i - 1]
  BY <1>2, SubSeqProperties
<1> QED BY <1>1, <1>2, <1>3

\* The elements of a sequence, by their places.
LEMMA Elements ==
  ASSUME NEW S, NEW s \in Seq(S)
  PROVE  /\ Len(s) \in Nat /\ DOMAIN s = 1 .. Len(s)
         /\ \A x : x \in ToSet(s) <=> \E i \in 1 .. Len(s) : s[i] = x
         /\ ToSet(s) \subseteq S
  BY LenProperties DEF ToSet

LEMMA AppendedSet ==
  ASSUME NEW S, NEW s \in Seq(S), NEW e \in S
  PROVE  ToSet(Append(s, e)) = ToSet(s) \cup {e}
<1> DEFINE t == Append(s, e)
<1>1. /\ t \in Seq(S) /\ Len(t) = Len(s) + 1 /\ Len(s) \in Nat
      /\ \A i \in 1 .. Len(s) : t[i] = s[i]
      /\ t[Len(s) + 1] = e
  BY Appended
<1> HIDE DEF t
<1>2. ASSUME NEW x
      PROVE  x \in ToSet(t) <=> x \in ToSet(s) \/ x = e
  <2>1. x \in ToSet(t) <=> \E i \in 1 .. Len(t) : t[i] = x
    BY <1>1, Elements
  <2>2. x \in ToSet(s) <=> \E i \in 1 .. Len(s) : s[i] = x
    BY Elements
  <2> QED BY <1>1, <2>1, <2>2
<1>3. ToSet(t) = ToSet(s) \cup {e}
  BY <1>2
<1> QED BY <1>3 DEF t

\* Room leaves a bounded log one place, and takes only what is done.
LEMMA Roomy ==
  ASSUME NEW S, NEW s \in Seq(S), NEW limit \in Nat \ {0}, Len(s) <= limit,
         NEW done, NEW h \in Room(s, limit, done)
  PROVE  /\ h \in Seq(S) /\ Len(h) < limit
         /\ ToSet(h) \subseteq ToSet(s) /\ ToSet(s) \ done \subseteq ToSet(h)
<1>n. Len(s) \in Nat /\ DOMAIN s = 1 .. Len(s) /\ \A i \in 1 .. Len(s) : s[i] \in S
  BY LenProperties
<1>1. CASE Len(s) < limit
  BY <1>1 DEF Room
<1>2. CASE ~(Len(s) < limit)
  <2>1. PICK k \in 1 .. Len(s) : s[k] \in done /\ h = RemoveAt(s, k)
    BY <1>2, <1>n DEF Room
  <2> DEFINE a == SubSeq(s, 1, k - 1)
             b == SubSeq(s, k + 1, Len(s))
  <2>2. /\ a \in Seq(S) /\ Len(a) = k - 1
        /\ \A i \in 1 .. k - 1 : a[i] = s[i]
    <3>1. \A i \in 1 .. k - 1 : s[i] \in S
      BY <1>n
    <3>2. /\ a \in Seq(S) /\ Len(a) = IF 1 <= k - 1 THEN k - 1 - 1 + 1 ELSE 0
          /\ \A i \in 1 .. k - 1 - 1 + 1 : a[i] = s[1 + i - 1]
      BY <3>1, SubSeqProperties
    <3> QED BY <3>2
  <2>3. /\ b \in Seq(S) /\ Len(b) = Len(s) - k
        /\ \A i \in 1 .. Len(s) - k : b[i] = s[k + i]
    <3>1. \A i \in k + 1 .. Len(s) : s[i] \in S
      BY <1>n
    <3>2. /\ b \in Seq(S)
          /\ Len(b) = IF k + 1 <= Len(s) THEN Len(s) - (k + 1) + 1 ELSE 0
          /\ \A i \in 1 .. Len(s) - (k + 1) + 1 : b[i] = s[k + 1 + i - 1]
      BY <3>1, <1>n, SubSeqProperties
    <3> HIDE DEF b
    <3>3. Len(b) = Len(s) - k
      <4>1. CASE k + 1 <= Len(s)
        <5>1. Len(b) = Len(s) - (k + 1) + 1
          BY <3>2, <4>1
        <5> QED BY <1>n, <5>1
      <4>2. CASE ~(k + 1 <= Len(s))
        <5>1. Len(b) = 0
          BY <3>2, <4>2
        <5>2. Len(s) \in Nat
          BY <1>n
        <5>3. k = Len(s)
          BY <4>2, <5>2
        <5> QED BY <5>1, <5>2, <5>3
      <4> QED BY <4>1, <4>2
    <3>4. ASSUME NEW i \in 1 .. Len(s) - k
          PROVE  b[i] = s[k + i]
      <4>1. i \in 1 .. Len(s) - (k + 1) + 1 /\ k + 1 + i - 1 = k + i
        BY <1>n
      <4> QED BY <3>2, <4>1
    <3> QED BY <3>2, <3>3, <3>4
  <2> HIDE DEF a, b
  <2>4. h = a \o b
    BY <2>1 DEF RemoveAt, a, b
  <2>5. /\ h \in Seq(S) /\ Len(h) = Len(s) - 1
        /\ \A i \in 1 .. Len(s) - 1 : h[i] = IF i < k THEN s[i] ELSE s[i + 1]
    <3>1. /\ h \in Seq(S) /\ Len(h) = Len(a) + Len(b)
          /\ \A i \in 1 .. Len(a) + Len(b) :
                h[i] = IF i <= Len(a) THEN a[i] ELSE b[i - Len(a)]
      BY <2>2, <2>3, <2>4, ConcatProperties
    <3>2. Len(a) + Len(b) = Len(s) - 1
      BY <2>2, <2>3, <1>n
    <3>3. ASSUME NEW i \in 1 .. Len(s) - 1
          PROVE  h[i] = IF i < k THEN s[i] ELSE s[i + 1]
      <4>1. h[i] = IF i <= k - 1 THEN a[i] ELSE b[i - (k - 1)]
        BY <3>1, <3>2, <2>2
      <4>2. CASE i < k
        BY <4>1, <4>2, <2>2, <1>n
      <4>3. CASE ~(i < k)
        <5>1. i - (k - 1) \in 1 .. Len(s) - k /\ k + (i - (k - 1)) = i + 1
          BY <4>3, <1>n
        <5>2. b[i - (k - 1)] = s[k + (i - (k - 1))]
          BY <2>3, <5>1
        <5>3. ~(i <= k - 1)
          BY <4>3, <1>n
        <5> QED BY <4>1, <4>3, <5>1, <5>2, <5>3
      <4> QED BY <4>2, <4>3
    <3> QED BY <3>1, <3>2, <3>3
  <2>6. ToSet(h) \subseteq ToSet(s)
    BY <2>5, <1>n, Elements
  <2>7. ASSUME NEW x \in ToSet(s), x \notin done
        PROVE  x \in ToSet(h)
    <3>1. PICK i \in 1 .. Len(s) : s[i] = x
      BY Elements
    <3>2. i # k
      BY <3>1, <2>1, <2>7
    <3>3. CASE i < k
      <4>1. i \in 1 .. Len(s) - 1 /\ h[i] = x
        BY <3>1, <3>3, <2>5, <1>n
      <4> QED BY <4>1, <2>5, Elements
    <3>4. CASE i > k
      <4>1. i - 1 \in 1 .. Len(s) - 1 /\ h[i - 1] = x
        BY <3>1, <3>4, <2>5, <1>n
      <4> QED BY <4>1, <2>5, Elements
    <3> QED BY <3>2, <3>3, <3>4
  <2> QED BY <2>5, <2>6, <2>7, <1>n, <1>2
<1> QED BY <1>1, <1>2

-----------------------------------------------------------------------------
\* The places counted.
Places(s, M) == {i \in 1 .. Len(s) : s[i] \in M}

LEMMA Counted ==
  ASSUME NEW S, NEW s \in Seq(S), NEW M
  PROVE  /\ IsFiniteSet(Places(s, M)) /\ Count(s, M) = Cardinality(Places(s, M))
         /\ Count(s, M) \in Nat
         /\ Count(s, M) > 0 <=> \E i \in 1 .. Len(s) : s[i] \in M
<1>1. IsFiniteSet(1 .. Len(s)) /\ Places(s, M) \in SUBSET (1 .. Len(s))
  BY LenProperties, FS_Interval DEF Places
<1>2. IsFiniteSet(Places(s, M))
  BY <1>1, FS_Subset
<1>3. Count(s, M) = Cardinality(Places(s, M))
  BY DEF Count, Places
<1>4. Cardinality(Places(s, M)) \in Nat
  BY <1>2, FS_CardinalityType
<1>5. Cardinality(Places(s, M)) = 0 <=> Places(s, M) = {}
  BY <1>2, FS_EmptySet
<1>6. Places(s, M) = {} <=> ~ \E i \in 1 .. Len(s) : s[i] \in M
  BY DEF Places
<1> QED BY <1>2, <1>3, <1>4, <1>5, <1>6

LEMMA CountEmpty ==
  ASSUME NEW M
  PROVE  Count(<<>>, M) = 0
<1>1. {i \in 1 .. Len(<<>>) : <<>>[i] \in M} = {}
  OBVIOUS
<1> QED BY <1>1, FS_EmptySet DEF Count

LEMMA CountAppend ==
  ASSUME NEW S, NEW s \in Seq(S), NEW e \in S, NEW M
  PROVE  Count(Append(s, e), M) = Count(s, M) + (IF e \in M THEN 1 ELSE 0)
<1> DEFINE n == Len(s) + 1
<1>1. /\ Append(s, e) \in Seq(S)
      /\ Count(Append(s, e), M) = Cardinality(Places(Append(s, e), M))
      /\ Count(s, M) = Cardinality(Places(s, M)) /\ Count(s, M) \in Nat
  BY Appended, Counted
<1>2. Places(Append(s, e), M) =
          Places(s, M) \cup (IF e \in M THEN {n} ELSE {})
  BY Appended DEF Places
<1>3. n \notin Places(s, M)
  BY LenProperties DEF Places
<1>4. e \in M => Cardinality(Places(s, M) \cup {n}) = Cardinality(Places(s, M)) + 1
  BY <1>3, Counted, FS_AddElement
<1>5. CASE e \in M
  BY <1>1, <1>2, <1>4, <1>5
<1>6. CASE e \notin M
  <2>1. Places(Append(s, e), M) = Places(s, M)
    BY <1>2, <1>6
  <2> QED BY <1>1, <1>6, <2>1
<1> QED BY <1>5, <1>6

LEMMA CountTail ==
  ASSUME NEW S, NEW s \in Seq(S), s # <<>>, NEW M
  PROVE  Count(s, M) = Count(Tail(s), M) + (IF Head(s) \in M THEN 1 ELSE 0)
<1> DEFINE A == Places(Tail(s), M)
           B == Places(s, M) \ {1}
           f == [i \in A |-> i + 1]
<1>1. Tail(s) \in Seq(S) /\ Len(Tail(s)) = Len(s) - 1 /\ Len(s) \in Nat \ {0}
  BY Tailed
<1>2. ASSUME NEW i \in A
      PROVE  f[i] \in B
  BY <1>1, Tailed DEF Places
<1>3. ASSUME NEW j \in B
      PROVE  \E i \in A : f[i] = j
  <2>1. j - 1 \in A
    BY <1>1, Tailed DEF Places
  <2>2. f[j - 1] = j
    BY <2>1, <1>1 DEF Places
  <2> QED BY <2>1, <2>2
<1>4. \A i, j \in A : f[i] = f[j] => i = j
  BY <1>1 DEF Places
<1>5. f \in [A -> B]
  BY <1>2
<1>6. ExistsBijection(A, B)
  <2>1. f \in Injection(A, B)
    BY <1>4, <1>5 DEF Injection, IsInjective
  <2>2. f \in Surjection(A, B)
    BY <1>3, <1>5 DEF Surjection
  <2> QED BY <2>1, <2>2 DEF ExistsBijection, Bijection
<1>7. IsFiniteSet(A) /\ Count(Tail(s), M) = Cardinality(A)
  BY <1>1, Counted
<1>8. Cardinality(B) = Cardinality(A)
  BY <1>6, <1>7, FS_Bijection
<1>9. /\ IsFiniteSet(Places(s, M)) /\ Count(s, M) = Cardinality(Places(s, M))
      /\ Count(s, M) \in Nat
  BY Counted
<1>10. Cardinality(B) = IF 1 \in Places(s, M) THEN Cardinality(Places(s, M)) - 1
                                              ELSE Cardinality(Places(s, M))
  BY <1>9, FS_RemoveElement
<1>11. 1 \in Places(s, M) <=> Head(s) \in M
  BY Tailed DEF Places
<1> QED BY <1>7, <1>8, <1>9, <1>10, <1>11

LEMMA CountPrefix ==
  ASSUME NEW S, NEW s \in Seq(S), NEW t \in Prefixes(s), NEW M
  PROVE  Count(t, M) <= Count(s, M)
<1>1. t \in Seq(S)
  BY Prefixed
<1>2. Places(t, M) \in SUBSET Places(s, M)
  BY Prefixed DEF Places
<1> QED BY <1>1, <1>2, Counted, FS_Subset

-----------------------------------------------------------------------------
(***************************************************************************)
(* The types, by the part of the system, and what a step leaves alone.     *)
(***************************************************************************)
WebTyped ==
    /\ posts \in 0 .. MaxPosts /\ name \in [Posted -> 0 .. MaxRuns]
    /\ web \in [Posted -> Receipt]
    /\ call \in [Posted -> {"none", "routing", "checked", "registered", "sent"}]
HostTyped ==
    /\ receipt \in [Posted -> Outcome \cup {"none"}]
    /\ order \in Seq(Posted) /\ Len(order) <= StoreLimit
    /\ awaiting \subseteq Posted
    /\ gen \in 0 .. MaxRuns /\ link \in {"open", "broken", "none"}
    /\ ending \in BOOLEAN /\ stranded \subseteq Posted /\ unheard \subseteq Posted
    /\ faults \in 0 .. MaxFaults
WiresTyped ==
    /\ toWorker \in Seq(Posted \X Run)
    /\ toHost \in Seq(Posted \X Outcome)
LogTyped ==
    /\ log \in [Request -> Outcome \cup {"none"}]
    /\ logOrder \in Seq(Request) /\ Len(logOrder) <= LogLimit
    /\ ToSet(logOrder) = {r \in Request : log[r] # "none"}
RuntimeTyped ==
    /\ last \in 0 .. MaxRuns /\ run \in {0, last} /\ closed \in BOOLEAN
    /\ replaying \in {None} \cup (Posted \X Outcome)
    /\ controls \in Seq(Control) /\ sentDirect \subseteq Direct
DecisionTyped ==
    /\ deciding \in BOOLEAN /\ asked \in 0 .. MaxDecisions
    /\ route \in {"parent", "human"} /\ routed \in BOOLEAN
    /\ reply \in Reply \cup ParentReply \cup {None}
    /\ answer \in [Decision -> Reply \cup ParentReply \cup {None}]
    /\ accepted \in [Decision -> SUBSET (Reply \cup ParentReply)]
    /\ notified \in BOOLEAN /\ late \subseteq ParentReply
RanTyped == ran \in [Posted -> [Run -> Nat]] /\ forgotten \subseteq Request \X Run
HistoryTyped ==
    /\ slipped \subseteq Posted /\ overtaken \subseteq Posted
    /\ assured \subseteq Posted

Typed == /\ WebTyped /\ HostTyped /\ WiresTyped /\ LogTyped /\ RuntimeTyped
         /\ DecisionTyped /\ RanTyped /\ HistoryTyped
Ordered == /\ Serving /\ Queued /\ Ran1 /\ Addressed /\ Truthful
           /\ Replays /\ Awaits /\ Bounded /\ Ahead /\ Shown /\ Decides

IInv == Typed /\ Ordered

LEMMA TypesCover == Typed <=> TypeOK
  BY DEF TypeOK, Typed, WebTyped, HostTyped, WiresTyped, LogTyped, RuntimeTyped,
         DecisionTyped, RanTyped, HistoryTyped

LEMMA Constants ==
  /\ StoreLimit \in Nat \ {0} /\ PendingLimit \in Nat \ {0} /\ LogLimit \in Nat \ {0}
  /\ MaxRuns \in Nat \ {0} /\ MaxPosts \in Nat /\ MaxFaults \in Nat
  /\ MaxDecisions \in Nat /\ MaxDirect \in Nat
  /\ Run = 1 .. MaxRuns /\ 1 \in Run
  /\ None \notin Request /\ Named \subseteq Posted
  /\ Posted \subseteq Request /\ Direct \subseteq Request
  /\ Reply \subseteq Posted /\ Control \subseteq Posted
  /\ ParentReply \subseteq Direct /\ Yield \subseteq Direct
  /\ \A r \in Direct : r \notin Posted
  /\ \A r \in Control : r \notin Reply
  /\ \A r \in Yield : r \notin ParentReply
  /\ \A r \in Reply \cup Direct : About[r] \in Decision
  BY RequestAssumption DEF Run, Request, Posted, Direct, Decision

\* Each part of the types stands while the part of the system does.
LEMMA TypeFrames ==
  ASSUME Typed
  PROVE  /\ UNCHANGED webVars => WebTyped'
         /\ UNCHANGED hostVars => HostTyped'
         /\ UNCHANGED <<receipt, order, awaiting, gen, link, endVars>> /\ faults' \in 0 .. MaxFaults
               => HostTyped'
         /\ UNCHANGED wires => WiresTyped'
         /\ UNCHANGED <<log, logOrder>> => LogTyped'
         /\ UNCHANGED <<run, last, closed, replaying, controls, sentDirect>>
               => RuntimeTyped'
         /\ UNCHANGED decisionVars => DecisionTyped'
         /\ UNCHANGED <<ran, forgotten>> => RanTyped'
         /\ UNCHANGED <<slipped, overtaken, assured>> => HistoryTyped'
<1> USE DEF Typed
<1>1. /\ UNCHANGED webVars => WebTyped'
      /\ UNCHANGED hostVars => HostTyped'
      /\ UNCHANGED <<receipt, order, awaiting, gen, link, endVars>> /\ faults' \in 0 .. MaxFaults
            => HostTyped'
      /\ UNCHANGED wires => WiresTyped'
  BY DEF WebTyped, HostTyped, WiresTyped, webVars, hostVars, wires
<1>2. /\ UNCHANGED <<log, logOrder>> => LogTyped'
      /\ UNCHANGED <<run, last, closed, replaying, controls, sentDirect>>
            => RuntimeTyped'
  BY DEF LogTyped, RuntimeTyped
<1>3. UNCHANGED decisionVars => DecisionTyped'
  BY DEF DecisionTyped, decisionVars
<1>4. /\ UNCHANGED <<ran, forgotten>> => RanTyped'
      /\ UNCHANGED <<slipped, overtaken, assured>> => HistoryTyped'
  BY DEF RanTyped, HistoryTyped
<1> QED BY <1>1, <1>2, <1>3, <1>4

\* What each part of the invariant is about.
LEMMA Frames ==
  ASSUME Ordered
  PROVE  /\ UNCHANGED <<run, last, log, logOrder, controls, deciding, link, ending, gen, toHost>>
               => Serving'
         /\ UNCHANGED <<controls, log, ran, run, forgotten, name, slipped>> => Queued'
         /\ UNCHANGED <<ran, forgotten, last, run, log>> => Ran1'
         /\ UNCHANGED <<toWorker, name, slipped, ran>> => Addressed'
         /\ UNCHANGED <<web, receipt, log, toHost, replaying, assured, ran>> => Truthful'
         /\ UNCHANGED <<replaying, log>> => Replays'
         /\ UNCHANGED <<awaiting, order, receipt, call, web, link, ending, stranded>> => Awaits'
         /\ UNCHANGED <<toWorker, toHost, log, replaying, awaiting, call, link, ending,
                        overtaken, slipped>> => Bounded' /\ Ahead'
         /\ UNCHANGED <<receipt, awaiting, overtaken, slipped>> => Shown'
         /\ UNCHANGED decisionVars => Decides'
<1> USE DEF Ordered
<1>1. UNCHANGED <<run, last, log, logOrder, controls, deciding, link, ending, gen, toHost>>
          => Serving'
  BY DEF Serving
<1>2. UNCHANGED <<controls, log, ran, run, forgotten, name, slipped>> => Queued'
  BY DEF Queued
<1>3. UNCHANGED <<ran, forgotten, last, run, log>> => Ran1'
  BY DEF Ran1
<1>4. UNCHANGED <<toWorker, name, slipped, ran>> => Addressed'
  BY DEF Addressed
<1>5. UNCHANGED <<web, receipt, log, toHost, replaying, assured, ran>> => Truthful'
  BY DEF Truthful, Happened
<1>6. UNCHANGED <<replaying, log>> => Replays'
  BY DEF Replays
<1>7. UNCHANGED <<awaiting, order, receipt, call, web, link, ending, stranded>> => Awaits'
  BY DEF Awaits
<1>8. UNCHANGED <<toWorker, toHost, log, replaying, awaiting, call, link, ending, overtaken,
                  slipped>> => Bounded'
  BY DEF Bounded, ToCome, InLog, InReplay, Exempt, Owed, Count
<1>9. UNCHANGED <<toHost, log, replaying, awaiting, call, link, ending, overtaken, slipped>>
          => Ahead'
  BY DEF Ahead, Exempt, Owed
<1>10. UNCHANGED <<receipt, awaiting, overtaken, slipped>> => Shown'
  BY DEF Shown, Exempt
<1>11. UNCHANGED decisionVars => Decides'
  BY DEF Decides, decisionVars
<1> QED BY <1>1, <1>2, <1>3, <1>4, <1>5, <1>6, <1>7, <1>8, <1>9, <1>10, <1>11

-----------------------------------------------------------------------------
(***************************************************************************)
(* The browser, the master and the host's handlers.                        *)
(***************************************************************************)
\* Ahead after a step, with what the wires and the log are then.
ExemptNext(r) == r \in overtaken' \cup slipped'
OwedNext(r) == r \in awaiting' /\ call'[r] # "registered"

HappenedNext(r) == \E g \in Run : ran'[r][g] > 0

LEMMA NextForms ==
  \A q : /\ Owed(q)' <=> OwedNext(q)
         /\ Exempt(q)' <=> ExemptNext(q)
         /\ Happened(q)' <=> HappenedNext(q)
  BY DEF Owed, OwedNext, Exempt, ExemptNext, Happened, HappenedNext

LEMMA TruthfulNext ==
  Truthful' <=>
    /\ \A r \in Posted :
          "accepted" \in {web'[r], receipt'[r], log'[r]} => HappenedNext(r)
    /\ \A i \in 1 .. Len(toHost') :
          toHost'[i][2] = "accepted" => HappenedNext(toHost'[i][1])
    /\ replaying' # None /\ replaying'[2] = "accepted" => HappenedNext(replaying'[1])
    /\ \A r \in assured' : HappenedNext(r)
  BY DEF Truthful, Happened, HappenedNext

LEMMA AheadNext ==
  Ahead' <=>
    /\ \A i \in 1 .. Len(toHost') :
          toHost'[i][2] = "pending" /\ ~ExemptNext(toHost'[i][1]) =>
              /\ OwedNext(toHost'[i][1])
              /\ \A j \in 1 .. i - 1 : toHost'[j] \notin {toHost'[i][1]} \X Final
    /\ Up' /\ replaying' # None /\ replaying'[2] = "pending"
          /\ ~ExemptNext(replaying'[1]) /\ log'[replaying'[1]] = "pending" =>
              /\ OwedNext(replaying'[1])
              /\ \A j \in 1 .. Len(toHost') : toHost'[j] \notin {replaying'[1]} \X Final
  BY DEF Ahead, Exempt, Owed, ExemptNext, OwedNext

\* Nothing more is to come while a request stays owed what it was.
LEMMA OwedFrame ==
  ASSUME Typed, Ordered,
         UNCHANGED <<toWorker, toHost, log, replaying>>,
         overtaken \subseteq overtaken', slipped \subseteq slipped',
         Up' => Up,
         \A q \in Posted : Owed(q) /\ ~Exempt(q)' => Owed(q)'
  PROVE  Bounded' /\ Ahead'
<1>1. \A q : Exempt(q) => Exempt(q)'
  BY DEF Exempt
<1>2. Bounded'
  <2>1. ASSUME Up', NEW q \in Posted, ~Exempt(q)'
        PROVE  ToCome(q)' <= (IF Owed(q)' THEN 2 ELSE 1)
    <3>1. ToCome(q)' = ToCome(q)
      BY DEF ToCome, InLog, InReplay, Count
    <3>2. ToCome(q) <= (IF Owed(q) THEN 2 ELSE 1)
      BY <1>1, <2>1 DEF Ordered, Bounded
    <3>3. ToCome(q) \in Int
      BY Counted DEF Typed, WiresTyped, ToCome, InLog, InReplay
    <3> QED BY <2>1, <3>1, <3>2, <3>3
  <2> QED BY <2>1 DEF Bounded
<1>3. Ahead'
  <2>1. ASSUME NEW i \in 1 .. Len(toHost), toHost[i][2] = "pending", ~Exempt(toHost[i][1])'
        PROVE  /\ Owed(toHost[i][1])'
               /\ \A j \in 1 .. i - 1 : toHost[j] \notin {toHost[i][1]} \X Final
    <3>1. toHost[i][1] \in Posted
      BY ElementOfSeq DEF Typed, WiresTyped
    <3> QED BY <1>1, <2>1, <3>1 DEF Ordered, Ahead
  <2>2. ASSUME Up', replaying # None, replaying[2] = "pending",
               ~Exempt(replaying[1])', log[replaying[1]] = "pending"
        PROVE  /\ Owed(replaying[1])'
               /\ \A j \in 1 .. Len(toHost) : toHost[j] \notin {replaying[1]} \X Final
    <3>1. replaying[1] \in Posted
      BY <2>2 DEF Typed, RuntimeTyped
    <3> QED BY <1>1, <2>2, <3>1 DEF Ordered, Ahead
  <2>3. Ahead' <=>
          /\ \A i \in 1 .. Len(toHost) :
                toHost[i][2] = "pending" /\ ~Exempt(toHost[i][1])' =>
                    /\ Owed(toHost[i][1])'
                    /\ \A j \in 1 .. i - 1 : toHost[j] \notin {toHost[i][1]} \X Final
          /\ Up' /\ replaying # None /\ replaying[2] = "pending"
                /\ ~Exempt(replaying[1])' /\ log[replaying[1]] = "pending" =>
                    /\ Owed(replaying[1])'
                    /\ \A j \in 1 .. Len(toHost) :
                          toHost[j] \notin {replaying[1]} \X Final
    BY DEF Ahead, Exempt, Owed
  <2> QED BY <2>1, <2>2, <2>3
<1> QED BY <1>2, <1>3

LEMMA RepeatKeeps ==
  ASSUME IInv, NEW r \in Posted, Repeat(r)
  PROVE  IInv'
<1>i. Typed /\ Ordered
  BY DEF IInv
<1>u. UNCHANGED <<name, call, hostVars, wires, workerVars, decisionVars, ran, forgotten,
                  slipped, overtaken>>
  BY DEF Repeat
<1>v. /\ UNCHANGED <<receipt, order, awaiting, gen, link, endVars>>
      /\ UNCHANGED <<run, last, closed, log, logOrder, replaying, controls, sentDirect>>
      /\ UNCHANGED <<toWorker, toHost, deciding>>
  BY <1>u DEF hostVars, wires, workerVars, decisionVars
<1>1. /\ posts < MaxPosts /\ posts' = posts + 1
      /\ web' = [web EXCEPT ![r] = RefreshReceipt(r)]
      /\ assured' = IF RefreshReceipt(r) = "accepted" THEN assured \cup {r} ELSE assured
  BY DEF Repeat, Tell
<1>2. /\ RefreshReceipt(r) \in Receipt
      /\ RefreshReceipt(r) = "accepted" => Happened(r)
      /\ RefreshReceipt(r) \in {web[r], receipt[r], "unknown"}
  <2>1. CASE call[r] # "none" \/ web[r] # "pending"
    <3>1. RefreshReceipt(r) = web[r]
      BY <2>1 DEF RefreshReceipt
    <3> QED BY <1>i, <3>1 DEF Typed, WebTyped, Ordered, Truthful
  <2>2. CASE ~(call[r] # "none" \/ web[r] # "pending")
    <3>1. RefreshReceipt(r) = IF r \in ToSet(order) THEN receipt[r] ELSE "unknown"
      BY <2>2 DEF RefreshReceipt
    <3> QED BY <1>i, <3>1 DEF Typed, HostTyped, Ordered, Truthful, Receipt, Outcome
  <2> QED BY <2>1, <2>2
<1>3. Typed'
  <2>1. WebTyped'
    BY <1>i, <1>u, <1>1, <1>2, Constants DEF Typed, WebTyped
  <2>2. HistoryTyped'
    BY <1>i, <1>u, <1>1 DEF Typed, HistoryTyped
  <2> QED BY <1>i, <1>u, <1>v, <2>1, <2>2, TypeFrames DEF Typed
<1>4. Truthful'
  BY <1>i, <1>u, <1>v, <1>1, <1>2 DEF Typed, WebTyped, Ordered, Truthful, Happened
<1>5. Awaits'
  <2>1. r \in awaiting /\ call[r] = "none" => RefreshReceipt(r) = "pending"
    BY <1>i DEF Ordered, Awaits, RefreshReceipt
  <2>2. \A q \in Posted : web'[q] = IF q = r THEN RefreshReceipt(r) ELSE web[q]
    BY <1>i, <1>1 DEF Typed, WebTyped
  <2>3. web[r] # "none"
    BY DEF Repeat
  <2>4. RefreshReceipt(r) = "none" => call[r] = "none"
    BY <1>i, <2>3 DEF RefreshReceipt
  <2> QED BY <1>i, <1>u, <1>v, <2>1, <2>2, <2>4 DEF Typed, HostTyped, Ordered, Awaits
<1> QED BY <1>i, <1>u, <1>v, <1>3, <1>4, <1>5, Frames DEF IInv, Ordered

LEMMA ReserveKeeps ==
  ASSUME IInv, NEW r \in Posted, Reserve(r)
  PROVE  IInv'
<1>i. Typed /\ Ordered
  BY DEF IInv
<1>u. UNCHANGED <<hostVars, wires, workerVars, decisionVars, history>>
  BY DEF Reserve
<1>v. /\ UNCHANGED <<receipt, order, awaiting, gen, link, endVars>>
      /\ UNCHANGED <<run, last, closed, log, logOrder, replaying, controls, sentDirect>>
      /\ UNCHANGED <<toWorker, toHost, deciding>>
      /\ UNCHANGED <<ran, forgotten, slipped, overtaken, assured>>
  BY <1>u DEF hostVars, wires, workerVars, decisionVars, history
<1>1. /\ posts < MaxPosts /\ posts' = posts + 1 /\ web[r] = "none"
      /\ web' = [web EXCEPT ![r] = "pending"]
      /\ call' = [call EXCEPT ![r] = "routing"]
  BY DEF Reserve
<1>2. \/ name' = name
      \/ name[r] = 0 /\ \E g \in 1 .. last : name' = [name EXCEPT ![r] = g]
  BY DEF Reserve
<1>3. \A q \in Posted : name'[q] = name[q] \/ name[q] = 0
  BY <1>i, <1>2 DEF Typed, WebTyped
<1>4. call[r] = "none" /\ r \notin awaiting
  BY <1>i, <1>1 DEF Ordered, Awaits
<1>5. Typed'
  <2>1. name' \in [Posted -> 0 .. MaxRuns]
    <3>1. CASE name' = name
      BY <1>i, <3>1 DEF Typed, WebTyped
    <3>2. CASE name' # name
      <4>1. PICK g \in 1 .. last : name' = [name EXCEPT ![r] = g]
        BY <1>2, <3>2
      <4>2. g \in 0 .. MaxRuns
        BY <1>i, Constants DEF Typed, RuntimeTyped
      <4> QED BY <1>i, <4>1, <4>2 DEF Typed, WebTyped
    <3> QED BY <3>1, <3>2
  <2>2. posts' \in 0 .. MaxPosts
    BY <1>i, <1>1, Constants DEF Typed, WebTyped
  <2>3. web' \in [Posted -> Receipt] /\ "pending" \in Receipt
    BY <1>i, <1>1 DEF Typed, WebTyped, Receipt, Outcome
  <2>4. WebTyped'
    BY <1>i, <1>1, <2>1, <2>2, <2>3 DEF Typed, WebTyped
  <2> QED BY <1>i, <1>u, <1>v, <2>4, TypeFrames DEF Typed
<1>6. /\ \A q \in Posted : web'[q] = IF q = r THEN "pending" ELSE web[q]
      /\ \A q \in Posted : call'[q] = IF q = r THEN "routing" ELSE call[q]
  BY <1>i, <1>1 DEF Typed, WebTyped
<1>7. Queued'
  <2>1. ASSUME NEW i \in 1 .. Len(controls), controls[i] \in Named
        PROVE  name'[controls[i]] = run \/ controls[i] \in slipped
    <3>1. controls # <<>> /\ controls[i] \in Posted
      BY <1>i, LenProperties, EmptySeq, Constants DEF Typed, RuntimeTyped
    <3>2. run # 0
      BY <1>i, <3>1 DEF Ordered, Serving
    <3> QED BY <1>i, <1>3, <2>1, <3>1, <3>2 DEF Ordered, Queued
  <2> QED BY <1>i, <1>v, <2>1 DEF Ordered, Queued
<1>8. Addressed'
  <2>1. ASSUME NEW i \in 1 .. Len(toWorker), toWorker[i][1] \in Named
        PROVE  toWorker[i][2] = name'[toWorker[i][1]] \/ toWorker[i][1] \in slipped
    <3>1. toWorker[i][1] \in Posted /\ toWorker[i][2] # 0
      BY <1>i, ElementOfSeq, Constants DEF Typed, WiresTyped
    <3> QED BY <1>i, <1>3, <2>1, <3>1 DEF Ordered, Addressed
  <2>2. ASSUME NEW q \in Named, NEW g \in Run, ran[q][g] > 0
        PROVE  g = name'[q] \/ q \in slipped
    BY <1>i, <1>3, <2>2, Constants DEF Ordered, Addressed
  <2> QED BY <1>v, <2>1, <2>2 DEF Addressed
<1>9. Truthful'
  BY <1>i, <1>v, <1>6 DEF Ordered, Truthful, Happened
<1>10. Awaits'
  BY <1>i, <1>v, <1>4, <1>6 DEF Ordered, Awaits, Typed, HostTyped
<1>11. Bounded' /\ Ahead'
  <2>1. \A q \in Posted : Owed(q) => Owed(q)'
    BY <1>i, <1>v, <1>4, <1>6 DEF Owed
  <2> QED BY <1>i, <1>v, <2>1, OwedFrame
<1> QED BY <1>i, <1>u, <1>v, <1>5, <1>7, <1>8, <1>9, <1>10, <1>11, Frames
        DEF IInv, Ordered

LEMMA DisplaceKeeps ==
  ASSUME IInv, NEW r \in Posted, Displace(r)
  PROVE  IInv'
<1>i. Typed /\ Ordered
  BY DEF IInv
<1>u. UNCHANGED <<posts, name, call, hostVars, wires, workerVars, decisionVars, history>>
  BY DEF Displace
<1>v. /\ UNCHANGED <<receipt, order, awaiting, gen, link, endVars>>
      /\ UNCHANGED <<run, last, closed, log, logOrder, replaying, controls, sentDirect>>
      /\ UNCHANGED <<toWorker, toHost, deciding>>
      /\ UNCHANGED <<ran, forgotten, slipped, overtaken, assured>>
  BY <1>u DEF hostVars, wires, workerVars, decisionVars, history
<1>1. /\ web[r] \notin {"none", "pending"} /\ call[r] = "none"
      /\ web' = [web EXCEPT ![r] = "none"]
  BY DEF Displace
<1>2. WebTyped'
  BY <1>i, <1>u, <1>1 DEF Typed, WebTyped, Receipt
<1>3. \A q \in Posted : web'[q] = IF q = r THEN "none" ELSE web[q]
  BY <1>i, <1>1 DEF Typed, WebTyped
<1>4. Truthful'
  BY <1>i, <1>v, <1>3 DEF Ordered, Truthful, Happened
<1>5. Awaits'
  <2>1. r \notin awaiting
    BY <1>i, <1>1 DEF Ordered, Awaits
  <2> QED BY <1>i, <1>u, <1>v, <1>1, <1>3, <2>1 DEF Ordered, Awaits, Typed, HostTyped
<1> QED BY <1>i, <1>u, <1>v, <1>2, <1>4, <1>5, TypeFrames, Frames DEF IInv, Ordered, Typed

\* A handler's answer: right if it says "accepted".
LEMMA Finished ==
  ASSUME Typed, Truthful, NEW r \in Posted, NEW told \in Receipt, Finish(r, told),
         told = "accepted" => Happened(r),
         UNCHANGED <<ran, slipped, overtaken>>
  PROVE  /\ WebTyped' /\ HistoryTyped'
         /\ \A q \in Posted : web'[q] = IF q = r THEN told ELSE web[q]
         /\ \A q \in Posted : call'[q] = IF q = r THEN "none" ELSE call[q]
         /\ \A q \in Posted : web'[q] = "accepted" => Happened(q)'
         /\ \A q \in assured' : Happened(q)'
<1>1. /\ web' = [web EXCEPT ![r] = told] /\ call' = [call EXCEPT ![r] = "none"]
      /\ assured' = IF told = "accepted" THEN assured \cup {r} ELSE assured
      /\ UNCHANGED <<posts, name>>
  BY DEF Finish, Tell
<1>2. /\ \A q \in Posted : web'[q] = IF q = r THEN told ELSE web[q]
      /\ \A q \in Posted : call'[q] = IF q = r THEN "none" ELSE call[q]
  BY <1>1 DEF Typed, WebTyped
<1>3. WebTyped' /\ HistoryTyped'
  BY <1>1 DEF Typed, WebTyped, HistoryTyped
<1>4. \A q : Happened(q)' <=> Happened(q)
  BY DEF Happened
<1> QED BY <1>1, <1>2, <1>3, <1>4 DEF Truthful

LEMMA ExecuteKeeps ==
  ASSUME IInv, NEW r \in Posted, ExecuteCommand(r)
  PROVE  IInv'
<1>i. Typed /\ Ordered
  BY DEF IInv
<1>u. UNCHANGED <<hostVars, wires, workerVars, decisionVars, ran, forgotten, slipped,
                  overtaken>>
  BY DEF ExecuteCommand
<1>v. /\ UNCHANGED <<receipt, order, awaiting, gen, link, endVars>>
      /\ UNCHANGED <<run, last, closed, log, logOrder, replaying, controls, sentDirect>>
      /\ UNCHANGED <<toWorker, toHost, deciding, name>>
  BY <1>u DEF hostVars, wires, workerVars, decisionVars, ExecuteCommand, Finish
<1>1. call[r] = "routing" /\ r \notin awaiting
  BY <1>i DEF ExecuteCommand, Ordered, Awaits
<1>2. CASE call' = [call EXCEPT ![r] = "checked"] /\ UNCHANGED <<posts, name, web, assured>>
  <2>1. WebTyped' /\ HistoryTyped'
    BY <1>i, <1>u, <1>2 DEF Typed, WebTyped, HistoryTyped
  <2>2. \A q \in Posted : call'[q] = IF q = r THEN "checked" ELSE call[q]
    BY <1>i, <1>2 DEF Typed, WebTyped
  <2>3. Awaits'
    BY <1>i, <1>v, <1>1, <1>2, <2>2 DEF Ordered, Awaits, Typed, HostTyped
  <2>4. Bounded' /\ Ahead'
    <3>1. \A q \in Posted : Owed(q) => Owed(q)'
      BY <1>v, <1>1, <2>2 DEF Owed
    <3> QED BY <1>i, <1>u, <1>v, <3>1, OwedFrame
  <2> QED BY <1>i, <1>u, <1>v, <1>2, <2>1, <2>3, <2>4, TypeFrames, Frames
          DEF IInv, Ordered, Typed
<1>3. CASE Finish(r, "refused")
  <2>1. "refused" \in Receipt
    BY DEF Receipt, Outcome
  <2>2. /\ WebTyped' /\ HistoryTyped'
        /\ \A q \in Posted : web'[q] = IF q = r THEN "refused" ELSE web[q]
        /\ \A q \in Posted : call'[q] = IF q = r THEN "none" ELSE call[q]
        /\ \A q \in Posted : web'[q] = "accepted" => Happened(q)'
        /\ \A q \in assured' : Happened(q)'
    BY <1>i, <1>u, <1>3, <2>1, Finished DEF Ordered
  <2>3. Truthful'
    BY <1>i, <1>u, <1>v, <2>2 DEF Ordered, Truthful, Happened
  <2>4. Awaits'
    BY <1>i, <1>v, <1>1, <2>2 DEF Ordered, Awaits, Typed, HostTyped
  <2>5. Bounded' /\ Ahead'
    <3>1. \A q \in Posted : Owed(q) => Owed(q)'
      BY <1>v, <1>1, <2>2 DEF Owed
    <3> QED BY <1>i, <1>u, <1>v, <3>1, OwedFrame
  <2> QED BY <1>i, <1>u, <1>v, <2>2, <2>3, <2>4, <2>5, TypeFrames, Frames
          DEF IInv, Ordered, Typed
<1> QED BY <1>2, <1>3 DEF ExecuteCommand

LEMMA ReturnKeeps ==
  ASSUME IInv, NEW r \in Posted, Return(r)
  PROVE  IInv'
<1>i. Typed /\ Ordered
  BY DEF IInv
<1>u. UNCHANGED <<hostVars, wires, workerVars, decisionVars, ran, forgotten, slipped,
                  overtaken>>
  BY DEF Return
<1>v. /\ UNCHANGED <<receipt, order, awaiting, gen, link, endVars>>
      /\ UNCHANGED <<run, last, closed, log, logOrder, replaying, controls, sentDirect>>
      /\ UNCHANGED <<toWorker, toHost, deciding, name>>
  BY <1>u DEF hostVars, wires, workerVars, decisionVars, Return, Finish
<1>1. /\ call[r] = "sent" /\ Finish(r, receipt[r])
      /\ receipt[r] \in Receipt /\ (receipt[r] = "accepted" => Happened(r))
  BY <1>i DEF Return, Typed, HostTyped, Receipt, Ordered, Truthful
<1>2. /\ WebTyped' /\ HistoryTyped'
      /\ \A q \in Posted : web'[q] = IF q = r THEN receipt[r] ELSE web[q]
      /\ \A q \in Posted : call'[q] = IF q = r THEN "none" ELSE call[q]
      /\ \A q \in Posted : web'[q] = "accepted" => Happened(q)'
      /\ \A q \in assured' : Happened(q)'
  BY <1>i, <1>u, <1>1, Finished DEF Ordered
<1>3. Truthful'
  BY <1>i, <1>u, <1>v, <1>2 DEF Ordered, Truthful, Happened
<1>4. Awaits'
  BY <1>i, <1>v, <1>1, <1>2 DEF Ordered, Awaits, Typed, HostTyped
<1>5. Bounded' /\ Ahead'
  <2>1. \A q \in Posted : Owed(q) => Owed(q)'
    BY <1>v, <1>1, <1>2 DEF Owed
  <2> QED BY <1>i, <1>u, <1>v, <2>1, OwedFrame
<1> QED BY <1>i, <1>u, <1>v, <1>2, <1>3, <1>4, <1>5, TypeFrames, Frames
        DEF IInv, Ordered, Typed

\* What is to come, after a step.
LEMMA ToComeNext ==
  ASSUME NEW q
  PROVE  ToCome(q)' = Count(toWorker', {q} \X Run) + Count(toHost', {q} \X Final)
            + (IF log'[q] = "pending" THEN 1 ELSE 0)
            + (IF replaying' # None /\ replaying'[1] = q /\ replaying'[2] \in Final
                 THEN 1 ELSE 0)
  BY DEF ToCome, InLog, InReplay, Count

\* Parts of a sum of which the first grows by at most x, or gives x away.
LEMMA SumGrows ==
  ASSUME NEW a \in Nat, NEW b \in Nat, NEW c \in Nat, NEW d \in Nat,
         NEW n \in Nat, NEW x \in Nat, n <= a + x
  PROVE  /\ n + b + c + d <= a + b + c + d + x
         /\ a + b + c + d \in Nat /\ n + b + c + d \in Nat
  OBVIOUS

LEMMA SumMoves ==
  ASSUME NEW a \in Nat, NEW b \in Nat, NEW c \in Nat, NEW d \in Nat,
         NEW n \in Nat, NEW x \in Nat, b = n + x
  PROVE  /\ a + b + c + d = a + n + c + d + x
         /\ a + n + c + d \in Nat
  OBVIOUS

LEMMA RegisterKeeps ==
  ASSUME IInv, NEW r \in Posted, call[r] = "checked",
         NEW held \in Seq(Posted), Len(held) <= StoreLimit, r \in ToSet(held),
         \A q \in Posted : q \in ToSet(order) /\ receipt[q] = "pending" => q \in ToSet(held),
         Register(r, held),
         UNCHANGED <<wires, workerVars, decisionVars, ran, forgotten, slipped, overtaken>>
  PROVE  IInv'
<1>i. Typed /\ Ordered
  BY DEF IInv
<1>v. /\ UNCHANGED <<gen, link, faults, ending>>
      /\ stranded' = stranded \ {r} /\ unheard' = unheard \ {r}
      /\ UNCHANGED <<run, last, closed, log, logOrder, replaying, controls, sentDirect>>
      /\ UNCHANGED <<toWorker, toHost, deciding, name, web, posts, assured>>
  BY DEF hostVars, wires, workerVars, decisionVars, Register
<1>1. /\ order' = held /\ awaiting' = awaiting \cup {r}
      /\ call' = [call EXCEPT ![r] = "registered"]
      /\ receipt' = [q \in Posted |->
                       IF q = r THEN "pending"
                       ELSE IF q \in ToSet(held) \/ call[q] # "none" THEN receipt[q]
                       ELSE "none"]
  BY DEF Register
<1>2. \A q \in Posted : call'[q] = IF q = r THEN "registered" ELSE call[q]
  BY <1>i, <1>1 DEF Typed, WebTyped
<1>3. \A q \in Posted : \/ q = r /\ receipt'[q] = "pending"
                        \/ q # r /\ receipt'[q] = receipt[q]
                        \/ q # r /\ receipt'[q] = "none" /\ q \notin ToSet(held)
  BY <1>1
<1>4. r \notin awaiting
  BY <1>i DEF Ordered, Awaits
<1>5. WebTyped'
  BY <1>i, <1>v, <1>1 DEF Typed, WebTyped
<1>6. HostTyped'
  <2>1. receipt' \in [Posted -> Outcome \cup {"none"}]
    BY <1>i, <1>1 DEF Typed, HostTyped, Outcome
  <2> QED BY <1>i, <1>v, <1>1, <2>1 DEF Typed, HostTyped
<1>7. Truthful'
  BY <1>i, <1>v, <1>3 DEF Ordered, Truthful, Happened
<1>8. Awaits'
  <2>1. ASSUME NEW q \in awaiting
        PROVE  q \in ToSet(held) /\ q # r /\ receipt'[q] = "pending"
    BY <1>i, <1>3, <1>4 DEF Ordered, Awaits, Typed, HostTyped
  <2>2. \A q \in awaiting' : q \in ToSet(order') /\ receipt'[q] = "pending"
    BY <1>1, <1>3, <2>1
  <2>3. web[r] # "none"
    BY <1>i DEF Ordered, Awaits
  <2> QED BY <1>i, <1>v, <1>1, <1>2, <2>2, <2>3 DEF Ordered, Awaits, Typed, HostTyped
<1>9. Bounded' /\ Ahead'
  <2>1. \A q \in Posted : Owed(q) => Owed(q)'
    BY <1>1, <1>2, <1>4 DEF Owed
  <2> QED BY <1>i, <1>v, <2>1, OwedFrame
<1>10. Shown'
  BY <1>i, <1>1, <1>3 DEF Ordered, Shown, Exempt
<1>11. WiresTyped' /\ LogTyped' /\ RuntimeTyped' /\ DecisionTyped' /\ RanTyped'
       /\ HistoryTyped'
  BY <1>i, <1>v, TypeFrames DEF Typed
<1> QED BY <1>i, <1>v, <1>5, <1>6, <1>7, <1>8, <1>9, <1>10, <1>11, Frames
        DEF IInv, Ordered, Typed

LEMMA SendCommandKeeps ==
  ASSUME IInv, NEW r \in Posted, SendCommand(r)
  PROVE  IInv'
<1>i. Typed /\ Ordered
  BY DEF IInv
<1> DEFINE done == {q \in Posted : receipt[q] # "pending"}
<1>u. /\ call[r] = "checked"
      /\ UNCHANGED <<wires, workerVars, decisionVars, ran, forgotten, slipped, overtaken>>
  BY DEF SendCommand
<1>1. CASE r \in ToSet(order) /\ Register(r, order)
  BY <1>i, <1>u, <1>1, RegisterKeeps DEF Typed, HostTyped
<1>2. CASE \E h \in Room(order, StoreLimit, done) : Register(r, Append(h, r))
  <2>1. PICK h \in Room(order, StoreLimit, done) : Register(r, Append(h, r))
    BY <1>2
  <2>2. /\ order \in Seq(Posted) /\ Len(order) <= StoreLimit
        /\ StoreLimit \in Nat \ {0}
    BY <1>i, Constants DEF Typed, HostTyped
  <2>3. /\ h \in Seq(Posted) /\ Len(h) < StoreLimit
        /\ ToSet(order) \ done \subseteq ToSet(h)
    BY <2>2, Roomy
  <2>4. /\ Append(h, r) \in Seq(Posted) /\ Len(Append(h, r)) <= StoreLimit
        /\ ToSet(Append(h, r)) = ToSet(h) \cup {r}
    BY <2>2, <2>3, Appended, AppendedSet
  <2>5. \A q \in Posted :
            q \in ToSet(order) /\ receipt[q] = "pending" => q \in ToSet(Append(h, r))
    BY <2>3, <2>4
  <2> QED BY <1>u, <2>1, <2>4, <2>5, RegisterKeeps
<1>3. CASE Finish(r, "refused") /\ UNCHANGED hostVars
  <2>v. /\ UNCHANGED <<receipt, order, awaiting, gen, link, endVars>>
        /\ UNCHANGED <<run, last, closed, log, logOrder, replaying, controls, sentDirect>>
        /\ UNCHANGED <<toWorker, toHost, deciding, name>>
    BY <1>u, <1>3 DEF hostVars, wires, workerVars, decisionVars, Finish
  <2>1. "refused" \in Receipt /\ r \notin awaiting
    BY <1>i, <1>u DEF Receipt, Outcome, Ordered, Awaits
  <2>2. /\ WebTyped' /\ HistoryTyped'
        /\ \A q \in Posted : web'[q] = IF q = r THEN "refused" ELSE web[q]
        /\ \A q \in Posted : call'[q] = IF q = r THEN "none" ELSE call[q]
        /\ \A q \in Posted : web'[q] = "accepted" => Happened(q)'
        /\ \A q \in assured' : Happened(q)'
    BY <1>i, <1>u, <1>3, <2>1, Finished DEF Ordered
  <2>3. Truthful'
    BY <1>i, <1>u, <2>v, <2>2 DEF Ordered, Truthful, Happened
  <2>4. Awaits'
    BY <1>i, <2>v, <2>1, <2>2 DEF Ordered, Awaits, Typed, HostTyped
  <2>5. Bounded' /\ Ahead'
    <3>1. \A q \in Posted : Owed(q) => Owed(q)'
      BY <2>v, <2>1, <2>2 DEF Owed
    <3> QED BY <1>i, <1>u, <2>v, <3>1, OwedFrame
  <2> QED BY <1>i, <1>u, <1>3, <2>v, <2>2, <2>3, <2>4, <2>5, TypeFrames, Frames
          DEF IInv, Ordered, Typed
<1> QED BY <1>1, <1>2, <1>3 DEF SendCommand

\* A frame is stamped with the runtime of the connection.
LEMMA SentKeeps ==
  ASSUME IInv, NEW r \in Posted, call[r] = "registered",
         link = "open" \/ (link = "broken" /\ ~ending),
         stranded' = IF ending THEN stranded \cup {r} ELSE stranded,
         toWorker' = IF link = "open" THEN Append(toWorker, <<r, gen>>) ELSE toWorker,
         slipped' = IF (r \in Named /\ name[r] # gen) \/ r \notin awaiting
                      THEN slipped \cup {r} ELSE slipped,
         call' = [call EXCEPT ![r] = "sent"],
         UNCHANGED <<posts, name, web, assured, receipt, order, awaiting, gen, link, faults,
                     ending, unheard, toHost, workerVars, decisionVars, ran, forgotten,
                     overtaken>>
  PROVE  IInv'
<1>i. Typed /\ Ordered
  BY DEF IInv
<1>v. /\ UNCHANGED <<receipt, order, awaiting, gen, link, faults, ending, unheard>>
      /\ UNCHANGED <<run, last, closed, log, logOrder, replaying, controls, sentDirect>>
      /\ UNCHANGED deciding
  BY DEF workerVars, decisionVars
<1>1. \A q \in Posted : call'[q] = IF q = r THEN "sent" ELSE call[q]
  BY <1>i DEF Typed, WebTyped
<1>2. <<r, gen>> \in Posted \X Run /\ toWorker \in Seq(Posted \X Run)
  BY <1>i DEF Ordered, Serving, Typed, WiresTyped
<1>3. /\ slipped \subseteq slipped'
      /\ r \notin slipped' => r \in awaiting /\ (r \in Named => name[r] = gen)
      /\ \A q : q # r /\ q \in slipped' => q \in slipped
  OBVIOUS
<1>4. WebTyped' /\ HistoryTyped'
  BY <1>i DEF Typed, WebTyped, HistoryTyped
<1>5. WiresTyped'
  <2>1. toWorker' \in Seq(Posted \X Run)
    BY <1>2, Appended
  <2> QED BY <1>i, <2>1 DEF Typed, WiresTyped
<1>6. Queued'
  BY <1>i, <1>v, <1>3 DEF Ordered, Queued
<1>7. Addressed'
  <2>1. ASSUME NEW i \in 1 .. Len(toWorker'), toWorker'[i][1] \in Named
        PROVE  toWorker'[i][2] = name[toWorker'[i][1]] \/ toWorker'[i][1] \in slipped'
    <3>1. CASE i \in 1 .. Len(toWorker) /\ toWorker'[i] = toWorker[i]
      BY <1>i, <1>3, <2>1, <3>1 DEF Ordered, Addressed
    <3>2. CASE toWorker'[i] = <<r, gen>>
      BY <1>3, <2>1, <3>2
    <3>3. CASE link = "open"
      <4>1. toWorker' = Append(toWorker, <<r, gen>>)
        BY <3>3
      <4>2. i \in 1 .. Len(toWorker) \/ i = Len(toWorker) + 1
        BY <1>2, <4>1, Appended
      <4>3. toWorker'[i] = IF i = Len(toWorker) + 1 THEN <<r, gen>> ELSE toWorker[i]
        BY <1>2, <4>1, <4>2, Appended
      <4> QED BY <3>1, <3>2, <4>2, <4>3
    <3> QED BY <3>1, <3>3
  <2>2. ASSUME NEW q \in Named, NEW g \in Run, ran[q][g] > 0
        PROVE  g = name[q] \/ q \in slipped'
    BY <1>i, <1>3, <2>2 DEF Ordered, Addressed
  <2> QED BY <2>1, <2>2 DEF Addressed
<1>8. Awaits'
  <2>1. web[r] # "none"
    BY <1>i DEF Ordered, Awaits
  <2> QED BY <1>i, <1>v, <1>1, <2>1 DEF Ordered, Awaits, Typed, HostTyped
<1>9. \A q \in Posted : Owed(q) \/ (q = r /\ r \notin slipped') => Owed(q)'
  BY <1>v, <1>1, <1>3 DEF Owed
<1>10. Bounded'
  <2>1. ASSUME Up, NEW q \in Posted, ~Exempt(q)'
        PROVE  ToCome(q)' <= (IF Owed(q)' THEN 2 ELSE 1)
    <3>1. ~Exempt(q) /\ q \notin slipped'
      BY <1>3, <2>1 DEF Exempt
    <3>2. ToCome(q) <= (IF Owed(q) THEN 2 ELSE 1)
      BY <1>i, <2>1, <3>1 DEF Ordered, Bounded
    <3>3. Count(toWorker', {q} \X Run) <=
              Count(toWorker, {q} \X Run) + (IF q = r THEN 1 ELSE 0)
      <4>1. Count(toWorker, {q} \X Run) \in Nat
        BY <1>2, Counted
      <4>2. <<r, gen>> \in {q} \X Run => q = r
        OBVIOUS
      <4>3. \A w \in Seq(Posted \X Run), e \in Posted \X Run, M \in {{q} \X Run} :
                Count(Append(w, e), M) = Count(w, M) + (IF e \in M THEN 1 ELSE 0)
        BY CountAppend
      <4>4. CASE link = "open"
        <5>1. toWorker' = Append(toWorker, <<r, gen>>)
          BY <4>4
        <5>2. Count(toWorker', {q} \X Run) =
                Count(toWorker, {q} \X Run) + (IF <<r, gen>> \in {q} \X Run THEN 1 ELSE 0)
          <6>1. PICK e \in Posted \X Run : e = <<r, gen>>
            BY <1>2
          <6>2. PICK M : M = {q} \X Run
            OBVIOUS
          <6>3. Count(Append(toWorker, e), M) = Count(toWorker, M) + (IF e \in M THEN 1 ELSE 0)
            BY <1>2, <4>3, <6>2
          <6>4. Append(toWorker, <<r, gen>>) = Append(toWorker, e)
            BY <6>1
          <6>5. Count(toWorker', M) = Count(Append(toWorker, e), M)
            BY <5>1, <6>4
          <6> QED BY <6>1, <6>2, <6>3, <6>5
        <5> QED BY <4>1, <4>2, <5>2
      <4>5. CASE link # "open"
        <5>1. toWorker' = toWorker
          BY <4>5
        <5> QED BY <4>1, <5>1
      <4> QED BY <4>4, <4>5
    <3>4. /\ Count(toWorker, {q} \X Run) \in Nat
          /\ Count(toHost, {q} \X Final) \in Nat
          /\ Count(toWorker', {q} \X Run) \in Nat
      BY <1>i, <1>2, <1>5, Counted DEF Typed, WiresTyped
    <3>5. ToCome(q)' <= ToCome(q) + (IF q = r THEN 1 ELSE 0) /\ ToCome(q) \in Nat
          /\ ToCome(q)' \in Nat
      <4>1. InLog(q)' = InLog(q) /\ InReplay(q)' = InReplay(q)
        BY <1>v DEF InLog, InReplay
      <4>2. InLog(q) \in Nat /\ InReplay(q) \in Nat
        BY DEF InLog, InReplay
      <4>3. ToCome(q)' = Count(toWorker', {q} \X Run) + Count(toHost, {q} \X Final)
                          + InLog(q) + InReplay(q)
        <5>1. ToCome(q)' = Count(toWorker', {q} \X Run) + Count(toHost', {q} \X Final)
                            + InLog(q)' + InReplay(q)'
          BY ToComeNext DEF InLog, InReplay
        <5> QED BY <4>1, <5>1
      <4>4. ToCome(q) = Count(toWorker, {q} \X Run) + Count(toHost, {q} \X Final)
                         + InLog(q) + InReplay(q)
        BY DEF ToCome
      <4>5. (IF q = r THEN 1 ELSE 0) \in Nat
        OBVIOUS
      <4>6. PICK x \in Nat : x = IF q = r THEN 1 ELSE 0
        BY <4>5
      <4>7. PICK n \in Nat : n = Count(toWorker', {q} \X Run)
        BY <3>4
      <4>8. PICK a \in Nat, b \in Nat, c \in Nat, d \in Nat :
               /\ a = Count(toWorker, {q} \X Run) /\ b = Count(toHost, {q} \X Final)
               /\ c = InLog(q) /\ d = InReplay(q)
        BY <3>4, <4>2
      <4>9. n <= a + x
        BY <3>3, <4>6, <4>7, <4>8
      <4>10. /\ n + b + c + d <= a + b + c + d + x
             /\ a + b + c + d \in Nat /\ n + b + c + d \in Nat
        BY <4>9, SumGrows
      <4>11. ToCome(q)' = n + b + c + d
        BY <4>3, <4>7, <4>8
      <4>12. ToCome(q) = a + b + c + d
        BY <4>4, <4>8
      <4> QED BY <4>6, <4>10, <4>11, <4>12
    <3>6. q = r => ~Owed(q) /\ Owed(q)'
      BY <1>9, <3>1 DEF Owed
    <3> QED BY <1>9, <3>2, <3>5, <3>6
  <2> QED BY <1>v, <2>1 DEF Bounded
<1>11. Ahead'
  <2>1. \A q : Exempt(q) => Exempt(q)'
    BY <1>3 DEF Exempt
  <2>2. ASSUME NEW i \in 1 .. Len(toHost), toHost[i][2] = "pending", ~ExemptNext(toHost[i][1])
        PROVE  /\ OwedNext(toHost[i][1])
               /\ \A j \in 1 .. i - 1 : toHost[j] \notin {toHost[i][1]} \X Final
    <3>1. toHost[i][1] \in Posted
      BY <1>i, ElementOfSeq DEF Typed, WiresTyped
    <3> QED BY <1>i, <1>9, <2>1, NextForms, <2>2, <3>1 DEF Ordered, Ahead
  <2>3. ASSUME Up, replaying # None, replaying[2] = "pending",
               ~ExemptNext(replaying[1]), log[replaying[1]] = "pending"
        PROVE  /\ OwedNext(replaying[1])
               /\ \A j \in 1 .. Len(toHost) : toHost[j] \notin {replaying[1]} \X Final
    <3>1. replaying[1] \in Posted
      BY <1>i, <2>3 DEF Typed, RuntimeTyped
    <3> QED BY <1>i, <1>9, <2>1, NextForms, <2>3, <3>1 DEF Ordered, Ahead
  <2> QED BY <1>v, <2>2, <2>3, AheadNext
<1>12. Shown'
  BY <1>i, <1>v, <1>3 DEF Ordered, Shown, Exempt
<1>13. HostTyped'
  BY <1>i, <1>v DEF Typed, HostTyped
<1>14. LogTyped' /\ RuntimeTyped' /\ DecisionTyped' /\ RanTyped'
  BY <1>i, <1>v, TypeFrames DEF Typed
<1> QED BY <1>i, <1>v, <1>4, <1>5, <1>6, <1>7, <1>8, <1>10, <1>11, <1>12, <1>13, <1>14, Frames
        DEF IInv, Ordered, Typed

LEMMA SendKeeps ==
  ASSUME IInv, NEW r \in Posted, Send(r)
  PROVE  IInv'
<1>i. Typed /\ Ordered
  BY DEF IInv
<1>u. /\ call[r] = "registered"
      /\ UNCHANGED <<order, gen, link, faults, ending, unheard, toHost, workerVars,
                     decisionVars, ran, forgotten, overtaken>>
  BY DEF Send
<1>1. CASE /\ link = "open" \/ (link = "broken" /\ ~ending)
           /\ toWorker' = IF link = "open" THEN Append(toWorker, <<r, gen>>) ELSE toWorker
           /\ slipped' = IF (r \in Named /\ name[r] # gen) \/ r \notin awaiting
                           THEN slipped \cup {r} ELSE slipped
           /\ stranded' = IF ending THEN stranded \cup {r} ELSE stranded
           /\ call' = [call EXCEPT ![r] = "sent"]
           /\ UNCHANGED <<posts, name, web, assured, awaiting, receipt>>
  BY <1>u, <1>1, SentKeeps
<1>2. CASE /\ link # "open"
           /\ awaiting' = awaiting \ {r}
           /\ receipt' = [receipt EXCEPT ![r] = "refused"]
           /\ Finish(r, "refused")
           /\ UNCHANGED <<toWorker, slipped, stranded>>
  <2>v. /\ UNCHANGED <<run, last, closed, log, logOrder, replaying, controls, sentDirect>>
        /\ UNCHANGED <<wires, name, deciding>>
    BY <1>u, <1>2 DEF wires, workerVars, decisionVars, Finish
  <2>1. "refused" \in Receipt /\ "refused" \in Outcome
    BY DEF Receipt, Outcome
  <2>2. /\ WebTyped' /\ HistoryTyped'
        /\ \A q \in Posted : web'[q] = IF q = r THEN "refused" ELSE web[q]
        /\ \A q \in Posted : call'[q] = IF q = r THEN "none" ELSE call[q]
        /\ \A q \in Posted : web'[q] = "accepted" => Happened(q)'
        /\ \A q \in assured' : Happened(q)'
    BY <1>i, <1>u, <1>2, <2>1, Finished DEF Ordered
  <2>3. HostTyped' /\ \A q \in Posted : receipt'[q] = IF q = r THEN "refused" ELSE receipt[q]
    BY <1>i, <1>u, <1>2, <2>1 DEF Typed, HostTyped
  <2>4. Truthful'
    BY <1>i, <1>u, <2>v, <2>2, <2>3 DEF Ordered, Truthful, Happened, wires
  <2>5. Awaits'
    BY <1>i, <1>u, <1>2, <2>2, <2>3 DEF Ordered, Awaits, Typed, HostTyped
  <2>6. Bounded' /\ Ahead'
    <3>1. \A q \in Posted : Owed(q) => Owed(q)'
      BY <1>u, <1>2, <2>2 DEF Owed
    <3> QED BY <1>i, <1>u, <1>2, <2>v, <3>1, OwedFrame
  <2>7. Shown'
    BY <1>i, <1>u, <1>2, <2>3 DEF Ordered, Shown, Exempt
  <2>8. WiresTyped' /\ LogTyped' /\ RuntimeTyped' /\ DecisionTyped' /\ RanTyped'
    BY <1>i, <1>u, <2>v, TypeFrames DEF Typed
  <2> QED BY <1>i, <1>u, <1>2, <2>v, <2>2, <2>3, <2>4, <2>5, <2>6, <2>7, <2>8, Frames
          DEF IInv, Ordered, Typed, wires
<1> QED BY <1>u, <1>1, <1>2 DEF Send

-----------------------------------------------------------------------------
(***************************************************************************)
(* The host's reader, and what breaks.                                     *)
(***************************************************************************)
\* Tail of what is on its way to the host.
LEMMA ReceivedKeeps ==
  ASSUME IInv, Received
  PROVE  IInv'
<1> DEFINE m == Head(toHost)
<1>i. Typed /\ Ordered
  BY DEF IInv
<1>u. /\ link # "none" /\ ~ending /\ toHost # <<>> /\ toHost' = Tail(toHost)
      /\ ResolveOutcome(m[1], m[2])
      /\ UNCHANGED <<webVars, order, gen, link, faults, endVars, toWorker, workerVars,
                     decisionVars, history>>
  BY DEF Received
<1>v. /\ UNCHANGED <<run, last, closed, log, logOrder, replaying, controls, sentDirect>>
      /\ UNCHANGED <<name, web, call, deciding>>
      /\ UNCHANGED <<ran, forgotten, slipped, overtaken, assured>>
  BY <1>u DEF webVars, workerVars, decisionVars, history
<1>1. /\ toHost' \in Seq(Posted \X Outcome) /\ Len(toHost') = Len(toHost) - 1
      /\ \A i \in 1 .. Len(toHost) - 1 : toHost'[i] = toHost[i + 1]
      /\ m = toHost[1] /\ m \in Posted \X Outcome /\ Len(toHost) \in Nat \ {0}
      /\ toHost \in Seq(Posted \X Outcome)
  BY <1>i, <1>u, Tailed DEF Typed, WiresTyped
<1> HIDE DEF m
<1>2. \/ m[1] \notin ToSet(order) /\ UNCHANGED <<receipt, awaiting>>
      \/ /\ m[1] \in ToSet(order)
         /\ receipt' = [receipt EXCEPT ![m[1]] = m[2]]
         /\ awaiting' = IF m[2] = "pending" THEN awaiting ELSE awaiting \ {m[1]}
  BY <1>u DEF ResolveOutcome
<1>3. HostTyped'
  BY <1>i, <1>u, <1>1, <1>2 DEF Typed, HostTyped
<1>4. \A q \in Posted :
          receipt'[q] = IF q = m[1] /\ q \in ToSet(order) THEN m[2] ELSE receipt[q]
  BY <1>i, <1>1, <1>2 DEF Typed, HostTyped
<1>5. \A q \in Posted : q \in awaiting' <=>
          q \in awaiting /\ ~(q = m[1] /\ m[2] # "pending")
  BY <1>i, <1>2 DEF Typed, HostTyped, Ordered, Awaits
<1>6. WiresTyped'
  BY <1>i, <1>u, <1>1 DEF Typed, WiresTyped
<1>7. Serving'
  BY <1>i, <1>u, <1>v DEF Ordered, Serving
<1>8. Truthful'
  <2>1. m[2] = "accepted" => Happened(m[1])
    BY <1>i, <1>1 DEF Ordered, Truthful
  <2>2. \A i \in 1 .. Len(toHost') : toHost'[i][2] = "accepted" => Happened(toHost'[i][1])
    <3> SUFFICES ASSUME NEW i \in 1 .. Len(toHost')
                 PROVE  toHost'[i][2] = "accepted" => Happened(toHost'[i][1])
      OBVIOUS
    <3>1. i + 1 \in 1 .. Len(toHost) /\ toHost'[i] = toHost[i + 1]
      BY <1>1
    <3> QED BY <1>i, <3>1 DEF Ordered, Truthful
  <2>3. \A q \in Posted : receipt'[q] = "accepted" => Happened(q)
    BY <1>i, <1>4, <2>1 DEF Ordered, Truthful
  <2> QED BY <1>i, <1>v, <2>2, <2>3 DEF Ordered, Truthful, Happened
<1>9. Awaits'
  <2>1. \A q \in awaiting' : q \in Posted /\ q \in awaiting /\ receipt'[q] = "pending"
    <3> SUFFICES ASSUME NEW q \in awaiting'
                 PROVE  q \in Posted /\ q \in awaiting /\ receipt'[q] = "pending"
      OBVIOUS
    <3>1. q \in Posted
      BY <1>3 DEF HostTyped
    <3>2. receipt[q] = "pending"
      BY <1>i, <1>5, <3>1 DEF Ordered, Awaits
    <3> QED BY <1>4, <1>5, <3>1, <3>2
  <2> QED BY <1>i, <1>u, <1>v, <2>1 DEF Ordered, Awaits
<1>10. \A q \in Posted : Owed(q) /\ ~(q = m[1] /\ m[2] # "pending") => OwedNext(q)
  BY <1>v, <1>5 DEF Owed, OwedNext
<1>11. \A q : Exempt(q)' <=> Exempt(q)
  BY <1>v DEF Exempt
<1>12. m[2] # "pending" => m[2] \in Final
  BY <1>1 DEF Outcome, Final
<1>13. Bounded'
  <2>1. ASSUME NEW q \in Posted, ~Exempt(q)'
        PROVE  ToCome(q)' <= (IF Owed(q)' THEN 2 ELSE 1)
    <3>1. ToCome(q) <= (IF Owed(q) THEN 2 ELSE 1)
      BY <1>i, <1>u, <1>11, <2>1 DEF Ordered, Bounded
    <3>2. Count(toHost, {q} \X Final) =
              Count(toHost', {q} \X Final) + (IF m \in {q} \X Final THEN 1 ELSE 0)
      BY <1>u, <1>1, CountTail DEF m
    <3>3. /\ Count(toWorker, {q} \X Run) \in Nat /\ Count(toHost, {q} \X Final) \in Nat
          /\ Count(toHost', {q} \X Final) \in Nat
      BY <1>i, <1>1, Counted DEF Typed, WiresTyped
    <3>4. ToCome(q) = ToCome(q)' + (IF m \in {q} \X Final THEN 1 ELSE 0)
          /\ ToCome(q)' \in Nat
      <4>1. InLog(q)' = InLog(q) /\ InReplay(q)' = InReplay(q)
        BY <1>v DEF InLog, InReplay
      <4>2. InLog(q) \in Nat /\ InReplay(q) \in Nat
        BY DEF InLog, InReplay
      <4>3. ToCome(q)' = Count(toWorker, {q} \X Run) + Count(toHost', {q} \X Final)
                          + InLog(q) + InReplay(q)
        <5>1. ToCome(q)' = Count(toWorker', {q} \X Run) + Count(toHost', {q} \X Final)
                            + InLog(q)' + InReplay(q)'
          BY ToComeNext DEF InLog, InReplay
        <5> QED BY <1>u, <1>v, <4>1, <5>1
      <4>4. ToCome(q) = Count(toWorker, {q} \X Run) + Count(toHost, {q} \X Final)
                         + InLog(q) + InReplay(q)
        BY DEF ToCome
      <4>5. (IF m \in {q} \X Final THEN 1 ELSE 0) \in Nat
        OBVIOUS
      <4> QED BY <3>2, <3>3, <4>2, <4>3, <4>4, <4>5, SumMoves
    <3>5. Owed(q) /\ ~Owed(q)' => m \in {q} \X Final
      BY <1>1, <1>10, <1>12, NextForms
    <3> QED BY <3>1, <3>4, <3>5
  <2> QED BY <2>1 DEF Bounded
<1>14. Ahead'
  <2>1. ASSUME NEW i \in 1 .. Len(toHost'), toHost'[i][2] = "pending",
               ~ExemptNext(toHost'[i][1])
        PROVE  /\ OwedNext(toHost'[i][1])
               /\ \A j \in 1 .. i - 1 : toHost'[j] \notin {toHost'[i][1]} \X Final
    <3> DEFINE q == toHost'[i][1]
    <3>1. i + 1 \in 1 .. Len(toHost) /\ toHost'[i] = toHost[i + 1] /\ i \in Nat
      BY <1>1
    <3>2. toHost[i + 1] \in Posted \X Outcome
      BY <1>1, <3>1, ElementOfSeq
    <3>q. /\ q \in Posted /\ toHost[i + 1][1] = q
          /\ toHost[i + 1][2] = "pending"
      BY <2>1, <3>1, <3>2
    <3> HIDE DEF q
    <3>3. ~Exempt(q)
      BY <1>11, <2>1, NextForms DEF q
    <3>4. Owed(q) /\ \A j \in 1 .. i : toHost[j] \notin {q} \X Final
      <4>1. \A j \in 1 .. (i + 1) - 1 : toHost[j] \notin {q} \X Final
        BY <1>i, <3>1, <3>q, <3>3 DEF Ordered, Ahead
      <4>2. Owed(q)
        BY <1>i, <3>1, <3>q, <3>3 DEF Ordered, Ahead
      <4> QED BY <3>1, <4>1, <4>2
    <3>5. m \notin {q} \X Final
      BY <1>1, <3>4
    <3>6. OwedNext(q)
      BY <1>1, <1>10, <1>12, <3>q, <3>4, <3>5
    <3>7. ASSUME NEW j \in 1 .. i - 1
          PROVE  toHost'[j] \notin {q} \X Final
      <4>1. j + 1 \in 1 .. i /\ j \in 1 .. Len(toHost) - 1
        BY <1>1, <3>1
      <4> QED BY <1>1, <3>4, <4>1
    <3> QED BY <3>6, <3>7 DEF q
  <2>2. ASSUME Up, replaying # None, replaying[2] = "pending",
               ~ExemptNext(replaying[1]), log[replaying[1]] = "pending"
        PROVE  /\ OwedNext(replaying[1])
               /\ \A j \in 1 .. Len(toHost') : toHost'[j] \notin {replaying[1]} \X Final
    <3>1. replaying[1] \in Posted
      BY <1>i, <2>2 DEF Typed, RuntimeTyped
    <3>2. /\ Owed(replaying[1])
          /\ \A j \in 1 .. Len(toHost) : toHost[j] \notin {replaying[1]} \X Final
      BY <1>i, <1>11, <2>2, NextForms DEF Ordered, Ahead
    <3>3. m \notin {replaying[1]} \X Final
      BY <1>1, <3>2
    <3>4. OwedNext(replaying[1])
      BY <1>1, <1>10, <1>12, <3>1, <3>2, <3>3
    <3>5. ASSUME NEW j \in 1 .. Len(toHost')
          PROVE  toHost'[j] \notin {replaying[1]} \X Final
      <4>1. j + 1 \in 1 .. Len(toHost) /\ toHost'[j] = toHost[j + 1]
        BY <1>1
      <4> QED BY <3>2, <4>1
    <3> QED BY <3>4, <3>5
  <2> QED BY <1>u, <1>v, <2>1, <2>2, AheadNext
<1>15. Shown'
  <2>1. m[2] = "pending" => m[1] \in awaiting \/ Exempt(m[1])
    BY <1>i, <1>1 DEF Ordered, Ahead, Owed
  <2>2. ASSUME NEW q \in Posted, receipt'[q] = "pending"
        PROVE  q \in awaiting' \/ Exempt(q)
    <3>1. CASE q = m[1] /\ q \in ToSet(order)
      BY <1>4, <1>5, <2>1, <2>2, <3>1
    <3>2. CASE ~(q = m[1] /\ q \in ToSet(order))
      <4>1. q \in awaiting \/ Exempt(q)
        BY <1>i, <1>4, <2>2, <3>2 DEF Ordered, Shown
      <4>2. q \in awaiting => q \in ToSet(order)
        BY <1>i DEF Ordered, Awaits
      <4> QED BY <1>5, <3>2, <4>1, <4>2
    <3> QED BY <3>1, <3>2
  <2> QED BY <1>11, <2>2 DEF Shown
<1>16. WebTyped' /\ LogTyped' /\ RuntimeTyped' /\ DecisionTyped' /\ RanTyped'
       /\ HistoryTyped'
  BY <1>i, <1>u, <1>v, TypeFrames DEF Typed
<1> QED BY <1>i, <1>u, <1>v, <1>3, <1>6, <1>7, <1>8, <1>9, <1>13, <1>14, <1>15, <1>16,
           Frames DEF IInv, Ordered, Typed

\* With nobody to read nothing is to come.
LEMMA Disconnected ==
  ASSUME ~Up', toHost' = <<>>
  PROVE  Bounded' /\ Ahead'
<1>1. Bounded'
  BY DEF Bounded
<1>2. Ahead'
  BY AheadNext
<1> QED BY <1>1, <1>2

\* What was awaited is failed; what is awaited next comes of a later send.
LEMMA ReaderFailsKeeps ==
  ASSUME IInv, ReaderFails, link # "none", faults' \in 0 .. MaxFaults
  PROVE  IInv'
<1>i. Typed /\ Ordered
  BY DEF IInv
<1>u. /\ FailPending /\ ending' = TRUE /\ stranded' = {} /\ unheard' = {} /\ toHost' = <<>>
      /\ UNCHANGED <<webVars, order, gen, link, toWorker, workerVars, decisionVars, history>>
  BY DEF ReaderFails
<1>v. /\ UNCHANGED <<run, last, closed, log, logOrder, replaying, controls, sentDirect>>
      /\ UNCHANGED <<name, web, call, deciding>>
      /\ UNCHANGED <<ran, forgotten, slipped, overtaken, assured>>
  BY <1>u DEF webVars, workerVars, decisionVars, history
<1>1. /\ receipt' = [r \in Posted |-> IF r \in awaiting /\ r \in ToSet(order)
                                        THEN "refused" ELSE receipt[r]]
      /\ awaiting' = {}
  BY <1>u DEF FailPending
<1>2. HostTyped' /\ WiresTyped'
  <2>1. receipt' \in [Posted -> Outcome \cup {"none"}]
    BY <1>i, <1>1 DEF Typed, HostTyped, Outcome
  <2> QED BY <1>i, <1>u, <1>1, <2>1, Constants DEF Typed, HostTyped, WiresTyped
<1>3. Serving'
  BY <1>i, <1>u, <1>v DEF Ordered, Serving
<1>4. Truthful'
  BY <1>i, <1>u, <1>v, <1>1 DEF Ordered, Truthful, Happened
<1>5. Awaits'
  BY <1>i, <1>v, <1>1 DEF Ordered, Awaits
<1>6. Shown'
  BY <1>i, <1>v, <1>1 DEF Ordered, Shown, Awaits, Exempt
<1>7. Bounded' /\ Ahead'
  BY <1>u, Disconnected
<1>8. WebTyped' /\ LogTyped' /\ RuntimeTyped' /\ DecisionTyped' /\ RanTyped'
      /\ HistoryTyped'
  BY <1>i, <1>u, <1>v, TypeFrames DEF Typed
<1> QED BY <1>i, <1>u, <1>v, <1>2, <1>3, <1>4, <1>5, <1>6, <1>7, <1>8, Frames
        DEF IInv, Ordered, Typed

LEMMA DeactivateKeeps ==
  ASSUME IInv, DeactivateLocked
  PROVE  IInv'
<1>i. Typed /\ Ordered
  BY DEF IInv
<1>u. /\ ending /\ ending' = FALSE /\ gen' = 0 /\ link' = "none"
      /\ UNCHANGED <<webVars, receipt, order, awaiting, faults, stranded, unheard, wires,
                     workerVars, decisionVars, history>>
  BY DEF DeactivateLocked
<1>v. /\ UNCHANGED <<run, last, closed, log, logOrder, replaying, controls, sentDirect>>
      /\ UNCHANGED <<name, web, call, deciding, toWorker, toHost>>
      /\ UNCHANGED <<ran, forgotten, slipped, overtaken, assured>>
  BY <1>u DEF webVars, wires, workerVars, decisionVars, history
<1>1. HostTyped'
  <2>1. ending' \in BOOLEAN
    BY <1>u
  <2>2. gen' \in 0 .. MaxRuns
    BY <1>u, Constants
  <2> QED BY <1>i, <1>u, <2>1, <2>2 DEF Typed, HostTyped
<1>2. toHost = <<>>
  BY <1>i, <1>u DEF Ordered, Serving
<1>3. Serving'
  BY <1>i, <1>u, <1>v, <1>2 DEF Ordered, Serving
<1>4. Awaits'
  BY <1>i, <1>u, <1>v DEF Ordered, Awaits
<1>5. Bounded' /\ Ahead'
  BY <1>u, <1>v, <1>2, Disconnected
<1>6. WebTyped' /\ WiresTyped' /\ LogTyped' /\ RuntimeTyped' /\ DecisionTyped' /\ RanTyped'
      /\ HistoryTyped'
  BY <1>i, <1>u, <1>v, TypeFrames DEF Typed
<1> QED BY <1>i, <1>u, <1>v, <1>1, <1>3, <1>4, <1>5, <1>6, Frames DEF IInv, Ordered, Typed

\* What an overflow leaves of the queue to the host is its beginning.
LEMMA OverflowKeeps ==
  ASSUME IInv, Overflow
  PROVE  IInv'
<1>i. Typed /\ Ordered
  BY DEF IInv
<1>u. PICK n \in 0 .. Len(toHost) - 1 :
         /\ toHost' = SubSeq(toHost, 1, n)
         /\ unheard' = unheard \cup {toHost[i][1] : i \in n + 1 .. Len(toHost)}
  BY DEF Overflow
<1>f. /\ Fault /\ link = "open"
      /\ UNCHANGED <<webVars, receipt, order, awaiting, gen, link, ending, stranded,
                     toWorker, workerVars, decisionVars, history>>
  BY DEF Overflow
<1>v. /\ UNCHANGED <<run, last, closed, log, logOrder, replaying, controls, sentDirect>>
      /\ UNCHANGED <<name, web, call, deciding>>
      /\ UNCHANGED <<ran, forgotten, slipped, overtaken, assured>>
  BY <1>f DEF webVars, workerVars, decisionVars, history
<1>1. toHost \in Seq(Posted \X Outcome) /\ Len(toHost) \in Nat
  BY <1>i, LenProperties DEF Typed, WiresTyped
<1>2. /\ toHost' \in Seq(Posted \X Outcome) /\ Len(toHost') <= Len(toHost)
      /\ Len(toHost') \in Nat
      /\ \A i \in 1 .. Len(toHost') : toHost'[i] = toHost[i]
  <2>1. toHost' \in Prefixes(toHost)
    BY <1>u, <1>1 DEF Prefixes
  <2> QED BY <1>1, <2>1, Prefixed
<1>3. \A M : Count(toHost', M) <= Count(toHost, M)
  <2>1. toHost' \in Prefixes(toHost)
    BY <1>u, <1>1 DEF Prefixes
  <2> QED BY <1>1, <2>1, CountPrefix
<1>4. HostTyped' /\ WiresTyped'
  <2>1. \A i \in n + 1 .. Len(toHost) : toHost[i][1] \in Posted
    BY <1>1, ElementOfSeq
  <2>2. unheard' \subseteq Posted
    BY <1>i, <1>u, <2>1 DEF Typed, HostTyped
  <2>3. faults' \in 0 .. MaxFaults
    BY <1>i, <1>f, Constants DEF Typed, HostTyped, Fault
  <2> QED BY <1>i, <1>f, <1>2, <2>2, <2>3 DEF Typed, HostTyped, WiresTyped
<1>5. Serving'
  <2>1. ~Up => Len(toHost') = 0
    BY <1>i, <1>1, <1>2 DEF Ordered, Serving
  <2>2. ~Up => toHost' = <<>>
    BY <1>2, <2>1, EmptySeq
  <2> QED BY <1>i, <1>f, <1>v, <2>2 DEF Ordered, Serving
<1>6. Truthful'
  <2>1. ASSUME NEW i \in 1 .. Len(toHost')
        PROVE  toHost'[i][2] = "accepted" => Happened(toHost'[i][1])
    <3>1. i \in 1 .. Len(toHost) /\ toHost'[i] = toHost[i]
      BY <1>1, <1>2
    <3> QED BY <1>i, <3>1 DEF Ordered, Truthful
  <2> QED BY <1>i, <1>f, <1>v, <2>1 DEF Ordered, Truthful, Happened
<1>7. \A q : (Owed(q)' <=> Owed(q)) /\ (Exempt(q)' <=> Exempt(q))
  BY <1>f, <1>v DEF Owed, Exempt
<1>8. Bounded'
  <2>1. ASSUME Up', NEW q \in Posted, ~Exempt(q)'
        PROVE  ToCome(q)' <= (IF Owed(q)' THEN 2 ELSE 1)
    <3>1. ToCome(q) <= (IF Owed(q) THEN 2 ELSE 1)
      BY <1>i, <1>f, <1>7, <2>1 DEF Ordered, Bounded
    <3>2. /\ Count(toWorker, {q} \X Run) \in Nat /\ Count(toHost, {q} \X Final) \in Nat
          /\ Count(toHost', {q} \X Final) \in Nat
          /\ Count(toHost', {q} \X Final) <= Count(toHost, {q} \X Final)
      BY <1>i, <1>1, <1>2, <1>3, Counted DEF Typed, WiresTyped
    <3>3. ToCome(q)' <= ToCome(q) /\ ToCome(q) \in Nat /\ ToCome(q)' \in Nat
      <4>1. InLog(q)' = InLog(q) /\ InReplay(q)' = InReplay(q)
        BY <1>v DEF InLog, InReplay
      <4>2. InLog(q) \in Nat /\ InReplay(q) \in Nat
        BY DEF InLog, InReplay
      <4>3. ToCome(q)' = Count(toWorker, {q} \X Run) + Count(toHost', {q} \X Final)
                          + InLog(q) + InReplay(q)
        <5>1. ToCome(q)' = Count(toWorker', {q} \X Run) + Count(toHost', {q} \X Final)
                            + InLog(q)' + InReplay(q)'
          BY ToComeNext DEF InLog, InReplay
        <5> QED BY <1>f, <4>1, <5>1
      <4>4. ToCome(q) = Count(toWorker, {q} \X Run) + Count(toHost, {q} \X Final)
                         + InLog(q) + InReplay(q)
        BY DEF ToCome
      <4> QED BY <3>2, <4>2, <4>3, <4>4
    <3> QED BY <1>7, <3>1, <3>3
  <2> QED BY <2>1 DEF Bounded
<1>9. Ahead'
  <2>1. \A q : (OwedNext(q) <=> Owed(q)) /\ (ExemptNext(q) <=> Exempt(q))
    BY <1>7, NextForms
  <2>2. ASSUME NEW i \in 1 .. Len(toHost'), toHost'[i][2] = "pending",
               ~ExemptNext(toHost'[i][1])
        PROVE  /\ OwedNext(toHost'[i][1])
               /\ \A j \in 1 .. i - 1 : toHost'[j] \notin {toHost'[i][1]} \X Final
    <3>1. i \in 1 .. Len(toHost) /\ toHost'[i] = toHost[i]
          /\ \A j \in 1 .. i - 1 : toHost'[j] = toHost[j]
      BY <1>1, <1>2
    <3>2. /\ Owed(toHost[i][1])
          /\ \A j \in 1 .. i - 1 : toHost[j] \notin {toHost[i][1]} \X Final
      BY <1>i, <2>1, <2>2, <3>1 DEF Ordered, Ahead
    <3> QED BY <2>1, <3>1, <3>2
  <2>3. ASSUME Up, replaying # None, replaying[2] = "pending",
               ~ExemptNext(replaying[1]), log[replaying[1]] = "pending"
        PROVE  /\ OwedNext(replaying[1])
               /\ \A j \in 1 .. Len(toHost') : toHost'[j] \notin {replaying[1]} \X Final
    <3>1. /\ Owed(replaying[1])
          /\ \A j \in 1 .. Len(toHost) : toHost[j] \notin {replaying[1]} \X Final
      BY <1>i, <2>1, <2>3 DEF Ordered, Ahead
    <3>2. ASSUME NEW j \in 1 .. Len(toHost')
          PROVE  toHost'[j] \notin {replaying[1]} \X Final
      <4>1. j \in 1 .. Len(toHost) /\ toHost'[j] = toHost[j]
        BY <1>1, <1>2
      <4> QED BY <3>1, <4>1
    <3> QED BY <2>1, <3>1, <3>2
  <2> QED BY <1>f, <1>v, <2>2, <2>3, AheadNext
<1>10. WebTyped' /\ LogTyped' /\ RuntimeTyped' /\ DecisionTyped' /\ RanTyped'
       /\ HistoryTyped'
  BY <1>i, <1>f, <1>v, TypeFrames DEF Typed
<1> QED BY <1>i, <1>f, <1>v, <1>4, <1>5, <1>6, <1>8, <1>9, <1>10, Frames
        DEF IInv, Ordered, Typed

LEMMA HostRestartsKeeps ==
  ASSUME IInv, HostRestarts
  PROVE  IInv'
<1>i. Typed /\ Ordered
  BY DEF IInv
<1>u. /\ Fault
      /\ web' = [r \in Posted |-> "none"] /\ call' = [r \in Posted |-> "none"]
      /\ receipt' = [r \in Posted |-> "none"] /\ order' = <<>> /\ awaiting' = {}
      /\ gen' = 0 /\ link' = "none" /\ toHost' = <<>>
      /\ ending' = FALSE /\ stranded' = {} /\ unheard' = {}
      /\ toWorker' \in Prefixes(toWorker)
      /\ UNCHANGED <<posts, name, workerVars, decisionVars, history>>
  BY DEF HostRestarts
<1>v. /\ UNCHANGED <<run, last, closed, log, logOrder, replaying, controls, sentDirect>>
      /\ UNCHANGED <<ran, forgotten, slipped, overtaken, assured, deciding>>
  BY <1>u DEF workerVars, decisionVars, history
<1>1. WebTyped'
  BY <1>i, <1>u DEF Typed, WebTyped, Receipt
<1>2. HostTyped'
  <2>1. ending' \in BOOLEAN
    BY <1>u
  <2>2. gen' \in 0 .. MaxRuns
    BY <1>u, Constants
  <2> QED BY <1>i, <1>u, <2>1, <2>2, Constants DEF Typed, HostTyped, Fault
<1>3. /\ toWorker' \in Seq(Posted \X Run) /\ Len(toWorker') <= Len(toWorker)
      /\ Len(toWorker') \in Nat /\ Len(toWorker) \in Nat
      /\ \A i \in 1 .. Len(toWorker') : toWorker'[i] = toWorker[i]
  BY <1>i, <1>u, Prefixed DEF Typed, WiresTyped
<1>4. WiresTyped'
  BY <1>u, <1>3 DEF WiresTyped
<1>5. Serving'
  BY <1>i, <1>u, <1>v DEF Ordered, Serving
<1>6. Addressed'
  BY <1>i, <1>u, <1>v, <1>3 DEF Ordered, Addressed
<1>7. Truthful'
  BY <1>i, <1>u, <1>v DEF Ordered, Truthful, Happened
<1>8. Awaits' /\ Shown'
  BY <1>u DEF Awaits, Shown
<1>9. Bounded' /\ Ahead'
  BY <1>u, Disconnected
<1>10. LogTyped' /\ RuntimeTyped' /\ DecisionTyped' /\ RanTyped' /\ HistoryTyped'
  BY <1>i, <1>u, <1>v, TypeFrames DEF Typed
<1> QED BY <1>i, <1>u, <1>v, <1>1, <1>2, <1>4, <1>5, <1>6, <1>7, <1>8, <1>9, <1>10, Frames
        DEF IInv, Ordered, Typed

LEMMA BreakKeeps ==
  ASSUME IInv, Break
  PROVE  IInv'
<1>i. Typed /\ Ordered
  BY DEF IInv
<1>u. /\ link = "open" /\ Fault /\ link' = "broken" /\ toWorker' \in Prefixes(toWorker)
      /\ UNCHANGED <<webVars, receipt, order, awaiting, gen, endVars, toHost, workerVars,
                     decisionVars, history>>
  BY DEF Break
<1>v. /\ UNCHANGED <<run, last, closed, log, logOrder, replaying, controls, sentDirect>>
      /\ UNCHANGED <<name, web, call, deciding>>
      /\ UNCHANGED <<ran, forgotten, slipped, overtaken, assured>>
  BY <1>u DEF webVars, workerVars, decisionVars, history
<1>1. HostTyped'
  BY <1>i, <1>u, Constants DEF Typed, HostTyped, Fault
<1>2. /\ toWorker' \in Seq(Posted \X Run) /\ Len(toWorker') <= Len(toWorker)
      /\ Len(toWorker') \in Nat /\ Len(toWorker) \in Nat
      /\ \A i \in 1 .. Len(toWorker') : toWorker'[i] = toWorker[i]
      /\ \A M : Count(toWorker', M) <= Count(toWorker, M)
  BY <1>i, <1>u, Prefixed, CountPrefix DEF Typed, WiresTyped
<1>3. WiresTyped'
  BY <1>i, <1>u, <1>2 DEF Typed, WiresTyped
<1>4. Serving'
  BY <1>i, <1>u, <1>v DEF Ordered, Serving
<1>5. Addressed'
  BY <1>i, <1>u, <1>v, <1>2 DEF Ordered, Addressed
<1>6. Awaits'
  BY <1>i, <1>u, <1>v DEF Ordered, Awaits
<1>7. \A q : (Owed(q)' <=> Owed(q)) /\ (Exempt(q)' <=> Exempt(q))
  BY <1>u, <1>v DEF Owed, Exempt
<1>8. Bounded'
  <2>1. ASSUME Up', NEW q \in Posted, ~Exempt(q)'
        PROVE  ToCome(q)' <= (IF Owed(q)' THEN 2 ELSE 1)
    <3>1. ToCome(q) <= (IF Owed(q) THEN 2 ELSE 1)
      BY <1>i, <1>u, <1>7, <2>1 DEF Ordered, Bounded
    <3>2. /\ Count(toWorker, {q} \X Run) \in Nat /\ Count(toHost, {q} \X Final) \in Nat
          /\ Count(toWorker', {q} \X Run) \in Nat
          /\ Count(toWorker', {q} \X Run) <= Count(toWorker, {q} \X Run)
      BY <1>i, <1>2, Counted DEF Typed, WiresTyped
    <3>3. ToCome(q)' <= ToCome(q) /\ ToCome(q) \in Nat /\ ToCome(q)' \in Nat
      BY <1>u, <1>v, <3>2, ToComeNext DEF ToCome, InLog, InReplay
    <3> QED BY <1>7, <3>1, <3>3
  <2> QED BY <2>1 DEF Bounded
<1>9. Ahead'
  <2>1. \A q : (OwedNext(q) <=> Owed(q)) /\ (ExemptNext(q) <=> Exempt(q))
    BY <1>7, NextForms
  <2> QED BY <1>i, <1>u, <1>v, <2>1, AheadNext DEF Ordered, Ahead
<1>10. WebTyped' /\ LogTyped' /\ RuntimeTyped' /\ DecisionTyped' /\ RanTyped'
       /\ HistoryTyped'
  BY <1>i, <1>u, <1>v, TypeFrames DEF Typed
<1> QED BY <1>i, <1>u, <1>v, <1>1, <1>3, <1>4, <1>5, <1>6, <1>8, <1>9, <1>10, Frames
        DEF IInv, Ordered, Typed

LEMMA ActivateKeeps ==
  ASSUME IInv, Activate
  PROVE  IInv'
<1>i. Typed /\ Ordered
  BY DEF IInv
<1>u. /\ link = "none" /\ toWorker = <<>> /\ replaying = None
      /\ gen' = run' /\ link' = "open"
      /\ UNCHANGED <<webVars, receipt, order, awaiting, faults, endVars, wires, log, logOrder,
                     replaying, controls, sentDirect, decisionVars, history>>
  BY DEF Activate
<1>v. /\ UNCHANGED <<name, web, call, deciding, toWorker, toHost>>
      /\ UNCHANGED <<ran, forgotten, slipped, overtaken, assured>>
  BY <1>u DEF webVars, wires, decisionVars, history
<1>1. \/ run # 0 /\ UNCHANGED <<run, last, closed>>
      \/ /\ run = 0 /\ last < MaxRuns /\ run' = last + 1 /\ last' = last + 1
         /\ closed' = FALSE
  BY DEF Activate
<1>2. /\ run' = last' /\ run' \in Run /\ last <= last' /\ last \in Nat /\ run' \in Nat
      /\ run' # run => run = 0 /\ run' > last
  BY <1>i, <1>1, Constants DEF Typed, RuntimeTyped
<1>3. toHost = <<>> /\ (run = 0 => controls = <<>> /\ ~deciding)
  BY <1>i, <1>u DEF Ordered, Serving
<1>4. HostTyped' /\ RuntimeTyped'
  <2>1. last' \in 0 .. MaxRuns /\ run' \in {0, last'} /\ closed' \in BOOLEAN
    <3>1. CASE run # 0 /\ UNCHANGED <<run, last, closed>>
      BY <1>i, <3>1 DEF Typed, RuntimeTyped
    <3>2. CASE last < MaxRuns /\ run' = last + 1 /\ last' = last + 1 /\ closed' = FALSE
      <4>1. last \in Nat /\ MaxRuns \in Nat
        BY <1>2, Constants
      <4>2. last' \in 0 .. MaxRuns
        BY <3>2, <4>1
      <4>3. run' = last' /\ closed' \in BOOLEAN
        BY <3>2
      <4> QED BY <4>2, <4>3
    <3> QED BY <1>1, <3>1, <3>2
  <2>2. RuntimeTyped'
    BY <1>i, <1>u, <2>1 DEF Typed, RuntimeTyped
  <2>3. run' \in 0 .. MaxRuns
    BY <1>2, Constants
  <2> QED BY <1>i, <1>u, <2>2, <2>3 DEF Typed, HostTyped
<1>5. Serving'
  BY <1>i, <1>u, <1>v, <1>2, <1>3, Constants DEF Ordered, Serving
<1>6. Queued'
  <2>1. CASE run' = run
    BY <1>i, <1>u, <1>v, <2>1 DEF Ordered, Queued
  <2>2. CASE run' # run
    <3>1. controls' = <<>>
      BY <1>u, <1>2, <1>3, <2>2
    <3> QED BY <3>1 DEF Queued, IsInjective
  <2> QED BY <2>1, <2>2
<1>7. Ran1'
  <2>1. \A r \in Posted, g \in Run : g > last' => ran[r][g] = 0
    BY <1>i, <1>2, Constants DEF Ordered, Ran1
  <2>2. \A r \in Posted :
            log[r] = "none" => ran[r][run'] = 0 \/ <<r, run'>> \in forgotten
    BY <1>i, <1>1, <1>2 DEF Ordered, Ran1
  <2> QED BY <1>i, <1>u, <1>v, <2>1, <2>2 DEF Ordered, Ran1
<1>8. Awaits'
  BY <1>i, <1>u, <1>v DEF Ordered, Awaits
<1>9. Bounded'
  <2>1. ASSUME NEW q \in Posted
        PROVE  ToCome(q)' \in {0, 1}
    <3>1. Count(toWorker', {q} \X Run) = 0 /\ Count(toHost', {q} \X Final) = 0
      BY <1>u, <1>v, <1>3, CountEmpty
    <3> QED BY <1>u, <3>1, ToComeNext
  <2>2. ASSUME NEW q \in Posted
        PROVE  ToCome(q)' <= (IF Owed(q)' THEN 2 ELSE 1)
    BY <2>1
  <2> QED BY <2>2 DEF Bounded
<1>10. Ahead'
  BY <1>u, <1>v, <1>3, AheadNext
<1>11. WebTyped' /\ LogTyped' /\ WiresTyped' /\ DecisionTyped' /\ RanTyped'
       /\ HistoryTyped'
  BY <1>i, <1>u, <1>v, TypeFrames DEF Typed
<1> QED BY <1>i, <1>u, <1>v, <1>4, <1>5, <1>6, <1>7, <1>8, <1>9, <1>10, <1>11, Frames
        DEF IInv, Ordered, Typed

LEMMA CloseKeeps ==
  ASSUME IInv, Close
  PROVE  IInv'
<1>i. Typed /\ Ordered
  BY DEF IInv
<1>u. /\ Fault /\ closed' = TRUE
      /\ UNCHANGED <<webVars, receipt, order, awaiting, gen, link, endVars, wires, run, last, log,
                     logOrder, replaying, controls, sentDirect, decisionVars, history>>
  BY DEF Close
<1>v. /\ UNCHANGED <<name, web, call, deciding, toWorker, toHost>>
      /\ UNCHANGED <<ran, forgotten, slipped, overtaken, assured>>
  BY <1>u DEF webVars, wires, decisionVars, history
<1>1. HostTyped'
  BY <1>i, <1>u, Constants DEF Typed, HostTyped, Fault
<1>2. RuntimeTyped'
  BY <1>i, <1>u DEF Typed, RuntimeTyped
<1> QED BY <1>i, <1>u, <1>v, <1>1, <1>2, TypeFrames, Frames DEF IInv, Ordered, Typed

LEMMA RetireKeeps ==
  ASSUME IInv, Retire
  PROVE  IInv'
<1>i. Typed /\ Ordered
  BY DEF IInv
<1>u. /\ closed' = TRUE
      /\ UNCHANGED <<webVars, hostVars, wires, run, last, log, logOrder, replaying,
                     controls, sentDirect, decisionVars, history>>
  BY DEF Retire
<1>v. /\ UNCHANGED <<name, web, call, deciding, toWorker, toHost>>
      /\ UNCHANGED <<receipt, order, awaiting, gen, link, endVars>>
      /\ UNCHANGED <<ran, forgotten, slipped, overtaken, assured>>
  BY <1>u DEF webVars, hostVars, wires, decisionVars, history
<1>1. RuntimeTyped'
  BY <1>i, <1>u DEF Typed, RuntimeTyped
<1> QED BY <1>i, <1>u, <1>v, <1>1, TypeFrames, Frames DEF IInv, Ordered, Typed

-----------------------------------------------------------------------------
(***************************************************************************)
(* The decision, and a runtime's end.                                      *)
(***************************************************************************)
LEMMA AppKeeps ==
  ASSUME Typed, Ordered, AppOnly, UNCHANGED <<toHost, log, controls, ran>>, run # 0,
         DecisionTyped', Decides'
  PROVE  IInv'
<1>v. /\ UNCHANGED <<webVars, hostVars, wires, log, logOrder, sentDirect>>
      /\ UNCHANGED <<run, last, closed, replaying, controls>>
      /\ UNCHANGED <<name, web, call, receipt, order, awaiting, gen, link, endVars>>
      /\ UNCHANGED <<toWorker, toHost, ran, forgotten, slipped, overtaken, assured>>
  BY DEF AppOnly, webVars, hostVars, wires
<1>1. Serving'
  BY <1>v DEF Ordered, Serving
<1> QED BY <1>v, <1>1, TypeFrames, Frames DEF IInv, Ordered, Typed

LEMMA AskKeeps ==
  ASSUME IInv, Ask
  PROVE  IInv'
<1>i. Typed /\ Ordered
  BY DEF IInv
<1>u. /\ run # 0 /\ ~deciding /\ asked < MaxDecisions
      /\ deciding' = TRUE /\ asked' = asked + 1
      /\ route' \in {"parent", "human"} /\ routed' = (route' = "parent")
      /\ AppOnly /\ UNCHANGED <<toHost, log, controls, ran, reply, answer, accepted,
                                notified, late>>
  BY DEF Ask
<1>1. asked \in Nat /\ asked + 1 \in Decision
  BY <1>i, <1>u, Constants DEF Typed, DecisionTyped, Decision
<1>2. DecisionTyped'
  <2>1. asked' \in 0 .. MaxDecisions
    BY <1>u, <1>1, Constants DEF Decision
  <2>2. routed' \in BOOLEAN /\ deciding' \in BOOLEAN
    BY <1>u
  <2> QED BY <1>i, <1>u, <2>1, <2>2 DEF Typed, DecisionTyped
<1>3. Decides'
  <2>1. reply = None /\ ~notified
    BY <1>i, <1>u DEF Ordered, Decides
  <2>2. accepted[asked + 1] = {} /\ answer[asked + 1] = None
    BY <1>i, <1>1 DEF Ordered, Decides
  <2>3. \A d \in Decision : d > asked + 1 => accepted[d] = {} /\ answer[d] = None
    BY <1>i, <1>1 DEF Ordered, Decides, Decision
  <2> QED BY <1>i, <1>u, <1>1, <2>1, <2>2, <2>3 DEF Ordered, Decides
<1> QED BY <1>i, <1>u, <1>2, <1>3, AppKeeps

LEMMA LookKeeps ==
  ASSUME IInv, NEW over \in BOOLEAN, NEW abort \in BOOLEAN, Look(over, abort)
  PROVE  IInv'
<1> DEFINE done == closed \/ reply # None \/ abort
<1>i. Typed /\ Ordered
  BY DEF IInv
<1>u. /\ run # 0 /\ deciding /\ deciding' = ~done
      /\ IF done THEN NoDecision
         ELSE /\ reply' = reply
              /\ IF routed /\ over THEN EscalateLocked ELSE UNCHANGED <<route, notified>>
      /\ routed' = (~done /\ route' = "parent")
      /\ answer' = IF done /\ ~closed THEN [answer EXCEPT ![asked] = reply] ELSE answer
      /\ AppOnly /\ UNCHANGED <<toHost, log, controls, ran, asked, accepted, late>>
  BY DEF Look
<1> HIDE DEF done
<1>1. /\ done => route' = "human" /\ notified' = FALSE /\ reply' = None
      /\ ~done => /\ reply' = reply /\ reply = None
                  /\ \/ route' = "human" /\ notified' = TRUE
                     \/ UNCHANGED <<route, notified>>
  BY <1>u DEF NoDecision, EscalateLocked, done
<1>2. /\ asked \in Decision /\ accepted[asked] = {reply} \ {None} /\ answer[asked] = None
  BY <1>i, <1>u DEF Ordered, Decides
<1>3. /\ answer' \in [Decision -> Reply \cup ParentReply \cup {None}]
      /\ \A d \in Decision : answer'[d] = answer[d] \/ (d = asked /\ answer'[d] = reply /\ done)
  BY <1>i, <1>u, <1>2 DEF Typed, DecisionTyped
<1>4. DecisionTyped'
  <2>1. routed' \in BOOLEAN /\ deciding' \in BOOLEAN
    BY <1>u
  <2>2. route' \in {"parent", "human"} /\ notified' \in BOOLEAN
        /\ reply' \in Reply \cup ParentReply \cup {None}
    BY <1>i, <1>1 DEF Typed, DecisionTyped
  <2> QED BY <1>i, <1>u, <1>3, <2>1, <2>2 DEF Typed, DecisionTyped
<1>5. Decides'
  <2>1. \A d \in Decision : answer'[d] # None => accepted[d] = {answer'[d]}
    BY <1>i, <1>2, <1>3 DEF Ordered, Decides
  <2>2. \A d \in Decision : d > asked => accepted[d] = {} /\ answer'[d] = None
    <3>1. \A d \in Decision : d > asked => d # asked
      BY <1>2 DEF Decision
    <3> QED BY <1>i, <1>3, <3>1 DEF Ordered, Decides
  <2>3. ~done => answer'[asked] = None
    BY <1>2, <1>u
  <2>4. notified' => route' = "human"
    BY <1>i, <1>1 DEF Ordered, Decides
  <2> QED BY <1>i, <1>u, <1>1, <1>2, <2>1, <2>2, <2>3, <2>4 DEF Ordered, Decides
<1> QED BY <1>i, <1>u, <1>4, <1>5, AppKeeps

LEMMA EndsKeeps ==
  ASSUME IInv, Ends, faults' \in 0 .. MaxFaults
  PROVE  IInv'
<1>i. Typed /\ Ordered
  BY DEF IInv
<1>u. /\ run' = 0 /\ closed' = FALSE
      /\ log' = [r \in Request |-> "none"] /\ logOrder' = <<>>
      /\ replaying' = None /\ controls' = <<>> /\ toWorker' = <<>>
      /\ link' = IF link = "open" THEN "broken" ELSE link
      /\ deciding' = FALSE /\ routed' = FALSE
      /\ route' = "human" /\ notified' = FALSE /\ reply' = None
      /\ UNCHANGED <<webVars, receipt, order, awaiting, gen, endVars, toHost, last, sentDirect,
                     asked,
                     answer, accepted, late, history>>
  BY DEF Ends, NoDecision
<1>v. /\ UNCHANGED <<name, web, call>>
      /\ UNCHANGED <<ran, forgotten, slipped, overtaken, assured>>
  BY <1>u DEF webVars, history
<1>1. link' = "none" <=> link = "none"
  BY <1>u
<1>2. HostTyped'
  BY <1>i, <1>u DEF Typed, HostTyped
<1>3. WiresTyped' /\ RuntimeTyped'
  <2>1. <<>> \in Seq(Posted \X Run) /\ <<>> \in Seq(Control)
    BY EmptySeq
  <2>2. WiresTyped'
    BY <1>i, <1>u, <2>1 DEF Typed, WiresTyped
  <2>3. closed' \in BOOLEAN /\ last' \in 0 .. MaxRuns /\ run' \in {0, last'}
    BY <1>i, <1>u DEF Typed, RuntimeTyped
  <2> QED BY <1>i, <1>u, <2>1, <2>2, <2>3 DEF Typed, RuntimeTyped
<1>4. LogTyped'
  <2>1. ToSet(logOrder') = {}
    BY <1>u DEF ToSet
  <2>2. {r \in Request : log'[r] # "none"} = {}
    BY <1>u
  <2>3. log' \in [Request -> Outcome \cup {"none"}]
    BY <1>u
  <2> QED BY <1>u, <2>1, <2>2, <2>3, Constants DEF LogTyped
<1>5. DecisionTyped' /\ Decides'
  BY <1>i, <1>u DEF Typed, DecisionTyped, Ordered, Decides
<1>6. Serving'
  BY <1>i, <1>u, <1>1 DEF Ordered, Serving
<1>7. Queued' /\ Ran1'
  BY <1>i, <1>u, <1>v DEF Ordered, Queued, Ran1, IsInjective
<1>8. Addressed' /\ Replays'
  BY <1>i, <1>u, <1>v DEF Ordered, Addressed, Replays
<1>9. Truthful'
  BY <1>i, <1>u, <1>v, Constants DEF Ordered, Truthful, Happened
<1>10. Awaits'
  BY <1>i, <1>u, <1>v, <1>1 DEF Ordered, Awaits
<1>11. \A q : (Owed(q)' <=> Owed(q)) /\ (Exempt(q)' <=> Exempt(q))
  BY <1>u, <1>v DEF Owed, Exempt
<1>12. Bounded'
  <2>1. ASSUME Up', NEW q \in Posted, ~Exempt(q)'
        PROVE  ToCome(q)' <= (IF Owed(q)' THEN 2 ELSE 1)
    <3>1. ToCome(q) <= (IF Owed(q) THEN 2 ELSE 1)
      BY <1>i, <1>u, <1>1, <1>11, <2>1 DEF Ordered, Bounded
    <3>2. /\ Count(toWorker, {q} \X Run) \in Nat /\ Count(toHost, {q} \X Final) \in Nat
          /\ Count(toWorker', {q} \X Run) = 0
      BY <1>i, <1>u, Counted, CountEmpty DEF Typed, WiresTyped
    <3>3. ToCome(q)' = Count(toHost, {q} \X Final)
      <4>1. log'[q] = "none"
        BY <1>u, Constants
      <4>2. replaying' = None /\ toHost' = toHost
        BY <1>u
      <4>3. ToCome(q)' = 0 + Count(toHost, {q} \X Final) + 0 + 0
        BY <3>2, <4>1, <4>2, ToComeNext
      <4> QED BY <3>2, <4>3
    <3>4. ToCome(q)' <= ToCome(q) /\ ToCome(q) \in Nat /\ ToCome(q)' \in Nat
      BY <3>2, <3>3 DEF ToCome, InLog, InReplay
    <3> QED BY <1>11, <3>1, <3>4
  <2> QED BY <2>1 DEF Bounded
<1>13. Ahead'
  <2>1. \A q : (OwedNext(q) <=> Owed(q)) /\ (ExemptNext(q) <=> Exempt(q))
    BY <1>11, NextForms
  <2> QED BY <1>i, <1>u, <2>1, AheadNext DEF Ordered, Ahead
<1>14. WebTyped' /\ RanTyped' /\ HistoryTyped'
  BY <1>i, <1>u, <1>v, TypeFrames DEF Typed
<1>15. Shown'
  BY <1>i, <1>u, <1>v, Frames
<1> QED BY <1>2, <1>3, <1>4, <1>5, <1>6, <1>7, <1>8, <1>9, <1>10, <1>12, <1>13, <1>14,
           <1>15 DEF IInv, Ordered, Typed

-----------------------------------------------------------------------------
(***************************************************************************)
(* What the runtime runs, logs and answers.                                *)
(***************************************************************************)
LEMMA RanFacts ==
  ASSUME Typed, NEW r \in Posted, run \in Run, Ran(r)
  PROVE  /\ ran' \in [Posted -> [Run -> Nat]]
         /\ \A q \in Posted, g \in Run :
               ran'[q][g] = IF q = r /\ g = run THEN ran[q][g] + 1 ELSE ran[q][g]
         /\ HappenedNext(r)
         /\ \A q \in Posted : Happened(q) => HappenedNext(q)
         /\ \A q \in Posted, g \in Run : ran[q][g] \in Nat
<1>1. ran \in [Posted -> [Run -> Nat]]
  BY DEF Typed, RanTyped
<1>2. ran' = [ran EXCEPT ![r] = [ran[r] EXCEPT ![run] = ran[r][run] + 1]]
  BY DEF Ran
<1>3. \A q \in Posted, g \in Run :
          ran'[q][g] = IF q = r /\ g = run THEN ran[q][g] + 1 ELSE ran[q][g]
  BY <1>1, <1>2
<1>4. ran' \in [Posted -> [Run -> Nat]]
  <2>1. [ran[r] EXCEPT ![run] = ran[r][run] + 1] \in [Run -> Nat]
    BY <1>1
  <2> QED BY <1>1, <1>2, <2>1
<1>5. \A q \in Posted, g \in Run : ran[q][g] \in Nat
  BY <1>1
<1>6. ran'[r][run] > 0
  BY <1>3, <1>5
<1>7. HappenedNext(r)
  BY <1>6 DEF HappenedNext
<1>8. ASSUME NEW q \in Posted, Happened(q)
      PROVE  HappenedNext(q)
  <2>1. PICK g \in Run : ran[q][g] > 0
    BY <1>8 DEF Happened
  <2>2. ran'[q][g] > 0
    BY <1>3, <1>5, <2>1
  <2> QED BY <2>2 DEF HappenedNext
<1> QED BY <1>3, <1>4, <1>5, <1>7, <1>8

LEMMA ToldFacts ==
  ASSUME Typed, NEW r \in Request, NEW o \in Outcome, ToHost(r, o)
  PROVE  /\ toHost' \in Seq(Posted \X Outcome)
         /\ Len(toHost') \in Nat /\ Len(toHost) \in Nat
         /\ \A i \in 1 .. Len(toHost') :
               \/ i \in 1 .. Len(toHost) /\ toHost'[i] = toHost[i]
               \/ /\ i = Len(toHost) + 1 /\ toHost'[i] = <<r, o>>
                  /\ r \in Posted /\ link = "open" /\ ~ending
         /\ \A M : /\ Count(toHost', M) \in Nat /\ Count(toHost, M) \in Nat
                   /\ Count(toHost', M) <=
                        Count(toHost, M) + (IF <<r, o>> \in M THEN 1 ELSE 0)
         /\ link # "open" \/ ending => toHost' = toHost
<1>1. toHost \in Seq(Posted \X Outcome) /\ Len(toHost) \in Nat
  BY LenProperties DEF Typed, WiresTyped
<1>2. CASE r \in Posted /\ link = "open" /\ ~ending
  <2>1. toHost' = Append(toHost, <<r, o>>) /\ <<r, o>> \in Posted \X Outcome
    BY <1>2 DEF ToHost
  <2>2. /\ toHost' \in Seq(Posted \X Outcome) /\ Len(toHost') = Len(toHost) + 1
        /\ \A i \in 1 .. Len(toHost) : toHost'[i] = toHost[i]
        /\ toHost'[Len(toHost) + 1] = <<r, o>>
    BY <1>1, <2>1, Appended
  <2>3. ASSUME NEW M
        PROVE  /\ Count(toHost', M) \in Nat /\ Count(toHost, M) \in Nat
               /\ Count(toHost', M) <=
                        Count(toHost, M) + (IF <<r, o>> \in M THEN 1 ELSE 0)
    <3>1. ASSUME NEW e \in Posted \X Outcome
          PROVE  Count(Append(toHost, e), M) =
                   Count(toHost, M) + (IF e \in M THEN 1 ELSE 0)
      BY <1>1, CountAppend
    <3>2. Count(toHost', M) = Count(toHost, M) + (IF <<r, o>> \in M THEN 1 ELSE 0)
      BY <2>1, <3>1
    <3>3. Count(toHost', M) \in Nat /\ Count(toHost, M) \in Nat
      BY <1>1, <2>2, Counted
    <3>4. CASE <<r, o>> \in M
      BY <3>2, <3>3, <3>4
    <3>5. CASE <<r, o>> \notin M
      BY <3>2, <3>3, <3>5
    <3> QED BY <3>4, <3>5
  <2>4. \A M : /\ Count(toHost', M) \in Nat /\ Count(toHost, M) \in Nat
               /\ Count(toHost', M) <=
                        Count(toHost, M) + (IF <<r, o>> \in M THEN 1 ELSE 0)
    BY <2>3
  <2>5. /\ Len(toHost') \in Nat
        /\ \A i \in 1 .. Len(toHost') :
              \/ i \in 1 .. Len(toHost) /\ toHost'[i] = toHost[i]
              \/ /\ i = Len(toHost) + 1 /\ toHost'[i] = <<r, o>>
                 /\ r \in Posted /\ link = "open" /\ ~ending
    BY <1>1, <1>2, <2>2
  <2> QED BY <1>1, <1>2, <2>2, <2>4, <2>5
<1>3. CASE ~(r \in Posted /\ link = "open" /\ ~ending)
  <2>1. toHost' = toHost
    BY <1>3 DEF ToHost
  <2>2. \A M : Count(toHost, M) \in Nat
    BY <1>1, Counted
  <2> QED BY <1>1, <2>1, <2>2
<1> QED BY <1>2, <1>3

\* An outcome that is sent stands behind "pending" ones.
LEMMA AheadSent ==
  ASSUME Typed, Ordered, NEW r \in Request, NEW o \in Outcome, ToHost(r, o),
         \A q : (OwedNext(q) <=> Owed(q)) /\ (Exempt(q) => ExemptNext(q)),
         o = "pending" => \/ ExemptNext(r)
                          \/ link # "open" \/ ending
                          \/ r \notin Posted
                          \/ /\ Owed(r)
                             /\ \A j \in 1 .. Len(toHost) : toHost[j] \notin {r} \X Final
  PROVE  \A i \in 1 .. Len(toHost') :
            toHost'[i][2] = "pending" /\ ~ExemptNext(toHost'[i][1]) =>
                /\ OwedNext(toHost'[i][1])
                /\ \A j \in 1 .. i - 1 : toHost'[j] \notin {toHost'[i][1]} \X Final
<1> SUFFICES ASSUME NEW i \in 1 .. Len(toHost'), toHost'[i][2] = "pending",
                    ~ExemptNext(toHost'[i][1])
             PROVE  /\ OwedNext(toHost'[i][1])
                    /\ \A j \in 1 .. i - 1 : toHost'[j] \notin {toHost'[i][1]} \X Final
  OBVIOUS
<1>1. /\ Len(toHost') \in Nat /\ Len(toHost) \in Nat
      /\ \A k \in 1 .. Len(toHost') :
            \/ k \in 1 .. Len(toHost) /\ toHost'[k] = toHost[k]
            \/ /\ k = Len(toHost) + 1 /\ toHost'[k] = <<r, o>>
               /\ r \in Posted /\ link = "open" /\ ~ending
  BY ToldFacts
<1>2. ASSUME NEW j \in 1 .. i - 1
      PROVE  toHost'[j] = toHost[j] /\ j \in 1 .. Len(toHost)
  BY <1>1
<1>3. CASE i \in 1 .. Len(toHost) /\ toHost'[i] = toHost[i]
  <2>1. /\ Owed(toHost[i][1])
        /\ \A j \in 1 .. i - 1 : toHost[j] \notin {toHost[i][1]} \X Final
    BY <1>3 DEF Ordered, Ahead
  <2> QED BY <1>2, <1>3, <2>1
<1>4. CASE toHost'[i] = <<r, o>> /\ r \in Posted /\ link = "open" /\ ~ending
  <2>1. /\ toHost'[i][1] = r /\ o = "pending"
    BY <1>4
  <2>2. Owed(r) /\ \A j \in 1 .. Len(toHost) : toHost[j] \notin {r} \X Final
    BY <1>4, <2>1
  <2> QED BY <1>2, <2>1, <2>2
<1> QED BY <1>1, <1>3, <1>4

LEMMA CompleteControlKeeps ==
  ASSUME IInv, CompleteControl
  PROVE  IInv'
<1> DEFINE r == Head(controls)
<1>i. Typed /\ Ordered
  BY DEF IInv
<1>u. /\ run # 0 /\ controls # <<>> /\ controls' = Tail(controls)
      /\ Ran(r) /\ ToHost(r, "accepted")
      /\ log' = [log EXCEPT ![r] = IF Known(r) THEN "accepted" ELSE @]
      /\ AppOnly /\ UNCHANGED decisionVars
  BY DEF CompleteControl
<1>v. /\ UNCHANGED <<webVars, hostVars, toWorker, run, last, closed, logOrder, replaying,
                     sentDirect, forgotten, slipped, overtaken, assured>>
      /\ UNCHANGED <<name, web, call, receipt, order, awaiting, gen, link, endVars, deciding>>
  BY <1>u DEF AppOnly, webVars, hostVars, decisionVars
<1>1. /\ controls' \in Seq(Control) /\ Len(controls') = Len(controls) - 1
      /\ \A i \in 1 .. Len(controls) - 1 : controls'[i] = controls[i + 1]
      /\ r = controls[1] /\ r \in Control /\ Len(controls) \in Nat \ {0}
      /\ controls \in Seq(Control) /\ DOMAIN controls = 1 .. Len(controls)
      /\ DOMAIN controls' = 1 .. Len(controls')
  BY <1>i, <1>u, Tailed, LenProperties DEF Typed, RuntimeTyped
<1> HIDE DEF r
<1>2. /\ r \in Posted /\ r \in Request /\ run \in Run /\ run = last /\ "accepted" \in Outcome
  BY <1>i, <1>u, <1>1, Constants DEF Typed, RuntimeTyped, Ordered, Serving, Outcome
<1>3. /\ log[r] = "pending"
      /\ ran[r][run] = 0 \/ <<r, run>> \in forgotten
      /\ r \in Named => name[r] = run \/ r \in slipped
  BY <1>i, <1>1 DEF Ordered, Queued
<1>4. /\ log' \in [Request -> Outcome \cup {"none"}]
      /\ \A q \in Request : log'[q] = IF q = r THEN "accepted" ELSE log[q]
  BY <1>i, <1>u, <1>2, <1>3 DEF Typed, LogTyped, Known
<1>5. /\ ran' \in [Posted -> [Run -> Nat]]
      /\ \A q \in Posted, g \in Run :
            ran'[q][g] = IF q = r /\ g = run THEN ran[q][g] + 1 ELSE ran[q][g]
      /\ HappenedNext(r) /\ \A q \in Posted : Happened(q) => HappenedNext(q)
      /\ \A q \in Posted, g \in Run : ran[q][g] \in Nat
  BY <1>i, <1>u, <1>2, RanFacts
<1>6. /\ toHost' \in Seq(Posted \X Outcome)
      /\ Len(toHost') \in Nat /\ Len(toHost) \in Nat
      /\ \A i \in 1 .. Len(toHost') :
            \/ i \in 1 .. Len(toHost) /\ toHost'[i] = toHost[i]
            \/ /\ i = Len(toHost) + 1 /\ toHost'[i] = <<r, "accepted">>
               /\ r \in Posted /\ link = "open" /\ ~ending
      /\ \A M : /\ Count(toHost', M) \in Nat /\ Count(toHost, M) \in Nat
                /\ Count(toHost', M) <=
                     Count(toHost, M) + (IF <<r, "accepted">> \in M THEN 1 ELSE 0)
      /\ link # "open" \/ ending => toHost' = toHost
  BY <1>i, <1>u, <1>2, ToldFacts
<1>7. LogTyped'
  <2>1. \A q \in Request : log'[q] # "none" <=> log[q] # "none"
    BY <1>3, <1>4
  <2>2. {q \in Request : log'[q] # "none"} = {q \in Request : log[q] # "none"}
    BY <2>1
  <2> QED BY <1>i, <1>v, <1>4, <2>2 DEF Typed, LogTyped
<1>8. WiresTyped' /\ RuntimeTyped' /\ RanTyped'
  <2>1. WiresTyped'
    BY <1>i, <1>v, <1>6 DEF Typed, WiresTyped
  <2> QED BY <1>i, <1>v, <1>1, <1>5, <2>1 DEF Typed, RuntimeTyped, RanTyped
<1>9. Serving'
  BY <1>i, <1>u, <1>v, <1>6 DEF Ordered, Serving
<1>10. ASSUME NEW i \in 1 .. Len(controls')
       PROVE  /\ i + 1 \in 1 .. Len(controls) /\ controls'[i] = controls[i + 1]
              /\ controls'[i] # r /\ controls'[i] \in Posted /\ controls'[i] \in Request
  <2>1. i + 1 \in 1 .. Len(controls) /\ i + 1 # 1 /\ i \in 1 .. Len(controls) - 1
    BY <1>1
  <2>2. controls[i + 1] # controls[1]
    BY <1>i, <1>1, <2>1 DEF Ordered, Queued, IsInjective
  <2>3. controls[i + 1] \in Control
    BY <1>1, <2>1, ElementOfSeq
  <2> QED BY <1>1, <2>1, <2>2, <2>3, Constants
<1>11. Queued'
  <2>1. IsInjective(controls')
    <3>1. ASSUME NEW i \in 1 .. Len(controls'), NEW j \in 1 .. Len(controls'),
                 controls'[i] = controls'[j]
          PROVE  i = j
      <4>1. /\ i + 1 \in DOMAIN controls /\ j + 1 \in DOMAIN controls
            /\ controls[i + 1] = controls[j + 1]
        BY <1>1, <1>10, <3>1
      <4>2. i + 1 = j + 1
        BY <1>i, <4>1 DEF Ordered, Queued, IsInjective
      <4> QED BY <1>1, <4>2
    <3> QED BY <1>1, <3>1 DEF IsInjective
  <2>2. ASSUME NEW i \in 1 .. Len(controls')
        PROVE  /\ log'[controls'[i]] = "pending"
               /\ ran'[controls'[i]][run] = 0 \/ <<controls'[i], run>> \in forgotten
               /\ controls'[i] \in Named =>
                     name[controls'[i]] = run \/ controls'[i] \in slipped
    <3>1. /\ log[controls'[i]] = "pending"
          /\ ran[controls'[i]][run] = 0 \/ <<controls'[i], run>> \in forgotten
          /\ controls'[i] \in Named =>
                name[controls'[i]] = run \/ controls'[i] \in slipped
      BY <1>i, <1>10 DEF Ordered, Queued
    <3> QED BY <1>2, <1>4, <1>5, <1>10, <3>1
  <2> QED BY <1>v, <2>1, <2>2 DEF Queued
<1>12. Ran1'
  <2>1. ASSUME NEW q \in Posted, NEW g \in Run
        PROVE  /\ ran'[q][g] <= 1 \/ <<q, g>> \in forgotten
               /\ g > last => ran'[q][g] = 0
    <3>1. g > last => g # run
      BY <1>2, Constants
    <3> QED BY <1>i, <1>2, <1>3, <1>5, <3>1 DEF Ordered, Ran1
  <2>2. ASSUME NEW q \in Posted, log'[q] = "none"
        PROVE  ran'[q][run] = 0 \/ <<q, run>> \in forgotten
    <3>1. q # r /\ log[q] = "none"
      BY <1>4, <2>2, Constants
    <3> QED BY <1>i, <1>u, <1>2, <1>5, <3>1 DEF Ordered, Ran1
  <2> QED BY <1>v, <2>1, <2>2 DEF Ran1
<1>13. Addressed'
  <2>1. ASSUME NEW q \in Named, NEW g \in Run, ran'[q][g] > 0
        PROVE  g = name[q] \/ q \in slipped
    <3>1. q \in Posted
      BY Constants
    <3> QED BY <1>i, <1>3, <1>5, <2>1, <3>1 DEF Ordered, Addressed
  <2> QED BY <1>i, <1>v, <2>1 DEF Ordered, Addressed
<1>14. Truthful'
  <2>1. \A q \in Posted : "accepted" \in {web[q], receipt[q], log'[q]} => HappenedNext(q)
    BY <1>i, <1>4, <1>5, Constants DEF Ordered, Truthful
  <2>2. ASSUME NEW i \in 1 .. Len(toHost'), toHost'[i][2] = "accepted"
        PROVE  HappenedNext(toHost'[i][1])
    <3>1. CASE i \in 1 .. Len(toHost) /\ toHost'[i] = toHost[i]
      <4>1. toHost[i][1] \in Posted
        BY <1>i, <3>1, ElementOfSeq DEF Typed, WiresTyped
      <4>2. Happened(toHost[i][1])
        BY <1>i, <2>2, <3>1 DEF Ordered, Truthful
      <4> QED BY <1>5, <3>1, <4>1, <4>2
    <3>2. CASE toHost'[i] = <<r, "accepted">>
      BY <1>5, <3>2
    <3> QED BY <1>6, <3>1, <3>2
  <2>3. replaying # None /\ replaying[2] = "accepted" => HappenedNext(replaying[1])
    BY <1>i, <1>5 DEF Ordered, Truthful, Typed, RuntimeTyped
  <2>4. \A q \in assured : HappenedNext(q)
    BY <1>i, <1>5 DEF Ordered, Truthful, Typed, HistoryTyped
  <2> QED BY <1>v, <2>1, <2>2, <2>3, <2>4, TruthfulNext
<1>15. Replays'
  <2>1. replaying # None => replaying[1] \in Request
    BY <1>i, Constants DEF Typed, RuntimeTyped
  <2> QED BY <1>i, <1>v, <1>3, <1>4, <2>1 DEF Ordered, Replays
<1>16. \A q : (OwedNext(q) <=> Owed(q)) /\ (ExemptNext(q) <=> Exempt(q))
  BY <1>v DEF Owed, OwedNext, Exempt, ExemptNext
<1>17. Bounded'
  <2>1. ASSUME Up, NEW q \in Posted, ~ExemptNext(q)
        PROVE  ToCome(q)' <= (IF OwedNext(q) THEN 2 ELSE 1)
    <3>1. ToCome(q) <= (IF Owed(q) THEN 2 ELSE 1)
      BY <1>i, <1>16, <2>1 DEF Ordered, Bounded
    <3>2. /\ Count(toHost', {q} \X Final) \in Nat /\ Count(toHost, {q} \X Final) \in Nat
          /\ Count(toHost', {q} \X Final) <=
                Count(toHost, {q} \X Final) + (IF q = r THEN 1 ELSE 0)
      <4>1. <<r, "accepted">> \in {q} \X Final => q = r
        OBVIOUS
      <4> QED BY <1>6, <4>1
    <3>3. Count(toWorker, {q} \X Run) \in Nat
      BY <1>i, Counted DEF Typed, WiresTyped
    <3>4. (IF log'[q] = "pending" THEN 1 ELSE 0) + (IF q = r THEN 1 ELSE 0) =
              (IF log[q] = "pending" THEN 1 ELSE 0)
      BY <1>3, <1>4, Constants
    <3>5. ToCome(q)' <= ToCome(q) /\ ToCome(q) \in Nat /\ ToCome(q)' \in Nat
      BY <1>v, <3>2, <3>3, <3>4, ToComeNext DEF ToCome, InLog, InReplay
    <3> QED BY <1>16, <3>1, <3>5
  <2> QED BY <1>v, <2>1, NextForms DEF Bounded
<1>18. Ahead'
  <2>1. \A i \in 1 .. Len(toHost') :
            toHost'[i][2] = "pending" /\ ~ExemptNext(toHost'[i][1]) =>
                /\ OwedNext(toHost'[i][1])
                /\ \A j \in 1 .. i - 1 : toHost'[j] \notin {toHost'[i][1]} \X Final
    BY <1>i, <1>u, <1>2, <1>16, AheadSent
  <2>2. ASSUME Up, replaying # None, replaying[2] = "pending",
               ~ExemptNext(replaying[1]), log'[replaying[1]] = "pending"
        PROVE  /\ OwedNext(replaying[1])
               /\ \A j \in 1 .. Len(toHost') : toHost'[j] \notin {replaying[1]} \X Final
    <3>1. replaying[1] \in Request
      BY <1>i, <2>2, Constants DEF Typed, RuntimeTyped
    <3>2. replaying[1] # r /\ log[replaying[1]] = "pending"
      BY <1>4, <2>2, <3>1
    <3>3. /\ Owed(replaying[1])
          /\ \A j \in 1 .. Len(toHost) : toHost[j] \notin {replaying[1]} \X Final
      BY <1>i, <1>16, <2>2, <3>2 DEF Ordered, Ahead
    <3> QED BY <1>6, <1>16, <3>2, <3>3
  <2> QED BY <1>v, <2>1, <2>2, AheadNext
<1>19. WebTyped' /\ HostTyped' /\ DecisionTyped' /\ HistoryTyped'
  BY <1>i, <1>u, <1>v, TypeFrames DEF Typed
<1>20. Awaits' /\ Shown' /\ Decides'
  BY <1>i, <1>u, <1>v, Frames
<1> QED BY <1>7, <1>8, <1>9, <1>11, <1>12, <1>13, <1>14, <1>15, <1>17, <1>18, <1>19,
           <1>20 DEF IInv, Ordered, Typed

\* A new command in the log: what goes for it was done, and is forgotten.
LEMMA LoggedFacts ==
  ASSUME Typed, NEW r \in Request, r \in Posted => log[r] = "none", run \in Run,
         NEW held \in LogRoom, NEW outcome \in Outcome, Logged(r, held, outcome)
  PROVE  /\ LogTyped'
         /\ log'[r] = outcome
         /\ \A q \in Request : q # r =>
               \/ log'[q] = log[q]
               \/ log'[q] = "none" /\ log[q] \in Final /\ <<q, run>> \in forgotten'
         /\ forgotten \subseteq forgotten' /\ forgotten' \subseteq Request \X Run
<1>1. /\ log \in [Request -> Outcome \cup {"none"}]
      /\ logOrder \in Seq(Request) /\ Len(logOrder) <= LogLimit
      /\ ToSet(logOrder) = {q \in Request : log[q] # "none"}
      /\ LogLimit \in Nat \ {0}
  BY Constants DEF Typed, LogTyped
<1>2. /\ held \in Seq(Request) /\ Len(held) < LogLimit
      /\ ToSet(held) \subseteq ToSet(logOrder)
      /\ ToSet(logOrder) \ DoneInLog \subseteq ToSet(held)
  BY <1>1, Roomy DEF LogRoom
<1>3. /\ logOrder' = Append(held, r)
      /\ log' = [q \in Request |-> IF q = r THEN outcome
                                   ELSE IF q \in ToSet(held) THEN log[q] ELSE "none"]
      /\ forgotten' = forgotten \cup {<<q, run>> : q \in ToSet(logOrder) \ ToSet(held)}
  BY DEF Logged
<1>4. /\ logOrder' \in Seq(Request) /\ Len(logOrder') <= LogLimit
      /\ ToSet(logOrder') = ToSet(held) \cup {r}
  <2>1. /\ Append(held, r) \in Seq(Request) /\ Len(Append(held, r)) = Len(held) + 1
        /\ Len(held) \in Nat /\ ToSet(Append(held, r)) = ToSet(held) \cup {r}
    BY <1>2, Appended, AppendedSet
  <2> QED BY <1>1, <1>2, <1>3, <2>1
<1>5. \A q \in Request : q # r =>
          \/ log'[q] = log[q]
          \/ log'[q] = "none" /\ log[q] \in Final /\ <<q, run>> \in forgotten'
  <2> SUFFICES ASSUME NEW q \in Request, q # r, log'[q] # log[q]
               PROVE  log'[q] = "none" /\ log[q] \in Final /\ <<q, run>> \in forgotten'
    OBVIOUS
  <2>1. q \notin ToSet(held) /\ log'[q] = "none" /\ log[q] # "none"
    BY <1>3
  <2>2. q \in ToSet(logOrder) /\ q \in DoneInLog
    BY <1>1, <1>2, <2>1
  <2> QED BY <1>3, <2>1, <2>2 DEF DoneInLog, Final
<1>6. LogTyped'
  <2>1. log' \in [Request -> Outcome \cup {"none"}]
    BY <1>1, <1>3
  <2>2. ASSUME NEW q \in Request
        PROVE  log'[q] # "none" <=> q = r \/ q \in ToSet(held)
    BY <1>1, <1>2, <1>3 DEF Outcome
  <2>3. ToSet(held) \subseteq Request
    BY <1>1, <1>2
  <2>4. ToSet(logOrder') = {q \in Request : log'[q] # "none"}
    BY <1>4, <2>2, <2>3
  <2> QED BY <1>4, <2>1, <2>4 DEF LogTyped
<1>7. forgotten \subseteq forgotten' /\ forgotten' \subseteq Request \X Run
  BY <1>1, <1>3 DEF Typed, RanTyped
<1> QED BY <1>3, <1>5, <1>6, <1>7

\* A command of the head of the wire leaves it, alone or with all the rest.
Shrinks(r) ==
    /\ toWorker' \in Seq(Posted \X Run)
    /\ \A i \in 1 .. Len(toWorker') :
          \E j \in 1 .. Len(toWorker) : toWorker'[i] = toWorker[j]
    /\ \A q \in Posted : Count(toWorker', {q} \X Run) + (IF q = r THEN 1 ELSE 0)
                            <= Count(toWorker, {q} \X Run)

\* How a command that is taken in is answered, run or queued.
Answered(r, outcome) ==
    /\ IF outcome = "pending" THEN UNCHANGED toHost ELSE ToHost(r, outcome)
    /\ \/ ran' = ran /\ (outcome = "accepted" => r \notin Posted)
       \/ r \in Posted /\ Ran(r) /\ outcome = "accepted"
    /\ \/ controls' = controls
       \/ /\ r \in Control /\ controls' = Append(controls, r)
          /\ outcome = "pending" /\ ran' = ran /\ (r \in Named => name[r] = run \/ r \in slipped)

LEMMA TakenKeeps ==
  ASSUME IInv, NEW r \in Request, r \in Posted => log[r] = "none", Listening,
         NEW held \in LogRoom, NEW outcome \in Outcome, Logged(r, held, outcome),
         Shrinks(r), Answered(r, outcome),
         link' = "none" <=> link = "none", link' \in {"open", "broken", "none"},
         r \in Named /\ ran' # ran => name[r] = run \/ r \in slipped,
         UNCHANGED <<webVars, receipt, order, awaiting, gen, faults, endVars, run, last,
                     closed, replaying, slipped, overtaken, assured, deciding>>,
         sentDirect' \subseteq Direct, DecisionTyped', Decides'
  PROVE  IInv'
<1>i. Typed /\ Ordered
  BY DEF IInv
<1>v. UNCHANGED <<name, web, call, posts>>
  BY DEF webVars
<1>1. run # 0 /\ replaying = None /\ run = last /\ run \in Run /\ run \in Nat
  BY <1>i, Constants DEF Listening, Typed, RuntimeTyped, Ordered, Serving
<1>2. /\ LogTyped' /\ log'[r] = outcome
      /\ \A q \in Request : q # r =>
            \/ log'[q] = log[q]
            \/ log'[q] = "none" /\ log[q] \in Final /\ <<q, run>> \in forgotten'
      /\ forgotten \subseteq forgotten' /\ forgotten' \subseteq Request \X Run
  BY <1>i, <1>1, LoggedFacts
<1>3. \A q \in Posted, g \in Run :
          ran'[q][g] = ran[q][g] \/ (q = r /\ g = run /\ ran'[q][g] = ran[q][g] + 1)
  <2>1. CASE ran' = ran
    BY <2>1
  <2>2. CASE r \in Posted /\ Ran(r)
    BY <1>i, <1>1, <2>2, RanFacts
  <2> QED BY <2>1, <2>2 DEF Answered
<1>4. /\ ran' \in [Posted -> [Run -> Nat]]
      /\ \A q \in Posted, g \in Run : ran[q][g] \in Nat
      /\ \A q \in Posted : Happened(q) => HappenedNext(q)
      /\ outcome = "accepted" /\ r \in Posted => HappenedNext(r)
  <2>1. CASE ran' = ran /\ (outcome = "accepted" => r \notin Posted)
    BY <1>i, <2>1 DEF Typed, RanTyped, Happened, HappenedNext
  <2>2. CASE r \in Posted /\ Ran(r)
    BY <1>i, <1>1, <2>2, RanFacts
  <2> QED BY <2>1, <2>2 DEF Answered
<1>5. r \in Posted => ran[r][run] = 0 \/ <<r, run>> \in forgotten
  BY <1>i, <1>1 DEF Ordered, Ran1
<1>6. /\ toHost' \in Seq(Posted \X Outcome)
      /\ \A i \in 1 .. Len(toHost') :
            \/ i \in 1 .. Len(toHost) /\ toHost'[i] = toHost[i]
            \/ toHost'[i] = <<r, outcome>> /\ r \in Posted
      /\ \A M : /\ Count(toHost', M) \in Nat /\ Count(toHost, M) \in Nat
                /\ Count(toHost', M) <=
                     Count(toHost, M) + (IF <<r, outcome>> \in M THEN 1 ELSE 0)
      /\ link # "open" \/ ending => toHost' = toHost
  <2>1. CASE outcome = "pending"
    <3>1. toHost' = toHost
      BY <2>1 DEF Answered
    <3>2. toHost \in Seq(Posted \X Outcome)
      BY <1>i DEF Typed, WiresTyped
    <3>3. \A M : Count(toHost, M) \in Nat
      BY <3>2, Counted
    <3> QED BY <3>1, <3>2, <3>3
  <2>2. CASE outcome # "pending"
    <3>1. ToHost(r, outcome)
      BY <2>2 DEF Answered
    <3> QED BY <1>i, <3>1, ToldFacts
  <2> QED BY <2>1, <2>2
<1>7. WebTyped' /\ HostTyped' /\ WiresTyped' /\ RanTyped' /\ HistoryTyped'
  BY <1>i, <1>v, <1>2, <1>4, <1>6
     DEF Typed, WebTyped, HostTyped, WiresTyped, RanTyped, HistoryTyped, Shrinks
<1>8. RuntimeTyped'
  <2>1. controls' \in Seq(Control)
    BY <1>i, Appended DEF Answered, Typed, RuntimeTyped
  <2> QED BY <1>i, <2>1 DEF Typed, RuntimeTyped
<1>9. Serving'
  BY <1>i, <1>1, <1>6 DEF Ordered, Serving
<1>10. \A c \in Control : c \in Posted /\ c \in Request
  BY Constants
<1>11. ASSUME NEW i \in 1 .. Len(controls)
       PROVE  /\ controls[i] \in Control /\ controls[i] # r
              /\ log'[controls[i]] = "pending"
              /\ ran'[controls[i]][run] = 0 \/ <<controls[i], run>> \in forgotten'
              /\ controls[i] \in Named =>
                    name[controls[i]] = run \/ controls[i] \in slipped
  <2>1. controls[i] \in Control
    BY <1>i, ElementOfSeq DEF Typed, RuntimeTyped
  <2>2. /\ log[controls[i]] = "pending"
        /\ ran[controls[i]][run] = 0 \/ <<controls[i], run>> \in forgotten
        /\ controls[i] \in Named => name[controls[i]] = run \/ controls[i] \in slipped
    BY <1>i DEF Ordered, Queued
  <2>3. controls[i] # r
    BY <1>10, <2>1, <2>2
  <2>4. log'[controls[i]] = "pending"
    BY <1>2, <1>10, <2>1, <2>2, <2>3 DEF Final
  <2>5. ran'[controls[i]][run] = ran[controls[i]][run]
    BY <1>1, <1>3, <1>10, <2>1, <2>3
  <2> QED BY <1>2, <2>1, <2>2, <2>3, <2>4, <2>5
<1>12. Queued'
  <2>1. CASE controls' = controls
    BY <1>i, <1>v, <1>11, <2>1 DEF Ordered, Queued
  <2>2. CASE /\ r \in Control /\ controls' = Append(controls, r)
             /\ outcome = "pending" /\ ran' = ran
             /\ (r \in Named => name[r] = run \/ r \in slipped)
    <3>1. /\ controls' \in Seq(Control) /\ Len(controls') = Len(controls) + 1
          /\ \A i \in 1 .. Len(controls) : controls'[i] = controls[i]
          /\ controls'[Len(controls) + 1] = r /\ Len(controls) \in Nat
          /\ DOMAIN controls' = 1 .. Len(controls')
          /\ DOMAIN controls = 1 .. Len(controls)
      <4>1. controls \in Seq(Control)
        BY <1>i DEF Typed, RuntimeTyped
      <4>2. controls' \in Seq(Control)
        BY <2>2, <4>1, Appended
      <4>3. DOMAIN controls' = 1 .. Len(controls') /\ DOMAIN controls = 1 .. Len(controls)
        BY <4>1, <4>2, LenProperties
      <4> QED BY <2>2, <4>1, <4>2, <4>3, Appended
    <3>2. IsInjective(controls')
      <4>1. ASSUME NEW i \in 1 .. Len(controls'), NEW j \in 1 .. Len(controls'),
                   controls'[i] = controls'[j]
            PROVE  i = j
        <5>1. CASE i \in 1 .. Len(controls) /\ j \in 1 .. Len(controls)
          BY <1>i, <3>1, <4>1, <5>1 DEF Ordered, Queued, IsInjective
        <5>2. i = Len(controls) + 1 => controls'[i] = r
          BY <3>1
        <5>3. j = Len(controls) + 1 => controls'[j] = r
          BY <3>1
        <5>4. i \in 1 .. Len(controls) => controls'[i] # r
          BY <1>11, <3>1
        <5>5. j \in 1 .. Len(controls) => controls'[j] # r
          BY <1>11, <3>1
        <5>6. i \in 1 .. Len(controls) \/ i = Len(controls) + 1
          BY <3>1
        <5>7. j \in 1 .. Len(controls) \/ j = Len(controls) + 1
          BY <3>1
        <5> QED BY <4>1, <5>1, <5>2, <5>3, <5>4, <5>5, <5>6, <5>7
      <4> QED BY <3>1, <4>1 DEF IsInjective
    <3>3. ASSUME NEW i \in 1 .. Len(controls')
          PROVE  /\ log'[controls'[i]] = "pending"
                 /\ ran'[controls'[i]][run] = 0 \/ <<controls'[i], run>> \in forgotten'
                 /\ controls'[i] \in Named =>
                       name[controls'[i]] = run \/ controls'[i] \in slipped
      <4>1. CASE i \in 1 .. Len(controls)
        BY <1>11, <3>1, <4>1
      <4>2. CASE i = Len(controls) + 1
        BY <1>2, <1>5, <1>10, <2>2, <3>1, <4>2
      <4> QED BY <3>1, <4>1, <4>2
    <3> QED BY <1>v, <3>2, <3>3 DEF Queued
  <2> QED BY <2>1, <2>2 DEF Answered
<1>13. Ran1'
  <2>1. ASSUME NEW q \in Posted, NEW g \in Run
        PROVE  /\ ran'[q][g] <= 1 \/ <<q, g>> \in forgotten'
               /\ g > last => ran'[q][g] = 0
    <3>1. g > last => g # run
      BY <1>1, Constants
    <3>2. /\ ran[q][g] <= 1 \/ <<q, g>> \in forgotten
          /\ g > last => ran[q][g] = 0
      BY <1>i DEF Ordered, Ran1
    <3>3. CASE ran'[q][g] = ran[q][g]
      BY <1>2, <3>2, <3>3
    <3>4. CASE q = r /\ g = run /\ ran'[q][g] = ran[q][g] + 1
      BY <1>2, <1>5, <3>1, <3>4
    <3> QED BY <1>3, <3>3, <3>4
  <2>2. ASSUME NEW q \in Posted, log'[q] = "none"
        PROVE  ran'[q][run] = 0 \/ <<q, run>> \in forgotten'
    <3>1. q # r /\ q \in Request
      BY <1>2, <2>2, Constants DEF Outcome
    <3>2. ran'[q][run] = ran[q][run]
      BY <1>1, <1>3, <3>1
    <3>3. log[q] = "none" => ran[q][run] = 0 \/ <<q, run>> \in forgotten
      BY <1>i, <1>1 DEF Ordered, Ran1
    <3> QED BY <1>2, <2>2, <3>1, <3>2, <3>3
  <2> QED BY <2>1, <2>2 DEF Ran1
<1>14. Addressed'
  <2>1. ASSUME NEW q \in Named, NEW g \in Run, ran'[q][g] > 0
        PROVE  g = name[q] \/ q \in slipped
    <3>1. q \in Posted
      BY Constants
    <3>2. CASE ran'[q][g] = ran[q][g]
      BY <1>i, <2>1, <3>2 DEF Ordered, Addressed
    <3>3. CASE q = r /\ g = run /\ ran'[q][g] = ran[q][g] + 1
      <4>1. ran' # ran
        BY <1>4, <3>1, <3>3
      <4> QED BY <3>3, <4>1
    <3> QED BY <1>3, <3>1, <3>2, <3>3
  <2>2. ASSUME NEW i \in 1 .. Len(toWorker'), toWorker'[i][1] \in Named
        PROVE  toWorker'[i][2] = name[toWorker'[i][1]] \/ toWorker'[i][1] \in slipped
    BY <1>i, <2>2 DEF Shrinks, Ordered, Addressed
  <2> QED BY <1>v, <2>1, <2>2 DEF Addressed
<1>15. Truthful'
  <2>1. ASSUME NEW q \in Posted, "accepted" \in {web[q], receipt[q], log'[q]}
        PROVE  HappenedNext(q)
    <3>1. q \in Request
      BY Constants
    <3>2. CASE "accepted" \in {web[q], receipt[q], log[q]}
      BY <1>i, <1>4, <3>2 DEF Ordered, Truthful
    <3>3. CASE q = r /\ outcome = "accepted"
      BY <1>4, <3>3
    <3> QED BY <1>2, <2>1, <3>1, <3>2, <3>3
  <2>2. ASSUME NEW i \in 1 .. Len(toHost'), toHost'[i][2] = "accepted"
        PROVE  HappenedNext(toHost'[i][1])
    <3>1. CASE i \in 1 .. Len(toHost) /\ toHost'[i] = toHost[i]
      <4>1. toHost[i][1] \in Posted
        BY <1>i, <3>1, ElementOfSeq DEF Typed, WiresTyped
      <4>2. Happened(toHost[i][1])
        BY <1>i, <2>2, <3>1 DEF Ordered, Truthful
      <4> QED BY <1>4, <3>1, <4>1, <4>2
    <3>2. CASE toHost'[i] = <<r, outcome>> /\ r \in Posted
      BY <1>4, <2>2, <3>2
    <3> QED BY <1>6, <3>1, <3>2
  <2>3. \A q \in assured : HappenedNext(q)
    BY <1>i, <1>4 DEF Ordered, Truthful, Typed, HistoryTyped
  <2> QED BY <1>1, <1>v, <2>1, <2>2, <2>3, TruthfulNext
<1>16. Replays'
  BY <1>1 DEF Replays
<1>17. Awaits' /\ Shown'
  BY <1>i, <1>v DEF Ordered, Awaits, Shown, Exempt
<1>18. \A q : (OwedNext(q) <=> Owed(q)) /\ (ExemptNext(q) <=> Exempt(q))
  BY <1>v DEF Owed, OwedNext, Exempt, ExemptNext
<1>19. Bounded'
  <2>1. ASSUME Up, NEW q \in Posted, ~ExemptNext(q)
        PROVE  ToCome(q)' <= (IF OwedNext(q) THEN 2 ELSE 1)
    <3>1. ToCome(q) <= (IF Owed(q) THEN 2 ELSE 1)
      BY <1>i, <1>18, <2>1 DEF Ordered, Bounded
    <3>2. /\ Count(toHost', {q} \X Final) \in Nat /\ Count(toHost, {q} \X Final) \in Nat
          /\ Count(toHost', {q} \X Final) <= Count(toHost, {q} \X Final)
                + (IF <<r, outcome>> \in {q} \X Final THEN 1 ELSE 0)
      BY <1>6
    <3>3. /\ Count(toWorker, {q} \X Run) \in Nat /\ Count(toWorker', {q} \X Run) \in Nat
          /\ Count(toWorker', {q} \X Run) + (IF q = r THEN 1 ELSE 0)
                <= Count(toWorker, {q} \X Run)
      BY <1>i, Counted DEF Typed, WiresTyped, Shrinks
    <3>4. (IF log'[q] = "pending" THEN 1 ELSE 0)
             + (IF <<r, outcome>> \in {q} \X Final THEN 1 ELSE 0)
             <= (IF log[q] = "pending" THEN 1 ELSE 0) + (IF q = r THEN 1 ELSE 0)
      <4>1. CASE q = r
        BY <1>2, <4>1 DEF Final
      <4>2. CASE q # r
        <5>1. <<r, outcome>> \notin {q} \X Final
          BY <4>2
        <5>2. log'[q] = "pending" => log[q] = "pending"
          BY <1>2, <4>2, Constants
        <5> QED BY <4>2, <5>1, <5>2
      <4> QED BY <4>1, <4>2
    <3>5. ToCome(q)' <= ToCome(q) /\ ToCome(q) \in Nat /\ ToCome(q)' \in Nat
      <4> DEFINE a == IF log'[q] = "pending" THEN 1 ELSE 0
                 b == IF log[q] = "pending" THEN 1 ELSE 0
                 c == IF <<r, outcome>> \in {q} \X Final THEN 1 ELSE 0
                 d == IF q = r THEN 1 ELSE 0
      <4>1. a \in Nat /\ b \in Nat /\ c \in Nat /\ d \in Nat /\ a + c <= b + d
        BY <3>4
      <4>2. /\ ToCome(q) = Count(toWorker, {q} \X Run) + Count(toHost, {q} \X Final) + b
            /\ ToCome(q)' = Count(toWorker', {q} \X Run)
                               + Count(toHost', {q} \X Final) + a
        BY <1>1, <3>2, <3>3, ToComeNext DEF ToCome, InLog, InReplay
      <4>3. /\ Count(toHost', {q} \X Final) <= Count(toHost, {q} \X Final) + c
            /\ Count(toWorker', {q} \X Run) + d <= Count(toWorker, {q} \X Run)
        BY <3>2, <3>3
      <4> HIDE DEF a, b, c, d
      <4> QED BY <3>2, <3>3, <4>1, <4>2, <4>3
    <3> QED BY <1>18, <3>1, <3>5
  <2> QED BY <2>1, NextForms DEF Bounded
<1>20. Ahead'
  <2>1. ASSUME NEW i \in 1 .. Len(toHost'), toHost'[i][2] = "pending",
               ~ExemptNext(toHost'[i][1])
        PROVE  /\ OwedNext(toHost'[i][1])
               /\ \A j \in 1 .. i - 1 : toHost'[j] \notin {toHost'[i][1]} \X Final
    <3>1. CASE outcome = "pending"
      <4>1. toHost' = toHost
        BY <3>1 DEF Answered
      <4> QED BY <1>i, <1>18, <2>1, <4>1 DEF Ordered, Ahead
    <3>2. CASE outcome # "pending"
      <4>1. ToHost(r, outcome)
        BY <3>2 DEF Answered
      <4> QED BY <1>i, <1>18, <2>1, <3>2, <4>1, AheadSent
    <3> QED BY <3>1, <3>2
  <2> QED BY <1>1, <2>1, AheadNext
<1> QED BY <1>2, <1>7, <1>8, <1>9, <1>12, <1>13, <1>14, <1>15, <1>16, <1>17, <1>19, <1>20
        DEF IInv, Ordered, Typed

\* What a command does to the decision, and how it is answered.
LEMMA CommandShape ==
  ASSUME Typed, Ordered, NEW r \in Request, NEW held, run \in Run, Command(r, held),
         r \in Named => name[r] = run \/ r \in slipped
  PROVE  /\ \E outcome \in Outcome : Logged(r, held, outcome) /\ Answered(r, outcome)
         /\ deciding' = deciding /\ DecisionTyped' /\ Decides'
<1> DEFINE outcome == IF Refused(r) THEN "refused"
                      ELSE IF r \in Control THEN "pending" ELSE "accepted"
<1>u. /\ Logged(r, held, outcome)
      /\ IF outcome = "pending" THEN UNCHANGED toHost ELSE ToHost(r, outcome)
      /\ IF Refused(r) THEN UNCHANGED <<decisionVars, controls, ran>>
         ELSE \/ r \in Reply \cup ParentReply /\ ReplyLocked(r)
              \/ r \in Yield /\ Yielded
              \/ r \in Control /\ QueueIdleControl(r)
  BY DEF Command
<1>o. /\ outcome \in Outcome
      /\ Refused(r) => outcome = "refused"
      /\ ~Refused(r) /\ r \in Control => outcome = "pending"
      /\ ~Refused(r) /\ r \notin Control => outcome = "accepted"
  BY DEF Outcome
<1> HIDE DEF outcome
<1>1. SUFFICES Answered(r, outcome) /\ deciding' = deciding /\ DecisionTyped' /\ Decides'
  BY <1>u, <1>o
<1>2. CASE Refused(r)
  <2>1. UNCHANGED <<decisionVars, controls, ran>> /\ outcome = "refused"
    BY <1>u, <1>o, <1>2
  <2>2. Answered(r, outcome)
    BY <1>u, <2>1 DEF Answered
  <2>3. deciding' = deciding
    BY <2>1 DEF decisionVars
  <2> QED BY <2>1, <2>2, <2>3, TypeFrames, Frames
<1>3. CASE ~Refused(r) /\ r \in Reply \cup ParentReply /\ ReplyLocked(r)
  <2>1. /\ reply' = r
        /\ accepted' = [accepted EXCEPT ![asked] = accepted[asked] \cup {r}]
        /\ late' = IF r \in ParentReply /\ notified THEN late \cup {r} ELSE late
        /\ IF r \in Posted THEN Ran(r) ELSE ran' = ran
        /\ UNCHANGED <<deciding, asked, route, routed, answer, notified, controls>>
    BY <1>3 DEF ReplyLocked
  <2>2. r \notin Control /\ outcome = "accepted" /\ r # None
    BY <1>o, <1>3, Constants
  <2>3. deciding /\ reply = None /\ (r \in ParentReply => route = "parent")
    <3>1. r \notin Yield /\ r \notin Control
      BY <1>3, Constants
    <3>2. ~ReplyRefused(r)
      BY <1>3, <3>1 DEF Refused
    <3> QED BY <3>2 DEF ReplyRefused, StaleLocked
  <2>4. Answered(r, outcome)
    BY <1>u, <2>1, <2>2 DEF Answered
  <2>5. /\ asked \in Decision /\ accepted[asked] = {} /\ answer[asked] = None
        /\ r \in ParentReply => ~notified
    BY <1>3, <2>3 DEF Ordered, Decides
  <2>6. /\ accepted \in [Decision -> SUBSET (Reply \cup ParentReply)]
        /\ accepted' = [accepted EXCEPT ![asked] = {r}] /\ late' = late
    BY <2>1, <2>5 DEF Typed, DecisionTyped
  <2>7. /\ accepted' \in [Decision -> SUBSET (Reply \cup ParentReply)]
        /\ \A d \in Decision : accepted'[d] = IF d = asked THEN {r} ELSE accepted[d]
    BY <1>3, <2>5, <2>6
  <2>8. DecisionTyped'
    BY <1>3, <2>1, <2>6, <2>7 DEF Typed, DecisionTyped
  <2>9. Decides'
    <3>1. \A d \in Decision :
              accepted'[d] = {} \/ \E x \in accepted'[d] : accepted'[d] = {x}
      BY <2>7 DEF Ordered, Decides
    <3>2. \A d \in Decision : answer[d] # None => accepted'[d] = {answer[d]}
      BY <2>5, <2>7 DEF Ordered, Decides
    <3>3. \A d \in Decision : d > asked => accepted'[d] = {} /\ answer[d] = None
      <4>1. \A d \in Decision : d > asked => d # asked
        BY <2>5 DEF Decision
      <4> QED BY <2>7, <4>1 DEF Ordered, Decides
    <3>4. accepted'[asked] = {reply'} \ {None}
      BY <2>1, <2>2, <2>5, <2>7
    <3> QED BY <2>1, <2>3, <2>5, <2>6, <3>1, <3>2, <3>3, <3>4 DEF Ordered, Decides
  <2> QED BY <2>1, <2>4, <2>8, <2>9
<1>4. CASE ~Refused(r) /\ r \in Yield /\ Yielded
  <2>1. /\ route' = "human" /\ notified' = TRUE
        /\ UNCHANGED <<deciding, asked, routed, reply, answer, accepted, late, controls, ran>>
    BY <1>4 DEF Yielded, EscalateLocked
  <2>2. r \notin Reply \cup ParentReply /\ r \notin Control /\ r \notin Posted
    BY <1>4, Constants
  <2>3. deciding
    BY <1>4, <2>2 DEF Refused, StaleLocked
  <2>4. Answered(r, outcome)
    BY <1>u, <1>o, <1>4, <2>1, <2>2 DEF Answered
  <2>5. DecisionTyped'
    BY <2>1 DEF Typed, DecisionTyped
  <2>6. Decides'
    BY <2>1, <2>3 DEF Ordered, Decides
  <2> QED BY <2>1, <2>4, <2>5, <2>6
<1>5. CASE ~Refused(r) /\ r \in Control /\ QueueIdleControl(r)
  <2>1. controls' = Append(controls, r) /\ UNCHANGED <<decisionVars, ran>>
        /\ outcome = "pending"
    BY <1>o, <1>5 DEF QueueIdleControl
  <2>2. Answered(r, outcome)
    BY <1>u, <1>5, <2>1 DEF Answered
  <2>3. deciding' = deciding
    BY <2>1 DEF decisionVars
  <2> QED BY <2>1, <2>2, <2>3, TypeFrames, Frames
<1> QED BY <1>u, <1>2, <1>3, <1>4, <1>5

LEMMA TakeKeeps ==
  ASSUME IInv, Take
  PROVE  IInv'
<1> DEFINE r == Head(toWorker)[1]
<1>i. Typed /\ Ordered
  BY DEF IInv
<1>u. /\ Listening /\ toWorker # <<>> /\ Head(toWorker)[2] = run /\ ~Known(r) /\ ~closed
      /\ toWorker' = Tail(toWorker)
      /\ UNCHANGED <<webVars, hostVars, run, last, closed, replaying, sentDirect,
                     slipped, overtaken, assured>>
  BY DEF Take
<1>t. /\ toWorker \in Seq(Posted \X Run) /\ toWorker' \in Seq(Posted \X Run)
      /\ Len(toWorker') = Len(toWorker) - 1 /\ Len(toWorker) \in Nat \ {0}
      /\ \A i \in 1 .. Len(toWorker) - 1 : toWorker'[i] = toWorker[i + 1]
      /\ Head(toWorker) = toWorker[1] /\ Head(toWorker) \in Posted \X Run
      /\ \A M : Count(toWorker, M) =
                   Count(toWorker', M) + (IF Head(toWorker) \in M THEN 1 ELSE 0)
  BY <1>i, <1>u, Tailed, CountTail DEF Typed, WiresTyped
<1>k. PICK held \in LogRoom : Command(r, held)
  BY DEF Take
<1>v. /\ UNCHANGED <<receipt, order, awaiting, gen, link, faults, endVars>>
      /\ link' \in {"open", "broken", "none"}
  BY <1>i, <1>u DEF hostVars, Typed, HostTyped
<1>1. r \in Posted /\ r \in Request /\ log[r] = "none" /\ Head(toWorker) = <<r, run>>
      /\ run \in Run
  BY <1>u, <1>t, Constants DEF Known
<1>2. r \in Named => name[r] = run \/ r \in slipped
  BY <1>i, <1>t, <1>1 DEF Ordered, Addressed
<1>3. Shrinks(r)
  <2>1. ASSUME NEW i \in 1 .. Len(toWorker')
        PROVE  \E j \in 1 .. Len(toWorker) : toWorker'[i] = toWorker[j]
    <3>1. i + 1 \in 1 .. Len(toWorker) /\ toWorker'[i] = toWorker[i + 1]
      BY <1>t
    <3> QED BY <3>1
  <2>2. ASSUME NEW q \in Posted
        PROVE  Count(toWorker', {q} \X Run) + (IF q = r THEN 1 ELSE 0)
                  <= Count(toWorker, {q} \X Run)
    <3>1. Count(toWorker', {q} \X Run) \in Nat
      BY <1>t, Counted
    <3>2. q = r => Head(toWorker) \in {q} \X Run
      BY <1>1
    <3>3. Count(toWorker, {q} \X Run) = Count(toWorker', {q} \X Run)
              + (IF Head(toWorker) \in {q} \X Run THEN 1 ELSE 0)
      BY <1>t
    <3>4. CASE q = r
      BY <3>1, <3>2, <3>3, <3>4
    <3>5. CASE q # r
      BY <3>1, <3>3, <3>5
    <3> QED BY <3>4, <3>5
  <2> QED BY <1>t, <2>1, <2>2 DEF Shrinks
<1> HIDE DEF r
<1>4. /\ \E outcome \in Outcome : Logged(r, held, outcome) /\ Answered(r, outcome)
      /\ deciding' = deciding /\ DecisionTyped' /\ Decides'
  BY <1>i, <1>k, <1>1, <1>2, CommandShape
<1>5. PICK outcome \in Outcome : Logged(r, held, outcome) /\ Answered(r, outcome)
  BY <1>4
<1>6. sentDirect' \subseteq Direct
  BY <1>i, <1>u DEF Typed, RuntimeTyped
<1> QED BY <1>u, <1>v, <1>1, <1>2, <1>3, <1>4, <1>5, <1>6, TakenKeeps

LEMMA SendToRunningKeeps ==
  ASSUME IInv, NEW r \in Direct, SendToRunning(r)
  PROVE  IInv'
<1>i. Typed /\ Ordered
  BY DEF IInv
<1>u. /\ Listening /\ sentDirect' = sentDirect \cup {r}
      /\ UNCHANGED <<webVars, hostVars, toWorker, run, last, closed, replaying,
                     slipped, overtaken, assured>>
  BY DEF SendToRunning
<1>k. PICK held \in LogRoom : Command(r, held)
  BY DEF SendToRunning
<1>v. /\ UNCHANGED <<receipt, order, awaiting, gen, link, faults, endVars>>
      /\ link' \in {"open", "broken", "none"}
  BY <1>i, <1>u DEF hostVars, Typed, HostTyped
<1>1. r \in Request /\ r \notin Posted /\ r \notin Named /\ run \in Run
  <2>1. r \in Request /\ r \notin Posted /\ r \notin Named
    BY Constants
  <2>2. run \in Run
    BY <1>i, <1>u, Constants DEF Listening, Typed, RuntimeTyped, Ordered, Serving
  <2> QED BY <2>1, <2>2
<1>2. Shrinks(r)
  <2>1. toWorker \in Seq(Posted \X Run)
    BY <1>i DEF Typed, WiresTyped
  <2>2. ASSUME NEW q \in Posted
        PROVE  Count(toWorker', {q} \X Run) + (IF q = r THEN 1 ELSE 0)
                  <= Count(toWorker, {q} \X Run)
    <3>1. Count(toWorker, {q} \X Run) \in Nat
      BY <2>1, Counted
    <3>2. q # r /\ toWorker' = toWorker
      BY <1>u, <1>1
    <3> QED BY <3>1, <3>2
  <2> QED BY <1>u, <2>1, <2>2 DEF Shrinks
<1>3. /\ \E outcome \in Outcome : Logged(r, held, outcome) /\ Answered(r, outcome)
      /\ deciding' = deciding /\ DecisionTyped' /\ Decides'
  BY <1>i, <1>k, <1>1, CommandShape
<1>4. PICK outcome \in Outcome : Logged(r, held, outcome) /\ Answered(r, outcome)
  BY <1>3
<1>5. sentDirect' \subseteq Direct
  BY <1>i, <1>u DEF Typed, RuntimeTyped
<1> QED BY <1>u, <1>v, <1>1, <1>2, <1>3, <1>4, <1>5, TakenKeeps

LEMMA RejectClosedKeeps ==
  ASSUME IInv, RejectClosed
  PROVE  IInv'
<1> DEFINE r == Head(toWorker)[1]
<1>i. Typed /\ Ordered
  BY DEF IInv
<1>u. /\ Listening /\ toWorker # <<>> /\ Head(toWorker)[2] = run /\ ~Known(r)
      /\ toWorker' = <<>> /\ link' = IF link = "open" THEN "broken" ELSE link
      /\ UNCHANGED <<webVars, receipt, order, awaiting, gen, faults, endVars, toHost, run,
                     last, closed, replaying, controls, sentDirect, decisionVars, ran, slipped,
                     overtaken, assured>>
  BY DEF RejectClosed, DropClient
<1>k. PICK held \in LogRoom : Logged(r, held, "pending")
  BY DEF RejectClosed
<1>t. /\ toWorker \in Seq(Posted \X Run) /\ Head(toWorker) \in Posted \X Run
      /\ Head(toWorker) = toWorker[1] /\ Len(toWorker) \in Nat \ {0}
  BY <1>i, <1>u, Tailed DEF Typed, WiresTyped
<1>v. link' \in {"open", "broken", "none"} /\ (link' = "none" <=> link = "none")
  BY <1>i, <1>u DEF Typed, HostTyped
<1>1. r \in Posted /\ r \in Request /\ log[r] = "none" /\ run \in Run
      /\ toWorker[1] = <<r, run>>
  BY <1>u, <1>t, Constants DEF Known
<1>2. Shrinks(r)
  <2>1. toWorker' \in Seq(Posted \X Run) /\ Len(toWorker') = 0
    BY <1>u, EmptySeq
  <2>2. ASSUME NEW q \in Posted
        PROVE  Count(toWorker', {q} \X Run) + (IF q = r THEN 1 ELSE 0)
                  <= Count(toWorker, {q} \X Run)
    <3>1. Count(toWorker, {q} \X Run) \in Nat /\ Count(toWorker', {q} \X Run) = 0
      BY <1>u, <1>t, Counted, CountEmpty
    <3>2. q = r => \E i \in 1 .. Len(toWorker) : toWorker[i] \in {q} \X Run
      <4>1. q = r => toWorker[1] \in {q} \X Run
        BY <1>1
      <4>2. 1 \in 1 .. Len(toWorker)
        BY <1>t
      <4> QED BY <4>1, <4>2
    <3>3. q = r => Count(toWorker, {q} \X Run) > 0
      BY <1>t, <3>2, Counted
    <3> QED BY <3>1, <3>3
  <2> QED BY <2>1, <2>2 DEF Shrinks
<1> HIDE DEF r
<1>3. Answered(r, "pending")
  BY <1>u DEF Answered
<1>4. DecisionTyped' /\ Decides' /\ deciding' = deciding /\ sentDirect' \subseteq Direct
  BY <1>i, <1>u, TypeFrames, Frames DEF Typed, RuntimeTyped, decisionVars
<1>5. "pending" \in Outcome
  BY DEF Outcome
<1> QED BY <1>u, <1>k, <1>v, <1>1, <1>2, <1>3, <1>4, <1>5, TakenKeeps

LEMMA RejectKeeps ==
  ASSUME IInv, Reject
  PROVE  IInv'
<1>i. Typed /\ Ordered
  BY DEF IInv
<1>u. /\ toWorker' = <<>> /\ link' = IF link = "open" THEN "broken" ELSE link
      /\ UNCHANGED <<webVars, receipt, order, awaiting, gen, faults, endVars, toHost,
                     workerVars,
                     decisionVars, history>>
  BY DEF Reject, DropClient
<1>v. /\ UNCHANGED <<run, last, closed, log, logOrder, replaying, controls, sentDirect>>
      /\ UNCHANGED <<name, web, call, deciding>>
      /\ UNCHANGED <<ran, forgotten, slipped, overtaken, assured>>
  BY <1>u DEF webVars, workerVars, decisionVars, history
<1>1. link' = "none" <=> link = "none"
  BY <1>u
<1>2. HostTyped'
  BY <1>i, <1>u DEF Typed, HostTyped
<1>3. WiresTyped'
  <2>1. <<>> \in Seq(Posted \X Run)
    BY EmptySeq
  <2> QED BY <1>i, <1>u, <2>1 DEF Typed, WiresTyped
<1>4. Serving'
  BY <1>i, <1>u, <1>v, <1>1 DEF Ordered, Serving
<1>5. Addressed'
  BY <1>i, <1>u, <1>v DEF Ordered, Addressed
<1>6. Awaits'
  BY <1>i, <1>u, <1>v, <1>1 DEF Ordered, Awaits
<1>7. \A q : (Owed(q)' <=> Owed(q)) /\ (Exempt(q)' <=> Exempt(q))
  BY <1>u, <1>v DEF Owed, Exempt
<1>8. Bounded'
  <2>1. ASSUME Up', NEW q \in Posted, ~Exempt(q)'
        PROVE  ToCome(q)' <= (IF Owed(q)' THEN 2 ELSE 1)
    <3>1. ToCome(q) <= (IF Owed(q) THEN 2 ELSE 1)
      BY <1>i, <1>u, <1>1, <1>7, <2>1 DEF Ordered, Bounded
    <3>2. /\ Count(toWorker, {q} \X Run) \in Nat /\ Count(toHost, {q} \X Final) \in Nat
          /\ Count(toWorker', {q} \X Run) = 0
      BY <1>i, <1>u, Counted, CountEmpty DEF Typed, WiresTyped
    <3>3. ToCome(q)' <= ToCome(q) /\ ToCome(q) \in Nat /\ ToCome(q)' \in Nat
      BY <1>u, <1>v, <3>2, ToComeNext DEF ToCome, InLog, InReplay
    <3> QED BY <1>7, <3>1, <3>3
  <2> QED BY <2>1 DEF Bounded
<1>9. Ahead'
  <2>1. \A q : (OwedNext(q) <=> Owed(q)) /\ (ExemptNext(q) <=> Exempt(q))
    BY <1>7, NextForms
  <2> QED BY <1>i, <1>u, <1>v, <1>1, <2>1, AheadNext DEF Ordered, Ahead
<1>10. WebTyped' /\ LogTyped' /\ RuntimeTyped' /\ DecisionTyped' /\ RanTyped'
       /\ HistoryTyped'
  BY <1>i, <1>u, <1>v, TypeFrames DEF Typed
<1> QED BY <1>i, <1>u, <1>v, <1>2, <1>3, <1>4, <1>5, <1>6, <1>8, <1>9, <1>10, Frames
        DEF IInv, Ordered, Typed

\* A replay takes the repeated command for the outcome it will repeat; one
\* that reads "pending" was sent while its first outcome is still to come.
LEMMA ReplayKeeps ==
  ASSUME IInv, Replay
  PROVE  IInv'
<1> DEFINE r == Head(toWorker)[1]
<1>i. Typed /\ Ordered
  BY DEF IInv
<1>u. /\ Listening /\ toWorker # <<>> /\ Head(toWorker)[2] = run /\ Known(r)
      /\ replaying' = <<r, log[r]>> /\ toWorker' = Tail(toWorker)
      /\ UNCHANGED <<webVars, hostVars, toHost, run, last, closed, log, logOrder, controls,
                     sentDirect, decisionVars, history>>
  BY DEF Replay
<1>v. /\ UNCHANGED <<name, web, call, deciding>>
      /\ UNCHANGED <<receipt, order, awaiting, gen, link, endVars>>
      /\ UNCHANGED <<ran, forgotten, slipped, overtaken, assured>>
  BY <1>u DEF webVars, hostVars, decisionVars, history
<1>t. /\ toWorker \in Seq(Posted \X Run) /\ toWorker' \in Seq(Posted \X Run)
      /\ Len(toWorker') = Len(toWorker) - 1 /\ Len(toWorker) \in Nat \ {0}
      /\ \A i \in 1 .. Len(toWorker) - 1 : toWorker'[i] = toWorker[i + 1]
      /\ Head(toWorker) = toWorker[1] /\ Head(toWorker) \in Posted \X Run
      /\ \A M : Count(toWorker, M) =
                   Count(toWorker', M) + (IF Head(toWorker) \in M THEN 1 ELSE 0)
  BY <1>i, <1>u, Tailed, CountTail DEF Typed, WiresTyped
<1>1. /\ r \in Posted /\ r \in Request /\ log[r] \in Outcome /\ replaying = None
      /\ Head(toWorker) = <<r, run>> /\ run \in Run
  BY <1>i, <1>u, <1>t, Constants DEF Known, Listening, Typed, LogTyped
<1> HIDE DEF r
<1>2. /\ replaying' \in Posted \X Outcome
      /\ replaying'[1] = r /\ replaying'[2] = log[r]
  BY <1>u, <1>1 DEF r
<1>3. \A q : (Owed(q)' <=> Owed(q)) /\ (Exempt(q)' <=> Exempt(q))
  BY <1>v DEF Owed, Exempt
<1>4. WiresTyped' /\ RuntimeTyped'
  BY <1>i, <1>u, <1>t, <1>2 DEF Typed, WiresTyped, RuntimeTyped
<1>5. Addressed'
  <2>1. ASSUME NEW i \in 1 .. Len(toWorker'), toWorker'[i][1] \in Named
        PROVE  toWorker'[i][2] = name[toWorker'[i][1]] \/ toWorker'[i][1] \in slipped
    <3>1. i + 1 \in 1 .. Len(toWorker) /\ toWorker'[i] = toWorker[i + 1]
      BY <1>t
    <3> QED BY <1>i, <2>1, <3>1 DEF Ordered, Addressed
  <2> QED BY <1>i, <1>v, <2>1 DEF Ordered, Addressed
<1>6. Truthful'
  <2>1. replaying'[2] = "accepted" => Happened(replaying'[1])
    BY <1>i, <1>1, <1>2 DEF Ordered, Truthful
  <2> QED BY <1>i, <1>u, <1>v, <2>1 DEF Ordered, Truthful, Happened
<1>7. Replays'
  BY <1>u, <1>2 DEF Replays
<1>8. ASSUME NEW q \in Posted, Up, ~Exempt(q)
      PROVE  /\ ToCome(q) <= (IF Owed(q) THEN 2 ELSE 1)
             /\ Count(toWorker, {q} \X Run) \in Nat /\ Count(toHost, {q} \X Final) \in Nat
             /\ Count(toWorker', {q} \X Run) \in Nat
             /\ Count(toWorker, {q} \X Run) =
                   Count(toWorker', {q} \X Run) + (IF q = r THEN 1 ELSE 0)
  <2>1. ToCome(q) <= (IF Owed(q) THEN 2 ELSE 1)
    BY <1>i, <1>8 DEF Ordered, Bounded
  <2>2. /\ Count(toWorker, {q} \X Run) \in Nat /\ Count(toHost, {q} \X Final) \in Nat
        /\ Count(toWorker', {q} \X Run) \in Nat
    BY <1>i, <1>t, Counted DEF Typed, WiresTyped
  <2>3. Head(toWorker) \in {q} \X Run <=> q = r
    BY <1>1
  <2>4. Count(toWorker, {q} \X Run) = Count(toWorker', {q} \X Run)
            + (IF Head(toWorker) \in {q} \X Run THEN 1 ELSE 0)
    BY <1>t
  <2> QED BY <2>1, <2>2, <2>3, <2>4
<1>9. Bounded'
  <2>1. ASSUME Up', NEW q \in Posted, ~Exempt(q)'
        PROVE  ToCome(q)' <= (IF Owed(q)' THEN 2 ELSE 1)
    <3>1. Up /\ ~Exempt(q)
      BY <1>3, <1>v, <2>1
    <3> DEFINE b == IF log[q] = "pending" THEN 1 ELSE 0
               c == IF replaying' # None /\ replaying'[1] = q /\ replaying'[2] \in Final
                      THEN 1 ELSE 0
               d == IF q = r THEN 1 ELSE 0
    <3>2. b \in Nat /\ c \in Nat /\ d \in Nat /\ c <= d
      BY <1>2
    <3>3. ToCome(q)' = Count(toWorker', {q} \X Run) + Count(toHost, {q} \X Final) + b + c
      BY <1>u, ToComeNext
    <3>4. ToCome(q) = Count(toWorker, {q} \X Run) + Count(toHost, {q} \X Final) + b + 0
      BY <1>1 DEF ToCome, InLog, InReplay
    <3>5. Count(toWorker, {q} \X Run) = Count(toWorker', {q} \X Run) + d
      BY <1>8, <3>1
    <3> HIDE DEF b, c, d
    <3>6. ToCome(q)' <= ToCome(q) /\ ToCome(q) \in Nat /\ ToCome(q)' \in Nat
      BY <1>8, <3>1, <3>2, <3>3, <3>4, <3>5
    <3>7. ToCome(q) <= (IF Owed(q) THEN 2 ELSE 1)
      BY <1>8, <3>1
    <3>8. CASE Owed(q)
      BY <1>3, <3>6, <3>7, <3>8
    <3>9. CASE ~Owed(q)
      BY <1>3, <3>6, <3>7, <3>9
    <3> QED BY <3>8, <3>9
  <2> QED BY <2>1 DEF Bounded
<1>10. Ahead'
  <2>1. \A q : (OwedNext(q) <=> Owed(q)) /\ (ExemptNext(q) <=> Exempt(q))
    BY <1>3, NextForms
  <2>2. ASSUME Up, ~Exempt(r), log[r] = "pending"
        PROVE  /\ Owed(r)
               /\ \A j \in 1 .. Len(toHost) : toHost[j] \notin {r} \X Final
    <3>1. /\ ToCome(r) <= (IF Owed(r) THEN 2 ELSE 1)
          /\ Count(toWorker, {r} \X Run) \in Nat /\ Count(toHost, {r} \X Final) \in Nat
          /\ Count(toWorker, {r} \X Run) > 0
      <4>1. /\ ToCome(r) <= (IF Owed(r) THEN 2 ELSE 1)
            /\ Count(toWorker, {r} \X Run) \in Nat /\ Count(toHost, {r} \X Final) \in Nat
            /\ Count(toWorker', {r} \X Run) \in Nat
            /\ Count(toWorker, {r} \X Run) = Count(toWorker', {r} \X Run) + 1
        BY <1>1, <1>8, <2>2
      <4> QED BY <4>1
    <3>2. ToCome(r) = Count(toWorker, {r} \X Run) + Count(toHost, {r} \X Final) + 1 + 0
      BY <1>1, <2>2 DEF ToCome, InLog, InReplay
    <3>3. Owed(r) /\ ~(Count(toHost, {r} \X Final) > 0)
      BY <3>1, <3>2
    <3>4. \A j \in 1 .. Len(toHost) : toHost[j] \notin {r} \X Final
      BY <1>i, <3>3, Counted DEF Typed, WiresTyped
    <3> QED BY <3>3, <3>4
  <2>3. \A i \in 1 .. Len(toHost) :
            toHost[i][2] = "pending" /\ ~Exempt(toHost[i][1]) =>
                /\ Owed(toHost[i][1])
                /\ \A j \in 1 .. i - 1 : toHost[j] \notin {toHost[i][1]} \X Final
    BY <1>i DEF Ordered, Ahead
  <2> QED BY <1>u, <1>v, <1>2, <2>1, <2>2, <2>3, AheadNext
<1>11. WebTyped' /\ HostTyped' /\ LogTyped' /\ DecisionTyped' /\ RanTyped' /\ HistoryTyped'
  BY <1>i, <1>u, <1>v, TypeFrames DEF Typed
<1> QED BY <1>i, <1>u, <1>v, <1>4, <1>5, <1>6, <1>7, <1>9, <1>10, <1>11, Frames
        DEF IInv, Ordered, Typed

\* An outcome sent again takes its replay's place among what is to come; a
\* "pending" that its outcome has overtaken is the exception.
LEMMA SendAgainKeeps ==
  ASSUME IInv, SendAgain
  PROVE  IInv'
<1> DEFINE r == replaying[1]
           o == replaying[2]
<1>i. Typed /\ Ordered
  BY DEF IInv
<1>u. /\ replaying # None /\ ToHost(r, o)
      /\ log' = [log EXCEPT ![r] = IF Known(r) THEN o ELSE log[r]]
      /\ overtaken' = IF log[r] # o THEN overtaken \cup {r} ELSE overtaken
      /\ replaying' = None
      /\ UNCHANGED <<webVars, hostVars, toWorker, run, last, closed, logOrder, controls,
                     sentDirect, decisionVars, ran, forgotten, slipped, assured>>
  BY DEF SendAgain
<1>v. /\ UNCHANGED <<name, web, call, deciding>>
      /\ UNCHANGED <<receipt, order, awaiting, gen, link, endVars>>
  BY <1>u DEF webVars, hostVars, decisionVars
<1>1. /\ r \in Posted /\ r \in Request /\ o \in Outcome /\ replaying \in Posted \X Outcome
      /\ \/ log[r] = o
         \/ log[r] = "accepted" /\ o = "pending"
  <2>1. replaying \in Posted \X Outcome
    BY <1>i, <1>u DEF Typed, RuntimeTyped
  <2> QED BY <1>i, <1>u, <2>1, Constants DEF Ordered, Replays
<1> HIDE DEF r, o
<1>2. log \in [Request -> Outcome \cup {"none"}] /\ Known(r) /\ run # 0
  BY <1>i, <1>1 DEF Typed, LogTyped, Known, Ordered, Serving, Outcome
<1>3. /\ log' \in [Request -> Outcome \cup {"none"}]
      /\ \A q \in Request : log'[q] = IF q = r THEN o ELSE log[q]
  BY <1>u, <1>1, <1>2
<1>4. LogTyped'
  <2>1. \A q \in Request : log'[q] # "none" <=> log[q] # "none"
    BY <1>1, <1>3 DEF Outcome
  <2>2. {q \in Request : log'[q] # "none"} = {q \in Request : log[q] # "none"}
    BY <2>1
  <2> QED BY <1>i, <1>u, <1>3, <2>2 DEF Typed, LogTyped
<1>5. /\ toHost' \in Seq(Posted \X Outcome)
      /\ Len(toHost') \in Nat /\ Len(toHost) \in Nat
      /\ \A i \in 1 .. Len(toHost') :
            \/ i \in 1 .. Len(toHost) /\ toHost'[i] = toHost[i]
            \/ /\ i = Len(toHost) + 1 /\ toHost'[i] = <<r, o>>
               /\ r \in Posted /\ link = "open" /\ ~ending
      /\ \A M : /\ Count(toHost', M) \in Nat /\ Count(toHost, M) \in Nat
                /\ Count(toHost', M) <=
                     Count(toHost, M) + (IF <<r, o>> \in M THEN 1 ELSE 0)
      /\ link # "open" \/ ending => toHost' = toHost
  BY <1>i, <1>u, <1>1, ToldFacts
<1>6. WiresTyped' /\ RuntimeTyped' /\ HistoryTyped'
  BY <1>i, <1>u, <1>1, <1>5 DEF Typed, WiresTyped, RuntimeTyped, HistoryTyped
<1>7. Serving'
  BY <1>i, <1>u, <1>v, <1>2, <1>5 DEF Ordered, Serving
<1>8. Queued'
  <2>1. ASSUME NEW i \in 1 .. Len(controls)
        PROVE  log'[controls[i]] = "pending"
    <3>1. controls[i] \in Request
      BY <1>i, ElementOfSeq, Constants DEF Typed, RuntimeTyped
    <3>2. log[controls[i]] = "pending"
      BY <1>i DEF Ordered, Queued
    <3> QED BY <1>1, <1>3, <3>1, <3>2
  <2> QED BY <1>i, <1>u, <1>v, <2>1 DEF Ordered, Queued
<1>9. Ran1'
  <2>1. \A q \in Posted : log'[q] = "none" => log[q] = "none"
    BY <1>1, <1>3, Constants DEF Outcome
  <2> QED BY <1>i, <1>u, <2>1 DEF Ordered, Ran1
<1>10. Truthful'
  <2>1. \A q : HappenedNext(q) <=> Happened(q)
    BY <1>u DEF Happened, HappenedNext
  <2>2. o = "accepted" => Happened(r)
    BY <1>i, <1>u DEF Ordered, Truthful, r, o
  <2>3. ASSUME NEW q \in Posted, "accepted" \in {web[q], receipt[q], log'[q]}
        PROVE  Happened(q)
    BY <1>i, <1>3, <2>2, <2>3, Constants DEF Ordered, Truthful
  <2>4. ASSUME NEW i \in 1 .. Len(toHost'), toHost'[i][2] = "accepted"
        PROVE  Happened(toHost'[i][1])
    <3>1. CASE i \in 1 .. Len(toHost) /\ toHost'[i] = toHost[i]
      BY <1>i, <2>4, <3>1 DEF Ordered, Truthful
    <3>2. CASE toHost'[i] = <<r, o>>
      BY <2>2, <2>4, <3>2
    <3> QED BY <1>5, <3>1, <3>2
  <2>5. \A q \in assured : Happened(q)
    BY <1>i DEF Ordered, Truthful
  <2> QED BY <1>u, <1>v, <2>1, <2>3, <2>4, <2>5, TruthfulNext
<1>11. Replays'
  BY <1>u DEF Replays
<1>12. \A q : (OwedNext(q) <=> Owed(q)) /\ (Exempt(q) => ExemptNext(q))
  BY <1>u, <1>v DEF Owed, OwedNext, Exempt, ExemptNext
<1>13. \A q : ~ExemptNext(q) => q # r \/ log[r] = o
  BY <1>u DEF ExemptNext
<1>14. Shown'
  BY <1>i, <1>u, <1>v DEF Ordered, Shown, Exempt
<1>15. Bounded'
  <2>1. ASSUME Up, NEW q \in Posted, ~ExemptNext(q)
        PROVE  ToCome(q)' <= (IF OwedNext(q) THEN 2 ELSE 1)
    <3>1. ToCome(q) <= (IF Owed(q) THEN 2 ELSE 1)
      BY <1>i, <1>12, <2>1 DEF Ordered, Bounded
    <3> DEFINE b == IF log[q] = "pending" THEN 1 ELSE 0
               c == IF r = q /\ o \in Final THEN 1 ELSE 0
    <3>2. /\ Count(toWorker, {q} \X Run) \in Nat
          /\ Count(toHost', {q} \X Final) \in Nat /\ Count(toHost, {q} \X Final) \in Nat
          /\ Count(toHost', {q} \X Final) <= Count(toHost, {q} \X Final) + c
      <4>1. Count(toWorker, {q} \X Run) \in Nat
        BY <1>i, Counted DEF Typed, WiresTyped
      <4>2. <<r, o>> \in {q} \X Final <=> r = q /\ o \in Final
        OBVIOUS
      <4>3. /\ Count(toHost', {q} \X Final) \in Nat /\ Count(toHost, {q} \X Final) \in Nat
            /\ Count(toHost', {q} \X Final) <= Count(toHost, {q} \X Final)
                  + (IF <<r, o>> \in {q} \X Final THEN 1 ELSE 0)
        BY <1>5
      <4> QED BY <4>1, <4>2, <4>3
    <3>3. log'[q] = log[q]
      BY <1>3, <1>13, <2>1, Constants
    <3>4. ToCome(q)' = Count(toWorker, {q} \X Run) + Count(toHost', {q} \X Final) + b + 0
      BY <1>u, <3>3, ToComeNext
    <3>5. ToCome(q) = Count(toWorker, {q} \X Run) + Count(toHost, {q} \X Final) + b + c
      BY <1>u DEF ToCome, InLog, InReplay, r, o
    <3>6. b \in Nat /\ c \in Nat
      OBVIOUS
    <3> HIDE DEF b, c
    <3>7. ToCome(q)' <= ToCome(q) /\ ToCome(q) \in Nat /\ ToCome(q)' \in Nat
      BY <3>2, <3>4, <3>5, <3>6
    <3> QED BY <1>12, <3>1, <3>7
  <2> QED BY <1>v, <2>1, NextForms DEF Bounded
<1>16. Ahead'
  <2>1. o = "pending" => \/ ExemptNext(r)
                         \/ link # "open" \/ ending
                         \/ r \notin Posted
                         \/ /\ Owed(r)
                            /\ \A j \in 1 .. Len(toHost) : toHost[j] \notin {r} \X Final
    <3> SUFFICES ASSUME o = "pending", ~ExemptNext(r), link = "open", ~ending
                 PROVE  /\ Owed(r)
                        /\ \A j \in 1 .. Len(toHost) : toHost[j] \notin {r} \X Final
      OBVIOUS
    <3>1. log[r] = "pending" /\ ~Exempt(r)
      BY <1>12, <1>13
    <3> QED BY <1>i, <1>u, <3>1 DEF Ordered, Ahead, r, o
  <2>2. \A i \in 1 .. Len(toHost') :
            toHost'[i][2] = "pending" /\ ~ExemptNext(toHost'[i][1]) =>
                /\ OwedNext(toHost'[i][1])
                /\ \A j \in 1 .. i - 1 : toHost'[j] \notin {toHost'[i][1]} \X Final
    BY <1>i, <1>u, <1>1, <1>12, <2>1, AheadSent
  <2> QED BY <1>u, <2>2, AheadNext
<1>17. WebTyped' /\ HostTyped' /\ DecisionTyped' /\ RanTyped'
  BY <1>i, <1>u, <1>v, TypeFrames DEF Typed
<1>18. Addressed' /\ Awaits' /\ Decides'
  BY <1>i, <1>u, <1>v, Frames
<1> QED BY <1>4, <1>6, <1>7, <1>8, <1>9, <1>10, <1>11, <1>14, <1>15, <1>16, <1>17, <1>18
        DEF IInv, Ordered, Typed

-----------------------------------------------------------------------------
(***************************************************************************)
(* The system.                                                             *)
(***************************************************************************)
LEMMA InitKeeps == Init => IInv
<1> SUFFICES ASSUME Init
             PROVE  IInv
  OBVIOUS
<1> USE Constants
<1>1. WebTyped /\ HistoryTyped
  BY DEF Init, WebTyped, HistoryTyped, Receipt
<1>2. HostTyped
  <2>1. <<>> \in Seq(Posted)
    BY EmptySeq
  <2>2. gen \in 0 .. MaxRuns /\ faults \in 0 .. MaxFaults
    BY DEF Init
  <2>3. ending \in BOOLEAN
    BY DEF Init
  <2> QED BY <2>1, <2>2, <2>3 DEF Init, HostTyped
<1>3. WiresTyped
  BY EmptySeq DEF Init, WiresTyped
<1>4. LogTyped
  <2>1. logOrder = <<>> /\ logOrder \in Seq(Request) /\ ToSet(logOrder) = {}
    BY EmptySeq DEF Init, ToSet
  <2>2. {r \in Request : log[r] # "none"} = {}
    BY DEF Init
  <2>3. log \in [Request -> Outcome \cup {"none"}]
    BY DEF Init
  <2> QED BY <2>1, <2>2, <2>3 DEF LogTyped
<1>5. RuntimeTyped
  <2>1. <<>> \in Seq(Control)
    BY EmptySeq
  <2>2. 1 \in 0 .. MaxRuns
    OBVIOUS
  <2>3. closed \in BOOLEAN
    BY DEF Init
  <2> QED BY <2>1, <2>2, <2>3 DEF Init, RuntimeTyped
<1>6. DecisionTyped
  <2>1. deciding \in BOOLEAN /\ routed \in BOOLEAN /\ notified \in BOOLEAN
    BY DEF Init
  <2>2. 0 \in 0 .. MaxDecisions
    OBVIOUS
  <2> QED BY <2>1, <2>2 DEF Init, DecisionTyped
<1>7. RanTyped
  BY DEF Init, RanTyped
<1>8. Serving
  BY DEF Init, Serving
<1>9. Queued
  BY DEF Init, Queued, IsInjective
<1>10. Ran1
  BY DEF Init, Ran1
<1>11. Addressed
  BY DEF Init, Addressed
<1>12. Truthful
  BY DEF Init, Truthful
<1>13. Replays /\ Awaits /\ Shown
  BY DEF Init, Replays, Awaits, Shown
<1>14. Bounded
  <2>1. ASSUME NEW q \in Posted
        PROVE  ToCome(q) = 0
    <3>1. Count(toWorker, {q} \X Run) = 0 /\ Count(toHost, {q} \X Final) = 0
      BY CountEmpty DEF Init
    <3> QED BY <3>1 DEF Init, ToCome, InLog, InReplay
  <2> QED BY <2>1 DEF Bounded
<1>15. Ahead
  BY DEF Init, Ahead
<1>16. Decides
  BY DEF Init, Decides
<1> QED BY <1>1, <1>2, <1>3, <1>4, <1>5, <1>6, <1>7, <1>8, <1>9, <1>10, <1>11, <1>12, <1>13,
           <1>14, <1>15, <1>16 DEF IInv, Typed, Ordered

LEMMA FaultCounts ==
  ASSUME Typed, Fault
  PROVE  faults' \in 0 .. MaxFaults
  BY Constants DEF Typed, HostTyped, Fault

LEMMA NextKeeps == IInv /\ [Next]_vars => IInv'
<1> SUFFICES ASSUME IInv, [Next]_vars
             PROVE  IInv'
  OBVIOUS
<1>1. CASE Browser
  BY <1>1, RepeatKeeps, ReserveKeeps, DisplaceKeeps DEF Browser
<1>2. CASE Handlers
  BY <1>2, ExecuteKeeps, SendCommandKeeps, SendKeeps, ReturnKeeps DEF Handlers
<1>3. CASE Reader
  <2>1. CASE LinkLost
    <3>1. ReaderFails /\ link # "none" /\ faults' = faults
      BY <2>1 DEF LinkLost
    <3>2. faults' \in 0 .. MaxFaults
      BY <3>1 DEF IInv, Typed, HostTyped
    <3> QED BY <3>1, <3>2, ReaderFailsKeeps
  <2> QED BY <1>3, <2>1, ReceivedKeeps, DeactivateKeeps DEF Reader
<1>4. CASE Activate
  BY <1>4, ActivateKeeps
<1>5. CASE Serve
  BY <1>5, TakeKeeps, RejectKeeps, RejectClosedKeeps, ReplayKeeps, SendAgainKeeps DEF Serve
<1>6. CASE Parent
  BY <1>6, SendToRunningKeeps DEF Parent
<1>7. CASE Application
  BY <1>7, CompleteControlKeeps, AskKeeps, LookKeeps, RetireKeeps DEF Application
<1>8. CASE Faults
  <2>1. CASE Break
    BY <2>1, BreakKeeps
  <2>2. CASE HostRestarts
    BY <2>2, HostRestartsKeeps
  <2>3. CASE Close
    BY <2>3, CloseKeeps
  <2>4. CASE EndsClosed
    <3>1. Ends /\ faults' = faults
      BY <2>4 DEF EndsClosed
    <3>2. faults' \in 0 .. MaxFaults
      BY <3>1 DEF IInv, Typed, HostTyped
    <3> QED BY <3>1, <3>2, EndsKeeps
  <2>5. CASE Crash
    <3>1. Ends /\ Fault
      BY <2>5 DEF Crash
    <3>2. faults' \in 0 .. MaxFaults
      BY <3>1, FaultCounts DEF IInv
    <3> QED BY <3>1, <3>2, EndsKeeps
  <2>6. CASE LetGo
    <3>1. ReaderFails /\ link # "none" /\ Fault
      BY <2>6 DEF LetGo
    <3>2. faults' \in 0 .. MaxFaults
      BY <3>1, FaultCounts DEF IInv
    <3> QED BY <3>1, <3>2, ReaderFailsKeeps
  <2>7. CASE Overflow
    BY <2>7, OverflowKeeps
  <2> QED BY <1>8, <2>1, <2>2, <2>3, <2>4, <2>5, <2>6, <2>7 DEF Faults
<1>9. CASE UNCHANGED vars
  <2>1. /\ UNCHANGED <<webVars, hostVars, wires, workerVars, decisionVars, history>>
        /\ UNCHANGED <<name, web, call, receipt, order, awaiting, gen, link, endVars>>
        /\ UNCHANGED <<toWorker, toHost, deciding>>
        /\ UNCHANGED <<run, last, closed, log, logOrder, replaying, controls, sentDirect>>
        /\ UNCHANGED <<ran, forgotten, slipped, overtaken, assured>>
    BY <1>9 DEF vars, webVars, hostVars, wires, workerVars, decisionVars, history
  <2> QED BY <2>1, TypeFrames, Frames DEF IInv, Typed, Ordered
<1> QED BY <1>1, <1>2, <1>3, <1>4, <1>5, <1>6, <1>7, <1>8, <1>9 DEF Next

\* The invariant of every behaviour.
THEOREM AlwaysIInv == Spec => []IInv
<1>1. Init => IInv
  BY InitKeeps
<1>2. IInv /\ [Next]_vars => IInv'
  BY NextKeeps
<1> QED BY <1>1, <1>2, PTL DEF Spec

(***************************************************************************)
(* What the invariant says of the properties.                              *)
(***************************************************************************)
LEMMA OnceFollows == IInv => RunsOnce
<1> SUFFICES ASSUME Typed, Ordered
             PROVE  RunsOnce
  BY DEF IInv
<1>1. \A r \in Posted, g \in Run : ran[r][g] <= 1 \/ <<r, g>> \in forgotten
  BY DEF Ordered, Ran1
<1>2. IsInjective(controls)
  BY DEF Ordered, Queued
<1>3. \A r \in Named, g \in Run : ran[r][g] > 0 => g = name[r] \/ r \in slipped
  BY DEF Ordered, Addressed
<1>4. \A r \in assured : \E g \in Run : ran[r][g] > 0
  BY DEF Ordered, Truthful, Happened
<1> QED BY <1>1, <1>2, <1>3, <1>4 DEF RunsOnce

LEMMA FirstFollows == IInv => FirstReplyWins
<1> SUFFICES ASSUME Typed, Decides
             PROVE  FirstReplyWins
  BY DEF IInv, Ordered
<1>1. ASSUME NEW d \in Decision
      PROVE  Cardinality(accepted[d]) <= 1
  <2>1. CASE accepted[d] = {}
    BY <2>1, FS_EmptySet
  <2>2. CASE \E x \in accepted[d] : accepted[d] = {x}
    <3>1. PICK x : accepted[d] = {x}
      BY <2>2
    <3>2. Cardinality({x}) = 1
      BY FS_Singleton
    <3>3. Cardinality(accepted[d]) = 1
      BY <3>1, <3>2
    <3> QED BY <3>3
  <2> QED BY <2>1, <2>2 DEF Decides
<1> QED BY <1>1 DEF FirstReplyWins, Decides

LEMMA AwaitedFollows == IInv => PendingIsAwaited
<1> SUFFICES ASSUME Awaits, Shown
             PROVE  PendingIsAwaited
  BY DEF IInv, Ordered
<1> QED BY DEF PendingIsAwaited, Awaits, Shown, Exempt

\* The receipts, the logs, the wires and the decision have their types, and
\* every log keeps to its bound (kMaxOutcomes, kReceiptEntries).
THEOREM CommandsTypeCorrect == Spec => []TypeOK
<1>1. IInv => TypeOK
  BY TypesCover DEF IInv
<1> QED BY <1>1, AlwaysIInv, PTL

\* However often a command is sent again after its receipt was lost, a
\* runtime whose log still has it runs it once (ReceiptLog::Check), one that
\* names a runtime runs in no other, and what the browser was told is
\* accepted has run.
THEOREM CommandsRunOnce == Spec => []RunsOnce
<1> QED BY OnceFollows, AlwaysIInv, PTL

\* The first reply that is accepted is the decision's answer and its only
\* one, and a parent answers none that a person was told is theirs
\* (ReplyLocked, EscalateLocked).
THEOREM FirstReplyDecides == Spec => []FirstReplyWins
<1> QED BY FirstFollows, AlwaysIInv, PTL

\* The host awaits every receipt it shows as pending, but for a replay
\* overtaken by the outcome it lacks and a command sent over a later
\* connection than was checked; and without a connection it awaits only what
\* is yet to be sent, since the reader's end fails the rest (FailPending), but
\* for a command that was sent between the two steps of that end.
THEOREM PendingAwaited == Spec => []PendingIsAwaited
<1> QED BY AwaitedFollows, AlwaysIInv, PTL
=============================================================================
