------------------------- MODULE SessionMoveProofs -------------------------
(***************************************************************************)
(* That the move of SessionMove loses nothing another process saved, is    *)
(* never left half done without its journal, and leaves alone what another *)
(* process has open, for any number of files, turns, faults and crashes.   *)
(*                                                                         *)
(* The argument: whoever has a lease is where the lock says, but for what  *)
(* was opened as it moved (Locks), so what it has loaded is what is there  *)
(* (Loaded); a file is renamed only after every sidecar that was listed,   *)
(* and what was saved to it since was saved by an intruder (Assets); and   *)
(* the step the host is at says which files have moved, which have been    *)
(* rewritten and that the journal is written (Phases).                     *)
(***************************************************************************)
EXTENDS SessionMove, FiniteSetTheorems, TLAPS

\* The move's note: one more than the turns at most, and none at the end of a
\* session without notes.
Fits(r, turns) ==
    /\ r.turns \subseteq turns
    /\ r.notes <= Cardinality(r.turns) + (IF r.last THEN 1 ELSE 0)
    /\ r.last => r.notes > 0
Noted(r) == Fits(r, saved)
Unnoted(r) == r.notes = 0 /\ ~r.last
\* What is not there is nothing, and only a session that has moved has notes.
Records ==
    /\ IsFiniteSet(saved)
    /\ \A p \in Place, i \in File : At(p, i) \/ session[p][i] = NoSession
    /\ \A p \in Place, i \in File : Noted(session[p][i])
    /\ Noted(other.record)
    /\ \A i \in File : Unnoted(session["from"][i])
    /\ other.place = "from" => Unnoted(other.record)

\* The other process has a session that did not move under it.
Settled == other.place = "to" \/ other.file \notin intruded
\* What the other process has loaded is what is there.
Loaded ==
    /\ other.does = "nothing" => other = Nobody
    /\ other.does # "run" => other.record = NoSession
    /\ other.does = "run" =>
          /\ session[other.place][other.file].turns \subseteq other.record.turns
          /\ other.record.kept
    /\ other.does # "nothing" /\ Settled => At(other.place, other.file)
    /\ other.does = "run" /\ Settled =>
          session[other.place][other.file] = other.record

\* The files whose lease the host has, at the step it is at.
HoldsLease(i) ==
    \/ host = "hold" /\ i < at
    \/ host = "write"
    \/ host = "list" /\ i >= at
    \/ host = "side" /\ i > at
\* Who has a lease is where its lock says, but for an intruder.
Locks ==
    /\ other.does # "nothing" /\ Settled => Held(other.place, other.file, "other")
    /\ \A p \in Place, i \in File : Held(p, i, "other") =>
          /\ other.does # "nothing" /\ other.file = i
          /\ other.place = p \/ i \in intruded
    /\ \A p \in Place, i \in File : Held(p, i, "host") =>
          \/ p = "from" /\ host = "hold" /\ i < at
          \/ p = "from" /\ host = "write"
          \/ host \in Moving
    /\ \A i \in File \ intruded :
          At("from", i) /\ HoldsLease(i) => Held("from", i, "host")
    /\ host = "side" /\ other.does # "nothing" /\ other.place = "from"
          /\ other.file = at => at \in intruded

\* A session's assets are beside it, or where they went before it.
Assets ==
    /\ \A i \in File \ intruded :
          /\ session["from"][i].turns \subseteq assets["from"][i] \cup assets["to"][i]
          /\ session["to"][i].turns \subseteq assets["to"][i]
    /\ host = "side" =>
          /\ at \in File /\ At("from", at) /\ sides \subseteq Sidecars("from", at)
          /\ at \in intruded \/ assets["from"][at] = {} \/ "assets" \in sides

\* The steps once every session names what is there.
AfterRewrite == {"names", "pins", "unwrite"}
\* What the step the host is at says of the move.
Phases ==
    /\ host \in Moving \cup {"rewrite"} \cup AfterRewrite => journal
    /\ host = "hold" /\ recovers => journal
    /\ host = "idle" => ~recovers
    /\ host \in Moving => \A i \in File : i < at => At("to", i)
    /\ host \in {"rewrite"} \cup AfterRewrite => \A i \in File : At("to", i)
    /\ \A i \in File : host \in AfterRewrite \/ (host = "rewrite" /\ i < at) =>
          session["to"][i].rewritten
    /\ host \in AfterRewrite \/ (host = "rewrite" /\ at > 1) =>
          session["to"][1].notes > 0
    /\ host = "unwrite" => "pins" \in follow

\* Before another process opens anything, everything is in one place.
Undisturbed ==
    opens = 0 =>
        /\ other.does = "nothing" /\ intruded = {}
        /\ \A i \in File :
              /\ At("from", i) <=> ~At("to", i)
              /\ assets["from"][i] = {} \/ assets["to"][i] = {}

\* A host adds one note at most.
Annotated ==
    \/ host \in {"idle"} \cup AfterRewrite
    \/ host = "rewrite" /\ at > 1
NoteLimit == IF Annotated THEN crashes + 1 ELSE crashes
FewNotes ==
    /\ \A i \in File : session["to"][i].notes <= NoteLimit
    /\ other.record.notes <= NoteLimit

IInv == /\ TypeOK /\ Records /\ Loaded /\ Locks /\ Assets /\ Phases
        /\ Undisturbed /\ FewNotes
        /\ NothingLost /\ NoHalfMove /\ StopsOnlyAtALock
-----------------------------------------------------------------------------
\* The steps of the host, by what they do to the disk.
Becomes(g, f, p, i, v) ==
    \A q \in Place, j \in File : g[q][j] = IF q = p /\ j = i THEN v ELSE f[q][j]
Shifts(g, f, none) ==
    \A q \in Place, j \in File :
        g[q][j] = IF j # at THEN f[q][j]
                  ELSE IF q = "to" THEN f["from"][j] ELSE none
LeasesEnd ==
    \A p \in Place, i \in File :
        lock'[p][i] = IF Held(p, i, "host") THEN Free ELSE lock[p][i]
GivesUp ==
    /\ LeasesEnd
    /\ \/ host' = "idle" /\ crashes' = crashes
       \/ host' = "down" /\ crashes' = crashes + 1
    /\ at' = 1 /\ sides' = {} /\ recovers' = FALSE
    /\ UNCHANGED <<session, assets, journal, follow>>
TakesLease ==
    /\ host = "hold" /\ at \in File /\ At("from", at) /\ CanLock("from", at)
    /\ Becomes(lock', lock, "from", at, "host")
    /\ Goto("hold", at + 1)
    /\ UNCHANGED <<session, assets, journal, follow, sides, recovers, crashes>>
SkipsLease ==
    /\ host = "hold" /\ at \in File /\ ~At("from", at)
    /\ Goto("hold", at + 1)
    /\ UNCHANGED <<disk, sides, recovers, crashes>>
HoldsAll ==
    /\ host = "hold" /\ at = LastFile + 1
    /\ Goto(IF recovers THEN "list" ELSE "write", 1)
    /\ UNCHANGED <<disk, sides, recovers, crashes>>
ListsAll ==
    /\ host = "list" /\ at = LastFile + 1
    /\ LeasesEnd
    /\ Goto("rewrite", 1)
    /\ UNCHANGED <<session, assets, journal, follow, sides, recovers, crashes>>
ListsSides ==
    /\ host = "list" /\ at \in File /\ At("from", at)
    /\ sides' = Sidecars("from", at)
    /\ Goto("side", at)
    /\ UNCHANGED <<disk, recovers, crashes>>
SkipsFile ==
    /\ host = "list" /\ at \in File /\ ~At("from", at) /\ At("to", at)
    /\ Goto("list", at + 1)
    /\ UNCHANGED <<disk, sides, recovers, crashes>>
MovesLock ==
    /\ host = "side" /\ "lock" \in sides
    /\ lock["to"][at] = Absent
    /\ Shifts(lock', lock, Absent)
    /\ sides' = sides \ {"lock"}
    /\ UNCHANGED <<session, assets, journal, follow, host, at, recovers, crashes>>
MovesAssets ==
    /\ host = "side" /\ "assets" \in sides
    /\ assets["to"][at] = {}
    /\ Shifts(assets', assets, {})
    /\ sides' = sides \ {"assets"}
    /\ UNCHANGED <<session, lock, journal, follow, host, at, recovers, crashes>>
MovesFile ==
    /\ host = "side" /\ sides = {} /\ ~At("to", at) /\ At("from", at)
    /\ Shifts(session', session, NoSession)
    /\ Goto("list", at + 1)
    /\ UNCHANGED <<lock, assets, journal, follow, sides, recovers, crashes>>
Renewed(i) == [WithNote(i, session["to"][i]) EXCEPT !.rewritten = TRUE]
Rewrites ==
    /\ host = "rewrite" /\ at \in File /\ CanLock("to", at) /\ At("to", at)
    /\ Becomes(session', session, "to", at, Renewed(at))
    /\ Becomes(lock', lock, "to", at, Free)
    /\ Goto("rewrite", at + 1)
    /\ UNCHANGED <<assets, journal, follow, sides, recovers, crashes>>
RewritesAll ==
    /\ host = "rewrite" /\ at = LastFile + 1
    /\ Goto("names", 1)
    /\ UNCHANGED <<disk, sides, recovers, crashes>>
FollowsNames ==
    /\ host = "names" /\ follow \subseteq follow'
    /\ Goto("pins", 1)
    /\ UNCHANGED <<session, lock, assets, journal, sides, recovers, crashes>>

\* Those that only look, write or remove what is not a session's.
Walks ==
    \/ SkipsLease \/ HoldsAll \/ ListsSides \/ SkipsFile \/ RewritesAll
    \/ FollowsNames
    \/ (Begin \/ WriteJournal \/ FollowPins \/ RemoveJournal \/ Restart)
          /\ UNCHANGED crashes
HostStep ==
    \/ GivesUp \/ TakesLease \/ ListsAll \/ MovesLock \/ MovesAssets
    \/ MovesFile \/ Rewrites \/ Walks


\* And those of the other process.
OtherOpens(p, i) ==
    /\ other.does = "nothing" /\ opens' = opens + 1 /\ opens < MaxOpens
    /\ At(p, i) /\ CanLock(p, i)
    /\ Becomes(lock', lock, p, i, "other")
    /\ other' = [does |-> "load", place |-> p, file |-> i, record |-> NoSession]
    /\ intruded' = IF p = "from" /\ host \in Moving /\ at <= i
                   THEN intruded \cup {i} ELSE intruded
    /\ UNCHANGED <<session, assets, journal, follow, saved>>
Begun == [NoSession EXCEPT !.kept = TRUE]
OtherBegins(i) ==
    /\ other.does = "nothing" /\ opens' = opens + 1 /\ opens < MaxOpens
    /\ ~At("from", i) /\ CanLock("from", i)
    /\ Becomes(lock', lock, "from", i, "other")
    /\ Becomes(session', session, "from", i, Begun)
    /\ other' = [does |-> "run", place |-> "from", file |-> i, record |-> Begun]
    /\ intruded' = intruded \cup {i}
    /\ UNCHANGED <<assets, journal, follow, saved>>
OtherReads ==
    /\ other.does = "load" /\ At(other.place, other.file)
    /\ other' = [does |-> "run", place |-> other.place, file |-> other.file,
                 record |-> session[other.place][other.file]]
    /\ UNCHANGED <<disk, opens, saved, intruded>>
OtherLeaves ==
    /\ other.does # "nothing" /\ other' = Nobody
    /\ \A p \in Place, i \in File :
          lock'[p][i] = IF Held(p, i, "other") THEN Free ELSE lock[p][i]
    /\ UNCHANGED <<session, assets, journal, follow, opens, saved, intruded>>
Continued(t) == [other.record EXCEPT !.turns = other.record.turns \cup {t},
                                     !.last = FALSE]
OtherSaves(t) ==
    /\ other.does = "run" /\ t \notin saved /\ saved' = saved \cup {t}
    /\ Becomes(session', session, other.place, other.file, Continued(t))
    /\ Becomes(assets', assets, other.place, other.file,
               assets[other.place][other.file] \cup {t})
    /\ other' = [does |-> "run", place |-> other.place, file |-> other.file,
                 record |-> Continued(t)]
    /\ UNCHANGED <<lock, journal, follow, opens, intruded>>
OtherStep ==
    \/ \E p \in Place, i \in File : OtherOpens(p, i)
    \/ \E i \in File : OtherBegins(i)
    \/ OtherReads \/ OtherLeaves
    \/ \E t \in Turn : OtherSaves(t)
-----------------------------------------------------------------------------
\* A table of places and files with one entry changed, and with the entries
\* of one file moved.
LEMMA EntrySet ==
    ASSUME NEW S, NEW f \in [Place -> [File -> S]],
           NEW p \in Place, NEW i \in File, NEW v
    PROVE  /\ v \in S => [f EXCEPT ![p][i] = v] \in [Place -> [File -> S]]
           /\ Becomes([f EXCEPT ![p][i] = v], f, p, i, v)
<1>1. f[p] \in [File -> S]
  OBVIOUS
<1>2. [f EXCEPT ![p][i] = v] = [f EXCEPT ![p] = [f[p] EXCEPT ![i] = v]]
  OBVIOUS
<1>3. /\ DOMAIN [f[p] EXCEPT ![i] = v] = File
      /\ \A j \in File : [f[p] EXCEPT ![i] = v][j] = IF j = i THEN v ELSE f[p][j]
      /\ v \in S => [f[p] EXCEPT ![i] = v] \in [File -> S]
  BY <1>1
<1> HIDE DEF Becomes
<1>4. v \in S => [f EXCEPT ![p][i] = v] \in [Place -> [File -> S]]
  BY <1>2, <1>3
<1>5. Becomes([f EXCEPT ![p][i] = v], f, p, i, v)
  BY <1>1, <1>2, <1>3 DEF Becomes
<1> QED BY <1>4, <1>5

LEMMA EntryMoved ==
    ASSUME NEW S, NEW f \in [Place -> [File -> S]], NEW none \in S, at \in File
    PROVE  /\ Renamed(f, none) \in [Place -> [File -> S]]
           /\ Shifts(Renamed(f, none), f, none)
<1> DEFINE h == [f EXCEPT !["to"][at] = f["from"][at]]
           g == [h EXCEPT !["from"][at] = none]
<1>1. "to" \in Place /\ "from" \in Place /\ Place = {"from", "to"}
  BY DEF Place
<1>2. f["from"][at] \in S
  BY <1>1
<1>3. /\ h \in [Place -> [File -> S]]
      /\ Becomes(h, f, "to", at, f["from"][at])
  BY <1>1, <1>2, EntrySet
<1> HIDE DEF h
<1>4. /\ g \in [Place -> [File -> S]]
      /\ Becomes(g, h, "from", at, none)
  BY <1>1, <1>3, EntrySet
<1>5. g = Renamed(f, none)
  BY DEF h, Renamed
<1> HIDE DEF g
<1>6. Shifts(g, f, none)
  BY <1>1, <1>3, <1>4 DEF Becomes, Shifts
<1> QED BY <1>4, <1>5, <1>6

LEMMA FileMoved ==
    ASSUME TypeOK, at \in File
    PROVE  /\ Shifts(Renamed(lock, Absent), lock, Absent)
           /\ Shifts(Renamed(assets, {}), assets, {})
<1>1. /\ lock \in [Place -> [File -> {Absent, Free, "host", "other"}]]
      /\ Absent \in {Absent, Free, "host", "other"}
  BY DEF TypeOK
<1>2. assets \in [Place -> [File -> SUBSET Turn]] /\ {} \in SUBSET Turn
  BY DEF TypeOK
<1>3. Shifts(Renamed(lock, Absent), lock, Absent)
  BY <1>1, EntryMoved
<1>4. Shifts(Renamed(assets, {}), assets, {})
  BY <1>2, EntryMoved
<1> QED BY <1>3, <1>4

LEMMA LeasesLetGo ==
    ASSUME TypeOK, NEW who
    PROVE  /\ Unlocked(who) \in [Place -> [File -> {Absent, Free, "host", "other"}]]
           /\ \A p \in Place, i \in File :
                 Unlocked(who)[p][i] =
                     IF Held(p, i, who) THEN Free ELSE lock[p][i]
  BY DEF TypeOK, Unlocked, Held, Free

\* Each step of the host is one of those above.
LEMMA HostIsHostStep ==
    ASSUME TypeOK, Assets, Host
    PROVE  HostStep
<1>a. /\ session \in [Place -> [File -> Record]]
      /\ lock \in [Place -> [File -> {Absent, Free, "host", "other"}]]
      /\ assets \in [Place -> [File -> SUBSET Turn]]
      /\ LastFile \in Nat \ {0} /\ at \in 1..(LastFile + 1)
      /\ at \in File \/ at = LastFile + 1
      /\ sides \subseteq {"lock", "assets"}
  BY MoveAssumption DEF TypeOK, File
<1>b. "from" \in Place /\ "to" \in Place
  BY DEF Place
<1>c. host = "side" => at \in File
  BY DEF Assets
<1>d. LastFile + 1 \notin File /\ \A i \in File : ~(i > LastFile)
  BY <1>a DEF File
<1>1. ASSUME Fail, UNCHANGED crashes PROVE GivesUp
  BY <1>1, LeasesLetGo DEF Fail, GivesUp, LeasesEnd, Goto
<1>2. ASSUME Hold, UNCHANGED crashes
      PROVE  GivesUp \/ TakesLease \/ SkipsLease \/ HoldsAll
  <2>1. CASE at > LastFile
    <3>1. at = LastFile + 1
      BY <1>a, <1>d, <2>1
    <3> QED BY <1>2, <2>1, <3>1 DEF Hold, HoldsAll
  <2>2. CASE ~(at > LastFile) /\ ~At("from", at)
    <3>1. at \in File
      BY <1>a, <2>2 DEF File
    <3> QED BY <1>2, <2>2, <3>1 DEF Hold, SkipsLease
  <2>3. CASE ~(at > LastFile) /\ At("from", at) /\ CanLock("from", at)
    <3>1. at \in File
      BY <1>a, <2>3 DEF File
    <3>2. Becomes(Locked("from", at, "host"), lock, "from", at, "host")
      BY <1>a, <1>b, <3>1, EntrySet DEF Locked
    <3>3. /\ lock' = Locked("from", at, "host") /\ host = "hold"
          /\ Goto("hold", at + 1)
          /\ UNCHANGED <<session, assets, journal, follow, sides, recovers>>
      BY <1>2, <2>3 DEF Hold
    <3> QED BY <1>2, <2>3, <3>1, <3>2, <3>3 DEF TakesLease
  <2>4. CASE ~(at > LastFile) /\ At("from", at) /\ ~CanLock("from", at)
    BY <1>1, <1>2, <2>4 DEF Hold
  <2> QED BY <2>1, <2>2, <2>3, <2>4
<1>3. ASSUME List, UNCHANGED crashes
      PROVE  GivesUp \/ ListsAll \/ ListsSides \/ SkipsFile
  <2>1. CASE at > LastFile
    <3>1. at = LastFile + 1
      BY <1>a, <1>d, <2>1
    <3> QED BY <1>3, <2>1, <3>1, LeasesLetGo DEF List, ListsAll, LeasesEnd
  <2>2. CASE ~(at > LastFile)
    <3>1. at \in File
      BY <1>a, <2>2 DEF File
    <3> QED BY <1>1, <1>3, <2>2, <3>1 DEF List, ListsSides, SkipsFile
  <2> QED BY <2>1, <2>2
<1>4. ASSUME NEW s \in {"lock", "assets"}, Side(s), UNCHANGED crashes
      PROVE  GivesUp \/ MovesLock \/ MovesAssets
  <2>1. CASE There(s, "to", at) \/ ~There(s, "from", at)
    BY <1>1, <1>4, <2>1 DEF Side
  <2>2. CASE ~(There(s, "to", at) \/ ~There(s, "from", at))
    <3>1. /\ host = "side" /\ s \in sides /\ at \in File
          /\ Rename(s) /\ sides' = sides \ {s}
          /\ UNCHANGED <<session, journal, follow, host, at, recovers, crashes>>
      BY <1>4, <1>c, <2>2 DEF Side
    <3>2. CASE s = "lock"
      <4>a. UNCHANGED assets
        BY <3>1, <3>2 DEF Rename
      <4>1. lock' = Renamed(lock, Absent)
        BY <3>1, <3>2 DEF Rename
      <4>2. Shifts(lock', lock, Absent)
        BY <1>a, <1>b, <3>1, <4>1, FileMoved
      <4>3. lock["to"][at] = Absent
        BY <2>2, <3>2 DEF There
      <4> QED BY <3>1, <3>2, <4>a, <4>2, <4>3 DEF MovesLock
    <3>3. CASE s = "assets"
      <4>a. UNCHANGED lock
        BY <3>1, <3>3 DEF Rename
      <4>1. assets' = Renamed(assets, {})
        BY <3>1, <3>3 DEF Rename
      <4>2. Shifts(assets', assets, {})
        BY <1>a, <1>b, <3>1, <4>1, FileMoved
      <4>3. assets["to"][at] = {}
        BY <2>2, <3>3 DEF There
      <4> QED BY <3>1, <3>3, <4>a, <4>2, <4>3 DEF MovesAssets
    <3> QED BY <3>2, <3>3
  <2> QED BY <2>1, <2>2
<1>5. ASSUME MoveFile, UNCHANGED crashes PROVE GivesUp \/ MovesFile
  <2>1. CASE At("to", at) \/ ~At("from", at)
    BY <1>1, <1>5, <2>1 DEF MoveFile
  <2>2. CASE ~(At("to", at) \/ ~At("from", at))
    <3>1. /\ host = "side" /\ sides = {}
          /\ session' = [session EXCEPT !["to"][at] = session["from"][at],
                                        !["from"][at] = NoSession]
          /\ Goto("list", at + 1)
          /\ UNCHANGED <<lock, assets, journal, follow, sides, recovers>>
      BY <1>5, <2>2 DEF MoveFile
    <3>2. NoSession \in Record
      BY MoveAssumption DEF NoSession, Record
    <3>3. Shifts(session', session, NoSession)
      <4>1. session' = Renamed(session, NoSession)
        BY <3>1 DEF Renamed
      <4>2. at \in File
        BY <1>c, <3>1
      <4> QED BY <1>a, <3>2, <4>1, <4>2, EntryMoved
    <3> QED BY <1>5, <2>2, <3>1, <3>3 DEF MovesFile
  <2> QED BY <2>1, <2>2
<1>6. ASSUME Rewrite, UNCHANGED crashes
      PROVE  GivesUp \/ Rewrites \/ RewritesAll
  <2>1. CASE at > LastFile
    <3>1. at = LastFile + 1
      BY <1>a, <1>d, <2>1
    <3> QED BY <1>6, <2>1, <3>1 DEF Rewrite, RewritesAll
  <2>2. CASE ~(at > LastFile) /\ ~(CanLock("to", at) /\ At("to", at))
    BY <1>1, <1>6, <2>2 DEF Rewrite
  <2>3. CASE ~(at > LastFile) /\ CanLock("to", at) /\ At("to", at)
    <3>1. at \in File
      BY <1>a, <2>3 DEF File
    <3>2. /\ host = "rewrite"
          /\ session' = [session EXCEPT !["to"][at] = Renewed(at)]
          /\ lock' = Locked("to", at, Free)
          /\ Goto("rewrite", at + 1)
          /\ UNCHANGED <<assets, journal, follow, sides, recovers>>
      BY <1>6, <2>3 DEF Rewrite, Renewed
    <3>3. Becomes(session', session, "to", at, Renewed(at))
      BY <1>a, <1>b, <3>1, <3>2, EntrySet
    <3>4. Becomes(lock', lock, "to", at, Free)
      BY <1>a, <1>b, <3>1, <3>2, EntrySet DEF Locked
    <3> QED BY <1>6, <2>3, <3>1, <3>2, <3>3, <3>4 DEF Rewrites
  <2> QED BY <2>1, <2>2, <2>3
<1>7. ASSUME FollowNames, UNCHANGED crashes PROVE FollowsNames
  BY <1>7 DEF FollowNames, FollowsNames
<1>8. ASSUME Crash PROVE GivesUp
  BY <1>8, LeasesLetGo DEF Crash, GivesUp, LeasesEnd, Goto
<1>9. ASSUME Fault, UNCHANGED crashes PROVE GivesUp
  BY <1>1, <1>9 DEF Fault
<1> HIDE DEF HostStep
<1>10. Host => HostStep
  BY <1>2, <1>3, <1>4, <1>5, <1>6, <1>7, <1>8, <1>9 DEF Host, HostStep, Walks
<1> QED BY <1>10

LEMMA OtherIsOtherStep ==
    ASSUME TypeOK, Other
    PROVE  OtherStep
<1>a. /\ session \in [Place -> [File -> Record]]
      /\ lock \in [Place -> [File -> {Absent, Free, "host", "other"}]]
      /\ assets \in [Place -> [File -> SUBSET Turn]]
      /\ other.place \in Place /\ other.file \in File
  BY DEF TypeOK
<1>b. "from" \in Place
  BY DEF Place
<1>c. other = [does |-> other.does, place |-> other.place,
               file |-> other.file, record |-> other.record]
  BY DEF TypeOK
<1>1. ASSUME NEW p \in Place, NEW i \in File, Open(p, i) PROVE OtherOpens(p, i)
  <2>1. Becomes(lock', lock, p, i, "other")
    <3>1. lock' = Locked(p, i, "other")
      BY <1>1 DEF Open
    <3> QED BY <1>a, <3>1, EntrySet DEF Locked
  <2>2. other' = [does |-> "load", place |-> p, file |-> i, record |-> NoSession]
    BY <1>1 DEF Open, Nobody
  <2> QED BY <1>1, <2>1, <2>2 DEF Open, OtherOpens
<1>2. ASSUME NEW i \in File, OpenFresh(i) PROVE OtherBegins(i)
  <2>1. /\ lock' = Locked("from", i, "other")
        /\ session' = [session EXCEPT !["from"][i] = Begun]
        /\ other' = [does |-> "run", place |-> "from", file |-> i, record |-> Begun]
    BY <1>2 DEF OpenFresh, Begun
  <2>2. Becomes(lock', lock, "from", i, "other")
    BY <1>a, <1>b, <2>1, EntrySet DEF Locked
  <2>3. Becomes(session', session, "from", i, Begun)
    BY <1>a, <1>b, <2>1, EntrySet
  <2> QED BY <1>2, <2>1, <2>2, <2>3 DEF OpenFresh, OtherBegins
<1>3. ASSUME Load PROVE OtherReads \/ OtherLeaves
  <2>1. CASE Opens(other.place, other.file)
    <3>1. other' = [other EXCEPT !.does = "run",
                                 !.record = session[other.place][other.file]]
      BY <1>3, <2>1 DEF Load
    <3>2. other' = [does |-> "run", place |-> other.place, file |-> other.file,
                    record |-> session[other.place][other.file]]
      BY <1>c, <3>1
    <3> QED BY <1>3, <2>1, <3>2 DEF Load, Opens, OtherReads, disk
  <2>2. CASE ~Opens(other.place, other.file)
    BY <1>3, <2>2, LeasesLetGo DEF Load, OtherLeaves
  <2> QED BY <2>1, <2>2
<1>4. ASSUME Close PROVE OtherLeaves
  BY <1>4, LeasesLetGo DEF Close, OtherLeaves
<1>5. ASSUME NEW t \in Turn, SaveTurn(t) PROVE OtherSaves(t)
  <2>1. /\ other.does = "run" /\ t \notin saved /\ saved' = saved \cup {t}
        /\ session' = [session EXCEPT ![other.place][other.file] = Continued(t)]
        /\ other' = [other EXCEPT !.record = Continued(t)]
        /\ assets' = [assets EXCEPT ![other.place][other.file] =
                         assets[other.place][other.file] \cup {t}]
        /\ UNCHANGED <<lock, journal, follow, opens, intruded>>
    BY <1>a, <1>5 DEF SaveTurn, Continued
  <2>2. Becomes(session', session, other.place, other.file, Continued(t))
    BY <1>a, <2>1, EntrySet
  <2>3. Becomes(assets', assets, other.place, other.file,
                assets[other.place][other.file] \cup {t})
    BY <1>a, <2>1, EntrySet
  <2>4. other' = [does |-> "run", place |-> other.place, file |-> other.file,
                  record |-> Continued(t)]
    BY <1>c, <2>1
  <2> QED BY <2>1, <2>2, <2>3, <2>4 DEF OtherSaves
<1> QED BY <1>1, <1>2, <1>3, <1>4, <1>5 DEF Other, OtherStep
-----------------------------------------------------------------------------
\* Every step keeps the types.
LockTable == [Place -> [File -> {Absent, Free, "host", "other"}]]
LEMMA TablesTyped ==
    ASSUME TypeOK
    PROVE  /\ \A p \in Place, i \in File, v \in {Absent, Free, "host", "other"} :
                 Locked(p, i, v) \in LockTable
           /\ \A who : Unlocked(who) \in LockTable
           /\ at \in File => Renamed(lock, Absent) \in LockTable
           /\ at \in File => Renamed(assets, {}) \in [Place -> [File -> SUBSET Turn]]
           /\ at \in File => Renamed(session, NoSession) \in [Place -> [File -> Record]]
<1>1. /\ lock \in [Place -> [File -> {Absent, Free, "host", "other"}]]
      /\ Absent \in {Absent, Free, "host", "other"}
  BY DEF TypeOK
<1>2. assets \in [Place -> [File -> SUBSET Turn]] /\ {} \in SUBSET Turn
  BY DEF TypeOK
<1>3. session \in [Place -> [File -> Record]] /\ NoSession \in Record
  BY MoveAssumption DEF TypeOK, NoSession, Record
<1>4. ASSUME NEW p \in Place, NEW i \in File,
             NEW v \in {Absent, Free, "host", "other"}
      PROVE  Locked(p, i, v) \in LockTable
  BY <1>1, EntrySet DEF Locked, LockTable
<1>5. \A who : Unlocked(who) \in LockTable
  BY LeasesLetGo DEF LockTable
<1>6. ASSUME at \in File
      PROVE  /\ Renamed(lock, Absent) \in LockTable
             /\ Renamed(assets, {}) \in [Place -> [File -> SUBSET Turn]]
             /\ Renamed(session, NoSession) \in [Place -> [File -> Record]]
  <2>1. Renamed(lock, Absent) \in LockTable
    BY <1>1, <1>6, EntryMoved DEF LockTable
  <2>2. Renamed(assets, {}) \in [Place -> [File -> SUBSET Turn]]
    BY <1>2, <1>6, EntryMoved
  <2>3. Renamed(session, NoSession) \in [Place -> [File -> Record]]
    BY <1>3, <1>6, EntryMoved
  <2> QED BY <2>1, <2>2, <2>3
<1> QED BY <1>4, <1>5, <1>6

LEMMA TablesStep ==
    ASSUME TypeOK, Assets, FewNotes, Next
    PROVE  /\ session' \in [Place -> [File -> Record]]
           /\ lock' \in LockTable
           /\ assets' \in [Place -> [File -> SUBSET Turn]]
<1> DEFINE Sessions == session' \in [Place -> [File -> Record]]
           Tables == lock' \in LockTable
           Turns == assets' \in [Place -> [File -> SUBSET Turn]]
<1>a. /\ session \in [Place -> [File -> Record]] /\ lock \in LockTable
      /\ assets \in [Place -> [File -> SUBSET Turn]]
      /\ other.place \in Place /\ other.file \in File /\ other.record \in Record
  BY DEF TypeOK, LockTable
<1>b. /\ "from" \in Place /\ "to" \in Place
      /\ Absent \in {Absent, Free, "host", "other"}
      /\ Free \in {Absent, Free, "host", "other"}
      /\ "host" \in {Absent, Free, "host", "other"}
      /\ "other" \in {Absent, Free, "host", "other"}
  BY DEF Place
<1>c. /\ host = "side" => at \in File
      /\ ~(at > LastFile) => at \in File
  BY MoveAssumption DEF Assets, TypeOK, File
<1>1. ASSUME Fail PROVE Sessions /\ Tables /\ Turns
  BY <1>a, <1>1, TablesTyped DEF Fail
<1>2. ASSUME UNCHANGED <<session, lock, assets>> PROVE Sessions /\ Tables /\ Turns
  BY <1>a, <1>2
<1>3. ASSUME Begin \/ WriteJournal \/ FollowPins \/ RemoveJournal \/ Restart
             \/ FollowNames
      PROVE  UNCHANGED <<session, lock, assets>>
  BY <1>3 DEF Begin, WriteJournal, FollowPins, RemoveJournal, Restart,
     FollowNames, disk
<1>4. ASSUME Hold PROVE Sessions /\ Tables /\ Turns
  <2>1. CASE UNCHANGED <<session, lock, assets>> \/ Fail
    BY <1>1, <1>2, <2>1
  <2>2. CASE /\ at \in File /\ lock' = Locked("from", at, "host")
             /\ UNCHANGED <<session, assets>>
    BY <1>a, <1>b, <2>2, TablesTyped
  <2> QED BY <1>4, <1>c, <2>1, <2>2 DEF Hold, disk
<1>5. ASSUME List PROVE Sessions /\ Tables /\ Turns
  <2>1. \/ UNCHANGED <<session, lock, assets>> \/ Fail
        \/ lock' = Unlocked("host") /\ UNCHANGED <<session, assets>>
    BY <1>5 DEF List, disk
  <2> QED BY <1>a, <1>1, <1>2, <2>1, TablesTyped
<1>6. ASSUME NEW s \in {"lock", "assets"}, Side(s)
      PROVE  Sessions /\ Tables /\ Turns
  <2>1. \/ Fail
        \/ /\ at \in File /\ UNCHANGED session
           /\ \/ lock' = Renamed(lock, Absent) /\ UNCHANGED assets
              \/ assets' = Renamed(assets, {}) /\ UNCHANGED lock
    BY <1>c, <1>6 DEF Side, Rename
  <2> QED BY <1>a, <1>1, <2>1, TablesTyped
<1>7. ASSUME MoveFile PROVE Sessions /\ Tables /\ Turns
  <2>1. \/ Fail
        \/ /\ at \in File /\ UNCHANGED <<lock, assets>>
           /\ session' = Renamed(session, NoSession)
    BY <1>c, <1>7 DEF MoveFile, Renamed
  <2> QED BY <1>a, <1>1, <2>1, TablesTyped
<1>8. ASSUME Rewrite PROVE Sessions /\ Tables /\ Turns
  <2>1. CASE UNCHANGED <<session, lock, assets>> \/ Fail
    BY <1>1, <1>2, <2>1
  <2>2. CASE /\ host = "rewrite" /\ at \in File /\ lock' = Locked("to", at, Free)
             /\ session' = [session EXCEPT !["to"][at] = Renewed(at)]
             /\ UNCHANGED assets
    <3>1. Renewed(at) \in Record
      <4>1. session["to"][at] \in Record
        BY <1>a, <1>b, <2>2
      <4>2. at = 1 => session["to"][at].notes <= MaxCrashes
        <5>1. crashes \in 0..MaxCrashes /\ at \in Nat
          BY MoveAssumption, <2>2 DEF TypeOK, File
        <5>2. at = 1 => session["to"][at].notes <= crashes
          BY <2>2, <5>1 DEF FewNotes, NoteLimit, Annotated, AfterRewrite
        <5>3. session["to"][at].notes \in Nat
          BY <4>1 DEF Record
        <5> QED BY <5>1, <5>2, <5>3, MoveAssumption
      <4>3. WithNote(at, session["to"][at]) \in Record
        <5> DEFINE r == session["to"][at]
        <5>1. CASE at # 1 \/ r.last
          BY <4>1, <5>1 DEF WithNote
        <5>2. CASE ~(at # 1 \/ r.last)
          <6>1. r.notes \in Nat /\ r.notes <= MaxCrashes
            BY <4>1, <4>2, <5>2 DEF Record
          <6>2. r.notes + 1 \in 0..(MaxCrashes + MaxFaults + 2)
            BY <6>1, MoveAssumption
          <6>3. WithNote(at, r) = [r EXCEPT !.notes = r.notes + 1, !.last = TRUE]
            BY <5>2 DEF WithNote
          <6> HIDE DEF r
          <6> QED BY <4>1, <6>2, <6>3 DEF Record, r
        <5> QED BY <5>1, <5>2
      <4> QED BY <4>3 DEF Renewed, Record
    <3>2. session' \in [Place -> [File -> Record]]
      BY <1>a, <1>b, <2>2, <3>1, EntrySet
    <3> QED BY <1>a, <1>b, <2>2, <3>2, TablesTyped
  <2> QED BY <1>8, <1>c, <2>1, <2>2 DEF Rewrite, Renewed, disk
<1>9. ASSUME Fault \/ Crash PROVE Sessions /\ Tables /\ Turns
  BY <1>a, <1>1, <1>9, TablesTyped DEF Fault, Crash
<1>10. ASSUME NEW p \in Place, NEW i \in File, Open(p, i)
       PROVE  Sessions /\ Tables /\ Turns
  BY <1>a, <1>b, <1>10, TablesTyped DEF Open
<1>11. ASSUME NEW i \in File, OpenFresh(i) PROVE Sessions /\ Tables /\ Turns
  <2>1. Begun \in Record
    <3>1. NoSession \in Record
      BY MoveAssumption DEF NoSession, Record
    <3> QED BY <3>1 DEF Begun, Record
  <2>2. session' \in [Place -> [File -> Record]]
    <3>1. session' = [session EXCEPT !["from"][i] = Begun]
      BY <1>11 DEF OpenFresh, Begun
    <3> QED BY <1>a, <1>b, <2>1, <3>1, EntrySet
  <2> QED BY <1>a, <1>b, <1>11, <2>2, TablesTyped DEF OpenFresh
<1>12. ASSUME Load \/ Close PROVE Sessions /\ Tables /\ Turns
  BY <1>a, <1>12, TablesTyped DEF Load, Close
<1>13. ASSUME NEW t \in Turn, SaveTurn(t) PROVE Sessions /\ Tables /\ Turns
  <2>1. /\ session' = [session EXCEPT ![other.place][other.file] = Continued(t)]
        /\ assets' = [assets EXCEPT ![other.place][other.file] =
                         assets[other.place][other.file] \cup {t}]
        /\ UNCHANGED lock
    BY <1>a, <1>13 DEF SaveTurn, Continued
  <2>2. Continued(t) \in Record
    BY <1>a DEF Continued, Record
  <2>3. assets[other.place][other.file] \cup {t} \in SUBSET Turn
    BY <1>a
  <2>4. session' \in [Place -> [File -> Record]]
    BY <1>a, <2>1, <2>2, EntrySet
  <2>5. assets' \in [Place -> [File -> SUBSET Turn]]
    BY <1>a, <2>1, <2>3, EntrySet
  <2> QED BY <1>a, <2>1, <2>4, <2>5
<1> HIDE DEF Sessions, Tables, Turns
<1>14. Sessions /\ Tables /\ Turns
  BY <1>2, <1>3, <1>4, <1>5, <1>6, <1>7, <1>8, <1>9, <1>10, <1>11, <1>12, <1>13
  DEF Next, Host, Other
<1> QED BY <1>14 DEF Sessions, Tables, Turns

LEMMA Steps ==
    ASSUME TypeOK, Assets, [Next]_vars
    PROVE  \/ HostStep /\ UNCHANGED <<other, opens, saved, intruded>>
           \/ OtherStep /\ UNCHANGED <<host, at, sides, recovers, faults, crashes>>
           \/ UNCHANGED vars
  BY HostIsHostStep, OtherIsOtherStep DEF Next

\* What the host keeps to itself.
HostTyped ==
    /\ journal \in BOOLEAN /\ recovers \in BOOLEAN
    /\ follow \subseteq Unchecked \cup {"pins"}
    /\ host \in HostSteps /\ at \in 1..(LastFile + 1)
    /\ sides \subseteq {"lock", "assets"}
    /\ faults \in 0..MaxFaults /\ crashes \in 0..MaxCrashes
LEMMA HostTypedStep ==
    ASSUME TypeOK, Assets, Next
    PROVE  HostTyped'
<1> USE DEF HostTyped
<1>a. HostTyped /\ LastFile \in Nat \ {0} /\ 1 \in 1..(LastFile + 1)
  BY MoveAssumption DEF TypeOK
<1>b. /\ {"idle", "hold", "write", "list", "side", "rewrite", "names", "pins",
          "unwrite", "down"} = HostSteps
      /\ ~(at > LastFile) => at + 1 \in 1..(LastFile + 1)
  BY <1>a DEF HostSteps
<1>c. host = "side" => at + 1 \in 1..(LastFile + 1)
  BY <1>a DEF File, Assets
<1>d. faults + 1 \in Nat /\ (faults < MaxFaults => faults + 1 \in 0..MaxFaults)
      /\ (crashes < MaxCrashes => crashes + 1 \in 0..MaxCrashes)
  BY <1>a, MoveAssumption
<1>1. ASSUME Fail, faults' \in 0..MaxFaults, crashes' \in 0..MaxCrashes
      PROVE  HostTyped'
  BY <1>a, <1>b, <1>1 DEF Fail, Goto
<1>2. ASSUME Begin \/ WriteJournal \/ FollowPins \/ RemoveJournal \/ Restart,
             UNCHANGED <<faults, crashes>>
      PROVE  HostTyped'
  BY <1>a, <1>b, <1>2 DEF Begin, WriteJournal, FollowPins, RemoveJournal,
     Restart, Goto, disk
<1>3. ASSUME Hold, UNCHANGED <<faults, crashes>> PROVE HostTyped'
  BY <1>a, <1>b, <1>1, <1>3 DEF Hold, Goto, disk
<1>4. ASSUME List, UNCHANGED <<faults, crashes>> PROVE HostTyped'
  <2>1. Sidecars("from", at) \subseteq {"lock", "assets"}
    BY DEF Sidecars
  <2> QED BY <1>a, <1>b, <1>1, <1>4, <2>1 DEF List, Goto, disk
<1>5. ASSUME NEW s \in {"lock", "assets"}, Side(s), UNCHANGED <<faults, crashes>>
      PROVE  HostTyped'
  BY <1>a, <1>b, <1>1, <1>5 DEF Side
<1>6. ASSUME MoveFile, UNCHANGED <<faults, crashes>> PROVE HostTyped'
  BY <1>a, <1>b, <1>c, <1>1, <1>6 DEF MoveFile, Goto
<1>7. ASSUME Rewrite, UNCHANGED <<faults, crashes>> PROVE HostTyped'
  BY <1>a, <1>b, <1>1, <1>7 DEF Rewrite, Goto, disk
<1>8. ASSUME FollowNames, UNCHANGED crashes PROVE HostTyped'
  BY <1>a, <1>b, <1>d, <1>8 DEF FollowNames, Goto
<1>9. ASSUME Fault, UNCHANGED crashes PROVE HostTyped'
  BY <1>a, <1>d, <1>1, <1>9 DEF Fault
<1>10. ASSUME Crash, UNCHANGED faults PROVE HostTyped'
  BY <1>a, <1>b, <1>d, <1>10 DEF Crash, Goto
<1>11. ASSUME Other, UNCHANGED <<host, at, sides, recovers, faults, crashes>>
       PROVE  HostTyped'
  <2>1. UNCHANGED <<journal, follow>>
    BY <1>11 DEF Other, Open, OpenFresh, Load, SaveTurn, Close
  <2> QED BY <1>a, <1>11, <2>1
<1> HIDE DEF HostTyped
<1> QED BY <1>2, <1>3, <1>4, <1>5, <1>6, <1>7, <1>8, <1>9, <1>10, <1>11
        DEF Next, Host

LEMMA TypeStep ==
    ASSUME TypeOK, Assets, FewNotes, [Next]_vars
    PROVE  TypeOK'
<1>1. CASE UNCHANGED vars
  BY <1>1 DEF vars, TypeOK
<1>2. CASE Next
  <2>1. /\ session' \in [Place -> [File -> Record]]
        /\ lock' \in [Place -> [File -> {Absent, Free, "host", "other"}]]
        /\ assets' \in [Place -> [File -> SUBSET Turn]]
    BY <1>2, TablesStep DEF LockTable
  <2>2. HostTyped'
    BY <1>2, HostTypedStep
  <2>a. /\ other \in [does : {"nothing", "load", "run"}, place : Place,
                      file : File, record : Record]
        /\ opens \in 0..MaxOpens /\ saved \subseteq Turn
        /\ intruded \subseteq File
        /\ session \in [Place -> [File -> Record]]
    BY DEF TypeOK
  <2>b. NoSession \in Record /\ Begun \in Record
    <3>1. NoSession \in Record
      BY MoveAssumption DEF NoSession, Record
    <3> QED BY <3>1 DEF Begun, Record
  <2>c. "from" \in Place /\ 1 \in File
    BY MoveAssumption DEF Place, File
  <2> DEFINE Rest == /\ other' \in [does : {"nothing", "load", "run"},
                                    place : Place, file : File, record : Record]
                     /\ opens' \in 0..MaxOpens /\ saved' \subseteq Turn
                     /\ intruded' \subseteq File
  <2>3. ASSUME NEW p \in Place, NEW i \in File, OtherOpens(p, i) PROVE Rest
    <3>1. opens' \in 0..MaxOpens /\ intruded' \subseteq File /\ saved' = saved
      BY <2>a, <2>3, MoveAssumption DEF OtherOpens
    <3>2. other' = [does |-> "load", place |-> p, file |-> i, record |-> NoSession]
      BY <2>3 DEF OtherOpens
    <3> QED BY <2>a, <2>b, <3>1, <3>2
  <2>4. ASSUME NEW i \in File, OtherBegins(i) PROVE Rest
    <3>1. opens' \in 0..MaxOpens /\ intruded' \subseteq File /\ saved' = saved
      BY <2>a, <2>4, MoveAssumption DEF OtherBegins
    <3>2. other' = [does |-> "run", place |-> "from", file |-> i, record |-> Begun]
      BY <2>4 DEF OtherBegins
    <3> QED BY <2>a, <2>b, <2>c, <3>1, <3>2
  <2>5. ASSUME OtherReads PROVE Rest
    BY <2>a, <2>5 DEF OtherReads
  <2>6. ASSUME OtherLeaves PROVE Rest
    BY <2>a, <2>b, <2>c, <2>6 DEF OtherLeaves, Nobody
  <2>7. ASSUME NEW t \in Turn, OtherSaves(t) PROVE Rest
    <3>1. Continued(t) \in Record
      BY <2>a DEF Continued, Record
    <3> QED BY <2>a, <2>7, <3>1 DEF OtherSaves
  <2>8. ASSUME UNCHANGED <<other, opens, saved, intruded>> PROVE Rest
    BY <2>a, <2>8
  <2> HIDE DEF Rest
  <2>9. Rest
    BY <1>2, <2>3, <2>4, <2>5, <2>6, <2>7, <2>8, OtherIsOtherStep
    DEF Next, OtherStep
  <2> QED BY <2>1, <2>2, <2>9 DEF Rest, HostTyped, TypeOK
<1> QED BY <1>1, <1>2

LEMMA RecordsStep ==
    ASSUME TypeOK, Records, Loaded, Assets, [Next]_vars
    PROVE  Records'
<1>a. /\ session \in [Place -> [File -> Record]]
      /\ other.place \in Place /\ other.file \in File /\ other.record \in Record
      /\ saved \subseteq Turn /\ at \in Nat
  BY MoveAssumption DEF TypeOK
<1>b. /\ Place = {"from", "to"} /\ IsFiniteSet(saved)
      /\ \A r \in Record : /\ r.turns \in SUBSET Turn /\ r.notes \in Nat
                           /\ r.last \in BOOLEAN
  BY MoveAssumption DEF Place, Records, Record
\* What is a subset of the turns saved is finite.
<1>c. ASSUME NEW T, T \subseteq saved
      PROVE  IsFiniteSet(T) /\ Cardinality(T) \in Nat
  BY <1>b, <1>c, FS_Subset, FS_CardinalityType
<1>d. Noted(NoSession) /\ Unnoted(NoSession) /\ Noted(Begun) /\ Unnoted(Begun)
  BY <1>c, FS_EmptySet DEF Noted, Fits, Unnoted, NoSession, Begun
<1>1. CASE UNCHANGED <<session, other, saved>>
  BY <1>1 DEF Records, Noted, Unnoted, At
<1>2. CASE MovesFile /\ UNCHANGED <<other, saved>>
  <2>1. /\ Shifts(session', session, NoSession)
        /\ UNCHANGED <<other, saved>>
    BY <1>2 DEF MovesFile
  <2>2. \A q \in Place, j \in File :
            \/ session'[q][j] = session[q][j]
            \/ session'[q][j] = NoSession
            \/ q = "to" /\ session'[q][j] = session["from"][j]
    BY <2>1 DEF Shifts
  <2>3. /\ \A p \in Place, i \in File :
              session'[p][i].kept \/ session'[p][i] = NoSession
        /\ \A p \in Place, i \in File : Noted(session'[p][i])
        /\ \A i \in File : Unnoted(session'["from"][i])
    BY <1>b, <1>d, <2>2 DEF Records, At
  <2> HIDE DEF Noted, Unnoted
  <2> QED BY <2>1, <2>3 DEF Records, At, Noted, Unnoted
<1>3. CASE Rewrites /\ UNCHANGED <<other, saved>>
  <2>1. /\ Becomes(session', session, "to", at, Renewed(at))
        /\ at \in File /\ At("to", at) /\ UNCHANGED <<other, saved>>
    BY <1>3 DEF Rewrites
  <2> DEFINE r == session["to"][at]
  <2>2. r \in Record /\ Noted(r) /\ r.kept
    BY <1>a, <1>b, <2>1 DEF Records, At
  <2>3. Cardinality(r.turns) \in Nat
    BY <1>c, <2>2 DEF Noted, Fits
  <2>4. Renewed(at).turns = r.turns /\ Renewed(at).kept
    BY <2>2 DEF Renewed, WithNote, Record
  <2>5. /\ at # 1 \/ r.last => /\ Renewed(at).last = r.last
                               /\ Renewed(at).notes = r.notes
        /\ ~(at # 1 \/ r.last) => /\ Renewed(at).last = TRUE
                                  /\ Renewed(at).notes = r.notes + 1
    BY <2>2 DEF Renewed, WithNote, Record
  <2> HIDE DEF r
  <2>6. Noted(Renewed(at))
    <3>1. r.notes \in Nat
      BY <1>b, <2>2
    <3>2. CASE at # 1 \/ r.last
      BY <2>2, <2>4, <2>5, <3>2 DEF Noted, Fits
    <3>3. CASE ~(at # 1 \/ r.last)
      BY <2>2, <2>3, <2>4, <2>5, <3>1, <3>3 DEF Noted, Fits
    <3> QED BY <3>2, <3>3
  <2>7. /\ \A p \in Place, i \in File :
              session'[p][i].kept \/ session'[p][i] = NoSession
        /\ \A p \in Place, i \in File : Noted(session'[p][i])
        /\ \A i \in File : Unnoted(session'["from"][i])
    BY <1>b, <2>1, <2>4, <2>6 DEF Records, Becomes, At
  <2> QED BY <2>1, <2>7 DEF Records, At, Noted, Unnoted
<1>4. CASE OtherStep
  <2>a. other.place = "from" => Unnoted(other.record)
    BY DEF Records
  <2>1. ASSUME NEW p \in Place, NEW i \in File, OtherOpens(p, i) PROVE Records'
    <3>1. other'.record = NoSession /\ UNCHANGED <<session, saved>>
      BY <2>1 DEF OtherOpens
    <3> HIDE DEF Noted, Unnoted
    <3>2. Noted(NoSession)' /\ Unnoted(NoSession)'
      BY <1>d, <3>1 DEF Noted, Unnoted
    <3> QED BY <3>1, <3>2 DEF Records, At, Noted, Unnoted
  <2>2. ASSUME NEW i \in File, OtherBegins(i) PROVE Records'
    <3>1. /\ Becomes(session', session, "from", i, Begun) /\ saved' = saved
          /\ other'.record = Begun
      BY <2>2 DEF OtherBegins
    <3>2. Begun.kept
      BY DEF Begun, NoSession
    <3>3. /\ \A p \in Place, j \in File :
                session'[p][j].kept \/ session'[p][j] = NoSession
          /\ \A p \in Place, j \in File : Noted(session'[p][j])
          /\ \A j \in File : Unnoted(session'["from"][j])
      BY <1>b, <1>d, <3>1, <3>2 DEF Records, Becomes, At
    <3> QED BY <1>d, <3>1, <3>3 DEF Records, At, Noted, Unnoted
  <2>3. CASE OtherReads
    <3>1. /\ other'.record = session[other.place][other.file]
          /\ other'.place = other.place /\ UNCHANGED <<session, saved>>
      BY <2>3 DEF OtherReads, disk
    <3>2. /\ Noted(other'.record)
          /\ other'.place = "from" => Unnoted(other'.record)
      BY <1>a, <3>1 DEF Records
    <3> QED BY <3>1, <3>2 DEF Records, At, Noted, Unnoted
  <2>4. CASE OtherLeaves
    <3>1. other'.record = NoSession /\ UNCHANGED <<session, saved>>
      BY <2>4 DEF OtherLeaves, Nobody
    <3>2. Noted(NoSession)' /\ Unnoted(NoSession)'
      BY <1>d, <3>1 DEF Noted, Unnoted
    <3> QED BY <3>1, <3>2 DEF Records, At, Noted, Unnoted
  <2>5. ASSUME NEW t \in Turn, OtherSaves(t) PROVE Records'
    <3> DEFINE r == other.record
               c == Continued(t)
    <3>1. /\ Becomes(session', session, other.place, other.file, c)
          /\ saved' = saved \cup {t} /\ t \notin saved
          /\ other'.record = c /\ other'.place = other.place
          /\ other.does = "run"
      BY <2>5 DEF OtherSaves
    <3>2. r \in Record /\ Noted(r)
      BY <1>a DEF Records
    <3>3. /\ c.turns = r.turns \cup {t} /\ c.last = FALSE
          /\ c.notes = r.notes /\ c.kept = r.kept
      BY <3>2 DEF Continued, Record
    <3> HIDE DEF r, c
    <3>4. /\ IsFiniteSet(saved')
          /\ r.turns \subseteq saved
          /\ Cardinality(r.turns \cup {t}) = Cardinality(r.turns) + 1
          /\ Cardinality(r.turns) \in Nat
      <4>1. IsFiniteSet(r.turns) /\ Cardinality(r.turns) \in Nat /\ t \notin r.turns
        BY <1>c, <3>1, <3>2 DEF Noted, Fits
      <4> QED BY <1>b, <3>1, <3>2, <4>1, FS_AddElement DEF Noted, Fits
    <3>5. Fits(c, saved') /\ (other.place = "from" => Unnoted(c))
      <4>1. r.notes \in Nat /\ r.notes <= Cardinality(r.turns) + 1
        BY <1>b, <3>2, <3>4 DEF Noted, Fits
      <4>2. other.place = "from" => Unnoted(r)
        BY <2>a DEF r
      <4> QED BY <3>1, <3>3, <3>4, <4>1, <4>2 DEF Fits, Unnoted
    <3>6. c.kept
      BY <3>1, <3>3 DEF Loaded, r
    <3>7. \A q \in Record : Noted(q) => Fits(q, saved')
      BY <3>1 DEF Noted, Fits
    <3>8. /\ \A p \in Place, j \in File :
                session'[p][j].kept \/ session'[p][j] = NoSession
          /\ \A p \in Place, j \in File : Fits(session'[p][j], saved')
          /\ \A j \in File : Unnoted(session'["from"][j])
      <4>1. \A p \in Place, j \in File :
               \/ session'[p][j] = session[p][j]
               \/ session'[p][j] = c /\ p = other.place
        BY <1>a, <3>1 DEF Becomes
      <4>2. /\ \A p \in Place, j \in File :
                  /\ session[p][j] \in Record /\ Noted(session[p][j])
                  /\ session[p][j].kept \/ session[p][j] = NoSession
            /\ \A j \in File : Unnoted(session["from"][j])
        BY <1>a DEF Records, At
      <4>3. \A p \in Place, j \in File :
               /\ session'[p][j].kept \/ session'[p][j] = NoSession
               /\ Fits(session'[p][j], saved')
        BY <3>5, <3>6, <3>7, <4>1, <4>2
      <4>4. \A j \in File : Unnoted(session'["from"][j])
        BY <1>b, <3>5, <4>1, <4>2
      <4> QED BY <4>3, <4>4
    <3> QED BY <3>1, <3>4, <3>5, <3>8 DEF Records, At, Noted, Unnoted
  <2> QED BY <1>4, <2>1, <2>2, <2>3, <2>4, <2>5 DEF OtherStep
<1>5. CASE HostStep /\ UNCHANGED <<other, saved>>
  <2>1. \/ UNCHANGED <<session, other, saved>> \/ MovesFile \/ Rewrites
    BY <1>5 DEF HostStep, Walks, GivesUp, TakesLease, ListsAll, MovesLock,
       MovesAssets, SkipsLease, HoldsAll, ListsSides, SkipsFile, RewritesAll,
       FollowsNames, Begin, WriteJournal, FollowPins, RemoveJournal, Restart, disk
  <2> QED BY <1>1, <1>2, <1>3, <1>5, <2>1
<1> QED BY <1>1, <1>4, <1>5, Steps DEF vars

\* What the host's steps leave alone.
LEMMA HostLeaves ==
    ASSUME HostStep
    PROVE  /\ UNCHANGED session \/ MovesFile \/ Rewrites
           /\ \/ UNCHANGED lock \/ GivesUp \/ TakesLease \/ ListsAll
              \/ MovesLock \/ Rewrites
           /\ UNCHANGED assets \/ MovesAssets
<1>1. UNCHANGED session \/ MovesFile \/ Rewrites
  BY DEF HostStep, Walks, GivesUp, TakesLease, ListsAll, MovesLock,
     MovesAssets, SkipsLease, HoldsAll, ListsSides, SkipsFile, RewritesAll,
     FollowsNames, Begin, WriteJournal, FollowPins, RemoveJournal, Restart, disk
<1>2. \/ UNCHANGED lock \/ GivesUp \/ TakesLease \/ ListsAll
      \/ MovesLock \/ Rewrites
  BY DEF HostStep, Walks, MovesAssets, MovesFile, SkipsLease, HoldsAll,
     ListsSides, SkipsFile, RewritesAll, FollowsNames, Begin, WriteJournal,
     FollowPins, RemoveJournal, Restart, disk
<1>3. UNCHANGED assets \/ MovesAssets
  BY DEF HostStep, Walks, GivesUp, TakesLease, ListsAll, MovesLock, Rewrites,
     MovesFile, SkipsLease, HoldsAll, ListsSides, SkipsFile, RewritesAll,
     FollowsNames, Begin, WriteJournal, FollowPins, RemoveJournal, Restart, disk
<1> QED BY <1>1, <1>2, <1>3

LEMMA LoadedStep ==
    ASSUME TypeOK, Loaded, Locks, Assets, [Next]_vars
    PROVE  Loaded'
<1>a. /\ session \in [Place -> [File -> Record]]
      /\ other.place \in Place /\ other.file \in File /\ other.record \in Record
  BY DEF TypeOK
<1>b. /\ Place = {"from", "to"} /\ NoSession.turns = {}
      /\ Nobody = [does |-> "nothing", place |-> "from", file |-> 1,
                   record |-> NoSession]
  BY DEF Place, NoSession, Nobody
<1>1. ASSUME UNCHANGED <<other, intruded>>,
             other.does # "nothing" =>
                \/ session'[other.place][other.file] =
                       session[other.place][other.file]
                \/ ~Settled /\ session'[other.place][other.file].turns = {}
      PROVE  Loaded'
  BY <1>1 DEF Loaded, At, Settled
<1>2. CASE UNCHANGED <<session, other, intruded>>
  BY <1>1, <1>2
<1>3. CASE MovesFile /\ UNCHANGED <<other, intruded>>
  <2>1. /\ Shifts(session', session, NoSession) /\ host = "side" /\ ~At("to", at)
        /\ at \in File
    BY <1>3 DEF MovesFile, Assets
  <2>2. CASE other.file # at
    BY <1>1, <1>3, <1>a, <2>1, <2>2 DEF Shifts
  <2>3. CASE other.file = at /\ other.place = "to"
    <3>1. other.does = "nothing"
      BY <2>1, <2>3 DEF Loaded, Settled
    <3> QED BY <1>1, <1>3, <3>1
  <2>4. CASE other.file = at /\ other.place = "from"
    <3>1. session'["from"][at] = NoSession
      BY <1>b, <2>1 DEF Shifts
    <3>2. other.does # "nothing" => ~Settled
      BY <2>1, <2>4 DEF Locks, Settled
    <3> QED BY <1>1, <1>3, <1>b, <2>4, <3>1, <3>2
  <2> QED BY <1>a, <1>b, <2>2, <2>3, <2>4
<1>4. CASE Rewrites /\ UNCHANGED <<other, intruded>>
  <2>1. Becomes(session', session, "to", at, Renewed(at)) /\ CanLock("to", at)
    BY <1>4 DEF Rewrites
  <2>2. other.does # "nothing" => ~(other.place = "to" /\ other.file = at)
    BY <2>1 DEF Locks, Settled, Held, CanLock, Absent, Free
  <2>3. ~(other.place = "to" /\ other.file = at) =>
            session'[other.place][other.file] = session[other.place][other.file]
    BY <1>a, <2>1 DEF Becomes
  <2> QED BY <1>1, <1>4, <2>2, <2>3
<1>5. ASSUME NEW p \in Place, NEW i \in File, OtherOpens(p, i) PROVE Loaded'
  <2>1. other' = [does |-> "load", place |-> p, file |-> i, record |-> NoSession]
    BY <1>5 DEF OtherOpens
  <2>2. session' = session /\ At(p, i)
    BY <1>5 DEF OtherOpens
  <2> QED BY <2>1, <2>2 DEF Loaded, At, Settled
<1>6. ASSUME NEW i \in File, OtherBegins(i) PROVE Loaded'
  <2>1. other' = [does |-> "run", place |-> "from", file |-> i, record |-> Begun]
    BY <1>6 DEF OtherBegins
  <2>2. session'["from"][i] = Begun /\ Begun.kept /\ i \in intruded'
    BY <1>6, <1>b DEF OtherBegins, Becomes, Begun, NoSession
  <2> QED BY <2>1, <2>2 DEF Loaded, At, Settled
<1>7. CASE OtherReads
  BY <1>7, <1>a DEF OtherReads, Loaded, At, Settled, disk
<1>8. CASE OtherLeaves
  BY <1>8, <1>b DEF OtherLeaves, Loaded, At, Settled
<1>9. ASSUME NEW t \in Turn, OtherSaves(t) PROVE Loaded'
  <2>1. other' = [does |-> "run", place |-> other.place, file |-> other.file,
                  record |-> Continued(t)]
    BY <1>9 DEF OtherSaves
  <2>2. session'[other.place][other.file] = Continued(t) /\ Continued(t).kept
    <3>1. Becomes(session', session, other.place, other.file, Continued(t))
      BY <1>9 DEF OtherSaves
    <3>2. Continued(t).kept = other.record.kept
      BY <1>a DEF Continued, Record
    <3>3. other.record.kept
      BY <1>9 DEF OtherSaves, Loaded
    <3> QED BY <1>a, <3>1, <3>2, <3>3 DEF Becomes
  <2> HIDE DEF Continued
  <2> QED BY <2>1, <2>2 DEF Loaded, At, Settled
<1> QED BY <1>2, <1>3, <1>4, <1>5, <1>6, <1>7, <1>8, <1>9, Steps, HostLeaves
        DEF vars, OtherStep

\* A file of the move is where it was before a step of the host, or has moved.
LEMMA KeptStep ==
    ASSUME TypeOK, Loaded, Assets, [Next]_vars
    PROVE  /\ \A i \in File \ intruded' :
                 At("from", i)' => At("from", i) /\ (MovesFile => i # at)
           /\ \A i \in File : At("to", i) => At("to", i)'
           /\ intruded \subseteq intruded'
<1>a. /\ session \in [Place -> [File -> Record]]
      /\ other.place \in Place /\ other.file \in File /\ other.record \in Record
  BY DEF TypeOK
<1>b. /\ "from" \in Place /\ "to" \in Place
      /\ ~NoSession.kept
  BY DEF Place, NoSession
<1>1. CASE UNCHANGED <<session, intruded>> /\ ~MovesFile
  BY <1>1 DEF At
<1>2. CASE MovesFile /\ UNCHANGED intruded
  <2>1. /\ Shifts(session', session, NoSession) /\ ~At("to", at)
    BY <1>2 DEF MovesFile
  <2> QED BY <1>2, <1>b, <2>1 DEF Shifts, At
<1>3. CASE Rewrites /\ UNCHANGED intruded
  <2>1. /\ Becomes(session', session, "to", at, Renewed(at)) /\ at \in File
        /\ At("to", at) /\ ~MovesFile
    BY <1>3 DEF Rewrites, MovesFile
  <2>2. Renewed(at).kept
    <3>1. session["to"][at] \in Record /\ session["to"][at].kept
      BY <1>a, <1>b, <2>1 DEF At
    <3> QED BY <3>1 DEF Renewed, WithNote, Record
  <2> QED BY <1>3, <1>b, <2>1, <2>2 DEF Becomes, At
<1>4. CASE OtherStep /\ UNCHANGED host
  <2>1. \/ UNCHANGED session /\ intruded \subseteq intruded'
        \/ \E i \in File : OtherBegins(i)
        \/ \E t \in Turn : OtherSaves(t)
    BY <1>4 DEF OtherStep, OtherOpens, OtherReads, OtherLeaves, disk
  <2>2. ~MovesFile
    BY <1>4 DEF MovesFile, Goto
  <2>3. CASE UNCHANGED session /\ intruded \subseteq intruded'
    BY <2>2, <2>3 DEF At
  <2>4. ASSUME NEW i \in File, OtherBegins(i)
        PROVE  /\ \A j \in File \ intruded' : At("from", j)' => At("from", j)
               /\ \A j \in File : At("to", j) => At("to", j)'
               /\ intruded \subseteq intruded'
    <3>1. Becomes(session', session, "from", i, Begun) /\ intruded' = intruded \cup {i}
      BY <2>4 DEF OtherBegins
    <3> QED BY <1>b, <3>1 DEF Becomes, At
  <2>5. ASSUME NEW t \in Turn, OtherSaves(t)
        PROVE  /\ \A j \in File \ intruded' : At("from", j)' => At("from", j)
               /\ \A j \in File : At("to", j) => At("to", j)'
               /\ intruded \subseteq intruded'
    <3>1. /\ Becomes(session', session, other.place, other.file, Continued(t))
          /\ intruded' = intruded /\ other.does = "run"
      BY <2>5 DEF OtherSaves
    <3>2. Continued(t).kept = other.record.kept
      BY <1>a DEF Continued, Record
    <3>3. /\ other.record.kept
          /\ other.place = "to" \/ other.file \notin intruded =>
                At(other.place, other.file)
      BY <3>1 DEF Loaded, Settled
    <3> HIDE DEF Continued
    <3>4. \A q \in Place, j \in File :
             IF q = other.place /\ j = other.file
             THEN session'[q][j].kept ELSE session'[q][j] = session[q][j]
      BY <3>1, <3>2, <3>3 DEF Becomes
    <3>5. ASSUME NEW j \in File \ intruded, session'["from"][j].kept
          PROVE  session["from"][j].kept
      BY <1>b, <3>3, <3>4, <3>5 DEF At
    <3>6. \A j \in File : session["to"][j].kept => session'["to"][j].kept
      BY <1>b, <3>4
    <3> QED BY <3>1, <3>5, <3>6 DEF At
  <2> QED BY <2>1, <2>2, <2>3, <2>4, <2>5
<1>5. CASE HostStep /\ UNCHANGED intruded
  BY <1>1, <1>2, <1>3, <1>5, HostLeaves
<1>6. CASE UNCHANGED vars
  BY <1>1, <1>6 DEF vars, MovesFile, Goto
<1> QED BY <1>4, <1>5, <1>6, Steps

\* A host that has taken no lease yet, or let go of them, has none.
LEMMA LocksHostStep ==
    ASSUME TypeOK, Loaded, Locks, Assets, HostStep, [Next]_vars,
           UNCHANGED <<other, opens, saved, intruded>>
    PROVE  Locks'
<1>a. /\ other.place \in Place /\ other.file \in File
      /\ LastFile \in Nat /\ at \in Nat /\ File = 1..LastFile
      /\ Place = {"from", "to"}
      /\ Absent = "absent" /\ Free = "free"
  <2>1. other.place \in Place /\ other.file \in File /\ at \in Nat
    BY MoveAssumption DEF TypeOK
  <2> QED BY <2>1, MoveAssumption DEF File, Place, Absent, Free
<1>b. /\ \A i \in File \ intruded :
            At("from", i)' => At("from", i) /\ (MovesFile => i # at)
      /\ Settled' <=> Settled
  BY KeptStep DEF Settled
<1>1. CASE GivesUp \/ ListsAll
  BY <1>1, <1>a, <1>b DEF GivesUp, ListsAll, LeasesEnd, Goto, Locks, Held, HoldsLease,
     Moving
<1>2. CASE TakesLease
  BY <1>2, <1>a, <1>b DEF TakesLease, Becomes, CanLock, Goto, Locks, Held,
     HoldsLease, Moving
<1>3. CASE MovesLock
  <2>1. /\ Shifts(lock', lock, Absent) /\ host = "side" /\ lock["to"][at] = Absent
        /\ UNCHANGED <<other, intruded, host, at>> /\ at \in File
    BY <1>3 DEF MovesLock, Assets
  <2>2. /\ \A p \in Place, i \in File : i # at => lock'[p][i] = lock[p][i]
        /\ lock'["from"][at] = Absent /\ lock'["to"][at] = lock["from"][at]
    BY <1>a, <2>1 DEF Shifts
  <2>3. other.does # "nothing" /\ Settled => other.file # at
    BY <1>a, <2>1 DEF Locks, Held, Settled
  <2>4. (other.does # "nothing" /\ Settled =>
            Held(other.place, other.file, "other"))'
    BY <1>a, <1>b, <2>1, <2>2, <2>3 DEF Locks, Held
  <2>5. ASSUME NEW p \in Place, NEW i \in File, lock'[p][i] = "other"
        PROVE  /\ other.does # "nothing" /\ other.file = i
               /\ other.place = p \/ i \in intruded
    <3>1. CASE i # at
      BY <2>2, <2>5, <3>1 DEF Locks, Held
    <3>2. CASE i = at
      <4>1. p = "to" /\ lock["from"][at] = "other"
        BY <1>a, <2>2, <2>5, <3>2
      <4>2. /\ other.does # "nothing" /\ other.file = at
            /\ other.place = "from" \/ at \in intruded
        BY <1>a, <2>1, <4>1 DEF Locks, Held
      <4> QED BY <2>1, <3>2, <4>2 DEF Locks
    <3> QED BY <3>1, <3>2
  <2>6. \A i \in File \ intruded' :
           At("from", i)' /\ HoldsLease(i)' => lock'["from"][i] = "host"
    BY <1>a, <1>b, <2>1, <2>2 DEF Locks, Held, HoldsLease
  <2> QED BY <2>1, <2>4, <2>5, <2>6 DEF Locks, Held, Moving, Settled
<1>4. CASE Rewrites
  BY <1>4, <1>a, <1>b DEF Rewrites, Becomes, CanLock, Goto, Locks, Held, HoldsLease, Moving
<1>5. CASE MovesAssets \/ MovesFile
  BY <1>5, <1>a, <1>b DEF MovesAssets, MovesFile, Goto, Locks, Held, HoldsLease,
     Moving, Assets
<1>6. CASE SkipsLease \/ HoldsAll
  BY <1>6, <1>a, <1>b DEF SkipsLease, HoldsAll, Goto, Locks, Held, HoldsLease,
     Moving, disk
<1>7. CASE ListsSides \/ SkipsFile
  BY <1>7, <1>a, <1>b DEF ListsSides, SkipsFile, Goto, Locks, Held, HoldsLease,
     Moving, disk, Settled
<1>8. CASE RewritesAll \/ FollowsNames
  BY <1>8, <1>a, <1>b DEF RewritesAll, FollowsNames, Goto, Locks, Held, HoldsLease,
     Moving, disk
<1>9. CASE Begin \/ Restart
  BY <1>9, <1>a, <1>b DEF Begin, Restart, Goto, Locks, Held, HoldsLease, Moving, disk
<1>10. CASE WriteJournal \/ FollowPins \/ RemoveJournal
  BY <1>10, <1>a, <1>b DEF WriteJournal, FollowPins, RemoveJournal, Goto, Locks, Held,
     HoldsLease, Moving, disk
<1> QED BY <1>1, <1>2, <1>3, <1>4, <1>5, <1>6, <1>7, <1>8, <1>9, <1>10
        DEF HostStep, Walks

LEMMA LocksOtherStep ==
    ASSUME TypeOK, Loaded, Locks, Assets, OtherStep, [Next]_vars,
           UNCHANGED <<host, at, sides>>
    PROVE  Locks'
<1>a. /\ other.place \in Place /\ other.file \in File
      /\ at \in Nat /\ File \subseteq Nat
      /\ Place = {"from", "to"}
      /\ Absent = "absent" /\ Free = "free"
      /\ Nobody.does = "nothing"
  <2>1. other.place \in Place /\ other.file \in File /\ at \in Nat
    BY MoveAssumption DEF TypeOK
  <2> QED BY <2>1, MoveAssumption DEF File, Place, Absent, Free, Nobody
<1>b. /\ \A i \in File \ intruded' : At("from", i)' => At("from", i)
      /\ intruded \subseteq intruded'
      /\ \A i \in File : HoldsLease(i)' = HoldsLease(i)
  BY KeptStep DEF HoldsLease
<1>1. ASSUME NEW p \in Place, NEW i \in File, OtherOpens(p, i) PROVE Locks'
  <2>1. /\ other.does = "nothing" /\ CanLock(p, i)
        /\ Becomes(lock', lock, p, i, "other")
        /\ other'.does = "load" /\ other'.place = p /\ other'.file = i
        /\ p = "from" /\ host \in Moving /\ at <= i => i \in intruded'
    BY <1>1 DEF OtherOpens
  <2>2. \A q \in Place, j \in File :
           \/ lock'[q][j] = lock[q][j] /\ lock[q][j] # "other"
           \/ q = p /\ j = i /\ lock'[q][j] = "other" /\ lock[q][j] # "host"
    <3>1. \A q \in Place, j \in File : lock[q][j] # "other"
      BY <2>1 DEF Locks, Held
    <3>2. lock[p][i] # "host"
      BY <1>a, <2>1 DEF CanLock
    <3> QED BY <2>1, <3>1, <3>2 DEF Becomes
  <2>3. lock'[p][i] = "other"
    BY <2>1 DEF Becomes
  <2>4. \A j \in File \ intruded' :
           At("from", j)' /\ HoldsLease(j)' => lock'["from"][j] = "host"
    BY <1>a, <1>b, <2>2 DEF Locks, Held
  <2>5. \A q \in Place, j \in File : lock'[q][j] = "host" =>
           \/ q = "from" /\ host = "hold" /\ j < at
           \/ q = "from" /\ host = "write"
           \/ host \in Moving
    BY <2>2 DEF Locks, Held
  <2>6. host = "side" /\ p = "from" /\ i = at => at \in intruded'
    BY <1>a, <2>1 DEF Moving
  <2> QED BY <2>1, <2>2, <2>3, <2>4, <2>5, <2>6 DEF Locks, Held, Settled
<1>2. ASSUME NEW i \in File, OtherBegins(i) PROVE Locks'
  <2>1. /\ other.does = "nothing" /\ CanLock("from", i)
        /\ Becomes(lock', lock, "from", i, "other")
        /\ other'.does = "run" /\ other'.place = "from" /\ other'.file = i
        /\ i \in intruded'
    BY <1>2 DEF OtherBegins
  <2>2. \A q \in Place, j \in File :
           \/ lock'[q][j] = lock[q][j] /\ lock[q][j] # "other"
           \/ q = "from" /\ j = i /\ lock'[q][j] = "other" /\ lock[q][j] # "host"
    <3>1. \A q \in Place, j \in File : lock[q][j] # "other"
      BY <2>1 DEF Locks, Held
    <3>2. lock["from"][i] # "host"
      BY <1>a, <2>1 DEF CanLock
    <3> QED BY <2>1, <3>1, <3>2 DEF Becomes
  <2>3. lock'["from"][i] = "other"
    BY <1>a, <2>1 DEF Becomes
  <2>4. \A j \in File \ intruded' :
           At("from", j)' /\ HoldsLease(j)' => lock'["from"][j] = "host"
    BY <1>a, <1>b, <2>1, <2>2 DEF Locks, Held
  <2>5. \A q \in Place, j \in File : lock'[q][j] = "host" =>
           \/ q = "from" /\ host = "hold" /\ j < at
           \/ q = "from" /\ host = "write"
           \/ host \in Moving
    BY <2>2 DEF Locks, Held
  <2> QED BY <2>1, <2>2, <2>3, <2>4, <2>5 DEF Locks, Held, Settled
<1>3. ASSUME UNCHANGED <<lock, intruded>>, other.does # "nothing", other'.does # "nothing",
             other'.place = other.place, other'.file = other.file
      PROVE  Locks'
  BY <1>3, <1>b DEF Locks, Held, Settled
<1>4. CASE OtherReads
  <2>1. /\ UNCHANGED <<lock, intruded>> /\ other.does # "nothing"
        /\ other'.does # "nothing" /\ other'.place = other.place
        /\ other'.file = other.file
    BY <1>4 DEF OtherReads, disk
  <2> QED BY <1>3, <2>1
<1>5. CASE OtherLeaves
  <2>1. /\ \A p \in Place, i \in File :
              lock'[p][i] = IF lock[p][i] = "other" THEN "free" ELSE lock[p][i]
        /\ other'.does = "nothing" /\ intruded' = intruded
    BY <1>5, <1>a DEF OtherLeaves, Held
  <2>2. \A p \in Place, i \in File :
           /\ lock'[p][i] # "other"
           /\ lock'[p][i] = "host" <=> lock[p][i] = "host"
    BY <2>1
  <2> QED BY <1>a, <1>b, <2>1, <2>2 DEF Locks, Held
<1>6. ASSUME NEW t \in Turn, OtherSaves(t) PROVE Locks'
  <2>1. /\ UNCHANGED <<lock, intruded>> /\ other.does # "nothing"
        /\ other'.does # "nothing" /\ other'.place = other.place
        /\ other'.file = other.file
    BY <1>6 DEF OtherSaves
  <2> QED BY <1>3, <2>1
<1> QED BY <1>1, <1>2, <1>4, <1>5, <1>6 DEF OtherStep

LEMMA LocksStep ==
    ASSUME TypeOK, Loaded, Locks, Assets, [Next]_vars
    PROVE  Locks'
<1>1. CASE UNCHANGED vars
  BY <1>1 DEF vars, Locks, Held, Settled, HoldsLease, At
<1> QED BY <1>1, Steps, LocksHostStep, LocksOtherStep

\* What a file was saved with is beside it, or where its sidecars went.
Beside(s, f, i) ==
    /\ s["from"][i].turns \subseteq f["from"][i] \cup f["to"][i]
    /\ s["to"][i].turns \subseteq f["to"][i]
Listed(f, l, i) ==
    /\ "lock" \in sides => l["from"][i] # Absent
    /\ "assets" \in sides => f["from"][i] # {}
LEMMA AssetsIs ==
    Assets <=> /\ \A i \in File \ intruded : Beside(session, assets, i)
               /\ host = "side" =>
                     /\ at \in File /\ At("from", at)
                     /\ sides \subseteq {"lock", "assets"} /\ Listed(assets, lock, at)
                     /\ at \in intruded \/ assets["from"][at] = {} \/ "assets" \in sides
  BY DEF Assets, Beside, Listed, Sidecars, There

LEMMA AssetsHostStep ==
    ASSUME TypeOK, Assets, HostStep, UNCHANGED <<other, opens, saved, intruded>>
    PROVE  Assets'
<1>a. /\ session \in [Place -> [File -> Record]] /\ "from" \in Place /\ "to" \in Place
      /\ NoSession.turns = {} /\ Free # Absent
      /\ at \in Nat
  BY MoveAssumption DEF TypeOK, Place, NoSession, Free, Absent
<1>b. /\ \A i \in File \ intruded : Beside(session, assets, i)
      /\ host = "side" =>
            /\ at \in File /\ At("from", at)
            /\ sides \subseteq {"lock", "assets"} /\ Listed(assets, lock, at)
            /\ at \in intruded \/ assets["from"][at] = {} \/ "assets" \in sides
  BY AssetsIs
<1>1. ASSUME UNCHANGED <<session, assets>>, host' # "side" PROVE Assets'
  BY <1>1 DEF Assets
<1>2. CASE MovesFile
  <2>1. /\ Shifts(session', session, NoSession) /\ host = "side" /\ sides = {}
        /\ host' = "list" /\ assets' = assets
    BY <1>2 DEF MovesFile, Goto
  <2>2. ASSUME NEW i \in File, i \notin intruded PROVE Beside(session', assets, i)
    <3>1. Beside(session, assets, i)
      BY <1>b, <2>2
    <3>2. CASE i # at
      BY <1>a, <2>1, <3>1, <3>2 DEF Shifts, Beside
    <3>3. CASE i = at
      <4>1. assets["from"][at] = {}
        BY <1>b, <2>1, <2>2, <3>3
      <4>2. session'["to"][at] = session["from"][at] /\ session'["from"][at] = NoSession
        BY <1>a, <2>1, <2>2, <3>3 DEF Shifts
      <4> QED BY <1>a, <3>1, <3>3, <4>1, <4>2 DEF Beside
    <3> QED BY <3>2, <3>3
  <2> QED BY <1>2, <2>1, <2>2 DEF Assets, Beside
<1>3. CASE Rewrites
  <2>1. /\ Becomes(session', session, "to", at, Renewed(at)) /\ at \in File
        /\ host' = "rewrite" /\ assets' = assets
    BY <1>3 DEF Rewrites, Goto
  <2>2. Renewed(at).turns = session["to"][at].turns
    <3>1. session["to"][at] \in Record
      BY <1>a, <2>1
    <3> QED BY <3>1 DEF Renewed, WithNote, Record
  <2>3. \A q \in Place, j \in File : session'[q][j].turns = session[q][j].turns
    BY <2>1, <2>2 DEF Becomes
  <2> QED BY <1>a, <1>b, <2>1, <2>3 DEF Assets, Beside
<1>4. CASE MovesAssets
  <2>1. /\ Shifts(assets', assets, {}) /\ assets["to"][at] = {} /\ at \in File
        /\ sides' = sides \ {"assets"} /\ UNCHANGED <<session, lock, host, at>>
        /\ host = "side"
    BY <1>4, <1>b DEF MovesAssets
  <2>2. /\ assets'["from"][at] = {} /\ assets'["to"][at] = assets["from"][at]
        /\ \A q \in Place, j \in File : j # at => assets'[q][j] = assets[q][j]
    BY <1>a, <2>1 DEF Shifts
  <2>3. ASSUME NEW i \in File, i \notin intruded PROVE Beside(session, assets', i)
    BY <1>a, <1>b, <2>1, <2>2, <2>3 DEF Beside
  <2>4. sides' \subseteq Sidecars("from", at)'
    BY <1>b, <2>1 DEF Sidecars, There, Listed
  <2> QED BY <1>b, <2>1, <2>2, <2>3, <2>4 DEF Assets, Beside, At
<1>5. CASE MovesLock
  <2>1. /\ sides' = sides \ {"lock"} /\ UNCHANGED <<session, assets, host, at>>
        /\ host = "side"
    BY <1>5 DEF MovesLock
  <2>2. sides' \subseteq Sidecars("from", at)'
    BY <1>b, <2>1 DEF Sidecars, There, Listed
  <2> QED BY <1>b, <2>1, <2>2 DEF Assets, Beside, At
<1>6. CASE ListsSides
  <2>1. /\ at \in File /\ At("from", at) /\ sides' = Sidecars("from", at)
        /\ UNCHANGED <<session, lock, assets, at>>
    BY <1>6 DEF ListsSides, Goto, disk
  <2>2. assets["from"][at] = {} \/ "assets" \in sides'
    BY <2>1 DEF Sidecars, There
  <2> QED BY <1>b, <2>1, <2>2 DEF Assets, Beside, At, Sidecars, There
<1>7. CASE GivesUp \/ TakesLease \/ ListsAll
  BY <1>1, <1>7 DEF GivesUp, TakesLease, ListsAll, Goto
<1>8. CASE SkipsLease \/ HoldsAll \/ SkipsFile \/ RewritesAll \/ FollowsNames
  BY <1>1, <1>8 DEF SkipsLease, HoldsAll, SkipsFile, RewritesAll, FollowsNames,
     Goto, disk
<1>9. CASE Begin \/ WriteJournal \/ FollowPins \/ RemoveJournal \/ Restart
  BY <1>1, <1>9 DEF Begin, WriteJournal, FollowPins, RemoveJournal, Restart, Goto, disk
<1> QED BY <1>2, <1>3, <1>4, <1>5, <1>6, <1>7, <1>8, <1>9 DEF HostStep, Walks

LEMMA AssetsOtherStep ==
    ASSUME TypeOK, Loaded, Locks, Assets, OtherStep, UNCHANGED <<host, at, sides>>
    PROVE  Assets'
<1>a. /\ session \in [Place -> [File -> Record]] /\ Place = {"from", "to"}
      /\ other.place \in Place /\ other.file \in File /\ other.record \in Record
      /\ Free # Absent /\ "other" # Absent
  BY DEF TypeOK, Place, Free, Absent
<1>b. /\ \A i \in File \ intruded : Beside(session, assets, i)
      /\ host = "side" =>
            /\ at \in File /\ At("from", at)
            /\ sides \subseteq {"lock", "assets"} /\ Listed(assets, lock, at)
            /\ at \in intruded \/ assets["from"][at] = {} \/ "assets" \in sides
  BY AssetsIs
<1>1. ASSUME intruded \subseteq intruded', UNCHANGED assets,
             \A i \in File : lock'["from"][i] = Absent => lock["from"][i] = Absent,
             \A i \in File : i \in intruded' \/ \A p \in Place : session'[p][i] = session[p][i],
             host = "side" => At("from", at)'
      PROVE  Assets'
  <2>1. \A i \in File \ intruded' : Beside(session', assets', i)
    BY <1>1, <1>a, <1>b DEF Beside
  <2>2. host = "side" => sides' \subseteq Sidecars("from", at)'
    BY <1>1, <1>b DEF Sidecars, There, Listed
  <2> QED BY <1>1, <1>b, <2>1, <2>2 DEF Assets, Beside
<1>2. ASSUME NEW p \in Place, NEW i \in File, OtherOpens(p, i) PROVE Assets'
  <2>1. /\ Becomes(lock', lock, p, i, "other") /\ UNCHANGED <<session, assets>>
        /\ intruded \subseteq intruded'
    BY <1>2 DEF OtherOpens
  <2>2. \A j \in File : lock'["from"][j] = Absent => lock["from"][j] = Absent
    BY <1>a, <2>1 DEF Becomes
  <2> QED BY <1>1, <1>b, <2>1, <2>2 DEF At
<1>3. ASSUME NEW i \in File, OtherBegins(i) PROVE Assets'
  <2>1. /\ Becomes(lock', lock, "from", i, "other") /\ UNCHANGED assets
        /\ Becomes(session', session, "from", i, Begun)
        /\ intruded \subseteq intruded' /\ i \in intruded' /\ Begun.kept
    BY <1>3 DEF OtherBegins, Begun, NoSession
  <2>2. \A j \in File : lock'["from"][j] = Absent => lock["from"][j] = Absent
    BY <1>a, <2>1 DEF Becomes
  <2>3. host = "side" => At("from", at)'
    BY <1>a, <1>b, <2>1 DEF Becomes, At
  <2>4. \A j \in File : j \in intruded' \/ \A p \in Place : session'[p][j] = session[p][j]
    BY <2>1 DEF Becomes
  <2> QED BY <1>1, <2>1, <2>2, <2>3, <2>4
<1>4. CASE OtherReads
  BY <1>1, <1>4, <1>b DEF OtherReads, disk, At
<1>5. CASE OtherLeaves
  <2>1. \A j \in File : lock'["from"][j] = Absent => lock["from"][j] = Absent
    BY <1>a, <1>5 DEF OtherLeaves, Held
  <2> QED BY <1>1, <1>5, <1>b, <2>1 DEF OtherLeaves, At
<1>6. ASSUME NEW t \in Turn, OtherSaves(t) PROVE Assets'
  <2> DEFINE p == other.place
             i == other.file
             c == Continued(t)
  <2>1. /\ Becomes(session', session, p, i, c) /\ other.does = "run"
        /\ Becomes(assets', assets, p, i, assets[p][i] \cup {t})
        /\ UNCHANGED <<lock, intruded>>
    BY <1>6 DEF OtherSaves
  <2>2. c.turns = other.record.turns \cup {t} /\ c.kept = other.record.kept
    BY <1>a DEF Continued, Record
  <2>3. /\ other.record.kept
        /\ p = "to" \/ i \notin intruded => session[p][i] = other.record
        /\ host = "side" /\ p = "from" /\ i = at => at \in intruded
    BY <2>1 DEF Loaded, Locks, Settled
  <2> HIDE DEF p, i, c
  <2>4. /\ \A q \in Place, j \in File : assets[q][j] \subseteq assets'[q][j]
        /\ assets'[p][i] = assets[p][i] \cup {t}
        /\ \A q \in Place, j \in File : j # i => assets'[q][j] = assets[q][j]
        /\ \A j \in File : p = "to" => assets'["from"][j] = assets["from"][j]
        /\ session'[p][i] = c
        /\ \A q \in Place, j \in File : ~(q = p /\ j = i) => session'[q][j] = session[q][j]
    BY <1>a, <2>1 DEF Becomes, p, i
  <2>5. ASSUME NEW j \in File, j \notin intruded PROVE Beside(session', assets', j)
    <3>1. Beside(session, assets, j)
      BY <1>b, <2>5
    <3>2. CASE j # i
      BY <1>a, <2>4, <3>1, <3>2 DEF Beside
    <3>3. CASE j = i
      <4>1. session'[p][i].turns = session[p][i].turns \cup {t}
        BY <2>2, <2>3, <2>4, <2>5, <3>3
      <4>2. p = "from" \/ p = "to"
        BY <1>a DEF p
      <4>3. CASE p = "to"
        BY <1>a, <2>4, <3>1, <3>3, <4>1, <4>3 DEF Beside
      <4>4. CASE p = "from"
        BY <1>a, <2>4, <3>1, <3>3, <4>1, <4>4 DEF Beside
      <4> QED BY <4>2, <4>3, <4>4
    <3> QED BY <3>2, <3>3
  <2>6. host = "side" => At("from", at)'
    BY <1>a, <1>b, <2>2, <2>3, <2>4 DEF At
  <2>7. host = "side" => sides \subseteq Sidecars("from", at)'
    <3>1. "from" \in Place /\ (host = "side" => at \in File)
      BY <1>a, <1>b
    <3> QED BY <1>b, <2>1, <2>4, <3>1 DEF Sidecars, There, Listed
  <2>8. host = "side" => at \in intruded \/ assets'["from"][at] = {} \/ "assets" \in sides
    <3>1. p = "from" \/ p = "to"
      BY <1>a DEF p
    <3> QED BY <1>a, <1>b, <2>3, <2>4, <3>1
  <2> QED BY <1>b, <2>1, <2>5, <2>6, <2>7, <2>8 DEF Assets, Beside
<1> QED BY <1>2, <1>3, <1>4, <1>5, <1>6 DEF OtherStep

LEMMA AssetsStep ==
    ASSUME TypeOK, Loaded, Locks, Assets, [Next]_vars
    PROVE  Assets'
<1>1. CASE UNCHANGED vars
  BY <1>1 DEF vars, Assets, At, Sidecars, There
<1> QED BY <1>1, Steps, AssetsHostStep, AssetsOtherStep

\* What a session that has moved says of the move, it goes on saying.
LEMMA NamedStep ==
    ASSUME TypeOK, Records, Loaded, Locks, Assets, [Next]_vars
    PROVE  /\ \A i \in File : At("to", i) =>
                 /\ session["to"][i].rewritten => session'["to"][i].rewritten
                 /\ session["to"][i].notes > 0 => session'["to"][i].notes > 0
           /\ Rewrites => session'["to"][at].rewritten
           /\ Rewrites /\ at = 1 => session'["to"][1].notes > 0
<1>a. /\ session \in [Place -> [File -> Record]] /\ "to" \in Place /\ "from" # "to"
      /\ other.place \in Place /\ other.file \in File /\ other.record \in Record
  BY DEF TypeOK, Place
<1>b. \A r \in Record : r.notes \in Nat
  BY MoveAssumption DEF Record
<1>1. CASE UNCHANGED session /\ ~Rewrites
  BY <1>1
<1>2. CASE MovesFile
  <2>1. /\ Shifts(session', session, NoSession) /\ ~At("to", at) /\ ~Rewrites
    BY <1>2 DEF MovesFile, Rewrites
  <2>2. \A i \in File : At("to", i) => session'["to"][i] = session["to"][i]
    BY <1>a, <2>1 DEF Shifts
  <2> QED BY <2>1, <2>2
<1>3. CASE Rewrites
  <2>1. Becomes(session', session, "to", at, Renewed(at)) /\ at \in File
    BY <1>3 DEF Rewrites
  <2>2. /\ session["to"][at] \in Record
        /\ at = 1 /\ session["to"][at].last => session["to"][at].notes > 0
    BY <1>a, <2>1 DEF Records, Noted, Fits
  <2>3. /\ Renewed(at).rewritten
        /\ session["to"][at].notes > 0 => Renewed(at).notes > 0
        /\ at = 1 => Renewed(at).notes > 0
    <3> DEFINE r == session["to"][at]
    <3>1. r.notes \in Nat /\ r \in Record
      BY <1>b, <2>2
    <3>2. CASE at # 1 \/ r.last
      <4>1. Renewed(at) = [r EXCEPT !.rewritten = TRUE]
        BY <3>2 DEF Renewed, WithNote
      <4> QED BY <2>2, <3>1, <3>2, <4>1 DEF Record
    <3>3. CASE ~(at # 1 \/ r.last)
      <4>1. Renewed(at) = [[r EXCEPT !.notes = r.notes + 1, !.last = TRUE]
                              EXCEPT !.rewritten = TRUE]
        BY <3>3 DEF Renewed, WithNote
      <4>2. Renewed(at).rewritten /\ Renewed(at).notes = r.notes + 1
        BY <3>1, <4>1 DEF Record
      <4> QED BY <3>1, <4>2
    <3> QED BY <3>2, <3>3
  <2>4. /\ session'["to"][at] = Renewed(at)
        /\ \A i \in File : i # at => session'["to"][i] = session["to"][i]
    BY <1>a, <2>1 DEF Becomes
  <2> QED BY <2>1, <2>3, <2>4
<1>4. ASSUME NEW i \in File, OtherBegins(i), UNCHANGED <<host, at>>
      PROVE  /\ ~Rewrites
             /\ \A j \in File : session'["to"][j] = session["to"][j]
  <2>1. ~Rewrites
    <3>1. at \in Nat
      BY MoveAssumption DEF TypeOK
    <3> QED BY <1>4, <3>1 DEF Rewrites, Goto
  <2>2. Becomes(session', session, "from", i, Begun)
    BY <1>4 DEF OtherBegins
  <2> QED BY <1>a, <2>1, <2>2 DEF Becomes
<1>5. ASSUME NEW t \in Turn, OtherSaves(t), UNCHANGED <<host, at>>
      PROVE  /\ ~Rewrites
             /\ \A j \in File :
                   /\ session'["to"][j].rewritten = session["to"][j].rewritten
                   /\ session'["to"][j].notes = session["to"][j].notes
  <2>1. /\ Becomes(session', session, other.place, other.file, Continued(t))
        /\ other.does = "run"
    BY <1>5 DEF OtherSaves
  <2>2. ~Rewrites
    <3>1. at \in Nat
      BY MoveAssumption DEF TypeOK
    <3> QED BY <1>5, <3>1 DEF Rewrites, Goto
  <2>3. /\ Continued(t).rewritten = other.record.rewritten
        /\ Continued(t).notes = other.record.notes
    BY <1>a DEF Continued, Record
  <2>4. other.place = "to" => session["to"][other.file] = other.record
    BY <2>1 DEF Loaded, Settled
  <2> HIDE DEF Continued
  <2> QED BY <1>a, <2>1, <2>2, <2>3, <2>4 DEF Becomes
<1>6. CASE OtherStep /\ UNCHANGED <<host, at>>
  <2>1. \/ UNCHANGED session
        \/ \E i \in File : OtherBegins(i)
        \/ \E t \in Turn : OtherSaves(t)
    BY <1>6 DEF OtherStep, OtherOpens, OtherReads, OtherLeaves, disk
  <2>2. at \in Nat => ~Rewrites
    BY <1>6 DEF Rewrites, Goto
  <2>3. at \in Nat
    BY MoveAssumption DEF TypeOK
  <2> QED BY <1>1, <1>4, <1>5, <1>6, <2>1, <2>2, <2>3
<1>7. CASE HostStep
  BY <1>1, <1>2, <1>3, <1>7, HostLeaves
<1>8. CASE UNCHANGED vars
  <2>1. at \in Nat
    BY MoveAssumption DEF TypeOK
  <2>2. ~Rewrites
    BY <1>8, <2>1 DEF vars, Rewrites, Goto
  <2> QED BY <1>1, <1>8, <2>2 DEF vars
<1> QED BY <1>6, <1>7, <1>8, Steps

LEMMA PhasesStep ==
    ASSUME TypeOK, Records, Loaded, Locks, Assets, Phases, [Next]_vars
    PROVE  Phases'
<1>a. /\ LastFile \in Nat \ {0} /\ File = 1..LastFile /\ at \in Nat /\ 1 \in File
      /\ Moving = {"list", "side"} /\ AfterRewrite = {"names", "pins", "unwrite"}
  <2>1. at \in Nat
    BY MoveAssumption DEF TypeOK
  <2> QED BY <2>1, MoveAssumption DEF File, Moving, AfterRewrite
<1>b. /\ \A i \in File : At("to", i) => At("to", i)'
      /\ \A i \in File : At("to", i) =>
            /\ session["to"][i].rewritten => session'["to"][i].rewritten
            /\ session["to"][i].notes > 0 => session'["to"][i].notes > 0
  BY KeptStep, NamedStep
<1>1. CASE UNCHANGED <<host, at, recovers, journal, follow>>
  BY <1>1, <1>b, <1>a DEF Phases
<1>2. CASE GivesUp
  BY <1>2, <1>a DEF GivesUp, Phases
<1>3. CASE TakesLease \/ SkipsLease
  BY <1>3, <1>a DEF TakesLease, SkipsLease, Goto, Phases, disk
<1>4. CASE HoldsAll
  BY <1>4, <1>a DEF HoldsAll, Goto, Phases, disk
<1>5. CASE ListsAll
  <2>1. /\ host = "list" /\ at = LastFile + 1 /\ host' = "rewrite" /\ at' = 1
        /\ journal' = journal
    BY <1>5 DEF ListsAll, Goto
  <2>2. \A i \in File : At("to", i)'
    BY <1>a, <1>b, <2>1 DEF Phases
  <2> QED BY <1>a, <2>1, <2>2 DEF Phases
<1>6. CASE ListsSides
  BY <1>6, <1>a, <1>b DEF ListsSides, Goto, Phases, disk
<1>7. CASE SkipsFile
  <2>1. /\ host = "list" /\ host' = "list" /\ at' = at + 1 /\ At("to", at)
        /\ UNCHANGED <<session, journal, recovers>>
    BY <1>7 DEF SkipsFile, Goto, disk
  <2>2. \A i \in File : i < at' => i < at \/ i = at
    BY <1>a, <2>1
  <2>3. \A i \in File : i < at' => At("to", i)'
    BY <1>a, <1>b, <2>1, <2>2 DEF Phases
  <2> QED BY <1>a, <2>1, <2>3 DEF Phases
<1>8. CASE MovesLock \/ MovesAssets
  BY <1>1, <1>8 DEF MovesLock, MovesAssets
<1>9. CASE MovesFile
  <2>1. /\ host = "side" /\ host' = "list" /\ at' = at + 1 /\ journal' = journal
        /\ Shifts(session', session, NoSession) /\ At("from", at)
    BY <1>9 DEF MovesFile, Goto
  <2>2. \A i \in File : i < at' => i < at \/ i = at
    BY <1>a, <2>1
  <2>3. at \in File => session'["to"][at].kept
    BY <2>1 DEF Shifts, At, Place
  <2>4. \A i \in File : i < at' => session'["to"][i].kept
    BY <1>a, <1>b, <2>1, <2>2, <2>3 DEF Phases, At
  <2> QED BY <1>a, <2>1, <2>4 DEF Phases, At
<1>10. CASE Rewrites
  <2>1. /\ host = "rewrite" /\ host' = "rewrite" /\ at' = at + 1 /\ journal' = journal
        /\ session'["to"][at].rewritten /\ (at = 1 => session'["to"][1].notes > 0)
    BY <1>10, NamedStep DEF Rewrites, Goto
  <2>2. \A i \in File : i < at' => i < at \/ i = at
    BY <1>a, <2>1
  <2>3. \A i \in File : At("to", i) /\ At("to", i)'
    BY <1>a, <1>b, <2>1 DEF Phases
  <2>4. \A i \in File : i < at' => session'["to"][i].rewritten
    BY <1>a, <1>b, <2>1, <2>2, <2>3 DEF Phases
  <2>5. session'["to"][1].notes > 0
    <3>1. at = 1 \/ at > 1
      BY <1>10, <1>a DEF Rewrites
    <3> QED BY <1>a, <1>b, <2>1, <2>3, <3>1 DEF Phases
  <2> QED BY <1>a, <2>1, <2>3, <2>4, <2>5 DEF Phases
<1>11. CASE RewritesAll
  <2>1. /\ host = "rewrite" /\ host' = "names" /\ at = LastFile + 1
        /\ UNCHANGED <<session, journal>>
    BY <1>11 DEF RewritesAll, Goto, disk
  <2>2. \A i \in File : i < at /\ At("to", i) /\ At("to", i)'
    BY <1>a, <1>b, <2>1 DEF Phases
  <2>3. \A i \in File : session'["to"][i].rewritten
    BY <1>a, <1>b, <2>1, <2>2 DEF Phases
  <2>4. session'["to"][1].notes > 0
    BY <1>a, <1>b, <2>1, <2>2 DEF Phases
  <2> QED BY <1>a, <2>1, <2>2, <2>3, <2>4 DEF Phases
<1>12. CASE FollowsNames \/ FollowPins
  <2>1. /\ host \in {"names", "pins"} /\ host' \in {"pins", "unwrite"}
        /\ UNCHANGED <<session, journal>>
        /\ host' = "unwrite" => "pins" \in follow'
    BY <1>12 DEF FollowsNames, FollowPins, Goto
  <2> QED BY <1>a, <1>b, <2>1 DEF Phases
<1>13. CASE Begin
  <2>1. host = "idle" /\ host' = "hold" /\ recovers' = recovers /\ ~journal
    BY <1>13 DEF Begin, Goto
  <2>2. ~recovers
    BY <2>1 DEF Phases
  <2> QED BY <1>a, <2>1, <2>2 DEF Phases
<1>14. CASE WriteJournal
  BY <1>14, <1>a DEF WriteJournal, Goto, Phases
<1>15. CASE RemoveJournal \/ Restart
  BY <1>15, <1>a DEF RemoveJournal, Restart, Goto, Phases, disk
<1> QED BY <1>1, <1>2, <1>3, <1>4, <1>5, <1>6, <1>7, <1>8, <1>9, <1>10, <1>11, <1>12,
           <1>13, <1>14, <1>15, Steps
        DEF HostStep, Walks, vars, OtherStep, OtherOpens, OtherBegins, OtherReads,
            OtherLeaves, OtherSaves, disk

LEMMA UndisturbedStep ==
    ASSUME TypeOK, Loaded, Assets, Undisturbed, [Next]_vars
    PROVE  Undisturbed'
<1>a. /\ opens \in Nat /\ "from" \in Place /\ "to" \in Place
      /\ ~NoSession.kept
  BY MoveAssumption DEF TypeOK, Place, NoSession
<1>1. ASSUME UNCHANGED <<session, assets, other, opens, intruded>> PROVE Undisturbed'
  BY <1>1 DEF Undisturbed, At
<1>2. CASE MovesFile /\ UNCHANGED <<other, opens, intruded>>
  <2>1. /\ Shifts(session', session, NoSession) /\ ~At("to", at) /\ At("from", at)
        /\ assets' = assets
    BY <1>2 DEF MovesFile
  <2>2. \A i \in File :
           \/ session'["from"][i] = session["from"][i] /\ session'["to"][i] = session["to"][i]
           \/ ~session'["from"][i].kept /\ session'["to"][i].kept
    BY <1>a, <2>1 DEF Shifts, At
  <2> QED BY <1>2, <2>1, <2>2 DEF Undisturbed, At
<1>3. CASE Rewrites /\ UNCHANGED <<other, opens, intruded>>
  <2>1. /\ Becomes(session', session, "to", at, Renewed(at)) /\ At("to", at)
        /\ assets' = assets
    BY <1>3 DEF Rewrites
  <2>2. \A i \in File : session'["from"][i] = session["from"][i]
    BY <1>a, <2>1 DEF Becomes, Place
  <2>3. \A i \in File : session["to"][i].kept => session'["to"][i].kept
    BY KeptStep DEF At
  <2>4. \A i \in File : ~session["to"][i].kept => ~session'["to"][i].kept
    BY <1>a, <2>1 DEF Becomes, At
  <2> QED BY <1>3, <1>a, <2>1, <2>2, <2>3, <2>4 DEF Undisturbed, At
<1>4. CASE MovesAssets /\ UNCHANGED <<other, opens, intruded>>
  <2>1. Shifts(assets', assets, {}) /\ session' = session
    BY <1>4 DEF MovesAssets
  <2>2. \A i \in File :
           \/ assets'["from"][i] = assets["from"][i] /\ assets'["to"][i] = assets["to"][i]
           \/ assets'["from"][i] = {}
    BY <1>a, <2>1 DEF Shifts
  <2> QED BY <1>4, <2>1, <2>2 DEF Undisturbed, At
<1>5. CASE HostStep /\ UNCHANGED <<other, opens, intruded>>
  <2>1. UNCHANGED <<session, assets>> \/ MovesFile \/ Rewrites \/ MovesAssets
    BY <1>5, HostLeaves
  <2> QED BY <1>1, <1>2, <1>3, <1>4, <1>5, <2>1
<1>6. CASE OtherStep
  <2>1. ASSUME NEW p \in Place, NEW i \in File, OtherOpens(p, i) \/ OtherBegins(i)
        PROVE  opens' = opens + 1
    BY <2>1 DEF OtherOpens, OtherBegins
  <2>2. ASSUME OtherReads \/ OtherLeaves \/ \E t \in Turn : OtherSaves(t)
        PROVE  opens' = opens /\ other.does # "nothing"
    BY <2>2 DEF OtherReads, OtherLeaves, OtherSaves
  <2>3. opens' = opens + 1 \/ (opens' = opens /\ other.does # "nothing")
    BY <1>6, <1>a, <2>1, <2>2 DEF OtherStep
  <2> QED BY <1>a, <2>3 DEF Undisturbed
<1> QED BY <1>1, <1>5, <1>6, Steps DEF vars

LEMMA FewNotesStep ==
    ASSUME TypeOK, Records, Loaded, Assets, FewNotes, [Next]_vars
    PROVE  FewNotes'
<1>a. /\ session \in [Place -> [File -> Record]] /\ Place = {"from", "to"}
      /\ other.place \in Place /\ other.file \in File /\ other.record \in Record
      /\ crashes \in Nat /\ at \in Nat /\ LastFile \in Nat \ {0}
      /\ NoSession.notes = 0 /\ Begun.notes = 0
      /\ AfterRewrite = {"names", "pins", "unwrite"}
  <2>1. crashes \in Nat /\ at \in Nat
    BY MoveAssumption DEF TypeOK
  <2> QED BY <2>1, MoveAssumption DEF TypeOK, Place, NoSession, Begun, AfterRewrite
<1>b. \A r \in Record : r.notes \in Nat
  BY MoveAssumption DEF Record
<1>c. /\ \A i \in File : session["to"][i].notes \in Nat
      /\ \A i \in File : session["from"][i].notes = 0
      /\ other.record.notes \in Nat
      /\ other.place = "from" => other.record.notes = 0
      /\ \A i \in File : ~At("to", i) => session["to"][i].notes = 0
  <2>1. \A i \in File : session["to"][i].notes \in Nat
    BY <1>a, <1>b
  <2>2. other.record.notes \in Nat
    BY <1>a, <1>b
  <2> QED BY <1>a, <2>1, <2>2 DEF Records, Unnoted
<1>d. /\ NoteLimit \in Nat /\ crashes <= NoteLimit /\ NoteLimit <= crashes + 1
      /\ \A i \in File : session["to"][i].notes <= NoteLimit
      /\ other.record.notes <= NoteLimit
  BY <1>a DEF FewNotes, NoteLimit
<1>1. ASSUME UNCHANGED <<session, other>>, NoteLimit' \in Nat, NoteLimit <= NoteLimit'
      PROVE  FewNotes'
  BY <1>1, <1>c, <1>d DEF FewNotes
<1>2. CASE GivesUp /\ UNCHANGED other
  <2>1. NoteLimit' = crashes + 1 /\ UNCHANGED session
    BY <1>2, <1>a DEF GivesUp, NoteLimit, Annotated
  <2> QED BY <1>1, <1>2, <1>a, <1>d, <2>1
<1>3. ASSUME crashes' = crashes, Annotated => Annotated'
      PROVE  NoteLimit' \in Nat /\ NoteLimit <= NoteLimit'
  BY <1>3, <1>a DEF NoteLimit
<1>4. CASE (TakesLease \/ ListsAll \/ MovesLock \/ MovesAssets) /\ UNCHANGED other
  <2>1. UNCHANGED <<session, crashes>> /\ ~Annotated
    BY <1>4, <1>a DEF TakesLease, ListsAll, MovesLock, MovesAssets, Annotated
  <2> QED BY <1>1, <1>3, <1>4, <2>1
<1>5. CASE MovesFile /\ UNCHANGED other
  <2>1. Shifts(session', session, NoSession) /\ crashes' = crashes /\ ~Annotated
    BY <1>5, <1>a DEF MovesFile, Annotated
  <2>2. \A i \in File : \/ session'["to"][i].notes = session["to"][i].notes
                        \/ session'["to"][i].notes = 0
    BY <1>a, <1>c, <2>1 DEF Shifts
  <2>3. NoteLimit' \in Nat /\ NoteLimit <= NoteLimit'
    BY <1>3, <2>1
  <2> QED BY <1>5, <1>c, <1>d, <2>2, <2>3 DEF FewNotes
<1>6. CASE Rewrites /\ UNCHANGED other
  <2>1. /\ Becomes(session', session, "to", at, Renewed(at)) /\ at \in File
        /\ host = "rewrite" /\ host' = "rewrite" /\ at' = at + 1 /\ crashes' = crashes
    BY <1>6 DEF Rewrites, Goto
  <2>2. NoteLimit' = crashes + 1 /\ (at = 1 => NoteLimit = crashes)
    <3>1. at' > 1
      BY <1>a, <2>1 DEF File
    <3> QED BY <1>a, <2>1, <3>1 DEF NoteLimit, Annotated
  <2>3. /\ session["to"][at] \in Record
        /\ \A i \in File : i # at => session'["to"][i] = session["to"][i]
        /\ session'["to"][at] = Renewed(at)
    BY <1>a, <2>1 DEF Becomes
  <2>4. Renewed(at).notes <= crashes + 1
    <3> DEFINE r == session["to"][at]
    <3>1. r.notes \in Nat /\ r \in Record /\ r.notes <= NoteLimit
      BY <1>c, <1>d, <2>1, <2>3
    <3>2. CASE at # 1 \/ r.last
      <4>1. Renewed(at) = [r EXCEPT !.rewritten = TRUE]
        BY <3>2 DEF Renewed, WithNote
      <4>2. Renewed(at).notes = r.notes
        BY <3>1, <4>1 DEF Record
      <4> QED BY <1>a, <1>d, <3>1, <4>2
    <3>3. CASE ~(at # 1 \/ r.last)
      <4>1. Renewed(at) = [[r EXCEPT !.notes = r.notes + 1, !.last = TRUE]
                              EXCEPT !.rewritten = TRUE]
        BY <3>3 DEF Renewed, WithNote
      <4>2. Renewed(at).notes = r.notes + 1
        BY <3>1, <4>1 DEF Record
      <4>3. r.notes <= crashes
        BY <2>2, <3>1, <3>3
      <4> QED BY <1>a, <3>1, <4>2, <4>3
    <3> QED BY <3>2, <3>3
  <2> QED BY <1>6, <1>a, <1>c, <1>d, <2>2, <2>3, <2>4 DEF FewNotes
<1>7. CASE (SkipsLease \/ HoldsAll \/ ListsSides \/ SkipsFile) /\ UNCHANGED other
  <2>1. UNCHANGED <<session, crashes>> /\ ~Annotated
    BY <1>7, <1>a DEF SkipsLease, HoldsAll, ListsSides, SkipsFile, Annotated, disk
  <2> QED BY <1>1, <1>3, <1>7, <2>1
<1>8. CASE (RewritesAll \/ FollowsNames) /\ UNCHANGED other
  <2>1. UNCHANGED <<session, crashes>> /\ Annotated'
    BY <1>8, <1>a DEF RewritesAll, FollowsNames, Annotated, Goto, disk
  <2> QED BY <1>1, <1>3, <1>8, <2>1
<1>9. CASE (WriteJournal \/ FollowPins \/ RemoveJournal \/ Restart)
           /\ UNCHANGED <<crashes, other>>
  <2>1. UNCHANGED session /\ (Annotated => Annotated')
    BY <1>9, <1>a DEF WriteJournal, FollowPins, RemoveJournal, Restart, Annotated,
       Goto, disk
  <2> QED BY <1>1, <1>3, <1>9, <2>1
<1>10. CASE Begin /\ UNCHANGED <<crashes, other>>
  <2>1. /\ \A i \in File : ~At("to", i)
        /\ session' = session
    BY <1>10 DEF Begin, Occupied, disk
  <2>2. other.record.notes = 0
    <3>1. CASE other.does = "run" /\ other.place = "to"
      BY <1>a, <2>1, <3>1 DEF Loaded, Settled
    <3>2. CASE other.does # "run"
      BY <1>a, <3>2 DEF Loaded
    <3>3. CASE other.place = "from"
      BY <1>c, <3>3
    <3> QED BY <1>a, <3>1, <3>2, <3>3
  <2>3. NoteLimit' \in Nat
    BY <1>10, <1>a DEF NoteLimit
  <2> QED BY <1>10, <1>c, <2>1, <2>2, <2>3 DEF FewNotes
<1>11. CASE HostStep /\ UNCHANGED other
  BY <1>11, <1>2, <1>4, <1>5, <1>6, <1>7, <1>8, <1>9, <1>10 DEF HostStep, Walks
<1>12. CASE OtherStep /\ UNCHANGED <<host, at, crashes>>
  <2>a. NoteLimit' = NoteLimit
    BY <1>12 DEF NoteLimit, Annotated
  <2>1. ASSUME NEW p \in Place, NEW i \in File, OtherOpens(p, i) PROVE FewNotes'
    BY <2>1, <2>a, <1>a, <1>d DEF OtherOpens, FewNotes
  <2>2. ASSUME NEW i \in File, OtherBegins(i) PROVE FewNotes'
    <3>1. Becomes(session', session, "from", i, Begun) /\ other'.record = Begun
      BY <2>2 DEF OtherBegins
    <3>2. \A j \in File : session'["to"][j] = session["to"][j]
      BY <1>a, <3>1 DEF Becomes
    <3> HIDE DEF Begun
    <3> QED BY <1>a, <1>d, <2>a, <3>1, <3>2 DEF FewNotes
  <2>3. CASE OtherReads
    <3>1. /\ other'.record = session[other.place][other.file]
          /\ session' = session
      BY <2>3 DEF OtherReads, disk
    <3> QED BY <1>a, <1>c, <1>d, <2>a, <3>1 DEF FewNotes
  <2>4. CASE OtherLeaves
    BY <2>4, <2>a, <1>a, <1>d DEF OtherLeaves, Nobody, FewNotes
  <2>5. ASSUME NEW t \in Turn, OtherSaves(t) PROVE FewNotes'
    <3>1. /\ Becomes(session', session, other.place, other.file, Continued(t))
          /\ other'.record = Continued(t)
      BY <2>5 DEF OtherSaves
    <3>2. Continued(t).notes = other.record.notes
      BY <1>a DEF Continued, Record
    <3> HIDE DEF Continued
    <3>3. \A i \in File : \/ session'["to"][i] = session["to"][i]
                          \/ session'["to"][i] = Continued(t)
      BY <1>a, <3>1 DEF Becomes
    <3> QED BY <1>d, <2>a, <3>1, <3>2, <3>3 DEF FewNotes
  <2> QED BY <1>12, <2>1, <2>2, <2>3, <2>4, <2>5 DEF OtherStep
<1>13. CASE UNCHANGED vars
  <2>1. UNCHANGED <<session, other>> /\ NoteLimit' = NoteLimit
    BY <1>13 DEF vars, NoteLimit, Annotated
  <2> QED BY <1>d, <2>1 DEF FewNotes
<1> QED BY <1>11, <1>12, <1>13, Steps
-----------------------------------------------------------------------------
\* A turn is in a session, wherever it is; so are its assets.
InSession(s, t) == \E p \in Place, i \in File : t \in s[p][i].turns
InAssets(f, t) == \E p \in Place, i \in File : t \in f[p][i]

LEMMA TurnsStay ==
    ASSUME TypeOK, Records, Loaded, Assets, [Next]_vars,
           NEW t, InSession(session, t)
    PROVE  InSession(session', t)
<1>a. /\ session \in [Place -> [File -> Record]] /\ Place = {"from", "to"}
      /\ other.place \in Place /\ other.file \in File /\ other.record \in Record
      /\ NoSession.turns = {}
  BY DEF TypeOK, Place, NoSession
<1>b. PICK p \in Place, i \in File : t \in session[p][i].turns
  BY DEF InSession
<1>c. At(p, i)
  BY <1>a, <1>b DEF Records
<1>1. CASE UNCHANGED session
  BY <1>1 DEF InSession
<1>2. CASE MovesFile
  <2>1. Shifts(session', session, NoSession) /\ ~At("to", at)
    BY <1>2 DEF MovesFile
  <2>2. CASE i # at
    BY <1>b, <2>1, <2>2 DEF Shifts, InSession
  <2>3. CASE i = at
    <3>1. p = "from"
      BY <1>a, <1>c, <2>1, <2>3
    <3>2. session'["to"][i] = session[p][i]
      BY <1>a, <2>1, <2>3, <3>1 DEF Shifts
    <3> QED BY <1>a, <1>b, <3>2 DEF InSession
  <2> QED BY <2>2, <2>3
<1>3. CASE Rewrites
  <2>1. Becomes(session', session, "to", at, Renewed(at)) /\ at \in File
    BY <1>3 DEF Rewrites
  <2>2. Renewed(at).turns = session["to"][at].turns
    <3>1. session["to"][at] \in Record
      BY <1>a, <2>1
    <3> QED BY <3>1 DEF Renewed, WithNote, Record
  <2>3. session'[p][i].turns = session[p][i].turns
    BY <2>1, <2>2 DEF Becomes
  <2> QED BY <1>b, <2>3 DEF InSession
<1>4. ASSUME NEW j \in File, OtherBegins(j) PROVE InSession(session', t)
  <2>1. Becomes(session', session, "from", j, Begun) /\ ~At("from", j)
    BY <1>4 DEF OtherBegins
  <2>2. session'[p][i] = session[p][i]
    BY <1>c, <2>1 DEF Becomes
  <2> QED BY <1>b, <2>2 DEF InSession
<1>5. ASSUME NEW u \in Turn, OtherSaves(u) PROVE InSession(session', t)
  <2>1. /\ Becomes(session', session, other.place, other.file, Continued(u))
        /\ session[other.place][other.file].turns \subseteq other.record.turns
    BY <1>5 DEF OtherSaves, Loaded
  <2>2. Continued(u).turns = other.record.turns \cup {u}
    BY <1>a DEF Continued, Record
  <2> HIDE DEF Continued
  <2>3. t \in session'[p][i].turns
    BY <1>b, <2>1, <2>2 DEF Becomes
  <2> QED BY <2>3 DEF InSession
<1>6. CASE OtherStep
  <2>1. \/ UNCHANGED session
        \/ \E j \in File : OtherBegins(j)
        \/ \E u \in Turn : OtherSaves(u)
    BY <1>6 DEF OtherStep, OtherOpens, OtherReads, OtherLeaves, disk
  <2> QED BY <1>1, <1>4, <1>5, <2>1
<1> QED BY <1>1, <1>2, <1>3, <1>6, Steps, HostLeaves DEF vars

LEMMA AssetsStay ==
    ASSUME TypeOK, Assets, [Next]_vars,
           NEW t, InAssets(assets, t)
    PROVE  InAssets(assets', t)
<1>a. Place = {"from", "to"} /\ other.place \in Place /\ other.file \in File
  BY DEF TypeOK, Place
<1>b. PICK p \in Place, i \in File : t \in assets[p][i]
  BY DEF InAssets
<1>1. CASE UNCHANGED assets
  BY <1>1 DEF InAssets
<1>2. CASE MovesAssets
  <2>1. Shifts(assets', assets, {}) /\ assets["to"][at] = {}
    BY <1>2 DEF MovesAssets
  <2>2. CASE i # at
    BY <1>b, <2>1, <2>2 DEF Shifts, InAssets
  <2>3. CASE i = at
    <3>1. p = "from"
      BY <1>a, <1>b, <2>1, <2>3
    <3>2. assets'["to"][i] = assets[p][i]
      BY <1>a, <2>1, <2>3, <3>1 DEF Shifts
    <3> QED BY <1>a, <1>b, <3>2 DEF InAssets
  <2> QED BY <2>2, <2>3
<1>3. ASSUME NEW u \in Turn, OtherSaves(u) PROVE InAssets(assets', t)
  <2>1. Becomes(assets', assets, other.place, other.file,
                assets[other.place][other.file] \cup {u})
    BY <1>3 DEF OtherSaves
  <2>2. t \in assets'[p][i]
    BY <1>b, <2>1 DEF Becomes
  <2> QED BY <2>2 DEF InAssets
<1>4. CASE OtherStep
  <2>1. UNCHANGED assets \/ \E u \in Turn : OtherSaves(u)
    BY <1>4 DEF OtherStep, OtherOpens, OtherBegins, OtherReads, OtherLeaves, disk
  <2> QED BY <1>1, <1>3, <2>1
<1> QED BY <1>1, <1>2, <1>4, Steps, HostLeaves DEF vars

LEMMA NotesFit ==
    ASSUME NEW turns, IsFiniteSet(turns), NEW r \in Record, Fits(r, turns)
    PROVE  r.notes <= 1 + Cardinality(r.turns)
<1>1. Cardinality(r.turns) \in Nat
  BY FS_Subset, FS_CardinalityType DEF Fits
<1>2. r.notes \in Nat
  BY MoveAssumption DEF Record
<1> QED BY <1>1, <1>2 DEF Fits

LEMMA NothingLostStep ==
    ASSUME TypeOK, TypeOK', Records, Records', Loaded, Assets, NothingLost, [Next]_vars
    PROVE  NothingLost'
<1>1. \A t \in saved : InSession(session, t) /\ InAssets(assets, t)
  BY DEF NothingLost, InSession, InAssets
<1>2. \A t \in saved : InSession(session', t) /\ InAssets(assets', t)
  BY <1>1, TurnsStay, AssetsStay
<1>3. ASSUME NEW t \in Turn, OtherSaves(t)
      PROVE  saved' = saved \cup {t} /\ InSession(session', t) /\ InAssets(assets', t)
  <2>1. /\ Becomes(session', session, other.place, other.file, Continued(t))
        /\ Becomes(assets', assets, other.place, other.file,
                   assets[other.place][other.file] \cup {t})
        /\ saved' = saved \cup {t}
    BY <1>3 DEF OtherSaves
  <2>2. t \in Continued(t).turns
    BY DEF TypeOK, Continued, Record
  <2>3. other.place \in Place /\ other.file \in File
    BY DEF TypeOK
  <2> HIDE DEF Continued
  <2>4. /\ t \in session'[other.place][other.file].turns
        /\ t \in assets'[other.place][other.file]
    BY <2>1, <2>2, <2>3 DEF Becomes
  <2> QED BY <2>1, <2>3, <2>4 DEF InSession, InAssets
<1>4. saved' = saved \/ \E t \in Turn : OtherSaves(t)
  BY Steps DEF OtherStep, OtherOpens, OtherBegins, OtherReads, OtherLeaves, vars
<1>5. \A t \in saved' : InSession(session', t) /\ InAssets(assets', t)
  BY <1>2, <1>3, <1>4
<1>6. ASSUME NEW p \in Place
      PROVE  session'[p][1].notes <= 1 + Cardinality(session'[p][1].turns)
  <2>1. 1 \in File
    BY MoveAssumption DEF File
  <2>2. session'[p][1] \in Record /\ IsFiniteSet(saved') /\ Fits(session'[p][1], saved')
    BY <2>1 DEF TypeOK, Records, Noted
  <2> QED BY <2>2, NotesFit
<1> QED BY <1>5, <1>6 DEF NothingLost, InSession, InAssets

\* The move as a whole, and none of it, stay as they are without a journal.
LEMMA NoHalfMoveStep ==
    ASSUME TypeOK, Records, Loaded, Locks, Assets, Assets', Phases, NoHalfMove,
           [Next]_vars
    PROVE  NoHalfMove'
<1>a. /\ session \in [Place -> [File -> Record]] /\ Place = {"from", "to"}
      /\ other.place \in Place /\ other.file \in File
      /\ Absent = "absent" /\ Free = "free" /\ 1 \in File
      /\ Moving = {"list", "side"} /\ AfterRewrite = {"names", "pins", "unwrite"}
  <2>1. 1 \in File
    BY MoveAssumption DEF File
  <2> QED BY <2>1 DEF TypeOK, Place, Absent, Free, Moving, AfterRewrite
<1>1. CASE journal'
  BY <1>1 DEF NoHalfMove
<1>2. CASE RemoveJournal /\ UNCHANGED intruded
  <2>1. /\ host = "unwrite" /\ UNCHANGED <<session, assets, follow, intruded>>
    BY <1>2 DEF RemoveJournal
  <2>2. \A i \in File : /\ At("to", i) /\ session["to"][i].rewritten
                        /\ i \in intruded \/ session["to"][i].turns \subseteq assets["to"][i]
    BY <1>a, <2>1 DEF Phases, Assets
  <2>3. session["to"][1].notes > 0 /\ "pins" \in follow
    BY <1>a, <2>1 DEF Phases
  <2>4. Whole'
    BY <2>1, <2>2, <2>3 DEF Whole, At
  <2> QED BY <2>4 DEF NoHalfMove
<1>3. ASSUME ~journal, UNCHANGED <<session, assets, follow, intruded>>,
             \A i \in File : lock["to"][i] = Absent => lock'["to"][i] = Absent
      PROVE  NoHalfMove'
  <2>1. Whole => Whole'
    BY <1>3 DEF Whole, At
  <2>2. \A i \in File : ~Occupied(i) => ~Occupied(i)'
    BY <1>3 DEF Occupied, At, Sidecars, There
  <2> QED BY <1>3, <2>1, <2>2 DEF NoHalfMove
<1>4. CASE HostStep /\ UNCHANGED intruded /\ ~journal /\ ~RemoveJournal
  <2>1. \/ GivesUp \/ TakesLease \/ SkipsLease \/ HoldsAll \/ journal'
        \/ Begin \/ Restart
    <3>1. host \notin {"list", "side", "rewrite", "names", "pins", "unwrite"}
      BY <1>4, <1>a DEF Phases
    <3> QED BY <1>4, <3>1 DEF HostStep, Walks, ListsAll, MovesLock, MovesAssets,
          MovesFile, Rewrites, ListsSides, SkipsFile, RewritesAll, FollowsNames,
          WriteJournal, FollowPins
  <2>2. CASE GivesUp
    BY <1>3, <1>4, <1>a, <2>2 DEF GivesUp, LeasesEnd, Held
  <2>3. CASE TakesLease
    BY <1>3, <1>4, <1>a, <2>3 DEF TakesLease, Becomes
  <2>4. CASE SkipsLease \/ HoldsAll \/ Begin \/ Restart
    BY <1>3, <1>4, <1>a, <2>4 DEF SkipsLease, HoldsAll, Begin, Restart, disk
  <2> QED BY <1>1, <2>1, <2>2, <2>3, <2>4
<1>5. CASE OtherStep /\ UNCHANGED <<host, at>> /\ ~journal
  <2>a. follow' = follow /\ intruded \subseteq intruded'
    BY <1>5, KeptStep DEF OtherStep, OtherOpens, OtherBegins, OtherReads, OtherLeaves,
       OtherSaves, disk
  <2>1. ASSUME Whole PROVE Whole'
    <3>1. \A i \in File : At("to", i)' /\ session'["to"][i].rewritten
      BY <2>1, KeptStep, NamedStep DEF Whole
    <3>2. session'["to"][1].notes > 0
      BY <1>a, <2>1, NamedStep DEF Whole
    <3>3. \A i \in File : i \in intruded' \/ session'["to"][i].turns \subseteq assets'["to"][i]
      BY DEF Assets
    <3> QED BY <2>1, <2>a, <3>1, <3>2, <3>3 DEF Whole
  <2>2. ASSUME \A i \in File : ~Occupied(i)
        PROVE  \A i \in File : ~Occupied(i)'
    <3>1. \A i \in File : /\ ~session["to"][i].kept
                          /\ lock["to"][i] = Absent /\ assets["to"][i] = {}
      BY <2>2 DEF Occupied, At, Sidecars, There
    <3>2. ASSUME UNCHANGED <<session, assets>>,
                 \A i \in File : lock'["to"][i] = lock["to"][i]
          PROVE  \A i \in File : ~Occupied(i)'
      BY <3>1, <3>2 DEF Occupied, At, Sidecars, There
    <3>3. ASSUME NEW p \in Place, NEW i \in File, OtherOpens(p, i)
          PROVE  \A j \in File : ~Occupied(j)'
      <4>1. p = "from"
        BY <1>a, <3>1, <3>3 DEF OtherOpens, At
      <4> QED BY <1>a, <3>2, <3>3, <4>1 DEF OtherOpens, Becomes
    <3>4. ASSUME NEW i \in File, OtherBegins(i)
          PROVE  \A j \in File : ~Occupied(j)'
      <4>1. \A j \in File : /\ session'["to"][j] = session["to"][j]
                            /\ lock'["to"][j] = lock["to"][j]
        BY <1>a, <3>4 DEF OtherBegins, Becomes
      <4>2. assets' = assets
        BY <3>4 DEF OtherBegins
      <4> QED BY <3>1, <4>1, <4>2 DEF Occupied, At, Sidecars, There
    <3>5. CASE OtherReads
      BY <3>2, <3>5 DEF OtherReads, disk
    <3>6. CASE OtherLeaves
      <4>1. UNCHANGED <<session, assets>>
        BY <3>6 DEF OtherLeaves
      <4>2. \A i \in File : lock'["to"][i] = lock["to"][i]
        BY <1>a, <3>1, <3>6 DEF OtherLeaves, Held
      <4> QED BY <3>2, <4>1, <4>2
    <3>7. ASSUME NEW t \in Turn, OtherSaves(t)
          PROVE  \A j \in File : ~Occupied(j)'
      <4>1. other.place = "from"
        BY <1>a, <3>1, <3>7 DEF OtherSaves, Loaded, Settled, At
      <4>2. \A j \in File : /\ session'["to"][j] = session["to"][j]
                            /\ assets'["to"][j] = assets["to"][j]
        BY <1>a, <3>7, <4>1 DEF OtherSaves, Becomes
      <4>3. lock' = lock
        BY <3>7 DEF OtherSaves
      <4> QED BY <3>1, <4>2, <4>3 DEF Occupied, At, Sidecars, There
    <3> QED BY <1>5, <3>3, <3>4, <3>5, <3>6, <3>7 DEF OtherStep
  <2> QED BY <1>5, <2>1, <2>2 DEF NoHalfMove
<1>6. CASE UNCHANGED vars
  <2>1. ~journal => NoHalfMove'
    BY <1>3, <1>6 DEF vars
  <2> QED BY <1>1, <1>6, <2>1 DEF vars
<1>7. CASE HostStep /\ UNCHANGED intruded /\ journal
  <2>1. journal' = journal \/ journal' \/ RemoveJournal
    BY <1>7 DEF HostStep, Walks, GivesUp, TakesLease, ListsAll, MovesLock,
       MovesAssets, MovesFile, Rewrites, SkipsLease, HoldsAll, ListsSides, SkipsFile,
       RewritesAll, FollowsNames, Begin, WriteJournal, FollowPins, Restart, disk
  <2> QED BY <1>1, <1>2, <1>7, <2>1
<1>8. CASE OtherStep /\ journal
  <2>1. journal' = journal
    BY <1>8 DEF OtherStep, OtherOpens, OtherBegins, OtherReads, OtherLeaves,
       OtherSaves, disk
  <2> QED BY <1>1, <1>8, <2>1
<1> QED BY <1>2, <1>4, <1>5, <1>6, <1>7, <1>8, Steps

\* Nothing disturbed, nothing a step of the host asks of the disk is missing,
\* but room for a lock file.
LEMMA StopsOnlyAtALockStep ==
    ASSUME TypeOK, Locks, Assets, Phases, Undisturbed, StopsOnlyAtALock, [Next]_vars
    PROVE  StopsOnlyAtALock'
<1> DEFINE Stuck == \E i \in File : At("from", i) /\ lock["to"][i] # Absent
<1> SUFFICES ASSUME host' = "idle", journal', faults' = 0, opens' = 0
             PROVE  Stuck'
  BY DEF StopsOnlyAtALock
<1>a. /\ faults \in Nat /\ opens \in Nat /\ at \in 1..(LastFile + 1)
      /\ LastFile \in Nat \ {0} /\ File = 1..LastFile /\ Place = {"from", "to"}
      /\ Absent = "absent" /\ Free = "free" /\ Moving = {"list", "side"}
  <2>1. faults \in Nat /\ opens \in Nat
    BY MoveAssumption DEF TypeOK
  <2> QED BY <2>1, MoveAssumption DEF TypeOK, File, Place, Absent, Free, Moving
<1>b. ~(at > LastFile) => at \in File
  BY <1>a
<1>1. CASE UNCHANGED vars
  BY <1>1 DEF vars, StopsOnlyAtALock, At
<1>2. ASSUME Other, UNCHANGED faults PROVE FALSE
  <2>1. other.does # "nothing" \/ opens' = opens + 1
    BY <1>2 DEF Other, Open, OpenFresh, Load, Close, SaveTurn
  <2>2. opens' = opens \/ opens' = opens + 1
    BY <1>2 DEF Other, Open, OpenFresh, Load, Close, SaveTurn
  <2> QED BY <1>a, <2>1, <2>2 DEF Undisturbed
<1>3. CASE Host /\ UNCHANGED <<other, opens, intruded>>
  <2>a. opens = 0 /\ other.does = "nothing" /\ intruded = {}
    BY <1>3 DEF Undisturbed
  <2>b. \A i \in File : /\ At("from", i) <=> ~At("to", i)
                        /\ assets["from"][i] = {} \/ assets["to"][i] = {}
    BY <2>a DEF Undisturbed
  <2>c. /\ \A p \in Place, i \in File : lock[p][i] \in {"absent", "free", "host"}
        /\ \A i \in File : lock["to"][i] = "host" => host \in Moving
        /\ \A i \in File : lock["from"][i] = "host" =>
              (host = "hold" /\ i < at) \/ host = "write" \/ host \in Moving
    <3>a. lock \in [Place -> [File -> {"absent", "free", "host", "other"}]]
      BY DEF TypeOK, Absent, Free
    <3>1. \A p \in Place, i \in File : lock[p][i] \in {"absent", "free", "host", "other"}
      BY <3>a
    <3> QED BY <1>a, <2>a, <3>1 DEF Locks, Held
  <2>1. ASSUME Fail, NEW i \in File, At("from", i), lock["to"][i] # "absent"
        PROVE  Stuck'
    <3>1. session' = session /\ lock' = Unlocked("host")
      BY <2>1 DEF Fail
    <3>2. lock'["to"][i] # "absent"
      BY <1>a, <2>1, <3>1, LeasesLetGo
    <3> QED BY <1>a, <2>1, <3>1, <3>2 DEF At
  <2>2. ~Begin /\ ~WriteJournal /\ ~FollowPins /\ ~RemoveJournal /\ ~Restart
    BY <1>a DEF Begin, WriteJournal, FollowPins, RemoveJournal, Restart, Goto, disk
  <2>3. ~Hold
    <3>1. SUFFICES ASSUME Hold PROVE FALSE
      OBVIOUS
    <3>2. host = "hold" /\ at \in File /\ ~CanLock("from", at)
      BY <1>b, <3>1 DEF Hold, Goto
    <3>3. ~(at < at)
      BY <1>a
    <3> QED BY <1>a, <2>c, <3>2, <3>3 DEF CanLock
  <2>4. ~List
    <3>1. SUFFICES ASSUME List PROVE FALSE
      OBVIOUS
    <3>2. at \in File /\ ~At("from", at) /\ ~At("to", at)
      BY <1>b, <3>1 DEF List, Goto
    <3> QED BY <2>b, <3>2
  <2>5. ~MoveFile
    <3>1. SUFFICES ASSUME MoveFile PROVE FALSE
      OBVIOUS
    <3>2. host = "side" /\ (At("to", at) \/ ~At("from", at))
      BY <3>1 DEF MoveFile, Goto
    <3> QED BY <2>b, <3>2 DEF Assets
  <2>6. ~Rewrite
    <3>1. SUFFICES ASSUME Rewrite PROVE FALSE
      OBVIOUS
    <3>2. host = "rewrite" /\ at \in File /\ ~(CanLock("to", at) /\ At("to", at))
      BY <1>b, <3>1 DEF Rewrite, Goto
    <3>3. At("to", at)
      BY <3>2 DEF Phases
    <3> QED BY <1>a, <2>c, <3>2, <3>3 DEF CanLock
  <2>7. ASSUME NEW s \in {"lock", "assets"}, Side(s) PROVE Stuck'
    <3>1. host = "side" /\ s \in sides
      BY <2>7 DEF Side
    <3>2. /\ at \in File /\ At("from", at) /\ There(s, "from", at)
      BY <3>1 DEF Assets, Sidecars
    <3>3. CASE There(s, "to", at)
      <4>1. s = "lock" /\ lock["to"][at] # "absent"
        BY <1>a, <2>b, <3>2, <3>3 DEF There
      <4>2. Fail
        BY <2>7, <3>3 DEF Side
      <4> QED BY <2>1, <3>2, <4>1, <4>2
    <3>4. CASE ~There(s, "to", at)
      BY <2>7, <3>1, <3>2, <3>4 DEF Side
    <3> QED BY <3>3, <3>4
  <2>8. ~FollowNames /\ ~Crash /\ ~Fault
    BY <1>a DEF FollowNames, Crash, Fault, Goto
  <2> QED BY <1>3, <2>2, <2>3, <2>4, <2>5, <2>6, <2>7, <2>8 DEF Host
<1> QED BY <1>1, <1>2, <1>3 DEF Next

\* What another process has open, the host neither renames nor rewrites.
LEMMA LeavesOpenSessionsStep ==
    ASSUME TypeOK, Records, Loaded, Locks, Assets, [Next]_vars,
           NEW p \in Place, NEW i \in File \ intruded,
           Held(p, i, "other"), Held(p, i, "other")', other' = other
    PROVE  session'[p][i] = session[p][i]
<1>a. /\ Place = {"from", "to"} /\ other.record \in Record
      /\ Absent = "absent" /\ Free = "free"
  BY DEF TypeOK, Place, Absent, Free
<1>b. other.does # "nothing" /\ other.file = i /\ other.place = p
  BY DEF Locks
<1>1. CASE UNCHANGED session
  BY <1>1
<1>2. CASE MovesFile
  <2>1. Shifts(session', session, NoSession) /\ ~At("to", at) /\ host = "side"
    BY <1>2 DEF MovesFile
  <2>2. i # at
    <3>1. CASE p = "from"
      BY <1>b, <2>1, <3>1 DEF Locks
    <3>2. CASE p = "to"
      BY <1>b, <2>1, <3>2 DEF Loaded, Settled
    <3> QED BY <1>a, <3>1, <3>2
  <2> QED BY <2>1, <2>2 DEF Shifts
<1>3. CASE Rewrites
  BY <1>3, <1>a DEF Rewrites, Becomes, CanLock, Held
<1>4. CASE OtherStep
  <2>1. UNCHANGED session \/ other.does = "nothing" \/ \E t \in Turn : OtherSaves(t)
    BY <1>4 DEF OtherStep, OtherOpens, OtherBegins, OtherReads, OtherLeaves, disk
  <2>2. ASSUME NEW t \in Turn, OtherSaves(t) PROVE FALSE
    <3>1. t \notin saved /\ other.record = Continued(t)
      BY <2>2 DEF OtherSaves
    <3>2. t \in Continued(t).turns
      BY <1>a DEF Continued, Record
    <3>3. other.record.turns \subseteq saved
      BY DEF Records, Noted, Fits
    <3> HIDE DEF Continued
    <3> QED BY <3>1, <3>2, <3>3
  <2> QED BY <1>1, <1>b, <2>1, <2>2
<1> QED BY <1>1, <1>2, <1>3, <1>4, Steps, HostLeaves DEF vars
-----------------------------------------------------------------------------
LEMMA IInvInit ==
    Init => IInv
<1> SUFFICES ASSUME Init PROVE IInv
  OBVIOUS
<1>a. /\ LastFile \in Nat \ {0} /\ File = 1..LastFile /\ 1 \in File
      /\ Place = {"from", "to"} /\ Before \subseteq Turn /\ IsFiniteSet(Before)
      /\ 1 \in 1..(LastFile + 1)
      /\ MaxOpens \in Nat /\ MaxFaults \in Nat /\ MaxCrashes \in Nat
  BY MoveAssumption DEF File, Place
<1>b. /\ journal = FALSE /\ follow = {} /\ host = "idle" /\ at = 1 /\ sides = {}
      /\ recovers = FALSE /\ other = Nobody /\ opens = 0 /\ faults = 0 /\ crashes = 0
      /\ saved = Before /\ intruded = {}
  BY DEF Init
<1> DEFINE Old(i) == [NoSession EXCEPT !.kept = TRUE,
                                       !.turns = IF i = 1 THEN Before ELSE {}]
<1>d. /\ NoSession \in Record /\ Nobody.record = NoSession
      /\ NoSession.turns = {} /\ NoSession.notes = 0 /\ ~NoSession.last
      /\ ~NoSession.kept
  BY <1>a DEF NoSession, Record, Nobody
<1>e. ASSUME NEW i \in File
      PROVE  /\ Old(i) \in Record /\ Old(i).turns \subseteq Before
             /\ Old(i).kept /\ Old(i).notes = 0 /\ ~Old(i).last
             /\ i = 1 => Old(i).turns = Before
  BY <1>a, <1>d DEF Record
<1>c. /\ session = [p \in Place |-> [i \in File |->
                       IF p = "to" THEN NoSession ELSE Old(i)]]
      /\ lock = [p \in Place |-> [i \in File |-> IF p = "from" THEN Free ELSE Absent]]
      /\ assets = [p \in Place |-> [i \in File |-> session[p][i].turns]]
  BY DEF Init
<1> HIDE DEF Old
<1>f. \A i \in File :
         /\ session["from"][i] = Old(i) /\ session["to"][i] = NoSession
         /\ lock["from"][i] = Free /\ lock["to"][i] = Absent
         /\ assets["from"][i] = Old(i).turns /\ assets["to"][i] = {}
  BY <1>a, <1>c, <1>d
<1>g. /\ session \in [Place -> [File -> Record]]
      /\ lock \in [Place -> [File -> {Absent, Free, "host", "other"}]]
      /\ assets \in [Place -> [File -> SUBSET Turn]]
  <2>1. session \in [Place -> [File -> Record]]
    BY <1>c, <1>d, <1>e
  <2>2. lock \in [Place -> [File -> {Absent, Free, "host", "other"}]]
    BY <1>c
  <2>3. \A p \in Place, i \in File : session[p][i].turns \subseteq Turn
    BY <2>1 DEF Record
  <2>4. assets \in [Place -> [File -> SUBSET Turn]]
    BY <1>c, <2>3
  <2> QED BY <2>1, <2>2, <2>4
<1>1. TypeOK
  <2>1. other \in [does : {"nothing", "load", "run"}, place : Place,
                   file : File, record : Record]
    BY <1>a, <1>b, <1>d DEF Nobody
  <2>2. /\ journal \in BOOLEAN /\ recovers \in BOOLEAN
        /\ follow \subseteq Unchecked \cup {"pins"}
        /\ host \in HostSteps /\ at \in 1..(LastFile + 1)
        /\ sides \subseteq {"lock", "assets"}
        /\ saved \subseteq Turn /\ intruded \subseteq File
    BY <1>a, <1>b DEF HostSteps
  <2>3. /\ opens \in 0..MaxOpens /\ faults \in 0..MaxFaults
        /\ crashes \in 0..MaxCrashes
    BY <1>a, <1>b
  <2> QED BY <1>g, <2>1, <2>2, <2>3 DEF TypeOK
<1>2. Records
  <2>1. Cardinality(Before) \in Nat /\ Cardinality({}) = 0
    BY <1>a, FS_CardinalityType, FS_EmptySet
  <2>3. Noted(NoSession) /\ Unnoted(NoSession)
    BY <1>d, <2>1 DEF Noted, Fits, Unnoted
  <2>a. ASSUME NEW i \in File PROVE Noted(Old(i))
    <3>1. Old(i).turns \subseteq Before /\ Old(i).notes = 0 /\ ~Old(i).last
      BY <1>e
    <3>2. Cardinality(Old(i).turns) \in Nat
      BY <1>a, <3>1, FS_Subset, FS_CardinalityType
    <3> QED BY <1>b, <3>1, <3>2 DEF Noted, Fits
  <2>2. \A p \in Place, i \in File : Noted(session[p][i])
    BY <1>a, <1>f, <2>3, <2>a
  <2>4. \A i \in File : Unnoted(session["from"][i])
    BY <1>a, <1>e, <1>f DEF Unnoted
  <2>5. \A p \in Place, i \in File : At(p, i) \/ session[p][i] = NoSession
    BY <1>a, <1>e, <1>f DEF At
  <2> QED BY <1>a, <1>b, <1>d, <2>2, <2>3, <2>4, <2>5 DEF Records
<1>3. Loaded
  BY <1>b, <1>d DEF Loaded, Nobody
<1>4. Locks
  BY <1>a, <1>b, <1>f DEF Locks, Nobody, Held, Free, Absent, HoldsLease
<1>5. Assets
  BY <1>a, <1>b, <1>d, <1>e, <1>f DEF Assets
<1>6. Phases
  BY <1>b DEF Phases, Moving, AfterRewrite
<1>7. Undisturbed
  BY <1>a, <1>b, <1>d, <1>e, <1>f DEF Undisturbed, Nobody, At
<1>8. FewNotes
  BY <1>b, <1>d, <1>f DEF FewNotes, NoteLimit, Annotated
<1>9. NothingLost
  <2>1. "from" \in Place /\ session["from"][1].turns = Before
    BY <1>a, <1>e, <1>f
  <2>2. ASSUME NEW p \in Place
        PROVE  session[p][1].notes <= 1 + Cardinality(session[p][1].turns)
    <3>1. session[p][1] \in Record /\ IsFiniteSet(saved) /\ Fits(session[p][1], saved)
      BY <1>2, <1>a, <1>g DEF Records, Noted
    <3> QED BY <3>1, NotesFit
  <2> QED BY <1>a, <1>b, <1>f, <2>1, <2>2 DEF NothingLost
<1>10. NoHalfMove
  <2>1. \A i \in File : ~session["to"][i].kept /\ lock["to"][i] = Absent /\ assets["to"][i] = {}
    BY <1>d, <1>f
  <2> QED BY <2>1 DEF NoHalfMove, Occupied, At, Sidecars, There
<1>11. StopsOnlyAtALock
  BY <1>b DEF StopsOnlyAtALock
<1> QED BY <1>1, <1>2, <1>3, <1>4, <1>5, <1>6, <1>7, <1>8, <1>9, <1>10, <1>11 DEF IInv

LEMMA IInvNext ==
    IInv /\ [Next]_vars => IInv'
<1> SUFFICES ASSUME IInv, [Next]_vars PROVE IInv'
  OBVIOUS
<1>0. /\ TypeOK /\ Records /\ Loaded /\ Locks /\ Assets /\ Phases /\ Undisturbed
      /\ FewNotes /\ NothingLost /\ NoHalfMove /\ StopsOnlyAtALock
  BY DEF IInv
<1>1. TypeOK'
  BY <1>0, TypeStep
<1>2. Records' /\ Loaded' /\ Locks' /\ Assets'
  BY <1>0, RecordsStep, LoadedStep, LocksStep, AssetsStep
<1>3. Phases' /\ Undisturbed' /\ FewNotes'
  BY <1>0, PhasesStep, UndisturbedStep, FewNotesStep
<1>4. NothingLost' /\ NoHalfMove' /\ StopsOnlyAtALock'
  BY <1>0, <1>1, <1>2, NothingLostStep, NoHalfMoveStep, StopsOnlyAtALockStep
<1> QED BY <1>1, <1>2, <1>3, <1>4 DEF IInv

LEMMA AlwaysIInv ==
    Spec => []IInv
<1> QED BY IInvInit, IInvNext, PTL DEF Spec

(***************************************************************************)
(* The theorems.                                                           *)
(***************************************************************************)
\* What the disk, the host and the other process hold stays well formed: a
\* session never has more notes than hosts that died and one (AddNote of
\* Rewrite).
THEOREM MoveTypeCorrect ==
    Spec => []TypeOK
<1>1. IInv => TypeOK
  BY DEF IInv
<1> QED BY <1>1, AlwaysIInv, PTL

\* MoveConversation and RecoverMoves, however they are interrupted, fail or
\* meet a process that opens a session, lose no turn that was saved and none
\* of its assets, and note the move in the conversation once.
THEOREM MoveLosesNothing ==
    Spec => []NothingLost
<1>1. IInv => NothingLost
  BY DEF IInv
<1> QED BY <1>1, AlwaysIInv, PTL

\* Without a journal the family is where it was or has moved as a whole: the
\* journal is written before the first rename and removed after the last step.
THEOREM NeverHalfAMove ==
    Spec => []NoHalfMove
<1>1. IInv => NoHalfMove
  BY DEF IInv
<1> QED BY <1>1, AlwaysIInv, PTL

\* RecoverMoves finishes every move that nothing disturbed, but for one killed
\* between the rename of a session's lock file and that of the session.
THEOREM MoveStopsOnlyAtALock ==
    Spec => []StopsOnlyAtALock
<1>1. IInv => StopsOnlyAtALock
  BY DEF IInv
<1> QED BY <1>1, AlwaysIInv, PTL

\* HoldMove's leases and those of SessionStore::Edit keep the move away from a
\* session another process has open.
THEOREM OpenSessionsLeftAlone ==
    Spec => LeavesOpenSessions
<1> DEFINE Leaves == \A p \in Place, i \in File \ intruded :
              Held(p, i, "other") /\ Held(p, i, "other")' /\ other' = other =>
                  session'[p][i] = session[p][i]
<1>1. IInv /\ [Next]_vars => [Leaves]_vars
  <2>1. IInv /\ [Next]_vars => Leaves
    BY LeavesOpenSessionsStep DEF IInv
  <2> QED BY <2>1
<1>2. Spec => [][Leaves]_vars
  <2> HIDE DEF Leaves
  <2> QED BY <1>1, AlwaysIInv, PTL DEF Spec
<1> QED BY <1>2 DEF LeavesOpenSessions
=============================================================================
