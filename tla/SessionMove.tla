---------------------------- MODULE SessionMove ----------------------------
(***************************************************************************)
(* Moving a conversation and the agents saved beside it to the history of  *)
(* another folder (SessionHost::MoveConversation, RecoverMoves).  The host *)
(* takes the leases of the family's sessions, writes the move down (the    *)
(* journal), renames each file's sidecars and then the file, lets go of    *)
(* the leases, rewrites what the sessions hold, lets the names kept        *)
(* elsewhere follow and removes the journal.  It may be killed anywhere,   *)
(* a step may fail, and the next host finishes what the journal says.      *)
(*                                                                         *)
(* The lease of a session is a lock on the file <session>.lock beside it   *)
(* (FileLease), which is one of the sidecars the move renames: the lock    *)
(* moves with it.  Any other process (a terminal, a run) opens a session   *)
(* by taking that lease and reading the file, and saves turns to it.       *)
(*                                                                         *)
(* A sidecar with the session's assets stands for all of <session>.*       *)
(* besides the lock: the assets of a turn are saved with it.               *)
(***************************************************************************)
EXTENDS Naturals, FiniteSets

CONSTANTS
    LastFile,    \* the family is 1..LastFile: the conversation, its agents
    Elsewhere,   \* agents that work in a folder of their own
    Turn,        \* turns a process may save
    Before,      \* those the conversation has, with assets, before anything
    MaxOpens,    \* bound: times another process opens a session
    MaxFaults,   \* bound: steps of the host that fail
    MaxCrashes   \* bound: hosts killed

File == 1..LastFile

ASSUME MoveAssumption ==
    /\ LastFile \in Nat \ {0}
    /\ Elsewhere \subseteq File \ {1}
    /\ Before \subseteq Turn /\ IsFiniteSet(Before)
    /\ MaxOpens \in Nat /\ MaxFaults \in Nat /\ MaxCrashes \in Nat

Place == {"from", "to"}
Absent == "absent"
Free == "free"
NoSession == [turns |-> {}, rewritten |-> FALSE, notes |-> 0, last |-> FALSE,
              kept |-> FALSE]

VARIABLES
    session,   \* place -> file -> the saved session (kept: there is one)
    lock,      \* place -> file -> the lock file: Absent, Free, or who holds it
    assets,    \* place -> file -> the turns whose assets are there (none: no
               \* such directory)
    journal,   \* the move is written down
    follow,    \* the names kept elsewhere that have followed
    host,      \* what the host is doing
    at,        \* the file it is at
    sides,     \* the sidecars it has listed and not yet renamed
    recovers,  \* it carries out what a journal says
    other,     \* the other process: what it does, where, what it has loaded
    opens, faults, crashes,   \* so far
    saved,     \* history: the turns saved
    intruded   \* history: files opened where they were while they moved

vars == <<session, lock, assets, journal, follow, host, at, sides, recovers,
          other, opens, faults, crashes, saved, intruded>>
disk == <<session, lock, assets, journal, follow>>

\* The ledger, the scheduled runs and the drafts follow or not: a failure is
\* ignored.  The pins must.
Unchecked == {"ledger", "runs", "drafts"}
HostSteps == {"idle", "hold", "write", "list", "side", "rewrite",
              "names", "pins", "unwrite", "down"}
Moving == {"list", "side"}

Nobody == [does |-> "nothing", place |-> "from", file |-> 1,
           record |-> NoSession]

Record == [turns : SUBSET Turn, rewritten : BOOLEAN,
           notes : 0..(MaxCrashes + MaxFaults + 2), last : BOOLEAN,
           kept : BOOLEAN]

TypeOK ==
    /\ session \in [Place -> [File -> Record]]
    /\ lock \in [Place -> [File -> {Absent, Free, "host", "other"}]]
    /\ assets \in [Place -> [File -> SUBSET Turn]]
    /\ journal \in BOOLEAN /\ recovers \in BOOLEAN
    /\ follow \subseteq Unchecked \cup {"pins"}
    /\ host \in HostSteps
    /\ at \in 1..(LastFile + 1)
    /\ sides \subseteq {"lock", "assets"}
    /\ other \in [does : {"nothing", "load", "run"}, place : Place,
                  file : File, record : Record]
    /\ opens \in 0..MaxOpens /\ faults \in 0..MaxFaults
    /\ crashes \in 0..MaxCrashes
    /\ saved \subseteq Turn
    /\ intruded \subseteq File

Init ==
    /\ session = [p \in Place |-> [i \in File |->
                    IF p = "to" THEN NoSession
                    ELSE [NoSession EXCEPT !.kept = TRUE,
                                           !.turns = IF i = 1 THEN Before ELSE {}]]]
    /\ lock = [p \in Place |-> [i \in File |->
                    IF p = "from" THEN Free ELSE Absent]]
    /\ assets = [p \in Place |-> [i \in File |-> session[p][i].turns]]
    /\ journal = FALSE /\ follow = {}
    /\ host = "idle" /\ at = 1 /\ sides = {} /\ recovers = FALSE
    /\ other = Nobody
    /\ opens = 0 /\ faults = 0 /\ crashes = 0
    /\ saved = Before /\ intruded = {}
-----------------------------------------------------------------------------
At(p, i) == session[p][i].kept
Held(p, i, who) == lock[p][i] = who
\* FileLease::Acquire: a lock file that is not there is made.
CanLock(p, i) == lock[p][i] \in {Absent, Free}
Locked(p, i, who) == [lock EXCEPT ![p][i] = who]
\* Every lease of `who` ends, wherever its file is.
Unlocked(who) == [p \in Place |-> [i \in File |->
                    IF Held(p, i, who) THEN Free ELSE lock[p][i]]]
There(s, p, i) ==
    IF s = "lock" THEN lock[p][i] # Absent ELSE assets[p][i] # {}
Sidecars(p, i) == {s \in {"lock", "assets"} : There(s, p, i)}
Occupied(i) == At("to", i) \/ Sidecars("to", i) # {}

Goto(step, i) == host' = step /\ at' = i

\* The variant that takes the move back as it fails.
FailAndForget ==
    /\ lock' = Unlocked("host")
    /\ Goto("idle", 1) /\ sides' = {} /\ recovers' = FALSE
    /\ journal' = FALSE
    /\ UNCHANGED <<session, assets, follow>>

\* What every early return of the move comes to: the leases end, a journal
\* that was written stays.
Fail ==
    /\ lock' = Unlocked("host")
    /\ Goto("idle", 1) /\ sides' = {} /\ recovers' = FALSE
    /\ UNCHANGED <<session, assets, journal, follow>>

\* MoveConversation up to the leases: nothing is where the files go, every
\* file is there, and no move of it is unfinished.
Begin ==
    /\ host = "idle" /\ ~journal
    /\ \A i \in File : At("from", i) /\ ~Occupied(i)
    /\ Goto("hold", 1)
    /\ UNCHANGED <<disk, sides, recovers>>

\* The variant without the leases.
HoldNothing ==
    /\ host = "hold"
    /\ Goto(IF recovers THEN "list" ELSE "write", 1)
    /\ UNCHANGED <<disk, sides, recovers>>

\* The variant whose next loop goes on where this one ended.
HoldAndGoOn ==
    /\ host = "hold"
    /\ Goto(IF at <= LastFile THEN "hold" ELSE "list", at + 1)
    /\ UNCHANGED <<disk, sides, recovers>>

\* HoldMove: the lease of each session that is still where it was.
Hold ==
    /\ host = "hold"
    /\ IF at > LastFile
       THEN /\ Goto(IF recovers THEN "list" ELSE "write", 1)
            /\ UNCHANGED <<disk, sides, recovers>>
       ELSE IF ~At("from", at)
       THEN /\ Goto("hold", at + 1)
            /\ UNCHANGED <<disk, sides, recovers>>
       ELSE IF CanLock("from", at)
       THEN /\ lock' = Locked("from", at, "host")
            /\ Goto("hold", at + 1)
            /\ UNCHANGED <<session, assets, journal, follow, sides, recovers>>
       ELSE Fail

WriteJournal ==
    /\ host = "write"
    /\ journal' = TRUE
    /\ Goto("list", 1)
    /\ UNCHANGED <<session, lock, assets, follow, sides, recovers>>

\* The variant that takes a file that has moved for one that is gone.
ListStrict ==
    /\ host = "list"
    /\ IF at > LastFile
       THEN /\ lock' = Unlocked("host")
            /\ Goto("rewrite", 1)
            /\ UNCHANGED <<session, assets, journal, follow, sides, recovers>>
       ELSE IF At("from", at)
       THEN /\ sides' = Sidecars("from", at)
            /\ Goto("side", at)
            /\ UNCHANGED <<disk, recovers>>
       ELSE Fail

\* MoveFiles looks: a file that is not where it was has moved already.
List ==
    /\ host = "list"
    /\ IF at > LastFile
       THEN /\ lock' = Unlocked("host")
            /\ Goto("rewrite", 1)
            /\ UNCHANGED <<session, assets, journal, follow, sides, recovers>>
       ELSE IF At("from", at)
       THEN /\ sides' = Sidecars("from", at)
            /\ Goto("side", at)
            /\ UNCHANGED <<disk, recovers>>
       ELSE IF At("to", at)
       THEN /\ Goto("list", at + 1)
            /\ UNCHANGED <<disk, sides, recovers>>
       ELSE Fail

\* A sidecar's move.
Renamed(f, none) == [f EXCEPT !["to"][at] = f["from"][at], !["from"][at] = none]
Rename(s) == IF s = "lock"
             THEN lock' = Renamed(lock, Absent) /\ UNCHANGED assets
             ELSE assets' = Renamed(assets, {}) /\ UNCHANGED lock

\* The variant that renames over what is there.
SideOver(s) ==
    /\ host = "side" /\ s \in sides
    /\ IF ~There(s, "from", at)
       THEN Fail
       ELSE /\ Rename(s)
            /\ sides' = sides \ {s}
            /\ UNCHANGED <<session, journal, follow, host, at, recovers>>

\* Renaming one sidecar, in the order the directory lists them, never over
\* one that is there.
Side(s) ==
    /\ host = "side" /\ s \in sides
    /\ IF There(s, "to", at) \/ ~There(s, "from", at)
       THEN Fail
       ELSE /\ Rename(s)
            /\ sides' = sides \ {s}
            /\ UNCHANGED <<session, journal, follow, host, at, recovers>>

\* The session file moves last.
MoveFile ==
    /\ host = "side" /\ sides = {}
    /\ IF At("to", at) \/ ~At("from", at)
       THEN Fail
       ELSE /\ session' = [session EXCEPT !["to"][at] = session["from"][at],
                                          !["from"][at] = NoSession]
            /\ Goto("list", at + 1)
            /\ UNCHANGED <<lock, assets, journal, follow, sides, recovers>>

\* AddNote: to the conversation, unless it ends with it.
WithNote(i, r) ==
    IF i # 1 \/ r.last THEN r
    ELSE [r EXCEPT !.notes = @ + 1, !.last = TRUE]

\* Rewrite, under SessionStore::Edit's own lease: the folder, the parent, the
\* paths and ids the session names.
Rewrite ==
    /\ host = "rewrite"
    /\ IF at > LastFile
       THEN /\ Goto("names", 1)
            /\ UNCHANGED <<disk, sides, recovers>>
       ELSE IF CanLock("to", at) /\ At("to", at)
       THEN /\ session' = [session EXCEPT !["to"][at] =
                  [WithNote(at, session["to"][at]) EXCEPT !.rewritten = TRUE]]
            /\ lock' = Locked("to", at, Free)
            /\ Goto("rewrite", at + 1)
            /\ UNCHANGED <<assets, journal, follow, sides, recovers>>
       ELSE Fail

\* MoveLedger, MoveScheduledSessions, the drafts: what fails is ignored.
FollowNames ==
    /\ host = "names"
    /\ \/ follow' = follow \cup Unchecked /\ UNCHANGED faults
       \/ /\ faults < MaxFaults /\ faults' = faults + 1
          /\ \E n \in Unchecked : follow' = follow \cup (Unchecked \ {n})
    /\ Goto("pins", 1)
    /\ UNCHANGED <<session, lock, assets, journal, sides, recovers>>

FollowPins ==
    /\ host = "pins"
    /\ follow' = follow \cup {"pins"}
    /\ Goto("unwrite", 1)
    /\ UNCHANGED <<session, lock, assets, journal, sides, recovers>>

RemoveJournal ==
    /\ host = "unwrite"
    /\ journal' = FALSE
    /\ Goto("idle", 1) /\ recovers' = FALSE
    /\ UNCHANGED <<session, lock, assets, follow, sides>>

\* A rename, a write or an edit may fail.
Fault ==
    /\ host \in {"write", "side", "rewrite", "pins"}
    /\ faults < MaxFaults /\ faults' = faults + 1
    /\ Fail

\* The host is killed; its leases end with it.
Crash ==
    /\ host # "down" /\ crashes < MaxCrashes
    /\ crashes' = crashes + 1
    /\ lock' = Unlocked("host")
    /\ Goto("down", 1) /\ sides' = {} /\ recovers' = FALSE
    /\ UNCHANGED <<session, assets, journal, follow>>

\* Before it lists anything, a host finishes the move it finds.
Restart ==
    /\ host = "down"
    /\ Goto(IF journal THEN "hold" ELSE "idle", 1)
    /\ recovers' = journal
    /\ UNCHANGED <<disk, sides>>

Host ==
    \/ /\ Begin \/ Hold \/ WriteJournal \/ List \/ MoveFile \/ Rewrite
          \/ FollowPins \/ RemoveJournal \/ Restart
          \/ \E s \in {"lock", "assets"} : Side(s)
       /\ UNCHANGED <<faults, crashes>>
    \/ (FollowNames \/ Fault) /\ UNCHANGED crashes
    \/ Crash /\ UNCHANGED faults
-----------------------------------------------------------------------------
\* Another process opens a session that is there: it claims, then reads
\* (Agent::Load).
Open(p, i) ==
    /\ other.does = "nothing" /\ opens < MaxOpens
    /\ At(p, i) /\ CanLock(p, i)
    /\ opens' = opens + 1
    /\ lock' = Locked(p, i, "other")
    /\ other' = [Nobody EXCEPT !.does = "load", !.place = p, !.file = i]
    /\ intruded' = IF p = "from" /\ host \in Moving /\ at <= i
                   THEN intruded \cup {i} ELSE intruded
    /\ UNCHANGED <<session, assets, journal, follow, saved>>

\* One that is no longer there is begun, by a process that still has its
\* path: a conversation of its own, saved at once.
OpenFresh(i) ==
    /\ other.does = "nothing" /\ opens < MaxOpens
    /\ ~At("from", i) /\ CanLock("from", i)
    /\ opens' = opens + 1
    /\ lock' = Locked("from", i, "other")
    /\ LET r == [NoSession EXCEPT !.kept = TRUE]
       IN  /\ session' = [session EXCEPT !["from"][i] = r]
           /\ other' = [does |-> "run", place |-> "from", file |-> i,
                        record |-> r]
    /\ intruded' = intruded \cup {i}
    /\ UNCHANGED <<assets, journal, follow, saved>>

\* A session is opened in the folder it belongs to (SessionStore::Load); an
\* agent of another folder names it either way.
Opens(p, i) == /\ At(p, i)
               /\ i \in Elsewhere \/ session[p][i].rewritten = (p = "to")

Load ==
    /\ other.does = "load"
    /\ LET p == other.place
           i == other.file
       IN  IF Opens(p, i)
           THEN /\ other' = [other EXCEPT !.does = "run",
                                          !.record = session[p][i]]
                /\ UNCHANGED lock
           ELSE /\ other' = Nobody
                /\ lock' = Unlocked("other")
    /\ UNCHANGED <<session, assets, journal, follow, opens, saved, intruded>>

\* Agent::Save: the whole conversation as this process has it, and the
\* turn's assets.
SaveTurn(t) ==
    /\ other.does = "run" /\ t \notin saved
    /\ saved' = saved \cup {t}
    /\ LET p == other.place
           i == other.file
           r == [other.record EXCEPT !.turns = @ \cup {t}, !.last = FALSE]
       IN  /\ session' = [session EXCEPT ![p][i] = r]
           /\ other' = [other EXCEPT !.record = r]
           /\ assets' = [assets EXCEPT ![p][i] = @ \cup {t}]
    /\ UNCHANGED <<lock, journal, follow, opens, intruded>>

\* It ends, or is killed.
Close ==
    /\ other.does = "run"
    /\ other' = Nobody
    /\ lock' = Unlocked("other")
    /\ UNCHANGED <<session, assets, journal, follow, opens, saved, intruded>>

Other ==
    \/ \E p \in Place, i \in File : Open(p, i)
    \/ \E i \in File : OpenFresh(i)
    \/ Load \/ Close
    \/ \E t \in Turn : SaveTurn(t)

Next ==
    \/ Host /\ UNCHANGED <<other, opens, saved, intruded>>
    \/ Other /\ UNCHANGED <<host, at, sides, recovers, faults, crashes>>

Spec == Init /\ [][Next]_vars
-----------------------------------------------------------------------------
(***************************************************************************)
(* Properties.                                                             *)
(***************************************************************************)
\* No turn another process saved, and none of its assets, is lost, whatever
\* the move, its failures and its recovery rename: nothing is renamed over
\* something (Rename), nothing is written that was not read under the lease.
\* Nor is anything there twice: the move's note stands once in the conversation,
\* however often the move is begun again; a second needs a turn in between
\* (AddNote).
NothingLost ==
    /\ \A t \in saved : \E p \in Place, i \in File : t \in session[p][i].turns
    /\ \A t \in saved : \E p \in Place, i \in File : t \in assets[p][i]
    /\ \A p \in Place :
          session[p][1].notes <= 1 + Cardinality(session[p][1].turns)

\* The move as a whole: every session where it goes, naming what is there,
\* its assets beside it (but for those of a session opened as it moved), and
\* the pins after it.
Whole ==
    /\ \A i \in File :
          /\ At("to", i) /\ session["to"][i].rewritten
          /\ i \in intruded \/ session["to"][i].turns \subseteq assets["to"][i]
    /\ session["to"][1].notes > 0
    /\ "pins" \in follow

\* Without a journal there is no half of a move: nothing of the family is
\* where it goes, or all of it is and everything agrees with that (the
\* journal is durable before the first rename and removed after the last
\* step, and every failure between leaves it).
NoHalfMove == journal \/ Whole \/ \A i \in File : ~Occupied(i)

\* A move no fault and no other process disturbed is left unfinished in one
\* place only: between renaming a session's lock file and the session file.
\* There the next host's HoldMove makes the lock file anew, and the old one
\* stands where it goes.
StopsOnlyAtALock ==
    host = "idle" /\ journal /\ faults = 0 /\ opens = 0 =>
        \E i \in File : At("from", i) /\ lock["to"][i] # Absent

\* The host never changes or takes away a session that another process has
\* open, but for one it opened as it moved (the leases of HoldMove, and
\* Edit's for what has moved).
LeavesOpenSessions ==
    [][\A p \in Place, i \in File \ intruded :
          Held(p, i, "other") /\ Held(p, i, "other")' /\ other' = other =>
              session'[p][i] = session[p][i]]_vars

\* What include/app/session_move.h:4 says of a move: "written down first (the
\* journal), so one that stopped is finished, never left half done".  Here
\* of a host that has started and a family nothing else disturbed.
StoppedMoveIsFinished ==
    host = "idle" /\ faults = 0 /\ opens = 0 => ~journal
=============================================================================
