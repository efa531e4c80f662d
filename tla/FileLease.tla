----------------------------- MODULE FileLease -----------------------------
(***************************************************************************)
(* The ownership of one session's runtime files: a lock file and a socket  *)
(* in the runtime directory.  A runtime takes the lock file's lease before *)
(* it listens and removes both files when it ends (session::Server); a     *)
(* sweep removes what a killed runtime left (MaintainArtifacts, core/fs.cc *)
(* ).  Both go through FileLease::Acquire (include/core/lease.h): open or  *)
(* create, flock, and compare the locked inode with the one the path names *)
(* now.  Every system call is one step, and a process may die between any  *)
(* two.                                                                    *)
(*                                                                         *)
(* Inodes are explicit, because the file is removed and made anew: a lock  *)
(* may be held on a file that no longer has a name.                        *)
(***************************************************************************)
EXTENDS Naturals

CONSTANTS Runtime,   \* runtimes of the session, one process life each
          Sweeper,   \* processes that sweep the runtime directory
          Inode,     \* inodes the lock file may have
          NoFile,    \* no inode
          Nobody     \* no process

Proc == Runtime \cup Sweeper

ASSUME ProcAssumption == Runtime \cap Sweeper = {} /\ Nobody \notin Proc
ASSUME InodeAssumption == NoFile \notin Inode

VARIABLES
    named,     \* the inode the lock file's path names, or NoFile
    content,   \* inode -> the owner published in it, or Nobody
    lock,      \* inode -> the process whose descriptor holds the flock
    fd,        \* process -> the inode its lease descriptor has open
    sock,      \* the runtime whose listener the socket path names, or Nobody
    pc         \* process -> where it is

vars == <<named, content, lock, fd, sock, pc>>

Steps == {"off", "open", "flock", "compare",
          "truncate", "publish", "unlinkStale", "bind", "listen", "serving",
          "removeSocket", "removeLease", "clear", "close", "gone", "refused",
          "stat", "read"}

\* Past the comparison and not yet on its way out: the process acts as the
\* owner of the session's files.
OwnerSteps == {"truncate", "publish", "unlinkStale", "bind", "listen",
               "serving", "removeSocket", "removeLease"}
\* From flock to close.
LockedSteps == OwnerSteps \cup {"compare", "clear", "close"}

Ended == {"gone", "refused"}
Alive(p) == pc[p] \notin Ended \cup {"off"}
Holds(p) == pc[p] \in OwnerSteps

TypeOK ==
    /\ named \in Inode \cup {NoFile}
    /\ content \in [Inode -> Runtime \cup {Nobody}]
    /\ lock \in [Inode -> Proc \cup {Nobody}]
    /\ fd \in [Proc -> Inode \cup {NoFile}]
    /\ sock \in Runtime \cup {Nobody}
    /\ pc \in [Proc -> Steps]

Init ==
    /\ named = NoFile
    /\ content = [i \in Inode |-> Nobody]
    /\ lock = [i \in Inode |-> Nobody]
    /\ fd = [p \in Proc |-> NoFile]
    /\ sock = Nobody
    /\ pc = [p \in Proc |-> "off"]
-----------------------------------------------------------------------------
Goto(p, step) == pc' = [pc EXCEPT ![p] = step]
\* The kernel drops a process's flock when its descriptor closes.
Unlocked(p) == [i \in Inode |-> IF lock[i] = p THEN Nobody ELSE lock[i]]
\* What a process does once its lease is gone: a runtime has no other work,
\* a sweep looks at the directory again another day.
Leave(p) == Goto(p, IF p \in Runtime THEN "gone" ELSE "off")
\* A runtime that did not get the lease exits with kWorkerOwned.
GiveUp(p) == Goto(p, IF p \in Runtime THEN "refused" ELSE "off")
\* Closing the descriptor, on purpose or by dying.
CloseFd(p) == fd' = [fd EXCEPT ![p] = NoFile] /\ lock' = Unlocked(p)

\* An inode is free for a new file once no name and no descriptor reaches it.
Unused(i) == i # named /\ \A p \in Proc : fd[p] # i

(* FileLease::Acquire *)

\* open(O_CREAT).  On the way round the loop the descriptor of the file that
\* lost its name is closed as the new one replaces it.
Open(p) ==
    /\ pc[p] = "open"
    /\ \/ /\ named # NoFile
          /\ fd' = [fd EXCEPT ![p] = named]
          /\ UNCHANGED <<named, content>>
       \/ /\ named = NoFile
          /\ \E i \in Inode :
                /\ Unused(i)
                /\ named' = i
                /\ fd' = [fd EXCEPT ![p] = i]
                /\ content' = [content EXCEPT ![i] = Nobody]
    /\ lock' = Unlocked(p)
    /\ Goto(p, "flock")
    /\ UNCHANGED sock

\* The file cannot be opened, or is not private to this user.
OpenFails(p) ==
    /\ pc[p] = "open"
    /\ CloseFd(p)
    /\ GiveUp(p)
    /\ UNCHANGED <<named, content, sock>>

\* The variant that asks for a shared lock.
FlockShared(p) ==
    /\ pc[p] = "flock"
    /\ lock' = [lock EXCEPT ![fd[p]] = p]
    /\ Goto(p, "compare")
    /\ UNCHANGED <<named, content, fd, sock>>

\* flock(LOCK_EX | LOCK_NB): taken, or refused because another holds it.
Flock(p) ==
    /\ pc[p] = "flock"
    /\ \/ /\ lock[fd[p]] = Nobody
          /\ lock' = [lock EXCEPT ![fd[p]] = p]
          /\ Goto(p, "compare")
          /\ UNCHANGED fd
       \/ /\ lock[fd[p]] # Nobody
          /\ CloseFd(p)
          /\ GiveUp(p)
    /\ UNCHANGED <<named, content, sock>>

\* The variant that publishes whoever takes the lease, sweeps included.
ComparePublishing(p) ==
    /\ pc[p] = "compare"
    /\ Goto(p, IF fd[p] # named THEN "open" ELSE "truncate")
    /\ UNCHANGED <<named, content, lock, fd, sock>>

\* The variant without the lstat comparison.
CompareNothing(p) ==
    /\ pc[p] = "compare"
    /\ Goto(p, IF p \in Runtime THEN "truncate" ELSE "removeSocket")
    /\ UNCHANGED <<named, content, lock, fd, sock>>

\* A removed file's lock guards nothing: only the file the path names counts.
Compare(p) ==
    /\ pc[p] = "compare"
    /\ Goto(p, IF fd[p] # named THEN "open"
               ELSE IF p \in Runtime THEN "truncate" ELSE "removeSocket")
    /\ UNCHANGED <<named, content, lock, fd, sock>>

\* A runtime publishes its identity: ftruncate, then pwrite, which may fail.
Truncate(p) ==
    /\ pc[p] = "truncate"
    /\ content' = [content EXCEPT ![fd[p]] = Nobody]
    /\ Goto(p, "publish")
    /\ UNCHANGED <<named, lock, fd, sock>>

Publish(p) ==
    /\ pc[p] = "publish"
    /\ \E owner \in {p, Nobody} : content' = [content EXCEPT ![fd[p]] = owner]
    /\ Goto(p, "unlinkStale")
    /\ UNCHANGED <<named, lock, fd, sock>>

(* session::Server *)

StartRuntime(p) ==
    /\ p \in Runtime /\ pc[p] = "off"
    /\ Goto(p, "open")
    /\ UNCHANGED <<named, content, lock, fd, sock>>

\* ListenUnix removes whatever socket is there, then binds its own.
UnlinkStale(p) ==
    /\ pc[p] = "unlinkStale"
    /\ sock' = Nobody
    /\ Goto(p, "bind")
    /\ UNCHANGED <<named, content, lock, fd>>

Bind(p) ==
    /\ pc[p] = "bind" /\ sock = Nobody
    /\ sock' = p
    /\ Goto(p, "listen")
    /\ UNCHANGED <<named, content, lock, fd>>

\* chmod and listen.
Listen(p) ==
    /\ pc[p] = "listen"
    /\ Goto(p, "serving")
    /\ UNCHANGED <<named, content, lock, fd, sock>>

\* The wake pipe, the socket, bind, chmod or listen fails.  Without a listener
\* the destructor removes nothing, not even a socket that was already bound.
ListenFails(p) ==
    /\ pc[p] \in {"unlinkStale", "bind", "listen"}
    /\ Goto(p, "clear")
    /\ UNCHANGED <<named, content, lock, fd, sock>>

Stop(p) ==
    /\ pc[p] = "serving"
    /\ Goto(p, "removeSocket")
    /\ UNCHANGED <<named, content, lock, fd, sock>>

\* The socket goes first and the lock file last, both while the lease is held;
\* a sweep does the same.
RemoveSocket(p) ==
    /\ pc[p] = "removeSocket"
    /\ sock' = Nobody
    /\ Goto(p, "removeLease")
    /\ UNCHANGED <<named, content, lock, fd>>

RemoveLease(p) ==
    /\ pc[p] = "removeLease"
    /\ named' = NoFile
    /\ Goto(p, IF p \in Runtime THEN "clear" ELSE "close")
    /\ UNCHANGED <<content, lock, fd, sock>>

\* The variant that closes first and leaves its name in the file.
ClearTooLate(p) ==
    /\ pc[p] = "clear"
    /\ CloseFd(p)
    /\ Goto(p, "close")
    /\ UNCHANGED <<named, content, sock>>

\* FileLease::Reset: an owner that published clears its name, then closes.
Clear(p) ==
    /\ pc[p] = "clear"
    /\ content' = [content EXCEPT ![fd[p]] = Nobody]
    /\ Goto(p, "close")
    /\ UNCHANGED <<named, lock, fd, sock>>

Close(p) ==
    /\ pc[p] = "close"
    /\ CloseFd(p)
    /\ Leave(p)
    /\ UNCHANGED <<named, content, sock>>

(* the sweep of the runtime directory *)

\* The directory scan saw the lock file.
Scan(s) ==
    /\ s \in Sweeper /\ pc[s] = "off" /\ named # NoFile
    /\ Goto(s, "stat")
    /\ UNCHANGED <<named, content, lock, fd, sock>>

\* The variant that counts a file naming nobody as gone.
StatTrustsEmpty(s) ==
    /\ pc[s] = "stat"
    /\ Goto(s, IF named = NoFile THEN "open" ELSE "read")
    /\ UNCHANGED <<named, content, lock, fd, sock>>

\* OwnerGone, its lstat: missing is gone, a file that names nobody is not.
Stat(s) ==
    /\ pc[s] = "stat"
    /\ Goto(s, IF named = NoFile THEN "open"
               ELSE IF content[named] = Nobody THEN "off" ELSE "read")
    /\ UNCHANGED <<named, content, lock, fd, sock>>

\* LiveOwner: the named process still runs, or nobody can be confirmed.
LiveOwner ==
    IF named = NoFile \/ content[named] = Nobody THEN Nobody
    ELSE IF Alive(content[named]) THEN content[named] ELSE Nobody

\* The variant that removes without taking the lease.
ReadThenRemove(s) ==
    /\ pc[s] = "read"
    /\ Goto(s, IF LiveOwner = Nobody THEN "removeSocket" ELSE "off")
    /\ UNCHANGED <<named, content, lock, fd, sock>>

Read(s) ==
    /\ pc[s] = "read"
    /\ Goto(s, IF LiveOwner = Nobody THEN "open" ELSE "off")
    /\ UNCHANGED <<named, content, lock, fd, sock>>

\* A kill: the descriptors close, the files stay as they are.
Die(p) ==
    /\ Alive(p)
    /\ CloseFd(p)
    /\ Goto(p, "gone")
    /\ UNCHANGED <<named, content, sock>>
-----------------------------------------------------------------------------
\* The steps a living process takes of its own accord, one after another.
Work(p) ==
    \/ Open(p) \/ Flock(p) \/ Compare(p)
    \/ Truncate(p) \/ Publish(p) \/ UnlinkStale(p) \/ Bind(p) \/ Listen(p)
    \/ RemoveSocket(p) \/ RemoveLease(p) \/ Clear(p) \/ Close(p)
    \/ Stat(p) \/ Read(p)

Next == \E p \in Proc :
    \/ Work(p)
    \/ StartRuntime(p) \/ Stop(p) \/ Scan(p)
    \/ OpenFails(p) \/ ListenFails(p) \/ Die(p)

Spec == Init /\ [][Next]_vars

\* A process that runs keeps running; nothing makes a runtime start or stop,
\* a sweep begin, a call fail or a process die.
FairSpec == Spec /\ \A p \in Proc : WF_vars(Work(p))
-----------------------------------------------------------------------------
\* FileLease::Acquire is mutual exclusion over the path: two processes never
\* act as its owner, whatever was removed and made anew in between.
OneHolder == \A p, q \in Proc : Holds(p) /\ Holds(q) => p = q

\* A runtime that serves is the one clients reach: the socket path names its
\* listener, and the lock file names the inode it has locked, so no exit of
\* an older runtime and no sweep takes either away from under it.
ServingIsReachable ==
    \A p \in Runtime : pc[p] = "serving" =>
        /\ sock = p
        /\ named = fd[p]
        /\ lock[named] = p

\* HasLiveOwner is advisory but never wrong about who: a living process named
\* in the lock file is the one that holds it.
LiveOwnerHoldsTheLock == LiveOwner # Nobody => lock[named] = LiveOwner

\* The loop of Acquire ends although sweeps and exits keep removing the file:
\* a runtime that starts comes to serve, is refused or dies.
StartSettles ==
    \A p \in Runtime : pc[p] = "open" ~> pc[p] \in Ended \cup {"serving"}

\* The lease implements the promise of RuntimeOwnership.
Owner == IF \E p \in Proc : Holds(p) THEN CHOOSE p \in Proc : Holds(p)
         ELSE Nobody
Ownership == INSTANCE RuntimeOwnership WITH owner <- Owner, socket <- sock
OwnershipSpec == Ownership!Spec
=============================================================================
