-------------------------- MODULE FileLeaseProofs --------------------------
(***************************************************************************)
(* That the lease of FileLease is mutual exclusion for any number of       *)
(* runtimes, sweeps and inodes.  The argument: an flock is held by the     *)
(* process whose descriptor has that inode open (LockInv); an owner has    *)
(* locked the very inode the path names, because only an owner unnames it  *)
(* (NameInv); so two owners would hold one lock.  What the socket and the  *)
(* lock file's content say follows (SockInv, ContentInv).                  *)
(***************************************************************************)
EXTENDS FileLease, TLAPS

\* Steps only a runtime takes.
RuntimeSteps == {"truncate", "publish", "unlinkStale", "bind", "listen",
                 "serving", "clear"}
\* Between pwrite and ftruncate: the process may be named in its file.
PublishedSteps == {"unlinkStale", "bind", "listen", "serving",
                   "removeSocket", "removeLease", "clear"}

LockInv ==
    /\ \A p \in Proc : pc[p] \in LockedSteps \cup {"flock"} => fd[p] \in Inode
    /\ \A p \in Proc : pc[p] \in LockedSteps => lock[fd[p]] = p
    /\ \A i \in Inode : lock[i] # Nobody => fd[lock[i]] = i
    /\ \A p \in Proc : pc[p] \in RuntimeSteps => p \in Runtime
NameInv == \A p \in Proc : Holds(p) => fd[p] = named
SockInv == \A p \in Runtime : pc[p] \in {"listen", "serving"} => sock = p
ContentInv ==
    \A i \in Inode : content[i] # Nobody =>
        LET p == content[i] IN
        /\ pc[p] # "off"
        /\ Alive(p) => pc[p] \in PublishedSteps /\ fd[p] = i

IInv == TypeOK /\ LockInv /\ NameInv /\ SockInv /\ ContentInv
-----------------------------------------------------------------------------
\* Before any process starts there is nothing to own.
LEMMA IInvInit == Init => IInv
<1> SUFFICES ASSUME Init PROVE IInv
  OBVIOUS
<1>1. TypeOK
  BY DEF Init, TypeOK, Steps, Proc
<1>2. LockInv /\ NameInv /\ SockInv
  BY DEF Init, LockInv, NameInv, SockInv, Holds, LockedSteps, OwnerSteps,
         RuntimeSteps, Proc
<1>3. ContentInv
  BY DEF Init, ContentInv
<1> QED BY <1>1, <1>2, <1>3 DEF IInv

\* Two owners have locked the same inode, so they are one.
LEMMA OwnersAgree == IInv => OneHolder
<1> SUFFICES ASSUME IInv, NEW p \in Proc, NEW q \in Proc, Holds(p), Holds(q)
             PROVE  p = q
  BY DEF OneHolder
<1>1. fd[p] = named /\ fd[q] = named
  BY DEF IInv, NameInv
<1>2. lock[fd[p]] = p /\ lock[fd[q]] = q
  BY DEF IInv, LockInv, Holds, LockedSteps
<1> QED BY <1>1, <1>2

\* Types: only runtimes publish and listen, and a process locks what it has
\* open.
LEMMA TypeStep ==
    ASSUME TypeOK, LockInv, [Next]_vars
    PROVE  TypeOK'
<1> USE ProcAssumption, InodeAssumption DEF Goto, TypeOK, LockInv,
        LockedSteps, OwnerSteps, RuntimeSteps, Steps, Proc
<1>0. CASE UNCHANGED vars
  BY <1>0 DEF vars
<1>1. ASSUME NEW p \in Proc, Open(p) PROVE TypeOK'
  BY <1>1 DEF Open, Unlocked, Unused
<1>2. ASSUME NEW p \in Proc, Flock(p) PROVE TypeOK'
  BY <1>2 DEF Flock, CloseFd, GiveUp, Unlocked
<1>3. ASSUME NEW p \in Proc,
            OpenFails(p) \/ Close(p) \/ Die(p)
     PROVE  TypeOK'
  BY <1>3 DEF OpenFails, Close, Die, CloseFd, GiveUp, Unlocked, Leave
<1>4. ASSUME NEW p \in Proc,
            Truncate(p) \/ Publish(p) \/ Clear(p)
     PROVE  TypeOK'
  BY <1>4 DEF Truncate, Publish, Clear
<1>5. ASSUME NEW p \in Proc,
            UnlinkStale(p) \/ Bind(p) \/ RemoveSocket(p)
     PROVE  TypeOK'
  BY <1>5 DEF UnlinkStale, Bind, RemoveSocket
<1>6. ASSUME NEW p \in Proc, RemoveLease(p) PROVE TypeOK'
  BY <1>6 DEF RemoveLease
<1>7. ASSUME NEW p \in Proc,
            Compare(p) \/ StartRuntime(p) \/ Listen(p) \/
            ListenFails(p) \/ Stop(p) \/ Scan(p) \/ Stat(p) \/
            Read(p)
     PROVE  TypeOK'
  BY <1>7 DEF Compare, StartRuntime, Listen, ListenFails, Stop, Scan, Stat,
     Read
<1> QED BY <1>0, <1>1, <1>2, <1>3, <1>4, <1>5, <1>6, <1>7 DEF Next, Work

\* Locks follow descriptors: a lock is taken on the inode the process has
\* open, and closing a descriptor, on purpose or by dying, drops it.
LEMMA LockStep ==
    ASSUME TypeOK, LockInv, [Next]_vars
    PROVE  LockInv'
<1> USE ProcAssumption, InodeAssumption DEF Goto, TypeOK, LockInv,
        LockedSteps, OwnerSteps, RuntimeSteps, Proc
<1>0. CASE UNCHANGED vars
  BY <1>0 DEF vars
<1>1. ASSUME NEW p \in Proc, Open(p) PROVE LockInv'
  BY <1>1 DEF Open, Unlocked, Unused
<1>2. ASSUME NEW p \in Proc, Flock(p) PROVE LockInv'
  BY <1>2 DEF Flock, CloseFd, GiveUp, Unlocked
<1>3. ASSUME NEW p \in Proc,
            OpenFails(p) \/ Close(p) \/ Die(p)
     PROVE  LockInv'
  BY <1>3 DEF OpenFails, Close, Die, CloseFd, GiveUp, Unlocked, Leave
<1>4. ASSUME NEW p \in Proc,
            Truncate(p) \/ Publish(p) \/ Clear(p)
     PROVE  LockInv'
  BY <1>4 DEF Truncate, Publish, Clear
<1>5. ASSUME NEW p \in Proc,
            UnlinkStale(p) \/ Bind(p) \/ RemoveSocket(p) \/
            RemoveLease(p)
     PROVE  LockInv'
  BY <1>5 DEF UnlinkStale, Bind, RemoveSocket, RemoveLease
<1>6. ASSUME NEW p \in Proc,
            Compare(p) \/ StartRuntime(p) \/ Listen(p) \/
            ListenFails(p) \/ Stop(p) \/ Scan(p) \/ Stat(p) \/
            Read(p)
     PROVE  LockInv'
  BY <1>6 DEF Compare, StartRuntime, Listen, ListenFails, Stop, Scan, Stat,
     Read
<1> QED BY <1>0, <1>1, <1>2, <1>3, <1>4, <1>5, <1>6 DEF Next, Work

\* An owner's inode keeps its name: a file is created only where there is
\* none, and the name is removed only by the one owner.
LEMMA NameStep ==
    ASSUME TypeOK, LockInv, NameInv, OneHolder, [Next]_vars
    PROVE  NameInv'
<1> USE ProcAssumption, InodeAssumption DEF Goto, TypeOK, NameInv, OneHolder,
        Holds, OwnerSteps, Proc
<1>0. CASE UNCHANGED vars
  BY <1>0 DEF vars
<1>1. ASSUME NEW p \in Proc, Open(p) PROVE NameInv'
  BY <1>1 DEF Open, Unlocked, Unused, LockInv, LockedSteps
<1>2. ASSUME NEW p \in Proc, RemoveLease(p) PROVE NameInv'
  BY <1>2 DEF RemoveLease
<1>3. ASSUME NEW p \in Proc, Compare(p) PROVE NameInv'
  BY <1>3 DEF Compare
<1>4. ASSUME NEW p \in Proc,
            Flock(p) \/ OpenFails(p) \/ Close(p) \/ Die(p)
     PROVE  NameInv'
  BY <1>4 DEF Flock, OpenFails, Close, Die, CloseFd, GiveUp, Unlocked, Leave
<1>5. ASSUME NEW p \in Proc,
            Truncate(p) \/ Publish(p) \/ Clear(p) \/
            UnlinkStale(p) \/ Bind(p) \/ RemoveSocket(p)
     PROVE  NameInv'
  BY <1>5 DEF Truncate, Publish, Clear, UnlinkStale, Bind, RemoveSocket
<1>6. ASSUME NEW p \in Proc,
            StartRuntime(p) \/ Listen(p) \/ ListenFails(p) \/
            Stop(p) \/ Scan(p) \/ Stat(p) \/ Read(p)
     PROVE  NameInv'
  BY <1>6 DEF StartRuntime, Listen, ListenFails, Stop, Scan, Stat, Read
<1> QED BY <1>0, <1>1, <1>2, <1>3, <1>4, <1>5, <1>6 DEF Next, Work

\* The socket of a listening runtime stays: only the one owner removes or
\* binds it.
LEMMA SockStep ==
    ASSUME TypeOK, LockInv, SockInv, OneHolder, [Next]_vars
    PROVE  SockInv'
<1> USE ProcAssumption, InodeAssumption DEF Goto, TypeOK, LockInv, SockInv,
        OneHolder, Holds, OwnerSteps, RuntimeSteps, Proc
<1>0. CASE UNCHANGED vars
  BY <1>0 DEF vars
<1>1. ASSUME NEW p \in Proc,
            UnlinkStale(p) \/ Bind(p) \/ RemoveSocket(p)
     PROVE  SockInv'
  BY <1>1 DEF UnlinkStale, Bind, RemoveSocket
<1>2. ASSUME NEW p \in Proc,
            Open(p) \/ Flock(p) \/ OpenFails(p) \/ Close(p) \/
            Die(p)
     PROVE  SockInv'
  BY <1>2 DEF Open, Flock, OpenFails, Close, Die, Unlocked, Unused, CloseFd,
     GiveUp, Leave
<1>3. ASSUME NEW p \in Proc,
            Truncate(p) \/ Publish(p) \/ Clear(p) \/
            RemoveLease(p)
     PROVE  SockInv'
  BY <1>3 DEF Truncate, Publish, Clear, RemoveLease
<1>4. ASSUME NEW p \in Proc,
            Compare(p) \/ StartRuntime(p) \/ Listen(p) \/
            ListenFails(p) \/ Stop(p) \/ Scan(p) \/ Stat(p) \/
            Read(p)
     PROVE  SockInv'
  BY <1>4 DEF Compare, StartRuntime, Listen, ListenFails, Stop, Scan, Stat,
     Read
<1> QED BY <1>0, <1>1, <1>2, <1>3, <1>4 DEF Next, Work

\* What the lock file says: a living process named in an inode is between
\* publishing and clearing, with that inode open.
LEMMA ContentStep ==
    ASSUME TypeOK, LockInv, ContentInv, [Next]_vars
    PROVE  ContentInv'
<1> USE ProcAssumption, InodeAssumption DEF Goto, TypeOK, LockInv, ContentInv,
        LockedSteps, OwnerSteps, RuntimeSteps, PublishedSteps, Alive, Ended,
        Proc
<1>0. CASE UNCHANGED vars
  BY <1>0 DEF vars
<1>1. ASSUME NEW p \in Proc, Open(p) PROVE ContentInv'
  BY <1>1 DEF Open, Unlocked, Unused
<1>2. ASSUME NEW p \in Proc, Flock(p) PROVE ContentInv'
  BY <1>2 DEF Flock, CloseFd, GiveUp, Unlocked
<1>3. ASSUME NEW p \in Proc,
            OpenFails(p) \/ Close(p) \/ Die(p)
     PROVE  ContentInv'
  BY <1>3 DEF OpenFails, Close, Die, CloseFd, GiveUp, Unlocked, Leave
<1>4. ASSUME NEW p \in Proc,
            Truncate(p) \/ Publish(p) \/ Clear(p)
     PROVE  ContentInv'
  BY <1>4 DEF Truncate, Publish, Clear
<1>5. ASSUME NEW p \in Proc,
            UnlinkStale(p) \/ Bind(p) \/ RemoveSocket(p) \/
            RemoveLease(p)
     PROVE  ContentInv'
  BY <1>5 DEF UnlinkStale, Bind, RemoveSocket, RemoveLease
<1>6. ASSUME NEW p \in Proc,
            Compare(p) \/ StartRuntime(p) \/ Listen(p) \/
            ListenFails(p) \/ Stop(p) \/ Scan(p) \/ Stat(p) \/
            Read(p)
     PROVE  ContentInv'
  BY <1>6 DEF Compare, StartRuntime, Listen, ListenFails, Stop, Scan, Stat,
     Read
<1> QED BY <1>0, <1>1, <1>2, <1>3, <1>4, <1>5, <1>6 DEF Next, Work

\* Every step of every process keeps the invariant.
LEMMA IInvNext == IInv /\ [Next]_vars => IInv'
<1> SUFFICES ASSUME IInv, [Next]_vars PROVE IInv'
  OBVIOUS
<1>1. OneHolder
  BY OwnersAgree
<1>2. TypeOK' /\ LockInv' /\ ContentInv'
  BY TypeStep, LockStep, ContentStep DEF IInv
<1>3. NameInv' /\ SockInv'
  BY <1>1, NameStep, SockStep DEF IInv
<1> QED BY <1>2, <1>3 DEF IInv

\* The inductive invariant holds throughout, for any sets of runtimes, sweeps
\* and inodes.
THEOREM Invariant == Spec => []IInv
<1> QED BY IInvInit, IInvNext, PTL DEF Spec
-----------------------------------------------------------------------------
\* Every variable keeps its type; only runtimes are ever named in the lock file
\* or reached through the socket.
THEOREM TypeCorrect == Spec => []TypeOK
<1>1. IInv => TypeOK
  BY DEF IInv
<1> QED BY <1>1, Invariant, PTL

\* FileLease::Acquire gives the session's files to one process at a time.
THEOREM MutualExclusion == Spec => []OneHolder
<1> QED BY OwnersAgree, Invariant, PTL

\* A serving runtime keeps its socket and its lock file, whatever older
\* runtimes and sweeps do.
THEOREM ServingReachable == Spec => []ServingIsReachable
<1>1. IInv => ServingIsReachable
  BY DEF IInv, LockInv, NameInv, SockInv, ServingIsReachable, Holds,
         LockedSteps, OwnerSteps, Proc
<1> QED BY <1>1, Invariant, PTL

\* LiveOwner never names a living process that does not hold the lock.
THEOREM LiveOwnerCorrect == Spec => []LiveOwnerHoldsTheLock
<1>1. IInv => LiveOwnerHoldsTheLock
  <2> SUFFICES ASSUME IInv, LiveOwner # Nobody PROVE lock[named] = LiveOwner
    BY DEF LiveOwnerHoldsTheLock
  <2>1. /\ named \in Inode /\ content[named] = LiveOwner
        /\ LiveOwner \in Proc /\ Alive(LiveOwner)
    BY DEF LiveOwner, IInv, TypeOK, Proc
  <2>2. pc[LiveOwner] \in LockedSteps /\ fd[LiveOwner] = named
    BY <2>1 DEF IInv, ContentInv, PublishedSteps, LockedSteps, OwnerSteps
  <2> QED BY <2>1, <2>2 DEF IInv, LockInv
<1> QED BY <1>1, Invariant, PTL
-----------------------------------------------------------------------------
\* The mapped owner is the one process that holds the lease, or nobody.
OwnerIsHolder == /\ Owner \in Proc \cup {Nobody}
                 /\ \A p \in Proc : Owner = p <=> Holds(p)

LEMMA OwnerHolds == OneHolder => OwnerIsHolder
<1> SUFFICES ASSUME OneHolder PROVE OwnerIsHolder
  OBVIOUS
<1> USE DEF OwnerIsHolder
<1>1. CASE \E p \in Proc : Holds(p)
  <2>1. Owner \in Proc /\ Holds(Owner)
    BY <1>1 DEF Owner
  <2> QED BY <2>1 DEF OneHolder
<1>2. CASE ~ \E p \in Proc : Holds(p)
  BY <1>2, ProcAssumption DEF Owner
<1> QED BY <1>1, <1>2

\* Nobody owns a session before a runtime starts.
LEMMA OwnershipInit == Init => Ownership!Init
  BY DEF Init, Ownership!Init, Owner, Holds, OwnerSteps

\* Every step claims, uses or gives up the session's files, or changes
\* nothing the promise speaks of.
LEMMA OwnershipNext ==
    IInv /\ IInv' /\ [Next]_vars => [Ownership!Next]_(Ownership!vars)
<1> SUFFICES ASSUME IInv, IInv', [Next]_vars
             PROVE  [Ownership!Next]_(Ownership!vars)
  OBVIOUS
<1>1. OwnerIsHolder
  BY OwnersAgree, OwnerHolds
<1>2. OwnerIsHolder'
  BY OwnersAgree, OwnerHolds, PTL
<1>3. pc \in [Proc -> Steps] /\ pc' \in [Proc -> Steps]
  BY DEF IInv, TypeOK
<1> HIDE DEF Owner
<1> USE ProcAssumption DEF OwnerIsHolder, Goto, Holds, OwnerSteps
<1>4. CASE UNCHANGED vars
  BY <1>1, <1>2, <1>4 DEF vars, Ownership!vars
<1>5. ASSUME NEW p \in Proc, Compare(p)
      PROVE  Ownership!Claim(p) \/ UNCHANGED Ownership!vars
  BY <1>1, <1>2, <1>3, <1>5 DEF Compare, Ownership!Claim, Ownership!vars
<1>6. ASSUME NEW p \in Proc, UnlinkStale(p) \/ Bind(p) \/ RemoveSocket(p)
      PROVE  Ownership!Touch(p)
  BY <1>1, <1>2, <1>3, <1>6 DEF UnlinkStale, Bind, RemoveSocket, Ownership!Touch
<1>7. ASSUME NEW p \in Proc, RemoveLease(p) \/ ListenFails(p)
      PROVE  Ownership!Leave(p)
  BY <1>1, <1>2, <1>3, <1>7 DEF RemoveLease, ListenFails, Ownership!Leave
<1>8. ASSUME NEW p \in Proc, Die(p)
      PROVE  Ownership!Leave(p) \/ UNCHANGED Ownership!vars
  BY <1>1, <1>2, <1>3, <1>8 DEF Die, CloseFd, Ownership!Leave, Ownership!vars
<1>9. ASSUME NEW p \in Proc,
             Open(p) \/ OpenFails(p) \/ Flock(p) \/ Close(p)
      PROVE  UNCHANGED Ownership!vars
  BY <1>1, <1>2, <1>3, <1>9
  DEF Open, OpenFails, Flock, Close, CloseFd, GiveUp, Leave, Ownership!vars
<1>10. ASSUME NEW p \in Proc,
              Truncate(p) \/ Publish(p) \/ StartRuntime(p) \/ Listen(p)
                  \/ Stop(p) \/ Clear(p) \/ Scan(p) \/ Stat(p) \/ Read(p)
       PROVE  UNCHANGED Ownership!vars
  BY <1>1, <1>2, <1>3, <1>10
  DEF Truncate, Publish, StartRuntime, Listen, Stop, Clear, Scan, Stat, Read,
      Ownership!vars
<1> QED
  BY <1>4, <1>5, <1>6, <1>7, <1>8, <1>9, <1>10
  DEF Next, Work, Ownership!Next

\* FileLease implements RuntimeOwnership: whatever opens, locks, removals and
\* crashes interleave, the session has one owner at a time and only the owner
\* touches its socket.
THEOREM Refinement == Spec => OwnershipSpec
<1> QED
  BY OwnershipInit, OwnershipNext, Invariant, PTL
  DEF Spec, OwnershipSpec, Ownership!Spec
=============================================================================
