-------------------------- MODULE KMutexRefinement --------------------------
(***************************************************************************)
(* For disciplined programs the calls of kthread_mutex_lock and             *)
(* kthread_mutex_unlock implement the abstract lock of module Mutex, for    *)
(* any number of threads and mutexes.                                       *)
(***************************************************************************)
EXTENDS KMutexExclusion

owner == [id \in Id |-> Owner(id)]

(* The owner of a mutex is the thread that holds it.                       *)
LEMMA OwnerOf ==
    ASSUME MutualExclusion
    PROVE  \A id \in Id : /\ \A t \in Thread : id \in held[t] => Owner(id) = t
                          /\ (\A t \in Thread : id \notin held[t]) => Owner(id) = None
<1>1. ASSUME NEW id \in Id, NEW t \in Thread, id \in held[t]
      PROVE  Owner(id) = t
  <2>1. Owner(id) \in Thread /\ id \in held[Owner(id)]
    BY <1>1 DEF Owner
  <2> QED BY <1>1, <2>1 DEF MutualExclusion
<1>2. ASSUME NEW id \in Id, \A t \in Thread : id \notin held[t]
      PROVE  Owner(id) = None
  BY <1>2 DEF Owner
<1> QED BY <1>1, <1>2

(* The same of the next state.                                             *)
LEMMA OwnerOfNext ==
    ASSUME MutualExclusion'
    PROVE  \A id \in Id : /\ \A t \in Thread : id \in held'[t] => Owner(id)' = t
                          /\ (\A t \in Thread : id \notin held'[t]) => Owner(id)' = None
<1>1. ASSUME NEW id \in Id, NEW t \in Thread, id \in held'[t]
      PROVE  Owner(id)' = t
  <2>1. Owner(id)' \in Thread /\ id \in held'[Owner(id)']
    BY <1>1 DEF Owner
  <2> QED BY <1>1, <2>1 DEF MutualExclusion
<1>2. ASSUME NEW id \in Id, \A t \in Thread : id \notin held'[t]
      PROVE  Owner(id)' = None
  BY <1>2 DEF Owner
<1> QED BY <1>1, <1>2

(***************************************************************************)
(* A call that returns 0 with the mutex locked takes an id that nobody      *)
(* holds; unlock gives up an id that the caller holds; no other step        *)
(* changes who holds what.                                                  *)
(***************************************************************************)
Gains(t, id) ==
    /\ \A x \in Thread : id \notin held[x]
    /\ held' = [held EXCEPT ![t] = @ \cup {id}]

Loses(t, id) ==
    /\ id \in held[t]
    /\ held' = [held EXCEPT ![t] = @ \ {id}]

(* A mutex that is not locked is held by nobody.                           *)
LEMMA FreeIsUnheld ==
    ASSUME Inv2, NEW s \in Slot, mid[s] # 0, mstate[s] = "MUNLOCKED", NEW x \in Thread
    PROVE  mid[s] \notin held[x]
<1> SUFFICES ASSUME mid[s] \in held[x] PROVE FALSE
  OBVIOUS
<1>1. PICK r \in Slot : mid[r] = mid[s] /\ mstate[r] = "MLOCKED"
  BY DEF Inv2, OwnerHolds
<1>2. r = s
  BY <1>1 DEF Inv2, Inv1, LockedNamesOwner
<1> QED BY <1>1, <1>2

(* What one thread's step does to the mutexes that are held.               *)
LEMMA HeldStep ==
    ASSUME Disciplined, Inv2, [Next]_vars
    PROVE  \/ held' = held
           \/ \E t \in Thread, id \in Id : Gains(t, id) \/ Loses(t, id)
<1>1. ASSUME NEW t \in Thread, NEW s \in Slot, NEW id \in Id, kthread_mutex_lock(t, s, id)
      PROVE  Gains(t, id)
  <2>1. mid[s] = id /\ id # 0 /\ mstate[s] = "MUNLOCKED"
    BY <1>1, Basics DEF kthread_mutex_lock, Finds
  <2>2. held' = [held EXCEPT ![t] = @ \cup {id}]
    BY <1>1 DEF kthread_mutex_lock, Take
  <2> QED BY <2>1, <2>2, FreeIsUnheld DEF Gains
<1>2. ASSUME NEW t \in Thread, NEW s \in Slot, NEW id \in Id, kthread_mutex_unlock(t, s, id)
      PROVE  Loses(t, id)
  <2>1. mid[s] = id /\ mstate[s] = "MLOCKED" /\ mythread[s] # None
        /\ tid[mythread[s]] = tid[t] /\ pc[t] = "user"
    BY <1>2 DEF kthread_mutex_unlock, Finds, Owns, Does
  <2>2. mythread[s] \in Thread /\ id \in held[mythread[s]]
    BY <2>1 DEF Inv2, Inv1, TypeOK, OwnerHolds
  <2>3. mythread[s] = t
    BY <2>1, <2>2 DEF Inv2, HoldersAlive, TidsUnique
  <2>4. held' = [held EXCEPT ![t] = @ \ {id}]
    BY <1>2 DEF kthread_mutex_unlock
  <2> QED BY <2>2, <2>3, <2>4 DEF Loses
<1>3. ASSUME NEW t \in Thread, relock(t)
      PROVE  \E id \in Id : Gains(t, id)
  <2>1. /\ m[t] \in Slot /\ mid[m[t]] = arg[t] /\ arg[t] # 0 /\ arg[t] \in Id
        /\ mstate[m[t]] = "MUNLOCKED"
    BY <1>3 DEF relock, Inv2, Inv1, TypeOK, WaitersSlot, WaitsForAnId, Waiting
  <2>2. held' = [held EXCEPT ![t] = @ \cup {arg[t]}]
    BY <1>3 DEF relock, Take
  <2>3. Gains(t, arg[t])
    BY <2>1, <2>2, FreeIsUnheld DEF Gains
  <2> QED BY <2>1, <2>3
<1>4. ASSUME NEW t \in Thread, LockSteps(t)
      PROVE  held' = held \/ \E id \in Id : Gains(t, id) \/ Loses(t, id)
  <2>1. ASSUME NEW s \in Slot, NEW id \in Id,
               \/ kthread_mutex_alloc(t, s) \/ kthread_mutex_dealloc(t, s, id)
               \/ kthread_mutex_lock_busy(t, s, id)
        PROVE  held' = held
    BY <2>1 DEF kthread_mutex_alloc, kthread_mutex_dealloc, kthread_mutex_lock_busy
  <2>2. ASSUME sleep(t) \/ resume(t) \/ relock_busy(t) \/ wakeup(t)
        PROVE  held' = held
    BY <2>2 DEF sleep, resume, relock_busy, wakeup
  <2>3. ASSUME NEW s \in Slot, kthread_mutex_alloc(t, s)
        PROVE  held' = held
    BY <2>3 DEF kthread_mutex_alloc
  <2> QED BY <1>1, <1>2, <1>3, <1>4, <2>1, <2>2, <2>3 DEF LockSteps
<1>5. ASSUME NEW t \in Thread, ThreadSteps(t)
      PROVE  held' = held
  <2>1. PICK u \in Thread : kthread_create(t, u)
    BY <1>5, OnlyCreates
  <2> QED BY <2>1 DEF kthread_create
<1>6. CASE UNCHANGED vars
  BY <1>6 DEF vars
<1> QED BY <1>4, <1>5, <1>6 DEF Next

(* A step maps to a step of the abstract lock, or changes nothing of it.   *)
LEMMA StepRefines ==
    ASSUME Disciplined, Inv2, MutualExclusion, MutualExclusion', [Next]_vars
    PROVE  [Abs!Next]_owner
<1> USE Basics
<1>t. held \in [Thread -> SUBSET Id]
  BY DEF Inv2, Inv1, TypeOK
<1>1. CASE held' = held
  BY <1>1 DEF owner, Owner
<1>2. ASSUME NEW t \in Thread, NEW id \in Id, Gains(t, id)
      PROVE  Abs!Acquire(t, id)
  <2>1. owner[id] = None
    BY <1>2, OwnerOf DEF Gains, owner
  <2>2. ASSUME NEW i \in Id
        PROVE  Owner(i)' = IF i = id THEN t ELSE Owner(i)
    <3>1. \A x \in Thread : i \in held'[x] <=> (i \in held[x] \/ (x = t /\ i = id))
      BY <1>t, <1>2 DEF Gains
    <3>2. CASE i = id
      BY <3>1, <3>2, OwnerOfNext
    <3>3. CASE i # id
      BY <3>1, <3>3, OwnerOf, OwnerOfNext
    <3> QED BY <3>2, <3>3
  <2>3. owner' = [owner EXCEPT ![id] = t]
    BY <2>2, Zenon DEF owner
  <2> QED BY <2>1, <2>3 DEF Abs!Acquire, owner
<1>3. ASSUME NEW t \in Thread, NEW id \in Id, Loses(t, id)
      PROVE  Abs!Release(t, id)
  <2>1. owner[id] = t
    BY <1>3, OwnerOf DEF Loses, owner
  <2>2. ASSUME NEW i \in Id
        PROVE  Owner(i)' = IF i = id THEN None ELSE Owner(i)
    <3>1. \A x \in Thread : i \in held'[x] <=> (i \in held[x] /\ ~(x = t /\ i = id))
      BY <1>t, <1>3 DEF Loses
    <3>2. CASE i = id
      <4>1. \A x \in Thread : i \notin held'[x]
        BY <1>3, <3>1, <3>2 DEF MutualExclusion, Loses
      <4> QED BY <3>2, <4>1, OwnerOfNext
    <3>3. CASE i # id
      BY <3>1, <3>3, OwnerOf, OwnerOfNext
    <3> QED BY <3>2, <3>3
  <2>3. owner' = [owner EXCEPT ![id] = None]
    BY <2>2, Zenon DEF owner
  <2> QED BY <2>1, <2>3 DEF Abs!Release, owner
<1> QED BY <1>1, <1>2, <1>3, HeldStep DEF Abs!Next

(***************************************************************************)
(* kthread_mutex_lock and kthread_mutex_unlock are a lock: an id is taken   *)
(* only while nobody owns it, and only its owner gives it up.               *)
(***************************************************************************)
THEOREM Refinement ==
    ASSUME Disciplined
    PROVE  Spec => ImplementsMutex
<1>1. Init => Abs!Init
  BY Basics DEF Init, Abs!Init, Owner
<1>2. Inv2 /\ MutualExclusion /\ MutualExclusion' /\ [Next]_vars => [Abs!Next]_owner
  BY StepRefines
<1> QED BY <1>1, <1>2, Invariant2, Exclusion, PTL DEF Spec, ImplementsMutex, Abs!Spec, owner
=============================================================================
