--------------------------- MODULE KMutexLocking ---------------------------
(***************************************************************************)
(* The invariant of KMutex for disciplined programs, which end no thread    *)
(* and free no mutex that a thread waits for, and its preservation by the   *)
(* calls that alloc, free, lock and unlock mutexes.  KMutexExclusion has    *)
(* the steps of waiting threads and the theorems.                           *)
(***************************************************************************)
EXTENDS KMutexProofs

Disciplined == Calls \subseteq {"alloc", "lock", "unlock", "dealloc", "kthread_create"}

(***************************************************************************)
(* No thread is ended, so ptable.lock is held inside single steps only.     *)
(***************************************************************************)
NobodyEnds ==
    /\ lock = None
    /\ \A t \in Thread : /\ ~tkilled[t]
                         /\ pc[t] \notin {"remove", "dealloc", "killothers"}

TidsUnique ==
    /\ \A t \in Thread : tid[t] < nexttid
    /\ \A t, u \in Thread :
         (pc[t] # "none" /\ pc[u] # "none" /\ tid[t] = tid[u]) => t = u

HoldersAlive == \A t \in Thread : held[t] # {} => pc[t] # "none"

LockedAllocated == \A s \in Slot : mstate[s] = "MLOCKED" => mid[s] # 0

(***************************************************************************)
(* The slot a thread waits for still has the id it was asked to lock; a     *)
(* thread that is about to sleep holds mlock, so the mutex is still locked. *)
(***************************************************************************)
WaitersSlot ==
    \A t \in Thread :
       /\ pc[t] \in Waiting => mid[m[t]] = arg[t]
       /\ pc[t] = "sleep" <=> mlock = t
       /\ pc[t] = "sleep" => mstate[m[t]] = "MLOCKED"
       /\ pc[t] = "asleep" => chan[t] = m[t]

Inv2 == /\ Inv1 /\ NobodyEnds /\ TidsUnique /\ HoldersAlive
        /\ OwnerHolds /\ LockedAllocated /\ WaitersSlot /\ NoLostWakeup
(* kthread_mutex_alloc keeps the invariant.                                *)
LEMMA Excl_kthread_mutex_alloc ==
    ASSUME NEW t \in Thread, NEW s \in Slot, Inv2, Inv1', kthread_mutex_alloc(t, s)
    PROVE  Inv2'
<1> USE Basics DEF Inv1, Inv2
<1>0. mid[s] = 0
  BY DEF kthread_mutex_alloc, Finds
<1> USE DEF kthread_mutex_alloc, Does, Stamp,
      mtableVars, threadVars, ctxVars, lockVars
<1>1. NobodyEnds' /\ TidsUnique' /\ HoldersAlive'
  BY <1>0 DEF TypeOK, NobodyEnds, TidsUnique, HoldersAlive
<1>4. OwnerHolds' /\ LockedAllocated'
  BY <1>0 DEF TypeOK, OwnerHolds, LockedAllocated
<1>6. WaitersSlot'
  <2>1. \A x \in Thread : pc[x] \in Waiting => m[x] \in Slot /\ m[x] # s
    BY <1>0 DEF TypeOK, WaitersSlot, WaitsForAnId
  <2>2. \A r \in Slot : r # s => mid'[r] = mid[r] /\ mstate'[r] = mstate[r]
    BY DEF TypeOK
  <2> QED BY <2>1, <2>2 DEF WaitersSlot, Waiting
<1>7. NoLostWakeup'
  <2>1. mstate[s] = "MUNLOCKED"
    BY <1>0 DEF TypeOK, LockedAllocated
  <2>2. mstate' = mstate
    BY <2>1 DEF TypeOK
  <2> QED BY <2>2 DEF NoLostWakeup
<1> QED BY <1>1, <1>4, <1>6, <1>7

(* kthread_mutex_dealloc keeps the invariant.                              *)
LEMMA Excl_kthread_mutex_dealloc ==
    ASSUME NEW t \in Thread, NEW s \in Slot, NEW id \in Id, Inv2, Inv1', kthread_mutex_dealloc(t, s, id), Disciplined
    PROVE  Inv2'
<1> USE Basics DEF Inv1, Inv2
<1>0. mid[s] = id
  BY DEF kthread_mutex_dealloc, Finds
<1> USE DEF kthread_mutex_dealloc, Does, Dealloc,
      mtableVars, threadVars, ctxVars, lockVars
<1>1. NobodyEnds' /\ TidsUnique' /\ HoldersAlive'
  BY <1>0 DEF TypeOK, NobodyEnds, TidsUnique, HoldersAlive
<1>4. OwnerHolds' /\ LockedAllocated'
  BY <1>0 DEF TypeOK, OwnerHolds, LockedAllocated
<1>6. WaitersSlot'
  <2>1. \A x \in Thread : ~Waits(x, id)
    BY DEF Disciplined
  <2>2. \A x \in Thread : pc[x] \in Waiting => m[x] \in Slot /\ m[x] # s
    BY <1>0, <2>1 DEF TypeOK, WaitersSlot, Waits, Waiting
  <2>3. \A r \in Slot : r # s => mid'[r] = mid[r]
    BY DEF TypeOK
  <2> QED BY <2>2, <2>3 DEF WaitersSlot, Waiting
<1>7. NoLostWakeup'
  BY <1>0 DEF TypeOK, NoLostWakeup
<1> QED BY <1>1, <1>4, <1>6, <1>7

(* kthread_mutex_lock keeps the invariant.                                 *)
LEMMA Excl_kthread_mutex_lock ==
    ASSUME NEW t \in Thread, NEW s \in Slot, NEW id \in Id, Inv2, Inv1', kthread_mutex_lock(t, s, id)
    PROVE  Inv2'
<1> USE Basics DEF Inv1, Inv2
<1>0. mid[s] = id
  BY DEF kthread_mutex_lock, Finds
<1> USE DEF kthread_mutex_lock, Does, Take,
      mtableVars, threadVars, ctxVars, lockVars
<1>1. NobodyEnds' /\ TidsUnique' /\ HoldersAlive'
  BY <1>0 DEF TypeOK, NobodyEnds, TidsUnique, HoldersAlive
<1>4. OwnerHolds' /\ LockedAllocated'
  BY <1>0 DEF TypeOK, OwnerHolds, LockedAllocated
<1>6. WaitersSlot'
  BY <1>0 DEF TypeOK, WaitersSlot, Waiting
<1>7. NoLostWakeup'
  BY <1>0 DEF TypeOK, NoLostWakeup
<1> QED BY <1>1, <1>4, <1>6, <1>7

(* kthread_mutex_lock_busy keeps the invariant.                            *)
LEMMA Excl_kthread_mutex_lock_busy ==
    ASSUME NEW t \in Thread, NEW s \in Slot, NEW id \in Id, Inv2, Inv1', kthread_mutex_lock_busy(t, s, id)
    PROVE  Inv2'
<1> USE Basics DEF Inv1, Inv2
<1>0. mid[s] = id
  BY DEF kthread_mutex_lock_busy, Finds
<1> USE DEF kthread_mutex_lock_busy, Does,
      mtableVars, threadVars, ctxVars, lockVars
<1>1. NobodyEnds' /\ TidsUnique' /\ HoldersAlive'
  BY <1>0 DEF TypeOK, NobodyEnds, TidsUnique, HoldersAlive
<1>4. OwnerHolds' /\ LockedAllocated'
  BY <1>0 DEF TypeOK, OwnerHolds, LockedAllocated
<1>6. WaitersSlot'
  BY <1>0 DEF TypeOK, WaitersSlot, Waiting
<1>7. NoLostWakeup'
  BY <1>0 DEF TypeOK, NoLostWakeup
<1> QED BY <1>1, <1>4, <1>6, <1>7

(* kthread_mutex_unlock keeps the invariant.                               *)
LEMMA Excl_kthread_mutex_unlock ==
    ASSUME NEW t \in Thread, NEW s \in Slot, NEW id \in Id, Inv2, Inv1', kthread_mutex_unlock(t, s, id)
    PROVE  Inv2'
<1> USE Basics DEF Inv1, Inv2
<1>0. mid[s] = id
  BY SMTT(30) DEF kthread_mutex_unlock, Finds
<1> USE DEF kthread_mutex_unlock, Does, Owns,
      mtableVars, threadVars, ctxVars, lockVars
<1>1. NobodyEnds' /\ TidsUnique' /\ HoldersAlive'
  BY <1>0, SMTT(30) DEF TypeOK, NobodyEnds, TidsUnique, HoldersAlive
<1>4. OwnerHolds'
  <2>1. mythread[s] = t
    <3>1. mythread[s] \in Thread /\ held[mythread[s]] # {}
      BY DEF TypeOK, OwnerHolds
    <3> QED BY <3>1 DEF HoldersAlive, TidsUnique
  <2>2. \A x \in Thread : held'[x] = IF x = t THEN held[t] \ {id} ELSE held[x]
    BY DEF TypeOK
  <2>3. \A r \in Slot \ {s} : mstate'[r] = mstate[r] /\ mythread'[r] = mythread[r]
    BY DEF TypeOK
  <2>4. mid' = mid /\ mstate'[s] = "MUNLOCKED"
    BY DEF TypeOK
  <2>5. \A r \in Slot : mid[r] = id => r = s
    BY <1>0 DEF LockedNamesOwner
  <2> HIDE DEF kthread_mutex_unlock, Owns
  <2>6. ASSUME NEW x \in Thread, NEW i \in held'[x]
        PROVE  \E r \in Slot : mid'[r] = i /\ mstate'[r] = "MLOCKED" /\ mythread'[r] = x
    <3>1. PICK r \in Slot : mid[r] = i /\ mstate[r] = "MLOCKED" /\ mythread[r] = x
      BY <2>2 DEF OwnerHolds
    <3>2. r # s
      BY <1>0, <2>1, <2>2, <3>1
    <3> QED BY <2>3, <2>4, <3>1, <3>2
  <2>7. ASSUME NEW r \in Slot, mstate'[r] = "MLOCKED"
        PROVE  mythread'[r] # None /\ mid'[r] \in held'[mythread'[r]]
    <3>1. r # s /\ mstate[r] = "MLOCKED"
      BY <2>3, <2>4, <2>7
    <3>2. mythread[r] \in Thread /\ mid[r] \in held[mythread[r]] /\ mid[r] # id
      BY <2>5, <3>1, SMTT(30) DEF OwnerHolds, TypeOK
    <3> QED BY <2>2, <2>3, <2>4, <3>1, <3>2
  <2> QED BY <2>6, <2>7 DEF OwnerHolds
<1>5. LockedAllocated'
  BY <1>0 DEF TypeOK, LockedAllocated
<1>6. WaitersSlot'
  BY <1>0 DEF TypeOK, WaitersSlot, Waiting
<1>7. NoLostWakeup'
  BY <1>0 DEF TypeOK, NoLostWakeup
<1> QED BY <1>1, <1>4, <1>5, <1>6, <1>7
=============================================================================
