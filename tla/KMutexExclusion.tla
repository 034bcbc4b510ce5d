-------------------------- MODULE KMutexExclusion --------------------------
(***************************************************************************)
(* Theorems about KMutex for disciplined programs: mutual exclusion,        *)
(* ownership and no lost wakeup, from the invariant of KMutexLocking.       *)
(***************************************************************************)
EXTENDS KMutexLocking

(* sleep keeps the invariant.                                              *)
LEMMA Excl_sleep ==
    ASSUME NEW t \in Thread, Inv2, Inv1', sleep(t)
    PROVE  Inv2'
<1> USE Basics DEF Inv1, Inv2
<1> USE DEF sleep,
      mtableVars, threadVars, ctxVars, lockVars
<1>1. NobodyEnds' /\ TidsUnique' /\ HoldersAlive'
  BY DEF TypeOK, NobodyEnds, TidsUnique, HoldersAlive
<1>4. OwnerHolds' /\ LockedAllocated'
  BY DEF TypeOK, OwnerHolds, LockedAllocated
<1>6. WaitersSlot'
  BY DEF TypeOK, WaitersSlot, Waiting
<1>7. NoLostWakeup'
  <2>1. mstate[m[t]] = "MLOCKED"
    BY DEF WaitersSlot
  <2>2. \A x \in Thread \ {t} : tstate'[x] = tstate[x] /\ pc'[x] = pc[x]
    BY DEF TypeOK
  <2> SUFFICES ASSUME NEW x \in Thread, tstate'[x] = "TSLEEPING",
                      mstate'[m'[x]] = "MUNLOCKED"
               PROVE  \E w \in Thread : pc'[w] = "wakeup" /\ m'[w] = m'[x]
    BY DEF NoLostWakeup
  <2>3. x # t /\ mstate' = mstate /\ m' = m /\ pc[t] = "sleep"
    BY <2>1
  <2> HIDE DEF sleep
  <2>4. PICK w \in Thread : pc[w] = "wakeup" /\ m[w] = m[x]
    BY <2>2, <2>3 DEF NoLostWakeup
  <2> QED BY <2>2, <2>3, <2>4
<1> QED BY <1>1, <1>4, <1>6, <1>7

(* resume keeps the invariant.                                             *)
LEMMA Excl_resume ==
    ASSUME NEW t \in Thread, Inv2, Inv1', resume(t)
    PROVE  Inv2'
<1> USE Basics DEF Inv1, Inv2
<1> USE DEF resume,
      mtableVars, threadVars, ctxVars, lockVars
<1>1. NobodyEnds' /\ TidsUnique' /\ HoldersAlive'
  BY DEF TypeOK, NobodyEnds, TidsUnique, HoldersAlive
<1>4. OwnerHolds' /\ LockedAllocated'
  BY DEF TypeOK, OwnerHolds, LockedAllocated
<1>6. WaitersSlot'
  BY DEF TypeOK, WaitersSlot, Waiting
<1>7. NoLostWakeup'
  BY DEF TypeOK, NoLostWakeup
<1> QED BY <1>1, <1>4, <1>6, <1>7

(* relock keeps the invariant.                                             *)
LEMMA Excl_relock ==
    ASSUME NEW t \in Thread, Inv2, Inv1', relock(t)
    PROVE  Inv2'
<1> USE Basics DEF Inv1, Inv2
<1> USE DEF relock, Take, Return,
      mtableVars, threadVars, ctxVars, lockVars
<1>0. m[t] \in Slot /\ mid[m[t]] = arg[t] /\ arg[t] # 0
  BY DEF TypeOK, WaitersSlot, WaitsForAnId, Waiting
<1>1. NobodyEnds' /\ TidsUnique' /\ HoldersAlive'
  BY DEF TypeOK, NobodyEnds, TidsUnique, HoldersAlive
<1>4. OwnerHolds'
  <2>1. \A x \in Thread : held'[x] = IF x = t THEN held[t] \cup {arg[t]} ELSE held[x]
    BY DEF TypeOK
  <2>2. \A r \in Slot : IF r = m[t]
                        THEN mstate'[r] = "MLOCKED" /\ mythread'[r] = t
                        ELSE mstate'[r] = mstate[r] /\ mythread'[r] = mythread[r]
    BY DEF TypeOK
  <2>3. mid' = mid /\ mstate[m[t]] = "MUNLOCKED"
    OBVIOUS
  <2> HIDE DEF relock, Take, Return
  <2>4. ASSUME NEW x \in Thread, NEW i \in held'[x]
        PROVE  \E r \in Slot : mid'[r] = i /\ mstate'[r] = "MLOCKED" /\ mythread'[r] = x
    <3>1. CASE x = t /\ i = arg[t]
      BY <1>0, <2>2, <2>3, <3>1
    <3>2. CASE i \in held[x]
      <4>1. PICK r \in Slot : mid[r] = i /\ mstate[r] = "MLOCKED" /\ mythread[r] = x
        BY <3>2 DEF OwnerHolds
      <4> QED BY <2>2, <2>3, <4>1
    <3> QED BY <2>1, <3>1, <3>2
  <2>5. ASSUME NEW r \in Slot, mstate'[r] = "MLOCKED"
        PROVE  mythread'[r] # None /\ mid'[r] \in held'[mythread'[r]]
    <3>1. CASE r = m[t]
      BY <1>0, <2>1, <2>2, <2>3, <3>1
    <3>2. CASE r # m[t]
      <4>1. mythread[r] \in Thread /\ mid[r] \in held[mythread[r]]
        BY <2>2, <2>5, <3>2 DEF OwnerHolds, TypeOK
      <4> QED BY <2>1, <2>2, <2>3, <3>2, <4>1
    <3> QED BY <3>1, <3>2
  <2> QED BY <2>4, <2>5, Zenon DEF OwnerHolds
<1>5. LockedAllocated'
  BY <1>0 DEF TypeOK, LockedAllocated
<1>6. WaitersSlot'
  BY DEF TypeOK, WaitersSlot, Waiting
<1>7. NoLostWakeup'
  <2>1. tstate[t] = "TRUNNING" /\ tstate' = tstate
    BY DEF StateOfPc
  <2>2. \A x \in Thread \ {t} : m'[x] = m[x] /\ pc'[x] = pc[x] /\ m[x] \in Slot
    BY DEF TypeOK
  <2>3. \A r \in Slot : mstate'[r] = "MUNLOCKED" => mstate[r] = "MUNLOCKED"
    BY DEF TypeOK
  <2> QED BY <2>1, <2>2, <2>3 DEF NoLostWakeup
<1> QED BY <1>1, <1>4, <1>5, <1>6, <1>7

(* relock_busy keeps the invariant.                                        *)
LEMMA Excl_relock_busy ==
    ASSUME NEW t \in Thread, Inv2, Inv1', relock_busy(t)
    PROVE  Inv2'
<1> USE Basics DEF Inv1, Inv2
<1> USE DEF relock_busy,
      mtableVars, threadVars, ctxVars, lockVars
<1>1. NobodyEnds' /\ TidsUnique' /\ HoldersAlive'
  BY DEF TypeOK, NobodyEnds, TidsUnique, HoldersAlive
<1>4. OwnerHolds' /\ LockedAllocated'
  BY DEF TypeOK, OwnerHolds, LockedAllocated
<1>6. WaitersSlot'
  BY DEF TypeOK, WaitersSlot, Waiting
<1>7. NoLostWakeup'
  BY DEF TypeOK, NoLostWakeup
<1> QED BY <1>1, <1>4, <1>6, <1>7

(* wakeup keeps the invariant.                                             *)
LEMMA Excl_wakeup ==
    ASSUME NEW t \in Thread, Inv2, Inv1', wakeup(t)
    PROVE  Inv2'
<1> USE Basics DEF Inv1, Inv2
<1> USE DEF wakeup, Return,
      mtableVars, threadVars, ctxVars, lockVars
<1>1. NobodyEnds' /\ TidsUnique' /\ HoldersAlive'
  BY DEF TypeOK, NobodyEnds, TidsUnique, HoldersAlive
<1>4. OwnerHolds' /\ LockedAllocated'
  BY DEF TypeOK, OwnerHolds, LockedAllocated
<1>6. WaitersSlot'
  BY DEF TypeOK, WaitersSlot, Waiting
<1>7. NoLostWakeup'
  <2>1. \A x \in Thread : tstate'[x] = "TSLEEPING" =>
          /\ x # t /\ tstate[x] = "TSLEEPING" /\ m[x] # m[t]
    BY DEF TypeOK, StateOfPc, WaitersSlot
  <2>2. \A x \in Thread \ {t} : m'[x] = m[x] /\ pc'[x] = pc[x]
    BY DEF TypeOK
  <2> QED BY <2>1, <2>2 DEF NoLostWakeup
<1> QED BY <1>1, <1>4, <1>6, <1>7

(* kthread_create keeps the invariant.                                     *)
LEMMA Excl_kthread_create ==
    ASSUME NEW t \in Thread, NEW u \in Thread, Inv2, Inv1', kthread_create(t, u)
    PROVE  Inv2'
<1> USE Basics DEF Inv1, Inv2
<1> USE DEF kthread_create, Does,
      mtableVars, threadVars, ctxVars, lockVars
<1>0. pc[u] = "none"
  BY DEF TypeOK, StateOfPc
<1>1. NobodyEnds' /\ TidsUnique' /\ HoldersAlive'
  BY DEF TypeOK, NobodyEnds, TidsUnique, HoldersAlive
<1>4. OwnerHolds' /\ LockedAllocated'
  BY DEF TypeOK, OwnerHolds, LockedAllocated
<1>6. WaitersSlot'
  BY <1>0 DEF TypeOK, WaitersSlot, Waiting
<1>7. NoLostWakeup'
  <2>1. \A x \in Thread \ {u} : tstate'[x] = tstate[x] /\ pc'[x] = pc[x]
    BY DEF TypeOK
  <2>2. tstate'[u] = "TRUNNING"
    BY DEF TypeOK
  <2> SUFFICES ASSUME NEW x \in Thread, tstate'[x] = "TSLEEPING",
                      mstate'[m'[x]] = "MUNLOCKED"
               PROVE  \E w \in Thread : pc'[w] = "wakeup" /\ m'[w] = m'[x]
    BY DEF NoLostWakeup
  <2>3. x # u /\ mstate' = mstate /\ m' = m
    BY <2>2, SMTT(30)
  <2> HIDE DEF kthread_create
  <2>4. PICK w \in Thread : pc[w] = "wakeup" /\ m[w] = m[x]
    BY <2>1, <2>3 DEF NoLostWakeup
  <2> QED BY <1>0, <2>1, <2>3, <2>4, SMTT(30)
<1> QED BY <1>1, <1>4, <1>6, <1>7


(* The invariant holds at the start.                                       *)
LEMMA Init2 == Init => Inv2
<1> SUFFICES ASSUME Init PROVE Inv2
  OBVIOUS
<1>1. Inv1
  BY Init1
<1>2. NobodyEnds /\ TidsUnique /\ HoldersAlive
  BY Basics DEF Init, NobodyEnds, TidsUnique, HoldersAlive
<1>3. OwnerHolds /\ LockedAllocated
  BY Basics DEF Init, OwnerHolds, LockedAllocated
<1>4. WaitersSlot /\ NoLostWakeup
  BY Basics DEF Init, WaitersSlot, Waiting, NoLostWakeup
<1> QED BY <1>1, <1>2, <1>3, <1>4 DEF Inv2

(* Of the steps that change the set of threads only kthread_create is left. *)
LEMMA OnlyCreates ==
    ASSUME Disciplined, Inv2, NEW t \in Thread, ThreadSteps(t)
    PROVE  \E u \in Thread : kthread_create(t, u)
<1>1. /\ ~tkilled[t] /\ pc[t] \notin {"remove", "dealloc", "killothers"}
      /\ \A call \in {"kthread_exit", "kthread_join", "exec"} : call \notin Calls
  BY DEF Inv2, NobodyEnds, Disciplined
<1>2. ~kthread_exit(t) /\ ~kill_other_threads(t) /\ ~removed(t)
  BY <1>1 DEF kthread_exit, kill_other_threads, removed, Does
<1>3. \A u \in Thread : /\ ~kthread_join(t, u) /\ ~mark_killed(t, u)
                        /\ ~remove_thread(t, u) /\ ~remove_thread_mutex(t, u)
                        /\ ~remove_thread_dealloc(t, u)
  BY <1>1, Zenon DEF kthread_join, mark_killed, remove_thread, remove_thread_mutex,
       remove_thread_dealloc, Does
<1> QED BY <1>2, <1>3 DEF ThreadSteps

(* Every step of a disciplined program keeps the invariant.                *)
LEMMA Step2 ==
    ASSUME Disciplined
    PROVE  Inv2 /\ [Next]_vars => Inv2'
<1> SUFFICES ASSUME Inv2, [Next]_vars PROVE Inv2'
  OBVIOUS
<1>1. Inv1'
  BY Step1 DEF Inv2
<1>2. ASSUME NEW t \in Thread, LockSteps(t)
      PROVE  Inv2'
  BY <1>1, <1>2, Excl_kthread_mutex_alloc, Excl_kthread_mutex_dealloc,
     Excl_kthread_mutex_lock, Excl_kthread_mutex_lock_busy, Excl_kthread_mutex_unlock,
     Excl_sleep, Excl_resume, Excl_relock, Excl_relock_busy, Excl_wakeup
     DEF LockSteps
<1>3. ASSUME NEW t \in Thread, ThreadSteps(t)
      PROVE  Inv2'
  <2>1. PICK u \in Thread : kthread_create(t, u)
    BY <1>3, OnlyCreates
  <2> QED BY <1>1, <2>1, Excl_kthread_create
<1>4. CASE UNCHANGED vars
  <2> USE <1>4 DEF Inv2, vars, mtableVars, threadVars, ctxVars, lockVars
  <2>1. NobodyEnds' /\ TidsUnique' /\ HoldersAlive'
    BY DEF NobodyEnds, TidsUnique, HoldersAlive
  <2>2. OwnerHolds' /\ LockedAllocated'
    BY DEF OwnerHolds, LockedAllocated
  <2>3. WaitersSlot' /\ NoLostWakeup'
    BY DEF WaitersSlot, NoLostWakeup
  <2> QED BY <1>1, <2>1, <2>2, <2>3
<1> QED BY <1>2, <1>3, <1>4 DEF Next

(* The invariant always holds, for disciplined programs.                   *)
LEMMA Invariant2 ==
    ASSUME Disciplined
    PROVE  Spec => []Inv2
  BY Init2, Step2, PTL DEF Spec

(***************************************************************************)
(* A mutex that a thread holds is the slot that names the thread, and there *)
(* is one slot for an id.                                                   *)
(***************************************************************************)
LEMMA OwnersExclude == Inv2 => MutualExclusion
<1> SUFFICES ASSUME Inv2, NEW t \in Thread, NEW u \in Thread, t # u,
                    NEW id \in held[t], id \in held[u]
             PROVE  FALSE
  BY DEF MutualExclusion
<1>1. PICK s \in Slot : mid[s] = id /\ mythread[s] = t
  BY DEF Inv2, OwnerHolds
<1>2. PICK r \in Slot : mid[r] = id /\ mythread[r] = u
  BY DEF Inv2, OwnerHolds
<1>3. id # 0
  BY Basics DEF Inv2, Inv1, TypeOK
<1> QED BY <1>1, <1>2, <1>3 DEF Inv2, Inv1, LockedNamesOwner

(***************************************************************************)
(* kthread_mutex_lock excludes: no two threads hold one mutex, for any      *)
(* number of threads and mutexes, when no thread ends and no mutex is freed *)
(* that a thread waits for.                                                 *)
(***************************************************************************)
THEOREM Exclusion ==
    ASSUME Disciplined
    PROVE  Spec => []MutualExclusion
  BY Invariant2, OwnersExclude, PTL

(***************************************************************************)
(* A thread that holds a mutex is the owner the slot names, and a locked    *)
(* slot is held by the thread it names.                                     *)
(***************************************************************************)
THEOREM Ownership ==
    ASSUME Disciplined
    PROVE  Spec => []OwnerHolds
<1>1. Inv2 => OwnerHolds
  BY DEF Inv2
<1> QED BY <1>1, Invariant2, PTL

(***************************************************************************)
(* Releasing mlock before wakeup(m) loses no wakeup: a sleeper on a free    *)
(* mutex has a wakeup on its way.                                           *)
(***************************************************************************)
THEOREM WakeupNotLost ==
    ASSUME Disciplined
    PROVE  Spec => []NoLostWakeup
<1>1. Inv2 => NoLostWakeup
  BY DEF Inv2
<1> QED BY <1>1, Invariant2, PTL
=============================================================================
