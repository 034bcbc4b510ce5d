---------------------------- MODULE KMutexProofs ----------------------------
(***************************************************************************)
(* Proofs about KMutex that hold whatever programs do: types,               *)
(* LockedNamesOwner and VictimsOffCpu, from the invariant of KMutexInv.     *)
(***************************************************************************)
EXTENDS KMutexInv

(* kthread_exit keeps the invariant.                                       *)
LEMMA Step_kthread_exit ==
    ASSUME NEW t \in Thread, Inv1, kthread_exit(t)
    PROVE  Inv1'
<1> USE Basics DEF Inv1
<1> USE DEF kthread_exit, Alive,
      mtableVars, threadVars, ctxVars, lockVars
<1>1. TypeOK'
  BY DEF TypeOK, WaitsForAnId, Waiting, PC, threadstate
<1>2. StateOfPc'
  BY DEF TypeOK, StateOfPc
<1>3. WaitsForAnId'
  BY DEF TypeOK, WaitsForAnId, Waiting
<1>4. MidsBelowNext'
  BY DEF TypeOK, MidsBelowNext
<1>5. LockedNamesOwner'
  BY DEF TypeOK, LockedNamesOwner, MidsBelowNext
<1>6. LockOfPc'
  BY DEF TypeOK, LockOfPc
<1>7. VictimsAsleep'
  BY DEF TypeOK, StateOfPc, LockOfPc, VictimsAsleep, NextVictim, OffCpu
<1> QED BY <1>1, <1>2, <1>3, <1>4, <1>5, <1>6, <1>7

(* kill_other_threads keeps the invariant.                                 *)
LEMMA Step_kill_other_threads ==
    ASSUME NEW t \in Thread, Inv1, kill_other_threads(t)
    PROVE  Inv1'
<1> USE Basics DEF Inv1
<1>0. /\ pc[t] \in {"user", "killothers"} /\ lock = None
      /\ UNCHANGED <<mtableVars, threadVars, arg, m, mlock, held>>
  BY DEF kill_other_threads, Does
<1>1. CASE OtherThreads(t) = {}
  <2>0. /\ pc' = [pc EXCEPT ![t] = "user"]
        /\ UNCHANGED <<victims, cont, lock>>
    BY <1>1 DEF kill_other_threads
  <2>1. TypeOK'
    BY <1>0, <2>0 DEF TypeOK, PC, mtableVars, threadVars
  <2>2. VictimsAsleep'
    BY <1>0, <2>0 DEF TypeOK, VictimsAsleep, NextVictim, OffCpu, threadVars
  <2>3. StateOfPc' /\ WaitsForAnId' /\ LockOfPc'
    BY <1>0, <2>0 DEF TypeOK, StateOfPc, WaitsForAnId, Waiting, LockOfPc, threadVars
  <2>4. MidsBelowNext' /\ LockedNamesOwner'
    BY <1>0 DEF MidsBelowNext, LockedNamesOwner, mtableVars
  <2> QED BY <2>1, <2>2, <2>3, <2>4
<1>2. CASE OtherThreads(t) # {}
  <2>0. /\ victims' = [victims EXCEPT ![t] = OtherThreads(t)]
        /\ cont' = [cont EXCEPT ![t] = "killothers"]
        /\ lock' = t
        /\ pc' = [pc EXCEPT ![t] = "remove"]
    BY <1>2 DEF kill_other_threads
  <2>1. OtherThreads(t) \in SUBSET Thread
    BY DEF OtherThreads
  <2>2. TypeOK'
    BY <1>0, <2>0, <2>1 DEF TypeOK, PC, mtableVars, threadVars
  <2>3. LockOfPc'
    BY <1>0, <2>0 DEF TypeOK, LockOfPc
  <2>4. VictimsAsleep'
    <3>1. \A x \in Thread : pc'[x] # "dealloc"
      BY <1>0, <2>0 DEF TypeOK, LockOfPc
    <3> QED BY <3>1 DEF VictimsAsleep
  <2>5. StateOfPc' /\ WaitsForAnId'
    BY <1>0, <2>0 DEF TypeOK, StateOfPc, WaitsForAnId, Waiting, threadVars
  <2>6. MidsBelowNext' /\ LockedNamesOwner'
    BY <1>0 DEF MidsBelowNext, LockedNamesOwner, mtableVars
  <2> QED BY <2>2, <2>3, <2>4, <2>5, <2>6
<1> QED BY <1>1, <1>2

(* removed keeps the invariant.                                            *)
LEMMA Step_removed ==
    ASSUME NEW t \in Thread, Inv1, removed(t)
    PROVE  Inv1'
<1> USE Basics DEF Inv1
<1> USE DEF removed,
      mtableVars, threadVars, ctxVars, lockVars
<1>1. TypeOK'
  BY DEF TypeOK, WaitsForAnId, Waiting, PC, threadstate
<1>2. StateOfPc'
  BY DEF TypeOK, StateOfPc
<1>3. WaitsForAnId'
  BY DEF TypeOK, WaitsForAnId, Waiting
<1>4. MidsBelowNext'
  BY DEF TypeOK, MidsBelowNext
<1>5. LockedNamesOwner'
  BY DEF TypeOK, LockedNamesOwner, MidsBelowNext
<1>6. LockOfPc'
  BY DEF TypeOK, LockOfPc
<1>7. VictimsAsleep'
  BY DEF TypeOK, StateOfPc, LockOfPc, VictimsAsleep, NextVictim, OffCpu
<1> QED BY <1>1, <1>2, <1>3, <1>4, <1>5, <1>6, <1>7

(* kthread_create keeps the invariant.                                     *)
LEMMA Step_kthread_create ==
    ASSUME NEW t \in Thread, NEW u \in Thread, Inv1, kthread_create(t, u)
    PROVE  Inv1'
<1> USE Basics DEF Inv1
<1> USE DEF kthread_create, Does,
      mtableVars, threadVars, ctxVars, lockVars
<1>1. TypeOK'
  <2>1. tid' \in [Thread -> Nat]
    BY DEF TypeOK, Waiting, WaitsForAnId
  <2>2. tstate' \in [Thread -> threadstate]
    BY DEF TypeOK, Waiting, WaitsForAnId, threadstate
  <2>3. pc' \in [Thread -> PC]
    BY DEF TypeOK, Waiting, WaitsForAnId, PC
  <2>4. nexttid' \in Nat
    BY DEF TypeOK, Waiting, WaitsForAnId
  <2> QED BY <2>1, <2>2, <2>3, <2>4 DEF TypeOK
<1>2. StateOfPc'
  BY DEF TypeOK, StateOfPc
<1>3. WaitsForAnId'
  BY DEF TypeOK, WaitsForAnId, Waiting
<1>4. MidsBelowNext'
  BY DEF TypeOK, MidsBelowNext
<1>5. LockedNamesOwner'
  BY DEF TypeOK, LockedNamesOwner, MidsBelowNext
<1>6. LockOfPc'
  BY DEF TypeOK, LockOfPc
<1>7. VictimsAsleep'
  BY DEF TypeOK, StateOfPc, LockOfPc, VictimsAsleep, NextVictim, OffCpu
<1> QED BY <1>1, <1>2, <1>3, <1>4, <1>5, <1>6, <1>7

(* kthread_join keeps the invariant.                                       *)
LEMMA Step_kthread_join ==
    ASSUME NEW t \in Thread, NEW u \in Thread, Inv1, kthread_join(t, u)
    PROVE  Inv1'
<1> USE Basics DEF Inv1
<1> USE DEF kthread_join, Does,
      mtableVars, threadVars, ctxVars, lockVars
<1>1. TypeOK'
  BY DEF TypeOK, WaitsForAnId, Waiting, PC, threadstate
<1>2. StateOfPc'
  BY DEF TypeOK, StateOfPc
<1>3. WaitsForAnId'
  BY DEF TypeOK, WaitsForAnId, Waiting
<1>4. MidsBelowNext'
  BY DEF TypeOK, MidsBelowNext
<1>5. LockedNamesOwner'
  BY DEF TypeOK, LockedNamesOwner, MidsBelowNext
<1>6. LockOfPc'
  BY DEF TypeOK, LockOfPc
<1>7. VictimsAsleep'
  BY DEF TypeOK, StateOfPc, LockOfPc, VictimsAsleep, NextVictim, OffCpu
<1> QED BY <1>1, <1>2, <1>3, <1>4, <1>5, <1>6, <1>7

(***************************************************************************)
(* The remover and its victim: they differ, and the victim is off the cpu   *)
(* and waits in no call any more once it is cleared.                        *)
(***************************************************************************)
LEMMA Removing ==
    ASSUME NEW t \in Thread, NEW u \in Thread, Inv1,
           pc[t] \in {"remove", "dealloc"}, NextVictim(t, u), OffCpu(u)
    PROVE  /\ lock = t /\ u # t /\ u \in victims[t]
           /\ pc[u] \notin {"remove", "dealloc"}
           /\ \A x \in Thread : pc[x] = "dealloc" => x = t
           /\ \A v \in Thread : NextVictim(t, v) => v = u
<1>1. lock = t /\ \A x \in Thread : pc[x] \in {"remove", "dealloc"} => x = t
  BY DEF Inv1, LockOfPc
<1>2. u # t
  BY DEF Inv1, StateOfPc, OffCpu
<1>3. u \in victims[t]
  BY DEF NextVictim
<1>4. \A v \in Thread : NextVictim(t, v) => v = u
  BY NextVictimUnique
<1> QED BY <1>1, <1>2, <1>3, <1>4

(* mark_killed keeps the invariant.                                        *)
LEMMA Step_mark_killed ==
    ASSUME NEW t \in Thread, NEW u \in Thread, Inv1, mark_killed(t, u)
    PROVE  Inv1'
<1> USE Basics DEF Inv1
<1>0. /\ pc[t] = "remove"
      /\ tkilled' = [tkilled EXCEPT ![u] = TRUE]
      /\ victims' = [victims EXCEPT ![t] = victims[t] \ {u}]
      /\ UNCHANGED <<mid, mstate, mythread, nextmid, tstate, tid, chan, mutex, nexttid,
                     pc, arg, m, cont, mlock, lock, held>>
  BY DEF mark_killed, mtableVars, lockVars
<1>1. TypeOK'
  <2>1. tkilled' \in [Thread -> BOOLEAN] /\ victims' \in [Thread -> SUBSET Thread]
    BY <1>0 DEF TypeOK
  <2> QED BY <1>0, <2>1 DEF TypeOK
<1>2. StateOfPc' /\ WaitsForAnId' /\ LockOfPc'
  BY <1>0 DEF StateOfPc, WaitsForAnId, LockOfPc
<1>3. MidsBelowNext' /\ LockedNamesOwner'
  BY <1>0 DEF MidsBelowNext, LockedNamesOwner
<1>4. VictimsAsleep'
  <2>1. \A x \in Thread : pc'[x] # "dealloc"
    BY <1>0 DEF LockOfPc
  <2> QED BY <2>1 DEF VictimsAsleep
<1> QED BY <1>1, <1>2, <1>3, <1>4

(***************************************************************************)
(* Both forms of remove_thread end in Clear; the second may have freed a    *)
(* slot of mtable before.                                                   *)
(***************************************************************************)
LEMMA Clearing ==
    ASSUME NEW t \in Thread, NEW u \in Thread, Inv1,
           pc[t] \in {"remove", "dealloc"}, NextVictim(t, u), OffCpu(u), Clear(t, u),
           UNCHANGED <<mstate, nextmid, chan, nexttid, cont, mlock, lock>>,
           mid' \in [Slot -> Id \cup {0}],
           mythread' \in [Slot -> Thread \cup {None}],
           mutex' \in [Thread -> Slot \cup {None}],
           \A r \in Slot : mid'[r] = 0 \/ (mid'[r] = mid[r] /\ mythread'[r] = mythread[r])
    PROVE  Inv1'
<1> USE Basics
<1>0. /\ lock = t /\ u # t /\ pc[u] \notin {"remove", "dealloc"}
      /\ \A x \in Thread : pc[x] = "dealloc" => x = t
  BY Removing
<1>t. TypeOK
  BY DEF Inv1
<1>a. /\ tid' \in [Thread -> Nat]
      /\ tkilled' \in [Thread -> BOOLEAN]
      /\ m' \in [Thread -> Slot]
      /\ held' \in [Thread -> SUBSET Id]
  BY <1>t DEF TypeOK, Clear
<1>b. arg' \in [Thread -> Id \cup {0}] /\ victims' \in [Thread -> SUBSET Thread]
  BY <1>t DEF TypeOK, Clear
<1>c. /\ tstate' \in [Thread -> threadstate]
      /\ \A x \in Thread : tstate'[x] = IF x = u THEN "TUNUSED" ELSE tstate[x]
  BY <1>t DEF TypeOK, Clear, threadstate
<1>d. pc' \in [Thread -> PC]
  BY <1>t DEF TypeOK, Clear, PC
<1>f. \A x \in Thread : pc'[x] = IF x = t THEN "remove" ELSE IF x = u THEN "none" ELSE pc[x]
  BY <1>t, <1>0 DEF TypeOK, Clear
<1>e. \A x \in Thread : x # t /\ x # u => arg'[x] = arg[x]
  BY <1>t DEF TypeOK, Clear
<1>1. TypeOK'
  BY <1>t, <1>a, <1>b, <1>c, <1>d DEF TypeOK
<1>2. StateOfPc'
  BY <1>0, <1>c, <1>f DEF Inv1, StateOfPc
<1>3. WaitsForAnId'
  BY <1>f, <1>e DEF Inv1, WaitsForAnId, Waiting
<1>4. MidsBelowNext'
  <2>1. nextmid \in Nat /\ nextmid # 0 /\ \A r \in Slot : mid'[r] = 0 \/ mid'[r] < nextmid
    BY <1>t DEF Inv1, MidsBelowNext, TypeOK
  <2> QED BY <2>1 DEF MidsBelowNext
<1>5. LockedNamesOwner'
  BY DEF Inv1, LockedNamesOwner
<1>6. LockOfPc'
  BY <1>0, <1>f DEF Inv1, LockOfPc
<1>7. VictimsAsleep'
  <2>1. \A x \in Thread : pc'[x] # "dealloc"
    BY <1>0, <1>f
  <2> QED BY <2>1 DEF VictimsAsleep
<1> QED BY <1>1, <1>2, <1>3, <1>4, <1>5, <1>6, <1>7 DEF Inv1

(* remove_thread keeps the invariant.                                      *)
LEMMA Step_remove_thread ==
    ASSUME NEW t \in Thread, NEW u \in Thread, Inv1, remove_thread(t, u)
    PROVE  Inv1'
<1>1. /\ pc[t] = "remove" /\ NextVictim(t, u) /\ OffCpu(u) /\ Clear(t, u)
      /\ UNCHANGED <<mid, mythread, mutex>>
      /\ UNCHANGED <<mstate, nextmid, chan, nexttid, cont, mlock, lock>>
  BY DEF remove_thread, mtableVars, lockVars
<1>2. /\ mid \in [Slot -> Id \cup {0}]
      /\ mythread \in [Slot -> Thread \cup {None}]
      /\ mutex \in [Thread -> Slot \cup {None}]
  BY DEF Inv1, TypeOK
<1> QED BY <1>1, <1>2, Clearing, SMTT(30)

(* remove_thread_mutex keeps the invariant.                                *)
LEMMA Step_remove_thread_mutex ==
    ASSUME NEW t \in Thread, NEW u \in Thread, Inv1, remove_thread_mutex(t, u)
    PROVE  Inv1'
<1> USE Basics DEF Inv1
<1>0. /\ pc[t] = "remove" /\ NextVictim(t, u) /\ OffCpu(u)
      /\ mutex[u] # None
      /\ arg' = [arg EXCEPT ![t] = mid[mutex[u]]]
      /\ pc' = [pc EXCEPT ![t] = "dealloc"]
      /\ UNCHANGED <<mid, mstate, mythread, nextmid, tstate, tid, tkilled, chan, mutex,
                     nexttid, m, victims, cont, mlock, lock, held>>
  BY DEF remove_thread_mutex, mtableVars, threadVars, lockVars
<1>a. /\ u # t /\ lock = t
      /\ \A v \in Thread : NextVictim(t, v) => v = u
      /\ \A x \in Thread : pc[x] = "dealloc" => x = t
  BY <1>0, Removing
<1>1. TypeOK'
  <2>1. pc' \in [Thread -> PC]
    BY <1>0 DEF TypeOK, PC
  <2>2. arg' \in [Thread -> Id \cup {0}]
    BY <1>0, SMTT(30) DEF TypeOK
  <2> QED BY <1>0, <2>1, <2>2 DEF TypeOK
<1>2. StateOfPc' /\ WaitsForAnId'
  BY <1>0 DEF TypeOK, StateOfPc, WaitsForAnId, Waiting
<1>3. MidsBelowNext' /\ LockedNamesOwner'
  BY <1>0, SMTT(30) DEF MidsBelowNext, LockedNamesOwner
<1>4. LockOfPc'
  BY <1>0, <1>a DEF TypeOK, LockOfPc
<1>5. VictimsAsleep'
  <2>0. victims' = victims
    BY <1>0
  <2>1. \A x, y \in Thread : NextVictim(x, y)' <=> NextVictim(x, y)
    BY <2>0, Zenon DEF NextVictim
  <2>2. \A x \in Thread : pc'[x] = "dealloc" => x = t
    BY <1>0, <1>a DEF TypeOK
  <2>3. OffCpu(u)'
    BY <1>0 DEF OffCpu
  <2> QED BY <1>a, <2>1, <2>2, <2>3, SMTT(30) DEF VictimsAsleep
<1> QED BY <1>1, <1>2, <1>3, <1>4, <1>5

(* remove_thread_dealloc keeps the invariant.                              *)
LEMMA Step_remove_thread_dealloc ==
    ASSUME NEW t \in Thread, NEW u \in Thread, Inv1, remove_thread_dealloc(t, u)
    PROVE  Inv1'
<1>1. /\ pc[t] = "dealloc" /\ NextVictim(t, u) /\ Clear(t, u)
      /\ UNCHANGED <<mstate, nextmid, chan, nexttid, cont, mlock, lock>>
      /\ \/ \E s \in Slot : Dealloc(t, s)
         \/ UNCHANGED <<mid, mythread, mutex>>
  BY DEF remove_thread_dealloc, lockVars
<1>2. OffCpu(u)
  BY <1>1 DEF Inv1, VictimsAsleep
<1>3. /\ mid \in [Slot -> Id \cup {0}]
      /\ mythread \in [Slot -> Thread \cup {None}]
      /\ mutex \in [Thread -> Slot \cup {None}]
  BY DEF Inv1, TypeOK
<1>4. CASE UNCHANGED <<mid, mythread, mutex>>
  BY <1>1, <1>2, <1>3, <1>4, Clearing
<1>5. ASSUME NEW s \in Slot, Dealloc(t, s)
      PROVE  Inv1'
  <2>1. /\ mid' \in [Slot -> Id \cup {0}]
        /\ \A r \in Slot : mid'[r] = IF r = s THEN 0 ELSE mid[r]
    BY <1>3, <1>5 DEF Dealloc
  <2>2. /\ mythread' \in [Slot -> Thread \cup {None}]
        /\ \A r \in Slot \ {s} : mythread'[r] = mythread[r]
    BY <1>3, <1>5 DEF Dealloc
  <2>3. mutex' \in [Thread -> Slot \cup {None}]
    BY <1>3, <1>5 DEF Dealloc
  <2> QED BY <1>1, <1>2, <2>1, <2>2, <2>3, Clearing
<1> QED BY <1>1, <1>4, <1>5

(* Every step keeps the invariant.                                         *)
LEMMA Step1 == Inv1 /\ [Next]_vars => Inv1'
<1>1. ASSUME Inv1, NEW t \in Thread, LockSteps(t)
      PROVE  Inv1'
  BY <1>1, Step_kthread_mutex_alloc, Step_kthread_mutex_dealloc, Step_kthread_mutex_lock, Step_kthread_mutex_lock_busy, Step_kthread_mutex_unlock, Step_sleep, Step_resume, Step_relock, Step_relock_busy, Step_wakeup
       DEF LockSteps
<1>2. ASSUME Inv1, NEW t \in Thread, ThreadSteps(t)
      PROVE  Inv1'
  BY <1>2, Step_kthread_exit, Step_kill_other_threads, Step_removed, Step_kthread_create, Step_kthread_join, Step_mark_killed, Step_remove_thread, Step_remove_thread_mutex, Step_remove_thread_dealloc
       DEF ThreadSteps
<1>3. ASSUME Inv1, UNCHANGED vars
      PROVE  Inv1'
  BY <1>3 DEF Inv1, vars, TypeOK, StateOfPc, WaitsForAnId, Waiting, MidsBelowNext,
       LockedNamesOwner, LockOfPc, VictimsAsleep, NextVictim, OffCpu,
       mtableVars, threadVars, ctxVars, lockVars
<1> QED BY <1>1, <1>2, <1>3 DEF Next

(* The invariant always holds.                                             *)
LEMMA Invariant1 == Spec => []Inv1
  BY Init1, Step1, PTL DEF Spec

(***************************************************************************)
(* Whatever the threads do, the tables of mutexes and threads and every     *)
(* thread's context keep their types.                                       *)
(***************************************************************************)
THEOREM TypeCorrect == Spec => []TypeOK
<1>1. Inv1 => TypeOK
  BY DEF Inv1
<1> QED BY <1>1, Invariant1, PTL

(***************************************************************************)
(* A locked mutex names its owner and no id stands for two slots, whatever  *)
(* calls the threads make and whoever is removed: kthread_mutex_unlock      *)
(* follows no null pointer, and the slot it finds is the only one.          *)
(***************************************************************************)
THEOREM OwnerIsNamed == Spec => []LockedNamesOwner
<1>1. Inv1 => LockedNamesOwner
  BY DEF Inv1
<1> QED BY <1>1, Invariant1, PTL

(***************************************************************************)
(* remove_thread clears a thread that is off the cpu, also when it had to   *)
(* wait for mlock after looking at the thread's state.                      *)
(***************************************************************************)
THEOREM RemovedOffCpu == Spec => []VictimsOffCpu
<1>1. Inv1 => VictimsOffCpu
  BY DEF Inv1, LockOfPc, VictimsAsleep, OffCpu, VictimsOffCpu
<1> QED BY <1>1, Invariant1, PTL
=============================================================================
