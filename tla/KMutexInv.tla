---------------------------- MODULE KMutexInv ----------------------------
(***************************************************************************)
(* The invariant of KMutex that holds whatever programs do, for every       *)
(* number of threads, slots and ids, and its preservation by the steps of   *)
(* the kthread_mutex_* calls.  KMutexProofs has the steps that end threads  *)
(* and the theorems.                                                        *)
(***************************************************************************)
EXTENDS KMutex, TLAPS

Waiting == {"sleep", "asleep", "relock"}

(***************************************************************************)
(* Where a thread is agrees with its state in the table.                    *)
(***************************************************************************)
StateOfPc ==
    \A t \in Thread :
       /\ pc[t] = "none" => tstate[t] \in {"TUNUSED", "TZOMBIE"}
       /\ pc[t] = "asleep" => tstate[t] \in {"TSLEEPING", "TRUNNABLE"}
       /\ pc[t] \notin {"none", "asleep"} => tstate[t] = "TRUNNING"

WaitsForAnId == \A t \in Thread : pc[t] \in Waiting => arg[t] # 0

MidsBelowNext == \A s \in Slot : mid[s] < nextmid

LockOfPc == \A t \in Thread : pc[t] \in {"remove", "dealloc"} <=> lock = t

VictimsAsleep ==
    \A t, u \in Thread :
       (pc[t] = "dealloc" /\ NextVictim(t, u)) => (OffCpu(u) /\ u # t)

Inv1 == /\ TypeOK /\ StateOfPc /\ WaitsForAnId /\ MidsBelowNext
        /\ LockedNamesOwner /\ LockOfPc /\ VictimsAsleep

(***************************************************************************)
(* What the provers need to know of the constants and the sets.             *)
(***************************************************************************)
LEMMA Basics ==
    /\ None \notin Thread /\ None \notin Slot
    /\ 0 \in Thread /\ 0 \in Slot
    /\ \A id \in Id : id \in Nat /\ id # 0
  BY SizesAssumption DEF Thread, Slot, None, Id

(* The victims are visited one at a time, in the order of their slots.     *)
LEMMA NextVictimUnique ==
    ASSUME NEW t \in Thread, NEW u \in Thread, NEW v \in Thread,
           NextVictim(t, u), NextVictim(t, v)
    PROVE  u = v
  BY DEF NextVictim, Thread

(* The invariant holds at the start.                                       *)
LEMMA Init1 == Init => Inv1
  BY Basics DEF Init, Inv1, TypeOK, StateOfPc, WaitsForAnId, MidsBelowNext,
       LockedNamesOwner, LockOfPc, VictimsAsleep, NextVictim, PC, threadstate, Waiting

(* kthread_mutex_alloc keeps the invariant.                                *)
LEMMA Step_kthread_mutex_alloc ==
    ASSUME NEW t \in Thread, NEW s \in Slot, Inv1, kthread_mutex_alloc(t, s)
    PROVE  Inv1'
<1> USE Basics DEF Inv1
<1>0. mid[s] = 0
  BY DEF kthread_mutex_alloc, Finds
<1> USE DEF kthread_mutex_alloc, Does, Stamp,
      mtableVars, threadVars, ctxVars, lockVars
<1>1. TypeOK'
  <2>0. nextmid \in Id
    BY SizesAssumption DEF TypeOK, Id
  <2>1. mid' \in [Slot -> Id \cup {0}]
    BY <2>0 DEF TypeOK
  <2>2. mstate' \in [Slot -> {"MUNLOCKED", "MLOCKED"}]
    BY <1>0 DEF TypeOK, Waiting, WaitsForAnId
  <2>3. mythread' \in [Slot -> Thread \cup {None}]
    BY <1>0 DEF TypeOK, Waiting, WaitsForAnId
  <2>4. nextmid' \in Nat \ {0}
    BY <1>0 DEF TypeOK, Waiting, WaitsForAnId
  <2>5. mutex' \in [Thread -> Slot \cup {None}]
    BY <1>0 DEF TypeOK, Waiting, WaitsForAnId
  <2> QED BY <2>1, <2>2, <2>3, <2>4, <2>5 DEF TypeOK
<1>2. StateOfPc'
  BY <1>0 DEF TypeOK, StateOfPc
<1>3. WaitsForAnId'
  BY <1>0 DEF TypeOK, WaitsForAnId, Waiting
<1>a. /\ nextmid \in Int /\ nextmid' = nextmid + 1
      /\ \A r \in Slot : mid[r] \in Int /\ mid[r] < nextmid
  BY DEF TypeOK, MidsBelowNext
<1>b. \A r \in Slot : mid'[r] = IF r = s THEN nextmid ELSE mid[r]
  BY DEF TypeOK
<1>c. \A r \in Slot : IF r = s THEN mstate'[r] = "MUNLOCKED" ELSE mstate'[r] = mstate[r]
  BY DEF TypeOK
<1>d. \A r \in Slot \ {s} : mythread'[r] = mythread[r]
  BY DEF TypeOK
<1> HIDE DEF kthread_mutex_alloc, Stamp
<1>4. MidsBelowNext'
  BY <1>a, <1>b DEF MidsBelowNext
<1>5. LockedNamesOwner'
  <2> SUFFICES ASSUME NEW r \in Slot, mid'[r] # 0
               PROVE  /\ mstate'[r] = "MLOCKED" => mythread'[r] # None
                      /\ \A q \in Slot : mid'[q] = mid'[r] => q = r
    BY DEF LockedNamesOwner
  <2>1. mstate'[r] = "MLOCKED" => mythread'[r] # None
    BY <1>b, <1>c, <1>d DEF LockedNamesOwner
  <2>2. ASSUME NEW q \in Slot, mid'[q] = mid'[r] PROVE q = r
    BY <1>a, <1>b, <2>2 DEF LockedNamesOwner
  <2> QED BY <2>1, <2>2
<1> USE DEF kthread_mutex_alloc, Stamp
<1>6. LockOfPc'
  BY <1>0 DEF TypeOK, LockOfPc
<1>7. VictimsAsleep'
  BY <1>0 DEF TypeOK, StateOfPc, LockOfPc, VictimsAsleep, NextVictim, OffCpu
<1> QED BY <1>1, <1>2, <1>3, <1>4, <1>5, <1>6, <1>7

(* kthread_mutex_dealloc keeps the invariant.                              *)
LEMMA Step_kthread_mutex_dealloc ==
    ASSUME NEW t \in Thread, NEW s \in Slot, NEW id \in Id, Inv1, kthread_mutex_dealloc(t, s, id)
    PROVE  Inv1'
<1> USE Basics DEF Inv1
<1>0. mid[s] = id
  BY DEF kthread_mutex_dealloc, Finds
<1> USE DEF kthread_mutex_dealloc, Does, Dealloc,
      mtableVars, threadVars, ctxVars, lockVars
<1>1. TypeOK'
  <2>1. mid' \in [Slot -> Id \cup {0}]
    BY <1>0 DEF TypeOK, Waiting, WaitsForAnId
  <2>2. mythread' \in [Slot -> Thread \cup {None}]
    BY <1>0 DEF TypeOK, Waiting, WaitsForAnId
  <2>3. mutex' \in [Thread -> Slot \cup {None}]
    BY <1>0 DEF TypeOK, Waiting, WaitsForAnId
  <2> QED BY <2>1, <2>2, <2>3 DEF TypeOK
<1>2. StateOfPc'
  BY <1>0 DEF TypeOK, StateOfPc
<1>3. WaitsForAnId'
  BY <1>0 DEF TypeOK, WaitsForAnId, Waiting
<1>4. MidsBelowNext'
  BY <1>0 DEF TypeOK, MidsBelowNext
<1>5. LockedNamesOwner'
  BY <1>0 DEF TypeOK, LockedNamesOwner, MidsBelowNext
<1>6. LockOfPc'
  BY <1>0 DEF TypeOK, LockOfPc
<1>7. VictimsAsleep'
  BY <1>0 DEF TypeOK, StateOfPc, LockOfPc, VictimsAsleep, NextVictim, OffCpu
<1> QED BY <1>1, <1>2, <1>3, <1>4, <1>5, <1>6, <1>7

(* kthread_mutex_lock keeps the invariant.                                 *)
LEMMA Step_kthread_mutex_lock ==
    ASSUME NEW t \in Thread, NEW s \in Slot, NEW id \in Id, Inv1, kthread_mutex_lock(t, s, id)
    PROVE  Inv1'
<1> USE Basics DEF Inv1
<1>0. mid[s] = id
  BY DEF kthread_mutex_lock, Finds
<1> USE DEF kthread_mutex_lock, Does, Take,
      mtableVars, threadVars, ctxVars, lockVars
<1>1. TypeOK'
  BY <1>0 DEF TypeOK, WaitsForAnId, Waiting, PC, threadstate
<1>2. StateOfPc'
  BY <1>0 DEF TypeOK, StateOfPc
<1>3. WaitsForAnId'
  BY <1>0 DEF TypeOK, WaitsForAnId, Waiting
<1>4. MidsBelowNext'
  BY <1>0 DEF TypeOK, MidsBelowNext
<1>5. LockedNamesOwner'
  BY <1>0 DEF TypeOK, LockedNamesOwner, MidsBelowNext
<1>6. LockOfPc'
  BY <1>0 DEF TypeOK, LockOfPc
<1>7. VictimsAsleep'
  BY <1>0 DEF TypeOK, StateOfPc, LockOfPc, VictimsAsleep, NextVictim, OffCpu
<1> QED BY <1>1, <1>2, <1>3, <1>4, <1>5, <1>6, <1>7

(* kthread_mutex_lock_busy keeps the invariant.                            *)
LEMMA Step_kthread_mutex_lock_busy ==
    ASSUME NEW t \in Thread, NEW s \in Slot, NEW id \in Id, Inv1, kthread_mutex_lock_busy(t, s, id)
    PROVE  Inv1'
<1> USE Basics DEF Inv1
<1>0. mid[s] = id
  BY DEF kthread_mutex_lock_busy, Finds
<1> USE DEF kthread_mutex_lock_busy, Does,
      mtableVars, threadVars, ctxVars, lockVars
<1>1. TypeOK'
  BY <1>0 DEF TypeOK, WaitsForAnId, Waiting, PC, threadstate
<1>2. StateOfPc'
  BY <1>0 DEF TypeOK, StateOfPc
<1>3. WaitsForAnId'
  BY <1>0 DEF TypeOK, WaitsForAnId, Waiting
<1>4. MidsBelowNext'
  BY <1>0 DEF TypeOK, MidsBelowNext
<1>5. LockedNamesOwner'
  BY <1>0 DEF TypeOK, LockedNamesOwner, MidsBelowNext
<1>6. LockOfPc'
  BY <1>0 DEF TypeOK, LockOfPc
<1>7. VictimsAsleep'
  BY <1>0 DEF TypeOK, StateOfPc, LockOfPc, VictimsAsleep, NextVictim, OffCpu
<1> QED BY <1>1, <1>2, <1>3, <1>4, <1>5, <1>6, <1>7

(* kthread_mutex_unlock keeps the invariant.                               *)
LEMMA Step_kthread_mutex_unlock ==
    ASSUME NEW t \in Thread, NEW s \in Slot, NEW id \in Id, Inv1, kthread_mutex_unlock(t, s, id)
    PROVE  Inv1'
<1> USE Basics DEF Inv1
<1>0. mid[s] = id
  BY DEF kthread_mutex_unlock, Finds
<1> USE DEF kthread_mutex_unlock, Does, Owns,
      mtableVars, threadVars, ctxVars, lockVars
<1>1. TypeOK'
  BY <1>0 DEF TypeOK, WaitsForAnId, Waiting, PC, threadstate
<1>2. StateOfPc'
  BY <1>0 DEF TypeOK, StateOfPc
<1>3. WaitsForAnId'
  BY <1>0 DEF TypeOK, WaitsForAnId, Waiting
<1>4. MidsBelowNext'
  BY <1>0 DEF TypeOK, MidsBelowNext
<1>5. LockedNamesOwner'
  BY <1>0 DEF TypeOK, LockedNamesOwner, MidsBelowNext
<1>6. LockOfPc'
  BY <1>0 DEF TypeOK, LockOfPc
<1>7. VictimsAsleep'
  BY <1>0 DEF TypeOK, StateOfPc, LockOfPc, VictimsAsleep, NextVictim, OffCpu
<1> QED BY <1>1, <1>2, <1>3, <1>4, <1>5, <1>6, <1>7

(* sleep keeps the invariant.                                              *)
LEMMA Step_sleep ==
    ASSUME NEW t \in Thread, Inv1, sleep(t)
    PROVE  Inv1'
<1> USE Basics DEF Inv1
<1> USE DEF sleep,
      mtableVars, threadVars, ctxVars, lockVars
<1>1. TypeOK'
  BY DEF TypeOK, WaitsForAnId, Waiting, PC, threadstate
<1>2. StateOfPc'
  BY DEF TypeOK, StateOfPc
<1>3. WaitsForAnId'
  BY DEF TypeOK, WaitsForAnId, Waiting
<1>4. MidsBelowNext'
  BY DEF TypeOK, MidsBelowNext
<1>5. LockedNamesOwner'
  BY DEF TypeOK, LockedNamesOwner, MidsBelowNext
<1>6. LockOfPc'
  BY DEF TypeOK, LockOfPc
<1>7. VictimsAsleep'
  BY DEF TypeOK, StateOfPc, LockOfPc, VictimsAsleep, NextVictim, OffCpu
<1> QED BY <1>1, <1>2, <1>3, <1>4, <1>5, <1>6, <1>7

(* resume keeps the invariant.                                             *)
LEMMA Step_resume ==
    ASSUME NEW t \in Thread, Inv1, resume(t)
    PROVE  Inv1'
<1> USE Basics DEF Inv1
<1> USE DEF resume,
      mtableVars, threadVars, ctxVars, lockVars
<1>1. TypeOK'
  BY DEF TypeOK, WaitsForAnId, Waiting, PC, threadstate
<1>2. StateOfPc'
  BY DEF TypeOK, StateOfPc
<1>3. WaitsForAnId'
  BY DEF TypeOK, WaitsForAnId, Waiting
<1>4. MidsBelowNext'
  BY DEF TypeOK, MidsBelowNext
<1>5. LockedNamesOwner'
  BY DEF TypeOK, LockedNamesOwner, MidsBelowNext
<1>6. LockOfPc'
  BY DEF TypeOK, LockOfPc
<1>7. VictimsAsleep'
  BY DEF TypeOK, StateOfPc, LockOfPc, VictimsAsleep, NextVictim, OffCpu
<1> QED BY <1>1, <1>2, <1>3, <1>4, <1>5, <1>6, <1>7

(* relock keeps the invariant.                                             *)
LEMMA Step_relock ==
    ASSUME NEW t \in Thread, Inv1, relock(t)
    PROVE  Inv1'
<1> USE Basics DEF Inv1
<1> USE DEF relock, Take, Return,
      mtableVars, threadVars, ctxVars, lockVars
<1>1. TypeOK'
  <2>0. arg[t] \in Id
    BY DEF TypeOK, Waiting, WaitsForAnId
  <2>1. held' \in [Thread -> SUBSET Id]
    BY <2>0 DEF TypeOK, Waiting, WaitsForAnId
  <2>2. pc' \in [Thread -> PC]
    BY DEF TypeOK, Waiting, WaitsForAnId, PC
  <2>3. arg' \in [Thread -> Id \cup {0}]
    BY DEF TypeOK, Waiting, WaitsForAnId
  <2>4. m' \in [Thread -> Slot]
    BY DEF TypeOK, Waiting, WaitsForAnId
  <2> QED BY <2>1, <2>2, <2>3, <2>4 DEF TypeOK
<1>2. StateOfPc'
  BY DEF TypeOK, StateOfPc
<1>3. WaitsForAnId'
  BY DEF TypeOK, WaitsForAnId, Waiting
<1>4. MidsBelowNext'
  BY DEF TypeOK, MidsBelowNext
<1>5. LockedNamesOwner'
  BY DEF TypeOK, LockedNamesOwner, MidsBelowNext
<1>6. LockOfPc'
  BY DEF TypeOK, LockOfPc
<1>7. VictimsAsleep'
  BY SMTT(30) DEF TypeOK, StateOfPc, LockOfPc, VictimsAsleep, NextVictim, OffCpu
<1> QED BY <1>1, <1>2, <1>3, <1>4, <1>5, <1>6, <1>7

(* relock_busy keeps the invariant.                                        *)
LEMMA Step_relock_busy ==
    ASSUME NEW t \in Thread, Inv1, relock_busy(t)
    PROVE  Inv1'
<1> USE Basics DEF Inv1
<1> USE DEF relock_busy,
      mtableVars, threadVars, ctxVars, lockVars
<1>1. TypeOK'
  BY DEF TypeOK, WaitsForAnId, Waiting, PC, threadstate
<1>2. StateOfPc'
  BY DEF TypeOK, StateOfPc
<1>3. WaitsForAnId'
  BY DEF TypeOK, WaitsForAnId, Waiting
<1>4. MidsBelowNext'
  BY DEF TypeOK, MidsBelowNext
<1>5. LockedNamesOwner'
  BY DEF TypeOK, LockedNamesOwner, MidsBelowNext
<1>6. LockOfPc'
  BY DEF TypeOK, LockOfPc
<1>7. VictimsAsleep'
  BY DEF TypeOK, StateOfPc, LockOfPc, VictimsAsleep, NextVictim, OffCpu
<1> QED BY <1>1, <1>2, <1>3, <1>4, <1>5, <1>6, <1>7

(* wakeup keeps the invariant.                                             *)
LEMMA Step_wakeup ==
    ASSUME NEW t \in Thread, Inv1, wakeup(t)
    PROVE  Inv1'
<1> USE Basics DEF Inv1
<1> USE DEF wakeup, Return,
      mtableVars, threadVars, ctxVars, lockVars
<1>1. TypeOK'
  <2>1. tstate' \in [Thread -> threadstate]
    BY DEF TypeOK, Waiting, WaitsForAnId, threadstate
  <2>2. pc' \in [Thread -> PC]
    BY DEF TypeOK, Waiting, WaitsForAnId, PC
  <2>3. arg' \in [Thread -> Id \cup {0}]
    BY DEF TypeOK, Waiting, WaitsForAnId
  <2>4. m' \in [Thread -> Slot]
    BY DEF TypeOK, Waiting, WaitsForAnId
  <2> QED BY <2>1, <2>2, <2>3, <2>4 DEF TypeOK
<1>2. StateOfPc'
  BY DEF TypeOK, StateOfPc
<1>3. WaitsForAnId'
  BY DEF TypeOK, WaitsForAnId, Waiting
<1>4. MidsBelowNext'
  BY DEF TypeOK, MidsBelowNext
<1>5. LockedNamesOwner'
  BY DEF TypeOK, LockedNamesOwner, MidsBelowNext
<1>6. LockOfPc'
  BY DEF TypeOK, LockOfPc
<1>7. VictimsAsleep'
  BY DEF TypeOK, StateOfPc, LockOfPc, VictimsAsleep, NextVictim, OffCpu
<1> QED BY <1>1, <1>2, <1>3, <1>4, <1>5, <1>6, <1>7
=============================================================================
