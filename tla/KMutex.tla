-------------------------------- MODULE KMutex --------------------------------
(***************************************************************************)
(* The kernel's mutexes for threads: mtable and the kthread_mutex_*         *)
(* functions of proc.c, used by the threads of one process.                 *)
(*                                                                         *)
(* mtable is protected by the spin-lock mlock.  A thread that finds a mutex *)
(* locked calls sleep(m, &mlock), which takes ptable.lock while mlock is    *)
(* held.  remove_thread(), which runs with ptable.lock held, frees the      *)
(* mutex the removed thread allocated last, and so takes mlock.  Both locks *)
(* are variables; a step that takes a lock and gives it back is one action. *)
(*                                                                         *)
(* Of the life of threads this module keeps what touches mutexes:           *)
(* kthread_create, kthread_exit, the kthread_join of a thread that ended,   *)
(* and exec()'s kill_other_threads.  Module Proc has the rest.              *)
(***************************************************************************)
EXTENDS Integers, FiniteSets

CONSTANTS NTHREAD,      \* slots of proc.threads
          MAX_MUTEXES,  \* slots of mtable.mutex
          Calls,        \* the system calls that programs make
          MaxMid,       \* bound on nextmid
          MaxTid        \* bound on nexttid

(***************************************************************************)
(* "dealloc" frees a mutex only when no other thread is inside              *)
(* kthread_mutex_lock for it; "dealloc_any" at any time.                    *)
(***************************************************************************)
AllCalls == {"alloc", "lock", "unlock", "dealloc", "dealloc_any",
             "kthread_create", "kthread_exit", "kthread_join", "exec"}

ASSUME SizesAssumption ==
    /\ NTHREAD \in Nat \ {0} /\ MAX_MUTEXES \in Nat \ {0}
    /\ MaxMid \in Nat /\ MaxTid \in Nat

ASSUME CallsAssumption == Calls \subseteq AllCalls

Thread == 0 .. NTHREAD - 1
Slot   == 0 .. MAX_MUTEXES - 1
None   == -1
Id     == 1 .. MaxMid

threadstate == {"TUNUSED", "TSLEEPING", "TRUNNABLE", "TRUNNING", "TZOMBIE"}

(***************************************************************************)
(* Where a thread is: in user mode; in sleep() with mlock held, waiting for *)
(* ptable.lock; in sched(), called by sleep(); back from sleep(), waiting   *)
(* for mlock; in wakeup(), called by unlock; in the critical section that   *)
(* removes threads, or there waiting for mlock; in sched(), called by       *)
(* kill_other_threads().                                                    *)
(***************************************************************************)
PC == {"none", "user", "sleep", "asleep", "relock", "wakeup", "remove",
       "dealloc", "killothers"}

VARIABLES
    mid, mstate, mythread,        \* struct kthread_mutex_t
    nextmid,
    tstate, tid, tkilled, chan,   \* struct thread
    mutex,                        \* struct thread: the slot of t->mutex, or None
    nexttid,
    pc, arg, m,                   \* a thread's context: the id, the slot
    victims, cont,                \*   the threads to remove, where to go then
    mlock, lock,                  \* holders of mtable.mlock and ptable.lock
    held                          \* history: ids whose lock call returned 0

mtableVars == <<mid, mstate, mythread, nextmid>>
threadVars == <<tstate, tid, tkilled, chan, mutex, nexttid>>
ctxVars    == <<pc, arg, m, victims, cont>>
lockVars   == <<mlock, lock>>
vars == <<mtableVars, threadVars, ctxVars, lockVars, held>>

TypeOK ==
    /\ mid \in [Slot -> Id \cup {0}]
    /\ mstate \in [Slot -> {"MUNLOCKED", "MLOCKED"}]
    /\ mythread \in [Slot -> Thread \cup {None}]
    /\ nextmid \in Nat \ {0}
    /\ tstate \in [Thread -> threadstate]
    /\ tid \in [Thread -> Nat]
    /\ tkilled \in [Thread -> BOOLEAN]
    /\ chan \in [Thread -> Slot \cup {None}]
    /\ mutex \in [Thread -> Slot \cup {None}]
    /\ nexttid \in Nat
    /\ pc \in [Thread -> PC]
    /\ arg \in [Thread -> Id \cup {0}]
    /\ m \in [Thread -> Slot]
    /\ victims \in [Thread -> SUBSET Thread]
    /\ cont \in [Thread -> {"user", "killothers"}]
    /\ mlock \in Thread \cup {None}
    /\ lock \in Thread \cup {None}
    /\ held \in [Thread -> SUBSET Id]

(***************************************************************************)
(* One thread, in user mode; no mutex is allocated.                         *)
(***************************************************************************)
Init ==
    /\ mid = [s \in Slot |-> 0]
    /\ mstate = [s \in Slot |-> "MUNLOCKED"]
    /\ mythread = [s \in Slot |-> None]
    /\ nextmid = 1
    /\ tstate = [t \in Thread |-> IF t = 0 THEN "TRUNNING" ELSE "TUNUSED"]
    /\ tid = [t \in Thread |-> IF t = 0 THEN 1 ELSE 0]
    /\ tkilled = [t \in Thread |-> FALSE]
    /\ chan = [t \in Thread |-> None]
    /\ mutex = [t \in Thread |-> None]
    /\ nexttid = 2
    /\ pc = [t \in Thread |-> IF t = 0 THEN "user" ELSE "none"]
    /\ arg = [t \in Thread |-> 0]
    /\ m = [t \in Thread |-> 0]
    /\ victims = [t \in Thread |-> {}]
    /\ cont = [t \in Thread |-> "user"]
    /\ mlock = None /\ lock = None
    /\ held = [t \in Thread |-> {}]
-----------------------------------------------------------------------------
(***************************************************************************)
(* t makes a system call.  A thread marked killed ends instead (trap.c).    *)
(***************************************************************************)
Return(t) ==                                \* its local variables are gone
    /\ pc' = [pc EXCEPT ![t] = "user"]
    /\ arg' = [arg EXCEPT ![t] = 0]
    /\ m' = [m EXCEPT ![t] = 0]

Does(t, call) == pc[t] = "user" /\ ~tkilled[t] /\ call \in Calls

(***************************************************************************)
(* The loops over mtable stop at the first slot with that id; id 0 marks a  *)
(* slot that is free.  A call that finds no such slot returns -1 and        *)
(* changes nothing.                                                         *)
(***************************************************************************)
Finds(s, id) == mid[s] = id /\ \A r \in 0 .. s - 1 : mid[r] # id

Stamp(s) == mid' = [mid EXCEPT ![s] = nextmid]

kthread_mutex_alloc(t, s) ==
    /\ Does(t, "alloc") /\ mlock = None
    /\ nextmid <= MaxMid
    /\ Finds(s, 0)
    /\ Stamp(s)
    /\ mythread' = [mythread EXCEPT ![s] = None]
    /\ mutex' = [mutex EXCEPT ![t] = s]
    /\ mstate' = [mstate EXCEPT ![s] = "MUNLOCKED"]
    /\ nextmid' = nextmid + 1
    /\ UNCHANGED <<tstate, tid, tkilled, chan, nexttid, ctxVars, lockVars, held>>

(***************************************************************************)
(* kthread_mutex_dealloc(id) run by thread t: it fails for a locked mutex,  *)
(* and it is t->mutex of the caller that it clears, whoever allocated the   *)
(* mutex.                                                                   *)
(***************************************************************************)
Dealloc(t, s) ==
    /\ mstate[s] = "MUNLOCKED"
    /\ mid' = [mid EXCEPT ![s] = 0]
    /\ mythread' = [mythread EXCEPT ![s] = None]
    /\ mutex' = [mutex EXCEPT ![t] = None]

Waits(u, id) == pc[u] \in {"sleep", "asleep", "relock"} /\ arg[u] = id

kthread_mutex_dealloc(t, s, id) ==
    /\ \/ Does(t, "dealloc") /\ \A u \in Thread : ~Waits(u, id)
       \/ Does(t, "dealloc_any")
    /\ mlock = None
    /\ Finds(s, id)
    /\ Dealloc(t, s)
    /\ UNCHANGED <<mstate, nextmid, tstate, tid, tkilled, chan, nexttid, ctxVars,
                   lockVars, held>>

(***************************************************************************)
(* kthread_mutex_lock(id): a free mutex is taken; one that the caller owns  *)
(* makes it fail; else the caller, still holding mlock, is in sleep().      *)
(***************************************************************************)
Take_anonymous(t, s, id) ==                            \* mutant: mythread not set
    /\ mstate' = [mstate EXCEPT ![s] = "MLOCKED"]
    /\ mythread' = mythread
    /\ held' = [held EXCEPT ![t] = @ \cup {id}]
Take(t, s, id) ==
    /\ mstate' = [mstate EXCEPT ![s] = "MLOCKED"]
    /\ mythread' = [mythread EXCEPT ![s] = t]
    /\ held' = [held EXCEPT ![t] = @ \cup {id}]

kthread_mutex_lock(t, s, id) ==
    /\ Does(t, "lock") /\ mlock = None
    /\ Finds(s, id)
    /\ mstate[s] = "MUNLOCKED"
    /\ Take(t, s, id)
    /\ UNCHANGED <<mid, nextmid, threadVars, ctxVars, lockVars>>

kthread_mutex_lock_busy(t, s, id) ==
    /\ Does(t, "lock") /\ mlock = None
    /\ Finds(s, id)
    /\ mstate[s] = "MLOCKED" /\ mythread[s] # t
    /\ m' = [m EXCEPT ![t] = s]
    /\ arg' = [arg EXCEPT ![t] = id]
    /\ pc' = [pc EXCEPT ![t] = "sleep"]
    /\ mlock' = t
    /\ UNCHANGED <<mtableVars, threadVars, victims, cont, lock, held>>

(***************************************************************************)
(* sleep(m, &mlock): ptable.lock is taken, mlock released, the thread is    *)
(* asleep and sched() gives ptable.lock up.                                 *)
(***************************************************************************)
sleep(t) ==
    /\ pc[t] = "sleep" /\ lock = None
    /\ mlock' = None
    /\ chan' = [chan EXCEPT ![t] = m[t]]
    /\ tstate' = [tstate EXCEPT ![t] = "TSLEEPING"]
    /\ pc' = [pc EXCEPT ![t] = "asleep"]
    /\ UNCHANGED <<mtableVars, tid, tkilled, mutex, nexttid, arg, m, victims, cont, lock,
                   held>>

(***************************************************************************)
(* The scheduler runs the thread again, woken or marked killed; sleep()     *)
(* returns when it has mlock.                                               *)
(***************************************************************************)
resume(t) ==
    /\ pc[t] = "asleep" /\ lock = None
    /\ tstate[t] = "TRUNNABLE" \/ tkilled[t]
    /\ tstate' = [tstate EXCEPT ![t] = "TRUNNING"]
    /\ chan' = [chan EXCEPT ![t] = None]
    /\ pc' = [pc EXCEPT ![t] = "relock"]
    /\ UNCHANGED <<mtableVars, tid, tkilled, mutex, nexttid, arg, m, victims, cont,
                   lockVars, held>>

(***************************************************************************)
(* The loop of kthread_mutex_lock after sleep(): xchg on the same slot; the *)
(* slot's mid is not looked at again.                                       *)
(***************************************************************************)
relock_if(t) ==                                        \* mutant: if for while
    /\ pc[t] = "relock" /\ mlock = None
    /\ Take(t, m[t], arg[t])
    /\ Return(t)
    /\ UNCHANGED <<mid, nextmid, threadVars, victims, cont, lockVars>>
relock(t) ==
    /\ pc[t] = "relock" /\ mlock = None
    /\ mstate[m[t]] = "MUNLOCKED"
    /\ Take(t, m[t], arg[t])
    /\ Return(t)
    /\ UNCHANGED <<mid, nextmid, threadVars, victims, cont, lockVars>>

relock_busy(t) ==
    /\ pc[t] = "relock" /\ mlock = None
    /\ mstate[m[t]] = "MLOCKED"
    /\ pc' = [pc EXCEPT ![t] = "sleep"]
    /\ mlock' = t
    /\ UNCHANGED <<mtableVars, threadVars, arg, m, victims, cont, lock, held>>

(***************************************************************************)
(* kthread_mutex_unlock(id): only for the thread whose tid is that of the   *)
(* thread slot the mutex names.  mlock is released before wakeup(m).        *)
(***************************************************************************)
Owns(t, s) ==
    /\ mstate[s] = "MLOCKED" /\ mythread[s] # None
    /\ tid[mythread[s]] = tid[t]

kthread_mutex_unlock(t, s, id) ==
    /\ Does(t, "unlock") /\ mlock = None
    /\ Finds(s, id) /\ Owns(t, s)
    /\ mythread' = [mythread EXCEPT ![s] = None]
    /\ mstate' = [mstate EXCEPT ![s] = "MUNLOCKED"]
    /\ m' = [m EXCEPT ![t] = s]
    /\ held' = [held EXCEPT ![t] = @ \ {id}]
    /\ pc' = [pc EXCEPT ![t] = "wakeup"]
    /\ UNCHANGED <<mid, nextmid, threadVars, arg, victims, cont, lockVars>>

wakeup_lost(t) ==                                      \* mutant: wakes nobody
    /\ pc[t] = "wakeup" /\ lock = None
    /\ Return(t)
    /\ UNCHANGED <<mtableVars, threadVars, victims, cont, lockVars, held>>
wakeup(t) ==
    /\ pc[t] = "wakeup" /\ lock = None
    /\ tstate' = [u \in Thread |->
                    IF tstate[u] = "TSLEEPING" /\ chan[u] = m[t]
                    THEN "TRUNNABLE" ELSE tstate[u]]
    /\ Return(t)
    /\ UNCHANGED <<mtableVars, tid, tkilled, chan, mutex, nexttid, victims, cont,
                   lockVars, held>>
-----------------------------------------------------------------------------
(***************************************************************************)
(* kthread_create(): the first unused slot.  t->mutex is not cleared.       *)
(***************************************************************************)
kthread_create(t, u) ==
    /\ Does(t, "kthread_create") /\ lock = None
    /\ nexttid <= MaxTid
    /\ tstate[u] = "TUNUSED" /\ \A v \in 0 .. u - 1 : tstate[v] # "TUNUSED"
    /\ tid' = [tid EXCEPT ![u] = nexttid]
    /\ tstate' = [tstate EXCEPT ![u] = "TRUNNING"]
    /\ pc' = [pc EXCEPT ![u] = "user"]
    /\ nexttid' = nexttid + 1
    /\ UNCHANGED <<mtableVars, tkilled, chan, mutex, arg, m, victims, cont, lockVars,
                   held>>

(***************************************************************************)
(* kthread_exit(), by choice or because the thread is marked killed.  The   *)
(* last thread would end the process, which is outside this module.         *)
(***************************************************************************)
Alive(u) == tstate[u] \notin {"TUNUSED", "TZOMBIE"}

kthread_exit(t) ==
    /\ pc[t] = "user" /\ lock = None
    /\ tkilled[t] \/ "kthread_exit" \in Calls
    /\ \E u \in Thread \ {t} : Alive(u)
    /\ tstate' = [tstate EXCEPT ![t] = "TZOMBIE"]
    /\ pc' = [pc EXCEPT ![t] = "none"]
    /\ held' = [held EXCEPT ![t] = {}]
    /\ UNCHANGED <<mtableVars, tid, tkilled, chan, mutex, nexttid, arg, m, victims, cont,
                   lockVars>>

(***************************************************************************)
(* kthread_join() of a thread that ended: with ptable.lock held it is       *)
(* removed.                                                                 *)
(***************************************************************************)
kthread_join(t, u) ==
    /\ Does(t, "kthread_join") /\ lock = None
    /\ tstate[u] = "TZOMBIE"
    /\ lock' = t
    /\ victims' = [victims EXCEPT ![t] = {u}]
    /\ cont' = [cont EXCEPT ![t] = "user"]
    /\ pc' = [pc EXCEPT ![t] = "remove"]
    /\ UNCHANGED <<mtableVars, threadVars, arg, m, mlock, held>>

(***************************************************************************)
(* A round of kill_other_threads(), called by exec(), visits the others in  *)
(* the order of their slots.  One that is not asleep is only marked killed; *)
(* the others are removed.  exec() goes on when a round finds nobody.       *)
(***************************************************************************)
OtherThreads(t) == {u \in Thread : tid[u] # tid[t] /\ tstate[u] # "TUNUSED"}

kill_other_threads(t) ==
    /\ Does(t, "exec") \/ pc[t] = "killothers"
    /\ lock = None
    /\ IF OtherThreads(t) = {}
       THEN /\ pc' = [pc EXCEPT ![t] = "user"]
            /\ UNCHANGED <<victims, cont, lock>>
       ELSE /\ victims' = [victims EXCEPT ![t] = OtherThreads(t)]
            /\ cont' = [cont EXCEPT ![t] = "killothers"]
            /\ lock' = t
            /\ pc' = [pc EXCEPT ![t] = "remove"]
    /\ UNCHANGED <<mtableVars, threadVars, arg, m, mlock, held>>

NextVictim(t, u) == u \in victims[t] /\ \A v \in victims[t] : u <= v

OffCpu_any(u) == TRUE                                  \* mutant: state not tested
OffCpu(u) == tstate[u] \in {"TSLEEPING", "TZOMBIE"}

mark_killed(t, u) ==
    /\ pc[t] = "remove" /\ NextVictim(t, u) /\ ~OffCpu(u)
    /\ tkilled' = [tkilled EXCEPT ![u] = TRUE]
    /\ victims' = [victims EXCEPT ![t] = @ \ {u}]
    /\ UNCHANGED <<mtableVars, tstate, tid, chan, mutex, nexttid, pc, arg, m, cont,
                   lockVars, held>>

(***************************************************************************)
(* remove_thread(u).  t->mutex->mid is read before mlock is taken.  When    *)
(* nobody is left ptable.lock is released: the joiner is back in user mode, *)
(* the caller of exec() starts another round.                               *)
(***************************************************************************)
Clear(t, u) ==
    /\ tid' = [tid EXCEPT ![u] = 0]
    /\ tstate' = [tstate EXCEPT ![u] = "TUNUSED"]
    /\ tkilled' = [tkilled EXCEPT ![u] = FALSE]
    /\ held' = [held EXCEPT ![u] = {}]
    /\ arg' = [arg EXCEPT ![u] = 0, ![t] = 0]
    /\ m' = [m EXCEPT ![u] = 0]
    /\ pc' = [pc EXCEPT ![u] = "none", ![t] = "remove"]
    /\ victims' = [victims EXCEPT ![t] = @ \ {u}]

remove_thread(t, u) ==
    /\ pc[t] = "remove" /\ NextVictim(t, u) /\ OffCpu(u)
    /\ mutex[u] = None
    /\ Clear(t, u)
    /\ UNCHANGED <<mtableVars, chan, mutex, nexttid, cont, lockVars>>

remove_thread_mutex(t, u) ==
    /\ pc[t] = "remove" /\ NextVictim(t, u) /\ OffCpu(u)
    /\ mutex[u] # None
    /\ arg' = [arg EXCEPT ![t] = mid[mutex[u]]]
    /\ pc' = [pc EXCEPT ![t] = "dealloc"]
    /\ UNCHANGED <<mtableVars, threadVars, m, victims, cont, lockVars, held>>

remove_thread_dealloc(t, u) ==
    /\ pc[t] = "dealloc" /\ NextVictim(t, u) /\ mlock = None
    /\ \/ \E s \in Slot : Finds(s, arg[t]) /\ Dealloc(t, s)
       \/ /\ \A s \in Slot : Finds(s, arg[t]) => mstate[s] = "MLOCKED"
          /\ UNCHANGED <<mid, mythread, mutex>>
    /\ Clear(t, u)
    /\ UNCHANGED <<mstate, nextmid, chan, nexttid, cont, lockVars>>

removed(t) ==
    /\ pc[t] = "remove" /\ victims[t] = {}
    /\ lock' = None
    /\ pc' = [pc EXCEPT ![t] = cont[t]]
    /\ UNCHANGED <<mtableVars, threadVars, arg, m, victims, cont, mlock, held>>
-----------------------------------------------------------------------------
LockSteps(t) ==
    \/ \E s \in Slot : kthread_mutex_alloc(t, s)
    \/ \E s \in Slot, id \in Id : \/ kthread_mutex_dealloc(t, s, id)
                                  \/ kthread_mutex_lock(t, s, id)
                                  \/ kthread_mutex_lock_busy(t, s, id)
                                  \/ kthread_mutex_unlock(t, s, id)
    \/ sleep(t) \/ resume(t) \/ relock(t) \/ relock_busy(t) \/ wakeup(t)

ThreadSteps(t) ==
    \/ kthread_exit(t) \/ kill_other_threads(t) \/ removed(t)
    \/ \E u \in Thread : \/ kthread_create(t, u)
                         \/ kthread_join(t, u)
                         \/ mark_killed(t, u)
                         \/ remove_thread(t, u)
                         \/ remove_thread_mutex(t, u)
                         \/ remove_thread_dealloc(t, u)

Next == \E t \in Thread : LockSteps(t) \/ ThreadSteps(t)

Spec == Init /\ [][Next]_vars

(***************************************************************************)
(* A thread inside kthread_mutex_lock or unlock goes on: the scheduler runs *)
(* it when it is runnable, and it gets a spin-lock that is free again and   *)
(* again.  Nothing is assumed of the calls that programs make.              *)
(***************************************************************************)
InKernel(t) == sleep(t) \/ resume(t) \/ relock(t) \/ relock_busy(t) \/ wakeup(t)

FairSpec == Spec /\ \A t \in Thread : SF_vars(InKernel(t))
-----------------------------------------------------------------------------
(***************************************************************************)
(* No two threads hold the same mutex: their calls of kthread_mutex_lock    *)
(* returned 0 and neither has unlocked it.                                  *)
(***************************************************************************)
MutualExclusion ==
    \A t, u \in Thread : t # u => held[t] \cap held[u] = {}

(***************************************************************************)
(* A mutex that a thread holds exists, is locked, and names that thread; a  *)
(* locked mutex is held by the thread it names.                             *)
(***************************************************************************)
OwnerHolds ==
    /\ \A t \in Thread : \A id \in held[t] :
         \E s \in Slot : mid[s] = id /\ mstate[s] = "MLOCKED" /\ mythread[s] = t
    /\ \A s \in Slot : mstate[s] = "MLOCKED" =>
         mythread[s] # None /\ mid[s] \in held[mythread[s]]

(***************************************************************************)
(* No wakeup is lost: when a thread sleeps on a mutex that is not locked,   *)
(* an unlock of that mutex is on its way to wakeup().                       *)
(***************************************************************************)
NoLostWakeup ==
    \A t \in Thread :
       (tstate[t] = "TSLEEPING" /\ mstate[m[t]] = "MUNLOCKED")
          => \E u \in Thread : pc[u] = "wakeup" /\ m[u] = m[t]

(***************************************************************************)
(* A mutex that is free while threads wait for it is taken, by one of them  *)
(* or by a thread that came later: the wakeup of unlock reaches somebody.   *)
(***************************************************************************)
WaitedFor(s) == \E t \in Thread : pc[t] \in {"sleep", "asleep", "relock"} /\ m[t] = s

FreeMutexTaken ==
    \A s \in Slot : (mstate[s] = "MUNLOCKED" /\ WaitedFor(s)) ~> mstate[s] = "MLOCKED"

(***************************************************************************)
(* The threads' calls of lock and unlock implement the abstract lock: who   *)
(* owns a mutex is given by the calls that have returned 0.                 *)
(***************************************************************************)
Owner(id) == IF \E t \in Thread : id \in held[t]
             THEN CHOOSE t \in Thread : id \in held[t]
             ELSE None

Abs == INSTANCE Mutex WITH Lock <- Id, NoOwner <- None,
                           owner <- [id \in Id |-> Owner(id)]

ImplementsMutex == Abs!Spec

(***************************************************************************)
(* A mutex that is allocated and locked names its owner, so the test        *)
(* m->mythread->tid of kthread_mutex_unlock never follows a null pointer,   *)
(* and no id stands for two slots: also when threads that hold or wait for  *)
(* mutexes are removed.                                                     *)
(***************************************************************************)
LockedNamesOwner ==
    \A s \in Slot : mid[s] # 0 =>
       /\ mstate[s] = "MLOCKED" => mythread[s] # None
       /\ \A r \in Slot : mid[r] = mid[s] => r = s

(***************************************************************************)
(* The thread that remove_thread is about to clear is off the cpu and stays *)
(* there, also while the remover waits for mlock, because the remover holds *)
(* ptable.lock: the kernel stack that is freed is not in use.               *)
(***************************************************************************)
VictimsOffCpu ==
    \A t \in Thread :
       /\ pc[t] \in {"remove", "dealloc"} <=> lock = t
       /\ \A u \in Thread :
            (pc[t] = "dealloc" /\ NextVictim(t, u))
               => tstate[u] \in {"TSLEEPING", "TZOMBIE"} /\ u # t
=============================================================================
