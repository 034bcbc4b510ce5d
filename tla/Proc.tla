--------------------------------- MODULE Proc ---------------------------------
(***************************************************************************)
(* Processes and kernel threads: the ptable of proc.c, the scheduler, the   *)
(* operations that create, end, join and reap threads and processes, the    *)
(* checks trap.c makes of the killed flags, and a system call that does     *)
(* disk I/O under a sleep-lock (sleeplock.c).                               *)
(*                                                                         *)
(* One action is one critical section of ptable.lock, or one unlocked step  *)
(* between two of them.  The lock itself is a variable because sched()      *)
(* hands it over: a thread that slept inside wait(), kthread_join() or      *)
(* kill_other_threads() resumes with the lock held, and looks at the table  *)
(* again before anybody else can.                                           *)
(*                                                                         *)
(* kthread mutexes are the subject of module KMutex: no thread of this      *)
(* module allocates one, so t->mutex is 0 in every state and remove_thread  *)
(* has no mutex to free.                                                    *)
(***************************************************************************)
EXTENDS Integers, FiniteSets, FiniteSetsExt

CONSTANTS NPROC,      \* slots of ptable.proc
          NTHREAD,    \* slots of proc.threads
          CPU,        \* the processors
          Calls,      \* what user programs do: system calls, and "fault"
          KillPids,   \* the pids they pass to kill()
          MaxIds      \* bound on nextpid + nexttid

AllCalls == {"fork", "exit", "wait", "kill", "exec", "kthread_create",
             "kthread_exit", "kthread_join", "io", "fault", "nomem", "shared"}

ASSUME SizesAssumption ==
    /\ NPROC \in Nat \ {0} /\ NTHREAD \in Nat \ {0} /\ IsFiniteSet(CPU) /\ CPU # {}
    /\ MaxIds \in Nat

ASSUME CallsAssumption == Calls \subseteq AllCalls

(***************************************************************************)
(* init (pid 1) never ends: it does not call exit(), and nobody kills it.   *)
(***************************************************************************)
ASSUME KillPidsAssumption == KillPids \subseteq (Nat \ {1})

ProcSlot == 0 .. NPROC - 1
Thread   == ProcSlot \X (0 .. NTHREAD - 1)

initproc == 0
NoProc   == -1
NoThread == <<-1, -1>>

ProcOf(t) == t[1]

(***************************************************************************)
(* Sleep channels are addresses; the ones used here are those of a struct   *)
(* proc (wait), a struct thread (join), the sleep-lock and the disk buffer. *)
(***************************************************************************)
NoChan        == <<"none", 0, 0>>
ProcChan(p)   == <<"proc", p, 0>>
ThreadChan(t) == <<"thread", t[1], t[2]>>
SleeplockChan == <<"sleeplock", 0, 0>>
BufChan       == <<"buf", 0, 0>>

(***************************************************************************)
(* pc says where a thread is: in user mode, at a point of the kernel        *)
(* between two critical sections, or inside sched(), with what it does when *)
(* it comes back in cont.                                                   *)
(***************************************************************************)
VARIABLES
    pstate, pid, parent, pkilled,          \* struct proc
    tstate, tid, tkilled, chan, kstack,    \* struct thread
    pc, cont, joining,                     \* its kernel context
    thread,                                \* struct cpu: c->thread
    lock,                                  \* holder of ptable.lock
    nextpid, nexttid, helper,
    shell,                                 \* pid of init.c: the child it waits for
    slock,                                 \* tid that holds the sleep-lock, or 0
    disk,                                  \* request for the buffer it protects
    panicked

procVars   == <<pstate, pid, parent, pkilled>>
threadVars == <<tstate, tid, tkilled, chan, kstack>>
ctxVars    == <<pc, cont, joining>>
cpuVars    == <<thread, lock>>
idVars     == <<nextpid, nexttid, helper, shell>>
ioVars     == <<slock, disk>>
vars == <<procVars, threadVars, ctxVars, cpuVars, idVars, ioVars, panicked>>

-----------------------------------------------------------------------------

(***************************************************************************)
(* userinit() has made the first process; nothing has run yet.              *)
(***************************************************************************)
userinit ==
    LET first == <<initproc, 0>> IN
    /\ pstate  = [p \in ProcSlot |-> IF p = initproc THEN "PUSED" ELSE "PUNUSED"]
    /\ pid     = [p \in ProcSlot |-> IF p = initproc THEN 1 ELSE 0]
    /\ parent  = [p \in ProcSlot |-> NoProc]
    /\ pkilled = [p \in ProcSlot |-> FALSE]
    /\ tstate  = [t \in Thread |-> IF t = first THEN "TRUNNABLE" ELSE "TUNUSED"]
    /\ tid     = [t \in Thread |-> IF t = first THEN 1 ELSE 0]
    /\ tkilled = [t \in Thread |-> FALSE]
    /\ chan    = [t \in Thread |-> NoChan]
    /\ kstack  = [t \in Thread |-> t = first]
    /\ pc      = [t \in Thread |-> IF t = first THEN "forkret" ELSE "none"]
    /\ cont    = [t \in Thread |-> "none"]
    /\ joining = [t \in Thread |-> [slot |-> 0, id |-> 0]]
    /\ thread  = [c \in CPU |-> NoThread]
    /\ lock = NoThread
    /\ nextpid = 2 /\ nexttid = 2 /\ helper = 1 % NPROC /\ shell = 0
    /\ slock = 0 /\ disk = "idle" /\ panicked = FALSE

Init == userinit
-----------------------------------------------------------------------------
Running(t)    == tstate[t] = "TRUNNING"
Siblings(t)   == {u \in Thread : ProcOf(u) = ProcOf(t) /\ u # t}
Children(p)   == {q \in ProcSlot : parent[q] = p}
Put(f, S, v)  == [x \in DOMAIN f |-> IF x \in S THEN v ELSE f[x]]
IdsLeft(n)    == nextpid + nexttid + n <= MaxIds
Goto(t, l)    == pc' = [pc EXCEPT ![t] = l]

(***************************************************************************)
(* t may enter a critical section of ptable.lock, or is in one because the  *)
(* scheduler switched to it.                                                *)
(***************************************************************************)
Locked(t) == ~panicked /\ Running(t) /\ lock \in {NoThread, t}

(***************************************************************************)
(* t at kernel point l, holding no spin-lock.  panic() stops every cpu.     *)
(***************************************************************************)
Unlocked(t) == ~panicked /\ Running(t) /\ lock # t
At(t, l)    == Unlocked(t) /\ pc[t] = l

(***************************************************************************)
(* User programs: init (init.c) forks, and waits until that child has ended *)
(* before it forks again; any other thread makes any of the calls the model *)
(* allows.  Unless Calls has "shared", a thread does *)
(* disk I/O only while it is the only one of its process: the others could  *)
(* end it in its sleep (proc.c:370), and the sleep-lock would be lost.      *)
(***************************************************************************)
Does(t, call) ==
    /\ call \in Calls
    /\ ProcOf(t) = initproc => call = IF shell = 0 THEN "fork" ELSE "wait"
    /\ call = "io" /\ "shared" \notin Calls =>
         \A u \in Siblings(t) : tstate[u] \in {"TUNUSED", "TZOMBIE"}

(***************************************************************************)
(* sched(): t leaves its cpu, whose scheduler now holds ptable.lock and     *)
(* releases it at the end of its scan at the latest.                        *)
(***************************************************************************)
sched(t) ==
    /\ thread' = [c \in CPU |-> IF thread[c] = t THEN NoThread ELSE thread[c]]
    /\ lock' = NoThread

(***************************************************************************)
(* The table of thread states after wakeup1(ch), which looks at all         *)
(* processes, and after wakeup2(p, ch), which looks at one.                 *)
(***************************************************************************)
wakeup1_lost(ts, ch) == ts                            \* mutant: wakes nobody
wakeup1(ts, ch) ==
    [u \in Thread |-> IF ts[u] = "TSLEEPING" /\ chan[u] = ch
                      THEN "TRUNNABLE" ELSE ts[u]]
wakeup2_lost(ts, p, ch) == ts                         \* mutant: wakes nobody
wakeup2(ts, p, ch) ==
    [u \in Thread |-> IF ProcOf(u) = p /\ ts[u] = "TSLEEPING" /\ chan[u] = ch
                      THEN "TRUNNABLE" ELSE ts[u]]

(***************************************************************************)
(* sleep(ch, lk) as seen by the others: with ptable.lock held the thread    *)
(* gives up lk and is asleep.                                               *)
(***************************************************************************)
sleep(t, ch) ==
    /\ tstate' = [tstate EXCEPT ![t] = "TSLEEPING"]
    /\ chan' = [chan EXCEPT ![t] = ch]
    /\ sched(t)

(***************************************************************************)
(* remove_thread(t) for every t in S: ts is the table of thread states it   *)
(* starts from.                                                             *)
(***************************************************************************)
remove_thread(S, ts, kd) ==
    /\ tstate'  = Put(ts, S, "TUNUSED")
    /\ tkilled' = Put(kd, S, FALSE)
    /\ kstack'  = Put(kstack, S, FALSE)
    /\ tid'     = Put(tid, S, 0)
-----------------------------------------------------------------------------
(***************************************************************************)
(* The scheduler: a free cpu switches to a thread it finds runnable.  A     *)
(* sleeping thread that is marked killed counts as runnable.  The code      *)
(* scans the table in order; here the choice is free.                       *)
(***************************************************************************)
CanRun(t) == tstate[t] = "TRUNNABLE" \/ (tstate[t] = "TSLEEPING" /\ tkilled[t])

scheduler(c, t) ==
    /\ ~panicked /\ lock = NoThread /\ thread[c] = NoThread
    /\ pstate[ProcOf(t)] = "PUSED"
    /\ CanRun(t)
    /\ thread' = [thread EXCEPT ![c] = t]
    /\ tstate' = [tstate EXCEPT ![t] = "TRUNNING"]
    /\ lock' = t
    /\ panicked' = ~kstack[t]              \* switchuvm: no kstack
    /\ UNCHANGED <<procVars, tid, tkilled, chan, kstack, ctxVars, idVars, ioVars>>

(***************************************************************************)
(* The end of sched() in forkret, yield and a sleep() whose lock is not     *)
(* ptable.lock.  A thread that left for good must not come back.            *)
(***************************************************************************)
resume(t) ==
    /\ Locked(t) /\ lock = t
    /\ pc[t] \in {"forkret", "yield", "slept", "dead"}
    /\ lock' = NoThread
    /\ Goto(t, IF pc[t] = "forkret" THEN "user" ELSE cont[t])
    /\ cont' = [cont EXCEPT ![t] = "none"]
    /\ chan' = IF pc[t] = "slept" THEN [chan EXCEPT ![t] = NoChan] ELSE chan
    /\ panicked' = (pc[t] = "dead")        \* zombie exit
    /\ UNCHANGED <<procVars, tstate, tid, tkilled, kstack, joining, thread,
                   idVars, ioVars>>

(***************************************************************************)
(* trap(), system call: the killed flags are looked at before and after     *)
(* the call, the thread's first.                                            *)
(***************************************************************************)
KilledOr(t, l) == IF tkilled[t] THEN "kthread_exit"
                  ELSE IF pkilled[ProcOf(t)] THEN "exit" ELSE l

trap_syscall(t) ==
    /\ At(t, "user")
    /\ \E call \in Calls \ {"fault", "nomem", "shared"} : Does(t, call)
    /\ Goto(t, KilledOr(t, "syscall"))
    /\ UNCHANGED <<procVars, threadVars, cont, joining, cpuVars, idVars, ioVars,
                   panicked>>

trap_sysret(t) ==
    /\ At(t, "sysret")
    /\ Goto(t, KilledOr(t, "user"))
    /\ UNCHANGED <<procVars, threadVars, cont, joining, cpuVars, idVars, ioVars,
                   panicked>>

(***************************************************************************)
(* trap(), timer interrupt: in user mode the killed flags are looked at,    *)
(* the process's first; a thread that goes on gives up the cpu, also when   *)
(* the interrupt found it in the kernel.                                    *)
(***************************************************************************)
yield(t) ==
    /\ Locked(t)
    /\ tstate' = [tstate EXCEPT ![t] = "TRUNNABLE"]
    /\ Goto(t, "yield")
    /\ cont' = [cont EXCEPT ![t] = IF pc[t] = "user" THEN "trapret" ELSE pc[t]]
    /\ sched(t)
    /\ UNCHANGED <<procVars, tid, tkilled, chan, kstack, joining, idVars,
                   ioVars, panicked>>

trap_timer(t) ==
    /\ Unlocked(t) /\ pc[t] # "trapret"
    /\ IF pc[t] = "user" /\ (pkilled[ProcOf(t)] \/ tkilled[t])
       THEN /\ Goto(t, IF pkilled[ProcOf(t)] THEN "exit" ELSE "kthread_exit")
            /\ UNCHANGED <<procVars, threadVars, cont, joining, cpuVars, idVars,
                           ioVars, panicked>>
       ELSE yield(t)

trap_return(t) ==
    /\ At(t, "trapret")
    /\ Goto(t, IF tkilled[t] THEN "exit" ELSE "user")
    /\ UNCHANGED <<procVars, threadVars, cont, joining, cpuVars, idVars, ioVars,
                   panicked>>

(***************************************************************************)
(* trap(), any other exception in user mode: the process is killed.         *)
(***************************************************************************)
trap_fault(t) ==
    /\ At(t, "user") /\ Does(t, "fault")
    /\ pkilled' = [pkilled EXCEPT ![ProcOf(t)] = TRUE]
    /\ Goto(t, "exit")
    /\ UNCHANGED <<pstate, pid, parent, threadVars, cont, joining, cpuVars,
                   idVars, ioVars, panicked>>
-----------------------------------------------------------------------------
(***************************************************************************)
(* fork().  allocthread takes the first unused slot from helper on, and     *)
(* from the start of the table if there is none.  It gives the slot a pid,  *)
(* and thread 0 a tid, before it knows whether there is memory; killed is   *)
(* left as it was.                                                          *)
(***************************************************************************)
Unused == {p \in ProcSlot : pstate[p] = "PUNUSED"}
allocslot == LET above == {p \in Unused : p >= helper}
             IN  Min(IF above # {} THEN above ELSE Unused)

allocthread(p) ==
    /\ helper'  = IF helper = NPROC - 1 THEN 0 ELSE helper + 1
    /\ pid'     = [pid EXCEPT ![p] = nextpid]
    /\ tid'     = [tid EXCEPT ![<<p, 0>>] = nexttid]
    /\ nextpid' = nextpid + 1
    /\ nexttid' = nexttid + 1

fork(t) ==
    /\ At(t, "syscall") /\ Locked(t) /\ Does(t, "fork")
    /\ Goto(t, "sysret")
    /\ \/ /\ Unused = {}
          /\ UNCHANGED <<procVars, threadVars, idVars>>
       \/ /\ Unused # {} /\ "nomem" \in Calls      \* kalloc or copyuvm fails
          /\ ProcOf(t) # initproc                  \* init would exit
          /\ IdsLeft(2)
          /\ allocthread(allocslot)
          /\ UNCHANGED <<pstate, parent, pkilled, tstate, tkilled, chan, kstack, shell>>
    /\ UNCHANGED <<cont, joining, cpuVars, ioVars, panicked>>

fork_child(t) ==
    /\ At(t, "syscall") /\ Locked(t) /\ Does(t, "fork")
    /\ IdsLeft(2)
    /\ Unused # {}
    /\ LET p == allocslot
           u == <<p, 0>>
       IN  /\ allocthread(p)
           /\ parent' = [parent EXCEPT ![p] = ProcOf(t)]
           /\ shell' = IF ProcOf(t) = initproc THEN nextpid ELSE shell
           /\ pstate' = [pstate EXCEPT ![p] = "PUSED"]
           /\ tstate' = [tstate EXCEPT ![u] = "TRUNNABLE"]
           /\ kstack' = [kstack EXCEPT ![u] = TRUE]
           /\ pc' = [pc EXCEPT ![t] = "sysret", ![u] = "forkret"]
           /\ cont' = [cont EXCEPT ![u] = "none"]
    /\ UNCHANGED <<pkilled, tkilled, chan, joining, cpuVars, ioVars, panicked>>

(***************************************************************************)
(* kthread_create(): the first unused slot of the process; again the tid is *)
(* given before the kernel stack is there.                                  *)
(***************************************************************************)
Free(t) == {u \in Thread : ProcOf(u) = ProcOf(t) /\ tstate[u] = "TUNUSED"}
FirstFree(t) == <<ProcOf(t), Min({u[2] : u \in Free(t)})>>

kthread_create_fails(t) ==
    /\ At(t, "syscall") /\ Locked(t) /\ Does(t, "kthread_create")
    /\ \/ /\ Free(t) = {}
          /\ UNCHANGED <<tid, nexttid>>
       \/ /\ Free(t) # {} /\ "nomem" \in Calls /\ IdsLeft(1)
          /\ tid' = [tid EXCEPT ![FirstFree(t)] = nexttid]
          /\ nexttid' = nexttid + 1
    /\ Goto(t, "sysret")
    /\ UNCHANGED <<procVars, tstate, tkilled, chan, kstack, cont, joining,
                   cpuVars, nextpid, helper, shell, ioVars, panicked>>

kthread_create(t) ==
    /\ At(t, "syscall") /\ Locked(t) /\ Does(t, "kthread_create")
    /\ IdsLeft(1)
    /\ Free(t) # {}
    /\ LET u == FirstFree(t)
       IN  /\ tid' = [tid EXCEPT ![u] = nexttid]
           /\ tstate' = [tstate EXCEPT ![u] = "TRUNNABLE"]
           /\ kstack' = [kstack EXCEPT ![u] = TRUE]
           /\ pc' = [pc EXCEPT ![t] = "sysret", ![u] = "forkret"]
           /\ cont' = [cont EXCEPT ![u] = "none"]
    /\ nexttid' = nexttid + 1
    /\ UNCHANGED <<procVars, tkilled, chan, joining, cpuVars, nextpid, helper,
                   shell, ioVars, panicked>>

(***************************************************************************)
(* kill(): marks the first slot with that pid, whatever its state, and      *)
(* wakes nobody.                                                            *)
(***************************************************************************)
kill(t, id) ==
    /\ At(t, "syscall") /\ Locked(t) /\ Does(t, "kill")
    /\ LET match == {p \in ProcSlot : pid[p] = id}
       IN  pkilled' = IF match = {} THEN pkilled
                      ELSE [pkilled EXCEPT ![Min(match)] = TRUE]
    /\ Goto(t, "sysret")
    /\ UNCHANGED <<pstate, pid, parent, threadVars, cont, joining, cpuVars,
                   idVars, ioVars, panicked>>
-----------------------------------------------------------------------------
(***************************************************************************)
(* exit() goes to the point where it takes ptable.lock, to which trap()     *)
(* also sends threads that are killed; a read or write to the sleep-lock it *)
(* needs.                                                                   *)
(***************************************************************************)
enter(t, call) ==
    /\ At(t, "syscall") /\ Does(t, call)
    /\ Goto(t, IF call = "io" THEN "acquiresleep" ELSE call)
    /\ UNCHANGED <<procVars, threadVars, cont, joining, cpuVars, idVars, ioVars,
                   panicked>>

(***************************************************************************)
(* kill_other_threads(), called by exit() and by exec().  A caller that is  *)
(* itself marked killed becomes a zombie.  init must not come here from     *)
(* exit().                                                                  *)
(***************************************************************************)
Execs(t)     == pc[t] = "syscall" /\ Does(t, "exec")
InitExits(t) == pc[t] = "exit" /\ ProcOf(t) = initproc

kill_other_threads_killed(t) ==
    /\ pc[t] = "exit" \/ Execs(t)
    /\ Locked(t) /\ tkilled[t]
    /\ tstate' = [wakeup1(tstate, ThreadChan(t)) EXCEPT ![t] = "TZOMBIE"]
    /\ Goto(t, "dead")
    /\ sched(t)
    /\ panicked' = InitExits(t)
    /\ UNCHANGED <<procVars, tid, tkilled, chan, kstack, cont, joining, idVars,
                   ioVars>>

(***************************************************************************)
(* One round of its loop: every other thread is marked killed, and removed  *)
(* if it is asleep or a zombie.  The caller gives up the cpu and looks      *)
(* again, until there is no other thread.                                   *)
(***************************************************************************)
Others_offcpu(t) == {u \in Thread : /\ ProcOf(u) = ProcOf(t)   \* mutant
                                    /\ tid[u] # tid[t]
                                    /\ tstate[u] \notin {"TUNUSED", "TRUNNING"}}
Others(t) == {u \in Thread : /\ ProcOf(u) = ProcOf(t)
                             /\ tid[u] # tid[t]
                             /\ tstate[u] # "TUNUSED"}

KillRound(t) ==
    /\ Locked(t)
    /\ \/ pc[t] = "killothers"
       \/ (pc[t] = "exit" \/ Execs(t)) /\ ~tkilled[t]

Removable_all(t) == Others(t)                         \* mutant: also running ones
Removable(t) == {u \in Others(t) : tstate[u] \in {"TSLEEPING", "TZOMBIE"}}

Marked(t) == Put(tkilled, Others(t), TRUE)

AfterKill(t) == CASE pc[t] = "exit" -> "safe_exit"
                  [] pc[t] = "syscall" -> "execbody"
                  [] OTHER -> cont[t]

kill_other_threads_round(t) ==
    /\ KillRound(t) /\ Others(t) # {}
    /\ remove_thread(Removable(t), [tstate EXCEPT ![t] = "TRUNNABLE"], Marked(t))
    /\ cont' = [cont EXCEPT ![t] = AfterKill(t)]
    /\ Goto(t, "killothers")
    /\ sched(t)
    /\ panicked' = InitExits(t)
    /\ UNCHANGED <<procVars, chan, joining, idVars, ioVars>>

kill_other_threads_done(t) ==
    /\ KillRound(t) /\ Others(t) = {}
    /\ Goto(t, AfterKill(t))
    /\ cont' = [cont EXCEPT ![t] = "none"]
    /\ lock' = NoThread
    /\ panicked' = InitExits(t)
    /\ UNCHANGED <<procVars, threadVars, joining, thread, idVars, ioVars>>

(***************************************************************************)
(* The rest of exec(): the new image replaces the old one, or cannot be     *)
(* read and the old one stays; the siblings are gone either way.            *)
(***************************************************************************)
exec(t) ==
    /\ At(t, "execbody")
    /\ Goto(t, "sysret")
    /\ UNCHANGED <<procVars, threadVars, cont, joining, cpuVars, idVars, ioVars,
                   panicked>>

(***************************************************************************)
(* safe_exit(): the parent is woken, the children pass to init, which is    *)
(* woken if one of them is a zombie, and the process is a zombie.  Closing  *)
(* the files and the directory changes nothing that is modelled here.       *)
(***************************************************************************)
Adopted_none(p) == parent                             \* mutant: children stay
Adopted(p) == Put(parent, Children(p), initproc)

safe_exit(t) ==
    /\ At(t, "safe_exit") /\ Locked(t)
    /\ LET p     == ProcOf(t)
           woken == wakeup1(tstate, ProcChan(parent[p]))
       IN  /\ tstate' =
                [(IF \E q \in Children(p) : pstate[q] = "PZOMBIE"
                  THEN wakeup1(woken, ProcChan(initproc)) ELSE woken)
                   EXCEPT ![t] = "TUNUSED"]
           /\ parent' = Adopted(p)
           /\ pstate' = [pstate EXCEPT ![p] = "PZOMBIE"]
    /\ Goto(t, "dead")
    /\ sched(t)
    /\ UNCHANGED <<pid, pkilled, tid, tkilled, chan, kstack, cont, joining,
                   idVars, ioVars, panicked>>

(***************************************************************************)
(* kthread_exit(): the last thread that is not a zombie ends the process;   *)
(* any other becomes a zombie and wakes the threads that join it.           *)
(***************************************************************************)
LiveSiblings_zombie(t) == {u \in Siblings(t) : tstate[u] # "TUNUSED"}   \* mutant
LiveSiblings(t) == {u \in Siblings(t) : tstate[u] \notin {"TUNUSED", "TZOMBIE"}}

kthread_exit(t) ==
    /\ At(t, "kthread_exit") \/ (At(t, "syscall") /\ Does(t, "kthread_exit"))
    /\ Locked(t)
    /\ IF LiveSiblings(t) = {}
       THEN /\ Goto(t, "exit")
            /\ UNCHANGED <<tstate, cpuVars>>
       ELSE /\ tstate' = wakeup2([tstate EXCEPT ![t] = "TZOMBIE"], ProcOf(t),
                                 ThreadChan(t))
            /\ Goto(t, "dead")
            /\ sched(t)
    /\ UNCHANGED <<procVars, tid, tkilled, chan, kstack, cont, joining, idVars,
                   ioVars, panicked>>

(***************************************************************************)
(* wait(): the first zombie child is reaped; without children, or when the  *)
(* process is killed, it fails; else it sleeps and looks again.             *)
(***************************************************************************)
Waits(t)   == Locked(t) /\ (pc[t] = "wait" \/ (pc[t] = "syscall" /\ Does(t, "wait")))
Zombies(p) == {q \in Children(p) : pstate[q] = "PZOMBIE"}

wait_reap(t) ==
    /\ Waits(t) /\ Zombies(ProcOf(t)) # {}
    /\ LET q == Min(Zombies(ProcOf(t)))
       IN  /\ remove_thread({u \in Thread : ProcOf(u) = q}, tstate, tkilled)
           /\ pid' = [pid EXCEPT ![q] = 0]
           /\ shell' = IF ProcOf(t) = initproc /\ pid[q] = shell THEN 0 ELSE shell
           /\ parent' = [parent EXCEPT ![q] = NoProc]
           /\ pkilled' = [pkilled EXCEPT ![q] = FALSE]
           /\ pstate' = [pstate EXCEPT ![q] = "PUNUSED"]
    /\ chan' = [chan EXCEPT ![t] = NoChan]
    /\ Goto(t, "sysret") /\ lock' = NoThread
    /\ UNCHANGED <<cont, joining, thread, nextpid, nexttid, helper, ioVars, panicked>>

wait_fails(t) ==
    /\ Waits(t) /\ Zombies(ProcOf(t)) = {}
    /\ Children(ProcOf(t)) = {} \/ pkilled[ProcOf(t)]
    /\ chan' = [chan EXCEPT ![t] = NoChan]
    /\ Goto(t, "sysret") /\ lock' = NoThread
    /\ UNCHANGED <<procVars, tstate, tid, tkilled, kstack, cont, joining, thread,
                   idVars, ioVars, panicked>>

wait_sleep(t) ==
    /\ Waits(t) /\ Zombies(ProcOf(t)) = {}
    /\ Children(ProcOf(t)) # {} /\ ~pkilled[ProcOf(t)]
    /\ sleep(t, ProcChan(ProcOf(t)))
    /\ Goto(t, "wait")
    /\ UNCHANGED <<procVars, tid, tkilled, kstack, cont, joining, idVars, ioVars,
                   panicked>>

(***************************************************************************)
(* kthread_join(id): the first slot of the process with that tid is looked  *)
(* up once.  While the slot has that tid and its thread is neither a zombie *)
(* nor unused the caller sleeps; then a zombie in the slot is removed.      *)
(* When no slot has the tid the code looks at the words that follow the     *)
(* array, which are always 0, and fails.                                    *)
(***************************************************************************)
JoinSlot(t) == <<ProcOf(t), joining[t].slot>>

kthread_join(t, id) ==
    /\ At(t, "syscall") /\ Locked(t) /\ Does(t, "kthread_join")
    /\ LET match == {u \in Thread : ProcOf(u) = ProcOf(t) /\ tid[u] = id}
       IN  IF match = {}
           THEN Goto(t, "sysret") /\ UNCHANGED <<joining, lock>>
           ELSE /\ joining' = [joining EXCEPT ![t] =
                                 [slot |-> Min({u[2] : u \in match}), id |-> id]]
                /\ Goto(t, "join")
                /\ lock' = t
    /\ UNCHANGED <<procVars, threadVars, cont, thread, idVars, ioVars, panicked>>

JoinWaits(t) == /\ tid[JoinSlot(t)] = joining[t].id
                /\ tstate[JoinSlot(t)] \notin {"TZOMBIE", "TUNUSED"}

kthread_join_sleep(t) ==
    /\ Locked(t) /\ lock = t /\ pc[t] = "join"
    /\ JoinWaits(t)
    /\ sleep(t, ThreadChan(JoinSlot(t)))
    /\ UNCHANGED <<procVars, tid, tkilled, kstack, ctxVars, idVars, ioVars,
                   panicked>>

kthread_join_return(t) ==
    /\ Locked(t) /\ lock = t /\ pc[t] = "join"
    /\ ~JoinWaits(t)
    /\ remove_thread({u \in {JoinSlot(t)} : tstate[u] = "TZOMBIE"},
                     tstate, tkilled)
    /\ joining' = [joining EXCEPT ![t] = [slot |-> 0, id |-> 0]]
    /\ chan' = [chan EXCEPT ![t] = NoChan]
    /\ Goto(t, "sysret") /\ lock' = NoThread
    /\ UNCHANGED <<procVars, cont, thread, idVars, ioVars, panicked>>
-----------------------------------------------------------------------------
(***************************************************************************)
(* A read or write of a disk block: it holds a sleep-lock (acquiresleep)    *)
(* and sleeps in iderw() until the disk interrupt has served the request.   *)
(***************************************************************************)
SleepThen(t, ch, l) ==
    /\ Locked(t)
    /\ sleep(t, ch)
    /\ Goto(t, "slept")
    /\ cont' = [cont EXCEPT ![t] = l]

acquiresleep(t) ==
    /\ At(t, "acquiresleep")
    /\ IF slock # 0
       THEN /\ SleepThen(t, SleeplockChan, "acquiresleep")
            /\ UNCHANGED slock
       ELSE /\ slock' = tid[t]
            /\ Goto(t, "iderw")
            /\ UNCHANGED <<tstate, chan, cont, cpuVars>>
    /\ UNCHANGED <<procVars, tid, tkilled, kstack, joining, idVars, disk, panicked>>

iderw(t) ==
    /\ At(t, "iderw")
    /\ disk' = "pending"
    /\ SleepThen(t, BufChan, "iowait")
    /\ UNCHANGED <<procVars, tid, tkilled, kstack, joining, idVars, slock, panicked>>

ideintr ==
    /\ ~panicked /\ disk = "pending" /\ lock = NoThread
    /\ disk' = "done"
    /\ tstate' = wakeup1(tstate, BufChan)
    /\ UNCHANGED <<procVars, tid, tkilled, chan, kstack, ctxVars, cpuVars, idVars,
                   slock, panicked>>

iowait(t) ==
    /\ At(t, "iowait")
    /\ IF disk = "done"
       THEN /\ disk' = "idle"
            /\ Goto(t, "releasesleep")
            /\ UNCHANGED <<tstate, chan, cont, cpuVars>>
       ELSE /\ SleepThen(t, BufChan, "iowait")
            /\ UNCHANGED disk
    /\ UNCHANGED <<procVars, tid, tkilled, kstack, joining, idVars, slock, panicked>>

releasesleep(t) ==
    /\ At(t, "releasesleep") /\ Locked(t)
    /\ slock' = 0
    /\ tstate' = wakeup1(tstate, SleeplockChan)
    /\ Goto(t, "sysret")
    /\ UNCHANGED <<procVars, tid, tkilled, chan, kstack, cont, joining, cpuVars,
                   idVars, disk, panicked>>
-----------------------------------------------------------------------------
(***************************************************************************)
(* A step of thread t in the kernel that needs nothing but the cpu and      *)
(* ptable.lock.                                                             *)
(***************************************************************************)
Kernel(t) ==
    \/ trap_return(t) \/ trap_sysret(t)
    \/ fork(t) \/ fork_child(t)
    \/ kthread_create(t) \/ kthread_create_fails(t)
    \/ \E id \in KillPids : kill(t, id)
    \/ enter(t, "exit") \/ enter(t, "io")
    \/ kill_other_threads_killed(t) \/ kill_other_threads_round(t)
    \/ kill_other_threads_done(t)
    \/ exec(t) \/ safe_exit(t) \/ kthread_exit(t)
    \/ wait_reap(t) \/ wait_fails(t) \/ wait_sleep(t)
    \/ \E id \in 0 .. nexttid : kthread_join(t, id)
    \/ kthread_join_sleep(t) \/ kthread_join_return(t)
    \/ acquiresleep(t) \/ iderw(t) \/ iowait(t) \/ releasesleep(t)

Next ==
    \/ \E c \in CPU, t \in Thread : scheduler(c, t)
    \/ \E t \in Thread : resume(t)
    \/ \E t \in Thread : Kernel(t)
    \/ \E t \in Thread : trap_syscall(t)
    \/ \E t \in Thread : trap_timer(t)
    \/ \E t \in Thread : trap_fault(t)
    \/ ideintr

Spec == Init /\ [][Next]_vars

(***************************************************************************)
(* Fairness.  The scheduler's scan meets every runnable thread again and    *)
(* again; the timer interrupts every running thread, but not before each of *)
(* its steps; a thread with a cpu does its kernel steps, and gets           *)
(* ptable.lock although others take it in between (its sections are short,  *)
(* and xchg lets each cpu win some day); the disk answers.  User programs   *)
(* owe nothing: trap_syscall is not fair.                                   *)
(***************************************************************************)
Fairness ==
    /\ \A t \in Thread : /\ SF_vars(\E c \in CPU : scheduler(c, t))
                         /\ WF_vars(resume(t))
                         /\ SF_vars(trap_timer(t))
                         /\ SF_vars(Kernel(t))
    /\ SF_vars(ideintr)

FairSpec == Spec /\ Fairness
-----------------------------------------------------------------------------
(***************************************************************************)
(* A cpu runs a thread that is TRUNNING, whose kernel stack is allocated    *)
(* and whose process is in use; every TRUNNING thread is on exactly one     *)
(* cpu.  So remove_thread never frees a stack a cpu stands on, and no step  *)
(* makes the kernel panic: no thread that ended is switched to again        *)
(* ("zombie exit"), none without a kernel stack ("switchuvm"), and init     *)
(* does not exit.                                                           *)
(***************************************************************************)
CpusRunThreads ==
    /\ ~panicked
    /\ \A c \in CPU : thread[c] # NoThread =>
         /\ Running(thread[c]) /\ kstack[thread[c]]
         /\ pstate[ProcOf(thread[c])] = "PUSED"
         /\ \A d \in CPU : thread[d] = thread[c] => d = c
    /\ \A t \in Thread : Running(t) => \E c \in CPU : thread[c] = t

(***************************************************************************)
(* A process that is a zombie or unused has no thread left, so wait() may   *)
(* free everything it finds in the slot; a process in use has a thread that *)
(* has not ended, so it can still reach exit() and its parent is not left   *)
(* waiting: kthread_exit() of several threads at once, exit() and exec()    *)
(* never leave a process of zombies only.                                   *)
(***************************************************************************)
ProcessHasThread ==
    \A p \in ProcSlot :
       LET live == {t \in Thread : ProcOf(t) = p
                                   /\ tstate[t] \notin {"TUNUSED", "TZOMBIE"}}
       IN  IF pstate[p] = "PUSED" THEN live # {}
           ELSE \A t \in Thread : ProcOf(t) = p => tstate[t] = "TUNUSED"

(***************************************************************************)
(* The parent of a process is a process in use: safe_exit() passes the      *)
(* children on before the slot can be reused.                               *)
(***************************************************************************)
ParentAlive ==
    \A p \in ProcSlot \ {initproc} :
       pstate[p] # "PUNUSED" => /\ parent[p] # NoProc
                                /\ pstate[parent[p]] = "PUSED"

(***************************************************************************)
(* exec() replaces the address space, and safe_exit() closes the files and  *)
(* gives up the process, when no other thread of the process is left.       *)
(***************************************************************************)
SoleThread ==
    \A t \in Thread :
       (tstate[t] # "TUNUSED" /\ pc[t] \in {"execbody", "safe_exit"})
          => \A u \in Siblings(t) : tstate[u] = "TUNUSED"

(***************************************************************************)
(* No wakeup is lost: a thread asleep in wait() has a child and none of its *)
(* children is a zombie; a thread asleep in kthread_join() has a thread to  *)
(* wait for that has not ended; one asleep in acquiresleep() or iderw() has *)
(* a holder or the disk to wait for.                                        *)
(***************************************************************************)
NoMissedWakeup ==
    \A t \in Thread : tstate[t] = "TSLEEPING" =>
       /\ pc[t] = "wait" => /\ Children(ProcOf(t)) # {}
                            /\ Zombies(ProcOf(t)) = {}
       /\ pc[t] = "join" => JoinWaits(t)
       /\ chan[t] = SleeplockChan => slock # 0
       /\ chan[t] = BufChan => disk = "pending"


(***************************************************************************)
(* exit() comes to its end: whatever the other threads of the process do    *)
(* when a thread calls exit(), the process becomes a zombie.                *)
(***************************************************************************)
Exiting(p) == \E t \in Thread : /\ ProcOf(t) = p /\ Running(t)
                                /\ pc[t] \in {"exit", "safe_exit"}

(***************************************************************************)
(* wait() returns once there is a zombie child, and kthread_join() once     *)
(* the thread has ended, unless the waiting thread itself is ended.         *)
(***************************************************************************)
LiveAt(t, l) == pc[t] = l /\ tstate[t] \notin {"TUNUSED", "TZOMBIE"}
ZombieAwaited(p) ==
    pstate[p] = "PZOMBIE" /\ \E t \in Thread : ProcOf(t) = parent[p] /\ LiveAt(t, "wait")
ChildReaped ==
    \A p \in ProcSlot \ {initproc} : ZombieAwaited(p) ~> ~ZombieAwaited(p)

JoinOver(p) == \E t \in Thread : ProcOf(t) = p /\ LiveAt(t, "join") /\ ~JoinWaits(t)
JoinReturns ==
    \A p \in ProcSlot \ {initproc} : JoinOver(p) ~> ~JoinOver(p)

=============================================================================
