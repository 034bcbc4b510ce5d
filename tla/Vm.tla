---------------------------------- MODULE Vm ----------------------------------
(***************************************************************************)
(* Memory: the physical page allocator (kalloc.c), page tables and the      *)
(* calls that build, grow, copy and free address spaces (vm.c, growproc()   *)
(* and fork() of proc.c, exec.c, sys_sbrk() of sysproc.c), with threads of  *)
(* one process that share an address space.                                 *)
(*                                                                         *)
(* A loop that allocates takes one step per page, so allocations of several *)
(* threads interleave and memory runs out at any of them.  Freeing, and     *)
(* everything done between two allocations, is one step.  Pages are         *)
(* interchangeable: kalloc() takes the smallest free one.  Sizes and        *)
(* addresses are in units of which PGSIZE make a page, so a size need not   *)
(* be page aligned.                                                         *)
(*                                                                         *)
(* ptable.lock and the lock of a process are not variables: fork() is the   *)
(* only call that keeps ptable.lock over several steps, growproc() the only *)
(* one that keeps the lock of its process.                                  *)
(***************************************************************************)
EXTENDS Integers, FiniteSets, FiniteSetsExt

CONSTANTS NPROC,        \* process slots; slot 1 holds the first process
          NTHREAD,      \* threads of a process
          NPAGES,       \* physical pages between end and PHYSTOP
          PGSIZE,       \* units of a page
          NPTENTRIES,   \* pages a page table maps
          NPDENTRIES,   \* entries of a page directory; the last is the kernel's
          GrowBy,       \* the arguments of sbrk(): positive,
          ShrinkBy,     \* and negative ones, without the sign
          Images,       \* the sizes of programs
          ArgLengths,   \* the lengths of exec()'s arguments
          UserAddrs,    \* the pages programs touch and pass to the kernel
          Races         \* what threads of a program do not coordinate

ASSUME SizesAssumption ==
    /\ NPROC \in Nat \ {0} /\ NTHREAD \in Nat \ {0} /\ NPAGES \in Nat
    /\ PGSIZE \in Nat \ {0} /\ NPTENTRIES \in Nat \ {0} /\ NPDENTRIES \in Nat \ {0, 1}
    /\ GrowBy \subseteq Nat /\ ShrinkBy \subseteq Nat /\ Images \subseteq Nat \ {0}
ASSUME ArgumentsAssumption ==       \* exec()'s sp stays above 0
    /\ ArgLengths \subseteq Nat
    /\ \A n \in ArgLengths : n < 2 * PGSIZE
ASSUME RacesAssumption == Races \subseteq {"fork", "shrink", "all"}

Page   == 1..NPAGES
Proc   == 1..NPROC
Thread == Proc \X (1..NTHREAD)

VARIABLES mem,      \* [free, data, tab]: the free list, and what a page holds
                    \* as bytes and as a page table
          pstate,   \* proc.state
          parent,   \* proc.parent
          pgdir,    \* proc.pgdir: a page
          sz,       \* proc.sz
          kstack,   \* thread.kstack: a page
          pc,       \* thread: "none" (TUNUSED), "user", "zombie" (TZOMBIE), "dead"
                    \* (TUNUSED but not reaped), or a point in a call
          loc,      \* the locals of that call
          tlb,      \* the translation its cpu has cached
          panicked

vars == <<mem, pstate, parent, pgdir, sz, kstack, pc, loc, tlb, panicked>>

ProcOf(t)   == t[1]
Siblings(t) == {u \in Thread : ProcOf(u) = ProcOf(t) /\ u # t}
Idle        == [d |-> 0, a |-> 0, oldsz |-> 0, newsz |-> 0, n |-> 0, addr |-> 0, q |-> 0,
                for |-> "none"]
NotCached   == [a |-> 0, pa |-> 0]
-----------------------------------------------------------------------------
(***************************************************************************)
(* mmu.h and memlayout.h.  Addresses from KERNBASE up belong to the kernel; *)
(* one page table stands for all the kernel's.  A uint wraps at WORD.       *)
(***************************************************************************)
PDSPAN        == NPTENTRIES * PGSIZE
KERNBASE      == (NPDENTRIES - 1) * PDSPAN
WORD          == 2 * KERNBASE
PDX(va)       == va \div PDSPAN
PTX(va)       == (va \div PGSIZE) % NPTENTRIES
PGADDR(pdx)   == pdx * PDSPAN
PGROUNDUP(n)  == ((n + PGSIZE - 1) \div PGSIZE) * PGSIZE
PGROUNDDOWN(n) == (n \div PGSIZE) * PGSIZE
PageAddrs     == {i * PGSIZE : i \in 0..((NPDENTRIES - 1) * NPTENTRIES - 1)}

(***************************************************************************)
(* Entries of page tables and directories: the page (0 when PTE_P is clear) *)
(* and PTE_U.  A page full of ones reads as present entries to nowhere.     *)
(***************************************************************************)
Entry   == [pa : 0..NPAGES, u : BOOLEAN] \cup {[pa |-> NPAGES + 1, u |-> FALSE]}
Index   == 0..((IF NPTENTRIES > NPDENTRIES THEN NPTENTRIES ELSE NPDENTRIES) - 1)
Zeroes  == [i \in Index |-> [pa |-> 0, u |-> FALSE]]
Ones    == [i \in Index |-> [pa |-> NPAGES + 1, u |-> FALSE]]

(***************************************************************************)
(* kalloc.c.  A page is handed out as its last owner's kfree() left it:     *)
(* filled with ones.                                                        *)
(***************************************************************************)
kfree(m, S) == [free |-> m.free \cup S,
                data |-> [p \in Page |-> IF p \in S THEN "junk" ELSE m.data[p]],
                tab  |-> [p \in Page |-> IF p \in S THEN Ones ELSE m.tab[p]]]

NextFree(m) == Min(m.free)

kalloc(m)   == [m EXCEPT !.free = @ \ {NextFree(m)}]

kalloc_memset(m, v) == [kalloc(m) EXCEPT !.data[NextFree(m)] = v,
                                         !.tab[NextFree(m)] = Zeroes]

kinit == kfree([free |-> {}, data |-> [p \in Page |-> "zero"],
                tab |-> [p \in Page |-> Zeroes]], Page)
-----------------------------------------------------------------------------
(***************************************************************************)
(* walkpgdir() without alloc: the table that has va's entry, or 0; and the  *)
(* entry.                                                                   *)
(***************************************************************************)
Table(m, d, va)     == m.tab[d][PDX(va)].pa
walkpgdir(m, d, va) == m.tab[Table(m, d, va)][PTX(va)]
Present(m, d, va)   == Table(m, d, va) # 0 /\ walkpgdir(m, d, va).pa # 0

(***************************************************************************)
(* mappages() of one page, with the walkpgdir() that allocates the table it *)
(* needs.                                                                   *)
(***************************************************************************)
WithTable(m, d, va) ==
    IF Table(m, d, va) # 0 THEN m
    ELSE [kalloc_memset(m, "zero") EXCEPT !.tab[d][PDX(va)] = [pa |-> NextFree(m), u |-> TRUE]]

mappages(m, d, va, pa, u) ==
    LET w == WithTable(m, d, va) IN
    [w EXCEPT !.tab[Table(w, d, va)][PTX(va)] = [pa |-> pa, u |-> u]]

(***************************************************************************)
(* setupkvm(): a directory whose last entry is the kernel's page table.     *)
(***************************************************************************)
CanSetupkvm(m) == Cardinality(m.free) >= 2

setupkvm(m) ==
    LET w == kalloc_memset(m, "zero") IN
    [kalloc_memset(w, "zero") EXCEPT
        !.tab[NextFree(m)][NPDENTRIES - 1] = [pa |-> NextFree(w), u |-> TRUE]]

(***************************************************************************)
(* deallocuvm(): the pages its loop frees, starting at a, and the memory    *)
(* afterwards.  Where there is no table, the loop goes on at the next one.  *)
(***************************************************************************)
DeallocLoop(m, d, oldsz) ==
    LET frees[a \in 0..WORD] ==
            IF a >= oldsz THEN {}
            ELSE IF Table(m, d, a) = 0 THEN frees[PGADDR(PDX(a) + 1)]
            ELSE frees[a + PGSIZE]
                 \cup (IF walkpgdir(m, d, a).pa # 0 THEN {a} ELSE {})
    IN  frees

deallocuvm(m, d, oldsz, newsz) ==
    IF newsz >= oldsz THEN m
    ELSE LET as == DeallocLoop(m, d, oldsz)[PGROUNDUP(newsz)]
             w  == kfree(m, {walkpgdir(m, d, a).pa : a \in as})
         IN  [w EXCEPT !.tab = [p \in Page |-> [i \in Index |->
                 IF \E a \in as : p = Table(m, d, a) /\ i = PTX(a)
                 THEN [pa |-> 0, u |-> FALSE] ELSE w.tab[p][i]]]]

freevm(m, d) ==
    LET w == deallocuvm(m, d, KERNBASE, 0)
    IN  kfree(w, {d} \cup ({w.tab[d][i].pa : i \in 0..(NPDENTRIES - 1)} \ {0}))

(***************************************************************************)
(* inituvm(): the first process's page.                                     *)
(***************************************************************************)
inituvm(m, d) == mappages(kalloc_memset(m, "text"), d, 0, NextFree(m), TRUE)
-----------------------------------------------------------------------------
(***************************************************************************)
(* kinit1(), kinit2(), kvmalloc() and userinit(): the kernel's own page     *)
(* directory, then the first process with one page and one thread.          *)
(***************************************************************************)
first  == <<1, 1>>
kpgdir == NextFree(kinit)

userinit ==
    LET m0 == setupkvm(kinit)
        m1 == setupkvm(kalloc(m0))
        d  == NextFree(kalloc(m0))
    IN  /\ mem    = inituvm(m1, d)
        /\ kstack = [t \in Thread |-> IF t = first THEN NextFree(m0) ELSE 0]
        /\ pgdir  = [p \in Proc |-> IF p = 1 THEN d ELSE 0]
        /\ sz     = [p \in Proc |-> IF p = 1 THEN PGSIZE ELSE 0]
        /\ pstate = [p \in Proc |-> IF p = 1 THEN "PUSED" ELSE "PUNUSED"]
        /\ parent = [p \in Proc |-> 0]
        /\ pc     = [t \in Thread |-> IF t = first THEN "user" ELSE "none"]
        /\ loc    = [t \in Thread |-> Idle]
        /\ tlb    = [t \in Thread |-> NotCached]
        /\ panicked = FALSE

Init == userinit
-----------------------------------------------------------------------------
At(t, l)      == pc[t] = l
Goto(t, l, r) == pc' = [pc EXCEPT ![t] = l] /\ loc' = [loc EXCEPT ![t] = r]
Return(t)     == Goto(t, "user", Idle)

(***************************************************************************)
(* Nobody holds ptable.lock over its steps; nobody the lock of process p.   *)
(***************************************************************************)
PtableFree  == \A t \in Thread : pc[t] \notin {"fork", "copyuvm"}
LockFree(p) == \A t \in Thread : ~(ProcOf(t) = p /\ pc[t] = "allocuvm" /\ loc[t].d = 0)

(***************************************************************************)
(* What this model asks of programs, unless Races says otherwise.  "fork":  *)
(* threads of a process do not fork() and sbrk() at the same time, because  *)
(* fork() reads pages and size without the lock of the process.  "shrink":  *)
(* only a process with one thread gives memory back, because other cpus     *)
(* keep their translations.  "all": no program gives back all its memory,   *)
(* for which growproc() frees the pages but keeps the size.                 *)
(***************************************************************************)
Alone(t) == \A u \in Siblings(t) : pc[u] \in {"none", "zombie"}

MaySbrk(t, n) ==
    /\ "fork" \in Races \/ \A u \in Siblings(t) : pc[u] \notin {"fork", "copyuvm"}
    /\ "shrink" \in Races \/ n >= 0 \/ Alone(t)
    /\ "all" \in Races \/ sz[ProcOf(t)] + n # 0

MayFork(t) == "fork" \in Races \/ \A u \in Siblings(t) : loc[u].for # "growproc"

(***************************************************************************)
(* User code touches its memory: the cpu uses the translation it has, or    *)
(* walks the page table and keeps what it found.                            *)
(***************************************************************************)
touch(t, a) ==
    LET d  == pgdir[ProcOf(t)]
        pa == IF tlb[t].pa # 0 /\ tlb[t].a = a THEN tlb[t].pa ELSE walkpgdir(mem, d, a).pa
    IN  /\ At(t, "user") /\ a < sz[ProcOf(t)]
        /\ \/ tlb[t].pa # 0 /\ tlb[t].a = a
           \/ Present(mem, d, a) /\ walkpgdir(mem, d, a).u
        /\ tlb' = [tlb EXCEPT ![t] = [a |-> a, pa |-> pa]]
        /\ UNCHANGED <<mem, pstate, parent, pgdir, sz, kstack, pc, loc, panicked>>

(***************************************************************************)
(* The scheduler gives t the cpu again: switchuvm() loads cr3.              *)
(***************************************************************************)
switchuvm(t) ==
    /\ At(t, "user") /\ tlb[t] # NotCached
    /\ tlb' = [tlb EXCEPT ![t] = NotCached]
    /\ UNCHANGED <<mem, pstate, parent, pgdir, sz, kstack, pc, loc, panicked>>

(***************************************************************************)
(* A call with a pointer argument: argptr() checks it against the size, and *)
(* the kernel uses it when the data is there.  A page that is missing then  *)
(* is a trap in the kernel.                                                 *)
(***************************************************************************)
argptr(t, a) ==
    /\ At(t, "user") /\ a < sz[ProcOf(t)]
    /\ Goto(t, "sleep", [Idle EXCEPT !.a = a])
    /\ UNCHANGED <<mem, pstate, parent, pgdir, sz, kstack, tlb, panicked>>

use_argument(t) ==
    /\ At(t, "sleep")
    /\ panicked' = ~Present(mem, pgdir[ProcOf(t)], loc[t].a)
    /\ Return(t)
    /\ UNCHANGED <<mem, pstate, parent, pgdir, sz, kstack, tlb>>
-----------------------------------------------------------------------------
(***************************************************************************)
(* sbrk(): the old size is read before growproc() takes the lock.           *)
(* A sum of size and int does not wrap: user memory ends at KERNBASE.       *)
(***************************************************************************)
sys_sbrk(t, n) ==
    /\ At(t, "user") /\ MaySbrk(t, n)
    /\ Goto(t, "growproc", [Idle EXCEPT !.n = n, !.addr = sz[ProcOf(t)], !.for = "growproc"])
    /\ UNCHANGED <<mem, pstate, parent, pgdir, sz, kstack, tlb, panicked>>

growproc_grow(t) ==
    LET p == ProcOf(t) IN
    /\ At(t, "growproc") /\ LockFree(p) /\ loc[t].n > 0
    /\ Goto(t, "allocuvm", [loc[t] EXCEPT !.oldsz = sz[p], !.newsz = (sz[p] + loc[t].n) % WORD,
                                          !.a = PGROUNDUP(sz[p])])
    /\ UNCHANGED <<mem, pstate, parent, pgdir, sz, kstack, tlb, panicked>>


growproc_shrink(t) ==
    LET p     == ProcOf(t)
        newsz == (sz[p] + loc[t].n) % WORD
    IN  /\ At(t, "growproc") /\ LockFree(p) /\ loc[t].n <= 0
        /\ mem' = deallocuvm(mem, pgdir[p], sz[p], newsz)
        /\ IF newsz = 0
           THEN UNCHANGED <<sz, tlb>>
           ELSE /\ sz' = [sz EXCEPT ![p] = IF newsz >= sz[p] THEN @ ELSE newsz]
                /\ tlb' = [tlb EXCEPT ![t] = NotCached]
        /\ Return(t)
        /\ UNCHANGED <<pstate, parent, pgdir, kstack, panicked>>

Grown(t, for) ==                       \* allocuvm() returns
    /\ At(t, "allocuvm") /\ loc[t].for = for
    /\ loc[t].newsz < KERNBASE /\ loc[t].a >= loc[t].newsz

growproc_done(t) ==
    LET p == ProcOf(t) IN
    /\ Grown(t, "growproc")
    /\ sz' = [sz EXCEPT ![p] = loc[t].newsz]
    /\ tlb' = [tlb EXCEPT ![t] = NotCached]
    /\ Goto(t, "sbrk_return", loc[t])
    /\ UNCHANGED <<mem, pstate, parent, pgdir, kstack, panicked>>

sbrk_return(t) ==
    /\ At(t, "sbrk_return") /\ Return(t)
    /\ UNCHANGED <<mem, pstate, parent, pgdir, sz, kstack, tlb, panicked>>
-----------------------------------------------------------------------------
(***************************************************************************)
(* allocuvm(), for growproc() and for exec(): one page per step.            *)
(***************************************************************************)
Dir(t)        == IF loc[t].d = 0 THEN pgdir[ProcOf(t)] ELSE loc[t].d
PagesFor(d, a) == IF Table(mem, d, a) = 0 THEN 2 ELSE 1

allocuvm(t) ==
    LET d == Dir(t)
        a == loc[t].a
    IN  /\ At(t, "allocuvm") /\ loc[t].newsz < KERNBASE /\ a < loc[t].newsz
        /\ Cardinality(mem.free) >= PagesFor(d, a)
        /\ IF Present(mem, d, a)                                  \* remap
           THEN panicked' = TRUE /\ UNCHANGED <<mem, loc>>
           ELSE /\ mem' = mappages(kalloc_memset(mem, "zero"), d, a, NextFree(mem), TRUE)
                /\ loc' = [loc EXCEPT ![t].a = @ + PGSIZE]
                /\ UNCHANGED panicked
        /\ UNCHANGED <<pstate, parent, pgdir, sz, kstack, pc, tlb>>

OutOfMemory(t) ==
    /\ At(t, "allocuvm")
    /\ \/ loc[t].newsz >= KERNBASE
       \/ loc[t].a < loc[t].newsz /\ Cardinality(mem.free) < PagesFor(Dir(t), loc[t].a)

Rollback_none(t) == mem             \* mutant: what was allocated stays
Rollback(t) ==
    IF loc[t].newsz >= KERNBASE THEN mem
    ELSE deallocuvm(mem, Dir(t), loc[t].newsz, loc[t].oldsz)


allocuvm_fails(t) ==
    /\ OutOfMemory(t)
    /\ mem' = IF loc[t].d = 0 THEN Rollback(t) ELSE freevm(Rollback(t), loc[t].d)  \* exec(): bad
    /\ Return(t)
    /\ UNCHANGED <<pstate, parent, pgdir, sz, kstack, tlb, panicked>>
-----------------------------------------------------------------------------
(***************************************************************************)
(* remove_thread() and what kill_other_threads() comes to: threads in a     *)
(* call finish it first (module Proc), then they are gone.                  *)
(***************************************************************************)
Kstacks(S) == {kstack[t] : t \in S} \ {0}
Without(S) == [t \in Thread |-> IF t \in S THEN 0 ELSE kstack[t]]
Dropped(S) == [t \in Thread |-> IF t \in S THEN NotCached ELSE tlb[t]]

kill_other_threads(t) ==
    /\ At(t, "user") /\ PtableFree
    /\ \A u \in Siblings(t) : pc[u] \in {"none", "user", "zombie", "sleep"}
    /\ mem' = kfree(mem, Kstacks(Siblings(t)))
    /\ kstack' = Without(Siblings(t))

(***************************************************************************)
(* fork(): a kernel stack, a page directory, then the parent's pages one by *)
(* one.  The size is read again when the copy is complete.                  *)
(***************************************************************************)
fork(t) ==
    /\ At(t, "user") /\ PtableFree /\ MayFork(t)
    /\ \E q \in Proc :
        /\ pstate[q] = "PUNUSED" /\ \A r \in Proc : pstate[r] = "PUNUSED" => q <= r
        /\ IF mem.free = {}
           THEN UNCHANGED <<mem, pstate, kstack, pc, loc>>
           ELSE /\ mem' = kalloc(mem)
                /\ kstack' = [kstack EXCEPT ![<<q, 1>>] = NextFree(mem)]
                /\ pstate' = [pstate EXCEPT ![q] = "PEMBRYO"]
                /\ Goto(t, "fork", [Idle EXCEPT !.q = q, !.newsz = sz[ProcOf(t)]])
    /\ UNCHANGED <<parent, pgdir, sz, tlb, panicked>>

fork_bad_leaks(t, m) ==             \* mutant: the kernel stack is not freed
    LET c == <<loc[t].q, 1>> IN
    /\ mem' = m
    /\ kstack' = [kstack EXCEPT ![c] = 0]
    /\ pstate' = [pstate EXCEPT ![loc[t].q] = "PUNUSED"]
    /\ Return(t)
    /\ UNCHANGED <<parent, pgdir, sz, tlb, panicked>>

fork_bad(t, m) ==
    LET c == <<loc[t].q, 1>> IN
    /\ mem' = kfree(m, {kstack[c]})
    /\ kstack' = [kstack EXCEPT ![c] = 0]
    /\ pstate' = [pstate EXCEPT ![loc[t].q] = "PUNUSED"]
    /\ Return(t)
    /\ UNCHANGED <<parent, pgdir, sz, tlb, panicked>>

fork_setupkvm(t) ==
    /\ At(t, "fork")
    /\ IF CanSetupkvm(mem)
       THEN /\ mem' = setupkvm(mem)
            /\ Goto(t, "copyuvm", [loc[t] EXCEPT !.d = NextFree(mem)])
            /\ UNCHANGED <<pstate, parent, pgdir, sz, kstack, tlb, panicked>>
       ELSE fork_bad(t, mem)

copyuvm(t) ==
    LET d == loc[t].d
        i == loc[t].a
        e == walkpgdir(mem, pgdir[ProcOf(t)], i)
    IN  /\ At(t, "copyuvm") /\ i < loc[t].newsz
        /\ IF ~Present(mem, pgdir[ProcOf(t)], i)                   \* page not present
           THEN panicked' = TRUE
                /\ UNCHANGED <<mem, pstate, parent, pgdir, sz, kstack, pc, loc, tlb>>
           ELSE IF Cardinality(mem.free) < PagesFor(d, i) THEN fork_bad(t, freevm(mem, d))
           ELSE /\ mem' = mappages(kalloc_memset(mem, mem.data[e.pa]), d, i, NextFree(mem), e.u)
                /\ loc' = [loc EXCEPT ![t].a = @ + PGSIZE]
                /\ UNCHANGED <<pstate, parent, pgdir, sz, kstack, pc, tlb, panicked>>

fork_child(t) ==
    LET q == loc[t].q IN
    /\ At(t, "copyuvm") /\ loc[t].a >= loc[t].newsz
    /\ pgdir'  = [pgdir EXCEPT ![q] = loc[t].d]
    /\ sz'     = [sz EXCEPT ![q] = sz[ProcOf(t)]]
    /\ parent' = [parent EXCEPT ![q] = ProcOf(t)]
    /\ pstate' = [pstate EXCEPT ![q] = "PUSED"]
    /\ pc'  = [pc EXCEPT ![t] = "user", ![<<q, 1>>] = "user"]
    /\ loc' = [loc EXCEPT ![t] = Idle]
    /\ UNCHANGED <<mem, kstack, tlb, panicked>>
-----------------------------------------------------------------------------
(***************************************************************************)
(* exec(): the new address space is complete before the old one is freed.   *)
(***************************************************************************)
exec(t) ==
    /\ kill_other_threads(t)
    /\ tlb' = Dropped(Siblings(t))
    /\ pc' = [u \in Thread |-> IF u = t THEN "exec" ELSE IF u \in Siblings(t) THEN "none" ELSE pc[u]]
    /\ UNCHANGED <<pstate, parent, pgdir, sz, loc, panicked>>

exec_bad(t) ==
    /\ mem' = IF loc[t].d = 0 THEN mem ELSE freevm(mem, loc[t].d)
    /\ Return(t)
    /\ UNCHANGED <<pstate, parent, pgdir, sz, kstack, tlb, panicked>>

exec_setupkvm(t) ==                 \* no such file, no program, or no memory
    /\ At(t, "exec")
    /\ \/ exec_bad(t)
       \/ \E size \in Images :
            /\ CanSetupkvm(mem)
            /\ mem' = setupkvm(mem)
            /\ Goto(t, "allocuvm", [Idle EXCEPT !.d = NextFree(mem), !.newsz = size, !.for = "image"])
            /\ UNCHANGED <<pstate, parent, pgdir, sz, kstack, tlb, panicked>>

(***************************************************************************)
(* loaduvm() fills the pages from the file, or the file is too short.       *)
(***************************************************************************)
loaduvm(m, d, n) ==
    [m EXCEPT !.data = [p \in Page |->
        IF \E a \in PageAddrs : a < n /\ walkpgdir(m, d, a).pa = p THEN "text" ELSE m.data[p]]]

exec_load(t) ==
    LET l     == loc[t]
        stack == PGROUNDUP(l.newsz)
    IN  /\ Grown(t, "image")
        /\ \/ exec_bad(t)
           \/ /\ mem' = loaduvm(mem, l.d, l.newsz)
              /\ Goto(t, "allocuvm", [l EXCEPT !.a = stack, !.oldsz = stack,
                                               !.newsz = stack + 2 * PGSIZE, !.for = "stack"])
              /\ UNCHANGED <<pstate, parent, pgdir, sz, kstack, tlb, panicked>>

clearpteu(m, d, a) == [m EXCEPT !.tab[Table(m, d, a)][PTX(a)].u = FALSE]

(***************************************************************************)
(* copyout() of n units to va: it stops at the first page uva2ka() refuses. *)
(***************************************************************************)
uva2ka(m, d, a) == Present(m, d, a) /\ walkpgdir(m, d, a).u

CopyPages(va, n)     == {a \in PageAddrs : PGROUNDDOWN(va) <= a /\ a < va + n}
CopiesOut(m, d, va, n) == \A a \in CopyPages(va, n) : uva2ka(m, d, a)

(***************************************************************************)
(* The guard page, the arguments and their vector (one unit more), and the  *)
(* switch to the new image.                                                 *)
(***************************************************************************)
exec_commit(t) ==
    LET p == ProcOf(t)
        d == loc[t].d
        n == loc[t].newsz
        m == clearpteu(mem, d, n - 2 * PGSIZE)
    IN  /\ Grown(t, "stack")
        /\ \E len \in ArgLengths :
            IF CopiesOut(m, d, n - len - 1, len + 1)
            THEN /\ mem' = freevm(m, pgdir[p])
                 /\ pgdir' = [pgdir EXCEPT ![p] = d]
                 /\ sz' = [sz EXCEPT ![p] = n]
                 /\ tlb' = [tlb EXCEPT ![t] = NotCached]
                 /\ Return(t)
                 /\ UNCHANGED <<pstate, parent, kstack, panicked>>
            ELSE exec_bad(t)
-----------------------------------------------------------------------------
(***************************************************************************)
(* exit(), and kthread_exit() of the last thread: the address space and the *)
(* kernel stack stay until wait().                                          *)
(***************************************************************************)
safe_exit(t, removed) ==
    /\ ProcOf(t) # 1
    /\ pc' = [u \in Thread |-> IF u = t THEN "dead" ELSE IF u \in removed THEN "none" ELSE pc[u]]
    /\ pstate' = [pstate EXCEPT ![ProcOf(t)] = "PZOMBIE"]
    /\ parent' = [q \in Proc |-> IF parent[q] = ProcOf(t) THEN 1 ELSE parent[q]]
    /\ UNCHANGED <<pgdir, sz, loc, panicked>>

exit(t) ==
    /\ kill_other_threads(t)
    /\ tlb' = Dropped(Siblings(t) \cup {t})
    /\ safe_exit(t, Siblings(t))

wait(t) ==
    /\ At(t, "user") /\ PtableFree
    /\ \E q \in Proc :
        LET S == {u \in Thread : ProcOf(u) = q} IN
        /\ parent[q] = ProcOf(t) /\ pstate[q] = "PZOMBIE"
        /\ mem' = freevm(kfree(mem, Kstacks(S)), pgdir[q])
        /\ kstack' = Without(S)
        /\ pc' = [u \in Thread |-> IF u \in S THEN "none" ELSE pc[u]]
        /\ pstate' = [pstate EXCEPT ![q] = "PUNUSED"]
        /\ parent' = [parent EXCEPT ![q] = 0]
        /\ pgdir' = [pgdir EXCEPT ![q] = 0] /\ sz' = [sz EXCEPT ![q] = 0]
    /\ UNCHANGED <<loc, tlb, panicked>>

kthread_create(t) ==
    /\ At(t, "user") /\ PtableFree /\ mem.free # {}
    /\ \E u \in Siblings(t) :
        /\ pc[u] = "none"
        /\ mem' = kalloc(mem)
        /\ kstack' = [kstack EXCEPT ![u] = NextFree(mem)]
        /\ pc' = [pc EXCEPT ![u] = "user"]
    /\ UNCHANGED <<pstate, parent, pgdir, sz, loc, tlb, panicked>>

kthread_exit(t) ==
    /\ At(t, "user") /\ PtableFree
    /\ IF Alone(t)
       THEN safe_exit(t, {})
       ELSE /\ pc' = [pc EXCEPT ![t] = "zombie"]
            /\ UNCHANGED <<pstate, parent, pgdir, sz, loc, panicked>>
    /\ tlb' = Dropped({t})
    /\ UNCHANGED <<mem, kstack>>

kthread_join(t) ==
    /\ At(t, "user") /\ PtableFree
    /\ \E u \in Siblings(t) :
        /\ pc[u] = "zombie"
        /\ mem' = kfree(mem, Kstacks({u})) /\ kstack' = Without({u})
        /\ pc' = [pc EXCEPT ![u] = "none"]
    /\ UNCHANGED <<pstate, parent, pgdir, sz, loc, tlb, panicked>>
-----------------------------------------------------------------------------
Step(t) ==
    \/ \E a \in UserAddrs : touch(t, a) \/ argptr(t, a)
    \/ switchuvm(t)
    \/ use_argument(t)
    \/ \E n \in GrowBy \cup {-k : k \in ShrinkBy} : sys_sbrk(t, n)
    \/ growproc_grow(t) \/ growproc_shrink(t) \/ growproc_done(t) \/ sbrk_return(t)
    \/ allocuvm(t) \/ allocuvm_fails(t)
    \/ fork(t) \/ fork_setupkvm(t) \/ copyuvm(t) \/ fork_child(t)
    \/ exec(t) \/ exec_setupkvm(t) \/ exec_load(t) \/ exec_commit(t)
    \/ exit(t) \/ wait(t)
    \/ kthread_create(t) \/ kthread_exit(t) \/ kthread_join(t)

Next == ~panicked /\ \E t \in Thread : Step(t)
Spec == Init /\ [][Next]_vars
-----------------------------------------------------------------------------
(***************************************************************************)
(* Address spaces and who has them: the kernel, a process, or a thread that *)
(* builds one.                                                              *)
(***************************************************************************)
Spaces == {<<0, 0, kpgdir>>}
          \cup {<<p, 0, pgdir[p]>> : p \in {p \in Proc : pgdir[p] # 0}}
          \cup {<<t[1], t[2], loc[t].d>> : t \in {t \in Thread : loc[t].d # 0}}

MappedAt(d) == {a \in PageAddrs : Present(mem, d, a)}

(***************************************************************************)
(* The claims to pages: the free list, kernel stacks, and directories with  *)
(* their tables and the user pages these map.                               *)
(***************************************************************************)
Claims ==
    {<<"free", pg, 0, 0, pg>> : pg \in mem.free}
    \cup {<<"kstack", t[1], t[2], 0, kstack[t]>> : t \in {t \in Thread : kstack[t] # 0}}
    \cup {<<"pgdir", s[1], s[2], 0, s[3]>> : s \in Spaces}
    \cup UNION {{<<"table", s[1], s[2], i, mem.tab[s[3]][i].pa>> :
                    i \in {i \in 0..(NPDENTRIES - 1) : mem.tab[s[3]][i].pa # 0}} : s \in Spaces}
    \cup UNION {{<<"user", s[1], s[2], a, walkpgdir(mem, s[3], a).pa>> :
                    a \in MappedAt(s[3])} : s \in Spaces}

(***************************************************************************)
(* Every page has one owner: it is free, a kernel stack, or has one place   *)
(* in one address space.  No failing allocation in the middle of fork(),    *)
(* exec() or sbrk() leaks a page or frees one twice.                        *)
(***************************************************************************)
PagesOwnedOnce ==
    /\ {c[5] : c \in Claims} = Page
    /\ Cardinality(Claims) = NPAGES

(***************************************************************************)
(* proc.sz, which argptr() and copyuvm() trust, tells what is mapped: the   *)
(* pages below it, each initialised since its last owner had it.  While     *)
(* growproc() allocates there may be more.                                  *)
(***************************************************************************)
Growing(p) == \E t \in Thread : ProcOf(t) = p /\ pc[t] = "allocuvm" /\ loc[t].d = 0

SizeMatches ==
    \A p \in Proc : pstate[p] \in {"PUSED", "PZOMBIE"} =>
        LET below  == {a \in PageAddrs : a < sz[p]}
            mapped == MappedAt(pgdir[p])
        IN  /\ below \subseteq mapped
            /\ below = mapped \/ Growing(p)
            /\ \A a \in mapped : mem.data[walkpgdir(mem, pgdir[p], a).pa] # "junk"


=============================================================================
