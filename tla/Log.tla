-------------------------------- MODULE Log ---------------------------------
(***************************************************************************)
(* The file system's log (log.c): operations that begin, write blocks into *)
(* the buffer cache and end; the commit by the last of them, one disk      *)
(* write at a time; a crash between any two steps; and the recovery of the *)
(* next boot, which may crash as well.  The buffer cache appears as the    *)
(* contents bread() returns, with the right to evict a clean buffer that   *)
(* nobody has locked (bio.c).  A disk write of one block is atomic.        *)
(***************************************************************************)
EXTENDS Naturals, Sequences, FiniteSets, Functions

CONSTANTS Thread,       \* the threads that make file system calls
          Block,        \* the home blocks
          NoBlock,      \* no buffer
          Value,        \* the contents of a block
          MAXOPBLOCKS,  \* the most blocks one operation writes
          LOGSIZE,      \* the most blocks of a transaction
          nlog,         \* blocks of the log on disk, the header included
          MaxCrashes    \* bound on the crashes

ASSUME LogAssumption ==
  /\ NoBlock \notin Block /\ IsFiniteSet(Thread)
  /\ MAXOPBLOCKS \in Nat \ {0}
  /\ LOGSIZE \in Nat
  /\ nlog \in Nat \ {0}
  /\ MaxCrashes \in Nat

VARIABLES disk,         \* the home blocks on disk
          dlog,         \* the blocks of the log on disk
          dhead,        \* the log's header on disk: the logged block numbers
          data,         \* what bread() returns of a home block
          dirty,        \* the blocks whose buffer has B_DIRTY
          lh,           \* log.lh: the block numbers of this transaction
          outstanding, committing,
          pc,           \* where each thread is
          tail,         \* the loop variable of write_log and install_trans
          wrote,        \* the blocks a thread's operation has written
          buf,          \* the buffer a thread in log_write has locked
          up,           \* recovery is over
          panicked,
          crashes       \* number of crashes so far

vars == <<disk, dlog, dhead, data, dirty, lh, outstanding, committing, pc,
          tail, wrote, buf, up, panicked, crashes>>

ondisk == <<disk, dlog, dhead>>
cache == <<data, dirty>>
header == <<lh, outstanding, committing>>
local == <<tail, wrote, buf>>
machine == <<up, panicked, crashes>>

Init ==
  /\ \E v \in Value : /\ disk = [b \in Block |-> v]
                      /\ dlog = [i \in 1..LOGSIZE |-> v]
  /\ dhead = <<>>
  /\ data = disk
  /\ dirty = {}
  /\ lh = <<>>
  /\ outstanding = 0
  /\ committing = FALSE
  /\ pc = [t \in Thread |-> "user"]
  /\ tail = 1
  /\ wrote = [t \in Thread |-> {}]
  /\ buf = [t \in Thread |-> NoBlock]
  /\ up = TRUE
  /\ panicked = FALSE
  /\ crashes = 0

Goto(t, l) == pc' = [pc EXCEPT ![t] = l]

\* wakeup(&log), with the caller t going on at l.
WakeAndGoto(t, l) ==
  pc' = [u \in Thread |-> IF u = t THEN l
                          ELSE IF pc[u] = "asleep" THEN "begin" ELSE pc[u]]

NoSpace == Len(lh) + (outstanding + 1) * MAXOPBLOCKS > LOGSIZE

\* The two reasons for which begin_op waits.
MustWait == committing \/ NoSpace

\* begin_op, one pass of its loop: reserve space, or sleep on the log.
begin_op(t) ==
  /\ pc[t] \in {"user", "begin"}
  /\ ~ MustWait
  /\ outstanding' = outstanding + 1
  /\ Goto(t, "op")
  /\ UNCHANGED <<ondisk, cache, lh, committing, local, machine>>

begin_op_sleeps(t) ==
  /\ pc[t] \in {"user", "begin"}
  /\ MustWait
  /\ Goto(t, "asleep")
  /\ UNCHANGED <<ondisk, cache, header, local, machine>>

\* The caller of log_write has the buffer of b locked and changes it; the
\* first lines of log_write then read the header without log.lock.
TooBig == Len(lh) >= LOGSIZE \/ Len(lh) >= nlog - 1

modify(t, b, v) ==
  /\ pc[t] = "op"
  /\ Cardinality(wrote[t] \cup {b}) <= MAXOPBLOCKS
  /\ \A u \in Thread : buf[u] # b
  /\ data' = [data EXCEPT ![b] = v]
  /\ wrote' = [wrote EXCEPT ![t] = @ \cup {b}]
  /\ buf' = [buf EXCEPT ![t] = b]
  /\ panicked' = (TooBig \/ outstanding < 1)
  /\ Goto(t, "logging")
  /\ UNCHANGED <<ondisk, dirty, header, tail, up, crashes>>

log_write_unpinned(t) ==
  /\ pc[t] = "logging"
  /\ lh' = IF buf[t] \in Range(lh) THEN lh ELSE Append(lh, buf[t])
  /\ buf' = [buf EXCEPT ![t] = NoBlock]
  /\ Goto(t, "op")
  /\ UNCHANGED <<ondisk, cache, outstanding, committing, tail, wrote, machine>>

\* The rest of log_write, under log.lock, and the caller's brelse: the block
\* enters the header unless it is there already, and the buffer is pinned.
log_write(t) ==
  /\ pc[t] = "logging"
  /\ lh' = IF buf[t] \in Range(lh) THEN lh ELSE Append(lh, buf[t])
  /\ dirty' = dirty \cup {buf[t]}
  /\ buf' = [buf EXCEPT ![t] = NoBlock]
  /\ Goto(t, "op")
  /\ UNCHANGED <<ondisk, data, outstanding, committing, tail, wrote, machine>>

\* end_op up to the release of log.lock.  The last operation commits; commit
\* does nothing when the transaction is empty.
end_op(t) ==
  /\ pc[t] = "op"
  /\ outstanding' = outstanding - 1
  /\ panicked' = committing
  /\ IF outstanding = 1
       THEN /\ committing' = TRUE
            /\ Goto(t, IF lh = <<>> THEN "done" ELSE "write_log")
       ELSE /\ WakeAndGoto(t, "user")
            /\ UNCHANGED committing
  /\ tail' = 1
  /\ wrote' = [wrote EXCEPT ![t] = {}]
  /\ UNCHANGED <<ondisk, cache, lh, buf, up, crashes>>

\* The loop of write_log and of install_trans goes on, or ends at l.
NextBlock(t, l) ==
  IF tail < Len(lh)
    THEN tail' = tail + 1 /\ UNCHANGED pc
    ELSE tail' = 1 /\ Goto(t, l)

\* write_log: one modified block goes from the cache to the log on disk.
write_log(t) ==
  /\ pc[t] = "write_log"
  /\ dlog' = [dlog EXCEPT ![tail] = data[lh[tail]]]
  /\ NextBlock(t, "write_head")
  /\ UNCHANGED <<disk, dhead, cache, header, wrote, buf, machine>>

\* write_head in commit: the point at which the transaction commits.
write_head(t) ==
  /\ pc[t] = "write_head"
  /\ dhead' = lh
  /\ Goto(t, "install")
  /\ UNCHANGED <<disk, dlog, cache, header, local, machine>>

\* install_trans: one logged block goes home; its bwrite clears B_DIRTY.
install_trans(t) ==
  /\ pc[t] = "install"
  /\ LET b == lh[tail] IN
       /\ data' = [data EXCEPT ![b] = dlog[tail]]
       /\ disk' = [disk EXCEPT ![b] = dlog[tail]]
       /\ dirty' = dirty \ {b}
  /\ NextBlock(t, "erase")
  /\ UNCHANGED <<dlog, dhead, header, wrote, buf, machine>>

\* log.lh.n = 0 and the second write_head.  In recovery initlog returns
\* here, and the first process goes on to user space.
erase(t) ==
  /\ pc[t] = "erase"
  /\ lh' = <<>>
  /\ dhead' = <<>>
  /\ up' = TRUE
  /\ IF up THEN Goto(t, "done") ELSE pc' = [u \in Thread |-> "user"]
  /\ UNCHANGED <<disk, dlog, cache, outstanding, committing, local, panicked,
                 crashes>>

\* The end of end_op after the commit.
committed_silently(t) ==
  /\ pc[t] = "done"
  /\ committing' = FALSE
  /\ Goto(t, "user")
  /\ UNCHANGED <<ondisk, cache, lh, outstanding, local, machine>>

committed(t) ==
  /\ pc[t] = "done"
  /\ committing' = FALSE
  /\ WakeAndGoto(t, "user")
  /\ UNCHANGED <<ondisk, cache, lh, outstanding, local, machine>>

\* bget recycles a clean buffer nobody has locked; the next bread of the
\* block reads the disk.
evict(b) ==
  /\ b \notin dirty
  /\ \A t \in Thread : buf[t] # b
  /\ data' = [data EXCEPT ![b] = disk[b]]
  /\ UNCHANGED <<ondisk, dirty, header, pc, local, machine>>

\* Power fails: everything but the disk is lost.
crash ==
  /\ crashes < MaxCrashes
  /\ crashes' = crashes + 1
  /\ up' = FALSE
  /\ data' = disk
  /\ dirty' = {}
  /\ lh' = <<>>
  /\ outstanding' = 0
  /\ committing' = FALSE
  /\ pc' = [t \in Thread |-> "off"]
  /\ tail' = 1
  /\ wrote' = [t \in Thread |-> {}]
  /\ buf' = [t \in Thread |-> NoBlock]
  /\ UNCHANGED <<ondisk, panicked>>

read_head_clears(t) ==
  /\ \A u \in Thread : pc[u] = "off"
  /\ lh' = <<>>
  /\ Goto(t, "erase")
  /\ UNCHANGED <<ondisk, cache, outstanding, committing, local, machine>>

\* The next boot: the first process t runs initlog, which reads the header.
read_head(t) ==
  /\ \A u \in Thread : pc[u] = "off"
  /\ lh' = dhead
  /\ Goto(t, IF dhead = <<>> THEN "erase" ELSE "install")
  /\ UNCHANGED <<ondisk, cache, outstanding, committing, local, machine>>

call(t) == begin_op(t) \/ (\E b \in Block, v \in Value : modify(t, b, v))

run(t) ==
  \/ begin_op_sleeps(t) \/ log_write(t) \/ end_op(t) \/ write_log(t)
  \/ write_head(t) \/ install_trans(t) \/ erase(t) \/ committed(t)

\* A panic stops the system, which TLC reports as a deadlock.  There is none as
\* long as operations write fewer than nlog - 1 different blocks; with more, the
\* reservation of begin_op is not enough (see the README).
Next ==
  /\ ~ panicked
  /\ \/ \E t \in Thread : call(t) \/ run(t) \/ read_head(t)
     \/ \E b \in Block : evict(b)
     \/ crash

Spec == Init /\ [][Next]_vars

\* Threads in the kernel run, and an operation makes finitely many writes and
\* ends; no thread has to start an operation, but one woken in begin_op looks
\* again.
Fairness ==
  \A t \in Thread : /\ WF_vars(~ panicked /\ run(t))
                    /\ SF_vars(~ panicked /\ end_op(t))
                    /\ WF_vars(~ panicked /\ pc[t] = "begin" /\ begin_op(t))
                    /\ WF_vars(~ panicked /\ read_head(t))

FairSpec == Spec /\ Fairness

-----------------------------------------------------------------------------
\* From log_write to its installation a block's only copy is in the cache,
\* and bget may not recycle it; and no buffer stays pinned afterwards.
PinnedUntilInstalled ==
  dirty = IF \E t \in Thread : pc[t] \in {"erase", "install"}
            THEN IF up /\ \E t \in Thread : pc[t] = "install"
                   THEN {lh[i] : i \in tail..Len(lh)} ELSE {}
            ELSE Range(lh)

\* Where the disk stands after the recovery that a crash now would need.
Recovered ==
  [b \in Block |-> IF b \in Range(dhead)
                     THEN dlog[CHOOSE i \in DOMAIN dhead : dhead[i] = b]
                     ELSE disk[b]]

Abs == INSTANCE AtomicDisk WITH
         stable <- Recovered,
         current <- IF up THEN data ELSE Recovered,
         active <- {t \in Thread : pc[t] \in {"op", "logging"}}

\* The log makes operations atomic with respect to crashes: what a restart
\* finds changes only in one step, to everything written, and only when no
\* operation is in progress; installing, evicting and recovering, however
\* often they are interrupted, change nothing.
ImplementsAtomicDisk == Abs!Spec

\* A thread that waits in begin_op gets to look at the log again.
WaiterRuns == \A t \in Thread : pc[t] = "asleep" ~> pc[t] # "asleep"
=============================================================================
