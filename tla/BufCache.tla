------------------------------ MODULE BufCache ------------------------------
(***************************************************************************)
(* The buffer cache (bio.c) and the disk driver below it (ide.c).  Threads *)
(* get the buffer of a block, change it, write it or leave it pinned for   *)
(* the log, and release it; the driver serves a queue of buffers, one      *)
(* request at a time, and its interrupt comes at any moment.               *)
(***************************************************************************)
EXTENDS Naturals, Sequences, FiniteSets

CONSTANTS Thread,     \* the threads that use the cache
          Block,      \* the blocks of the disk
          Value,      \* the contents of a block
          NBUF,       \* number of buffers
          MaxPinned,  \* the most buffers the log keeps pinned
          MaxErrors,  \* bound on the reads that fail
          None

ASSUME BufAssumption ==
  /\ NBUF \in Nat /\ MaxPinned \in Nat /\ MaxErrors \in Nat
  /\ IsFiniteSet(Thread)
  /\ None \notin Block \cup Thread

Buf == 1..NBUF

VARIABLES blockno, valid, dirty, refcnt, data,  \* struct buf
          holder,    \* who has the buffer's sleep lock
          mru,       \* bcache.head: the buffers, most recently used first
          idequeue,  \* the buffers waiting for the disk
          drive,     \* the command the controller works on
          disk,      \* the blocks on disk
          pc, buf,   \* where a thread is, and its buffer
          want,      \* the block a thread asked for
          latest,    \* what was last put into each block
          bad,       \* buffers whose last read failed
          errors,    \* reads that failed so far
          panicked

bufs == <<blockno, valid, dirty, refcnt, data, holder, mru>>
ide == <<idequeue, drive, disk>>
ghosts == <<latest, bad, errors>>
vars == <<bufs, ide, pc, buf, want, ghosts, panicked>>

Idle == [write |-> FALSE, blockno |-> None, data |-> None]

Init ==
  /\ disk \in [Block -> Value]
  /\ latest = disk
  /\ blockno = [b \in Buf |-> None]
  /\ valid = {} /\ dirty = {} /\ bad = {}
  /\ refcnt = [b \in Buf |-> 0]
  /\ \E v \in Value : data = [b \in Buf |-> v]
  /\ holder = [b \in Buf |-> None]
  /\ mru = [i \in Buf |-> NBUF + 1 - i]
  /\ idequeue = <<>> /\ drive = Idle
  /\ pc = [t \in Thread |-> "idle"]
  /\ buf = [t \in Thread |-> 0]
  /\ want = [t \in Thread |-> None]
  /\ errors = 0
  /\ panicked = FALSE

Goto(t, l) == pc' = [pc EXCEPT ![t] = l]

Unused_unpinned == {b \in Buf : refcnt[b] = 0}

Unused_unlocked == {b \in Buf : holder[b] = None /\ b \notin dirty}

\* The buffers bget may recycle.
Unused == {b \in Buf : refcnt[b] = 0 /\ b \notin dirty}

Cached_valid(n) == {b \in Buf : blockno[b] = n /\ b \in valid}

\* The buffers in which bget finds the block.
Cached(n) == {b \in Buf : blockno[b] = n}

\* bget, first loop: the block has a buffer.
bget_cached(t, n) ==
  \E b \in Cached(n) :
    /\ pc[t] = "idle"
    /\ refcnt' = [refcnt EXCEPT ![b] = @ + 1]
    /\ buf' = [buf EXCEPT ![t] = b]
    /\ want' = [want EXCEPT ![t] = n]
    /\ Goto(t, "lock")
    /\ UNCHANGED <<blockno, valid, dirty, data, holder, mru, ide, ghosts,
                   panicked>>

\* The unused buffer that was least recently used.
LeastRecent ==
  mru[CHOOSE j \in Buf : /\ mru[j] \in Unused
                         /\ \A k \in j+1..NBUF : mru[k] \notin Unused]

\* bget, second loop: recycle a buffer, or panic for want of one.
bget_recycle(t, n) ==
  /\ pc[t] = "idle" /\ Cached(n) = {}
  /\ IF Unused = {}
       THEN panicked' = TRUE /\ UNCHANGED <<blockno, valid, dirty, refcnt, pc, buf, want>>
       ELSE /\ blockno' = [blockno EXCEPT ![LeastRecent] = n]
            /\ valid' = valid \ {LeastRecent}
            /\ dirty' = dirty \ {LeastRecent}
            /\ refcnt' = [refcnt EXCEPT ![LeastRecent] = 1]
            /\ buf' = [buf EXCEPT ![t] = LeastRecent]
            /\ want' = [want EXCEPT ![t] = n]
            /\ Goto(t, "lock")
            /\ UNCHANGED panicked
  /\ UNCHANGED <<data, holder, mru, ide, ghosts>>

\* acquiresleep at the end of bget, and bread's test of B_VALID.
acquiresleep(t) ==
  /\ pc[t] = "lock"
  /\ IF holder[buf[t]] = None
       THEN /\ holder' = [holder EXCEPT ![buf[t]] = t]
            /\ Goto(t, IF buf[t] \in valid THEN "have" ELSE "rw")
       ELSE Goto(t, "waiting") /\ UNCHANGED holder
  /\ UNCHANGED <<blockno, valid, dirty, refcnt, data, mru, ide, buf, want,
                 ghosts, panicked>>

\* idestart: the command, with the data of a write, goes to the controller.
idestart(b) ==
  drive' = [write |-> b \in dirty, blockno |-> blockno[b],
            data |-> IF b \in dirty THEN data[b] ELSE None]

\* iderw up to its sleep: join the queue, start an idle disk.
iderw(t) ==
  /\ pc[t] = "rw"
  /\ panicked' = (buf[t] \in valid \ dirty)
  /\ idequeue' = Append(idequeue, buf[t])
  /\ IF idequeue = <<>> THEN idestart(buf[t]) ELSE UNCHANGED drive
  /\ Goto(t, "io")
  /\ UNCHANGED <<bufs, disk, buf, want, ghosts>>

\* The loop of iderw looks at the flags after a wakeup.
iderw_woken(t) ==
  /\ pc[t] = "woken"
  /\ Goto(t, IF buf[t] \in valid \ dirty THEN "have" ELSE "io")
  /\ UNCHANGED <<bufs, ide, buf, want, ghosts, panicked>>

\* The disk has done its command: ideintr takes the first buffer off the
\* queue, reads the data unless the buffer is dirty, marks it valid, wakes
\* its thread and starts the next.  A read with an error (idewait below 0)
\* leaves the old data, valid all the same.
ideintr(ok) ==
  /\ idequeue # <<>>
  /\ ok \/ (Head(idequeue) \notin dirty /\ errors < MaxErrors)
  /\ LET b == Head(idequeue) IN
       /\ disk' = IF drive.write THEN [disk EXCEPT ![drive.blockno] = drive.data]
                                 ELSE disk
       /\ data' = IF b \notin dirty /\ ok THEN [data EXCEPT ![b] = disk[drive.blockno]]
                                          ELSE data
       /\ bad' = IF ok THEN bad \ {b} ELSE bad \cup {b}
       /\ valid' = valid \cup {b}
       /\ dirty' = dirty \ {b}
       /\ pc' = [t \in Thread |-> IF pc[t] = "io" /\ buf[t] = b THEN "woken" ELSE pc[t]]
  /\ idequeue' = Tail(idequeue)
  /\ IF idequeue' = <<>> THEN drive' = Idle ELSE idestart(Head(idequeue'))
  /\ errors' = IF ok THEN errors ELSE errors + 1
  /\ UNCHANGED <<blockno, refcnt, holder, mru, buf, want, latest, panicked>>

\* The holder changes the data: followed by bwrite (l is "rw"), or by
\* log_write, which pins the buffer and leaves the writing to a commit.
change(t, v, l) ==
  /\ pc[t] = "have"
  /\ l = "have" => Cardinality(dirty \cup {buf[t]}) <= MaxPinned
  /\ data' = [data EXCEPT ![buf[t]] = v]
  /\ latest' = [latest EXCEPT ![want[t]] = v]
  /\ bad' = bad \ {buf[t]}
  /\ dirty' = dirty \cup {buf[t]}
  /\ Goto(t, l)
  /\ UNCHANGED <<blockno, valid, refcnt, holder, mru, ide, buf, want, errors,
                 panicked>>

\* brelse: releasesleep with its wakeup, then the count and the list.
releasesleep(t) ==
  /\ pc[t] = "have"
  /\ holder' = [holder EXCEPT ![buf[t]] = None]
  /\ pc' = [u \in Thread |->
              IF u = t THEN "released"
              ELSE IF pc[u] = "waiting" /\ buf[u] = buf[t] THEN "lock" ELSE pc[u]]
  /\ UNCHANGED <<blockno, valid, dirty, refcnt, data, mru, ide, buf, want,
                 ghosts, panicked>>

\* The list with b at its head: those that were before b move down by one.
MoveToFront(b) ==
  [i \in Buf |-> IF i = 1 THEN b
                 ELSE IF \E k \in i..NBUF : mru[k] = b THEN mru[i-1] ELSE mru[i]]

brelse(t) ==
  /\ pc[t] = "released"
  /\ LET b == buf[t] IN
       /\ refcnt' = [refcnt EXCEPT ![b] = @ - 1]
       /\ mru' = IF refcnt[b] = 1 THEN MoveToFront(b) ELSE mru
  /\ buf' = [buf EXCEPT ![t] = 0]
  /\ want' = [want EXCEPT ![t] = None]
  /\ Goto(t, "idle")
  /\ UNCHANGED <<blockno, valid, dirty, data, holder, ide, ghosts, panicked>>

call(t) == \E n \in Block : \/ bget_cached(t, n)
                            \/ bget_recycle(t, n)

use(t) == \E v \in Value, l \in {"rw", "have"} : change(t, v, l)

run(t) == acquiresleep(t) \/ iderw(t) \/ iderw_woken(t) \/ brelse(t)

\* A panic stops the system, which TLC reports as a deadlock: with room for the
\* pinned buffers and one per thread, bget finds a buffer, and iderw is never
\* called for nothing.
Next ==
  /\ ~ panicked
  /\ \/ \E t \in Thread : call(t) \/ use(t) \/ run(t) \/ releasesleep(t)
     \/ \E ok \in BOOLEAN : ideintr(ok)

Spec == Init /\ [][Next]_vars

-----------------------------------------------------------------------------
\* Two threads that ask for one block share one buffer: bget never makes a
\* second copy of a block.
OneBufferPerBlock ==
  \A b, c \in Buf : blockno[b] = blockno[c] /\ blockno[b] # None => b = c

\* Whoever holds a buffer after bread has the block it asked for, alone, and
\* sees the last contents anyone gave it, however often the block left the
\* cache in between; only a read error breaks this.
ReadsLatest ==
  \A t \in Thread : pc[t] = "have" =>
    /\ holder[buf[t]] = t
    /\ blockno[buf[t]] = want[t]
    /\ buf[t] \in bad \/ data[buf[t]] = latest[want[t]]

\* An update is never only in a buffer that bget may recycle.
NothingLost ==
  \A n \in Block :
    disk[n] # latest[n] =>
      \E b \in Buf : /\ blockno[b] = n /\ data[b] = latest[n]
                     /\ refcnt[b] > 0 \/ b \in dirty

=============================================================================
