-------------------------------- MODULE Pipe --------------------------------
(***************************************************************************)
(* The bytes of one pipe (pipe.c): processes that inherited both ends read *)
(* and write, sleep on the empty or full ring, close their ends, and may   *)
(* be killed.  nread and nwrite are unsigned counters that wrap around.    *)
(***************************************************************************)
EXTENDS Naturals, FiniteSets, FiniteSetsExt

CONSTANTS Thread,    \* single-threaded processes with the pipe's ends
          PIPESIZE,
          W,         \* nread and nwrite are counted modulo W
          Counts     \* the numbers of bytes of a read or write

ASSUME PipeAssumption ==
  /\ PIPESIZE \in Nat \ {0}
  /\ W \in Nat /\ W % PIPESIZE = 0 /\ W > PIPESIZE
  /\ Counts \subseteq Nat \ {0}

VARIABLES nread, nwrite, data,
          readopen, writeopen,
          ends,      \* the ends a process still has open
          killed,    \* the processes that were killed
          pc, n,     \* where a process is, and the bytes it still has to move
          unwoken    \* bytes came and the readers were not woken

vars == <<nread, nwrite, data, readopen, writeopen, ends, killed, pc, n, unwoken>>
ring == <<nread, nwrite, data>>
open == <<readopen, writeopen, ends>>

Init ==
  /\ nread = 0 /\ nwrite = 0
  /\ data = [i \in 0..PIPESIZE-1 |-> 0]
  /\ readopen = TRUE /\ writeopen = TRUE
  /\ ends = [t \in Thread |-> {"r", "w"}]
  /\ killed = {}
  /\ pc = [t \in Thread |-> "user"]
  /\ n = [t \in Thread |-> 0]
  /\ unwoken = FALSE

\* The bytes in the pipe, and the room for more: it is full when nwrite is
\* nread + PIPESIZE, both unsigned.
Used == (nwrite + W - nread) % W

Room_wide == PIPESIZE + 1 - Used

Room == PIPESIZE - Used

\* wakeup(&p->nread) or wakeup(&p->nwrite), with t going on at l.
Wake(from, to, t, l) ==
  pc' = [u \in Thread |-> IF u = t THEN l ELSE IF pc[u] = from THEN to ELSE pc[u]]
WakeReaders(t, l) == Wake("rsleep", "piperead", t, l)
WakeWriters(t, l) == Wake("wsleep", "pipewrite", t, l)
Goto(t, l) == pc' = [pc EXCEPT ![t] = l]

\* A call of read or write; a killed process does not get back to make one.
call(t) ==
  /\ pc[t] = "user" /\ t \notin killed
  /\ \/ "r" \in ends[t] /\ Goto(t, "piperead")
     \/ "w" \in ends[t] /\ Goto(t, "pipewrite")
  /\ \E k \in Counts : n' = [n EXCEPT ![t] = k]
  /\ UNCHANGED <<ring, open, killed, unwoken>>

\* k bytes go into the ring; a byte's value is its number.
Put(k) ==
  /\ nwrite' = (nwrite + k) % W
  /\ data' = [i \in 0..PIPESIZE-1 |->
                LET new == {j \in 0..k-1 : (nwrite + j) % PIPESIZE = i}
                IN IF new = {} THEN data[i] ELSE (nwrite + Max(new)) % W]

\* pipewrite between two sleeps: it fills the room there is and returns or,
\* with the pipe full, wakes the readers and sleeps.
pipewrite(t) ==
  LET k == Min({n[t], Room}) IN
  /\ pc[t] = "pipewrite"
  /\ k = n[t] \/ (readopen /\ t \notin killed)
  /\ Put(k)
  /\ n' = [n EXCEPT ![t] = @ - k]
  /\ WakeReaders(t, IF k = n[t] THEN "user" ELSE "wsleep")
  /\ unwoken' = FALSE
  /\ UNCHANGED <<nread, open, killed>>

\* It finds the pipe full with no reader left, or was killed: -1 at once, and
\* no wakeup for the bytes it put in.
pipewrite_fails(t) ==
  LET k == Min({n[t], Room}) IN
  /\ pc[t] = "pipewrite"
  /\ k < n[t] /\ (~ readopen \/ t \in killed)
  /\ Put(k)
  /\ n' = [n EXCEPT ![t] = 0]
  /\ Goto(t, "user")
  /\ unwoken' = TRUE
  /\ UNCHANGED <<nread, open, killed>>

Empty == Used = 0 /\ writeopen

piperead_silent(t) ==
  LET k == Min({n[t], Used}) IN
  /\ pc[t] = "piperead" /\ ~ Empty
  /\ nread' = (nread + k) % W
  /\ n' = [n EXCEPT ![t] = 0]
  /\ Goto(t, "user")
  /\ UNCHANGED <<nwrite, data, open, killed, unwoken>>

\* piperead takes what there is, also nothing when no writer is left.
piperead(t) ==
  LET k == Min({n[t], Used}) IN
  /\ pc[t] = "piperead" /\ ~ Empty
  /\ nread' = (nread + k) % W
  /\ n' = [n EXCEPT ![t] = 0]
  /\ WakeWriters(t, "user")
  /\ UNCHANGED <<nwrite, data, open, killed, unwoken>>

piperead_sleeps(t) ==
  /\ pc[t] = "piperead" /\ Empty
  /\ IF t \in killed THEN Goto(t, "user") /\ n' = [n EXCEPT ![t] = 0]
                     ELSE Goto(t, "rsleep") /\ UNCHANGED n
  /\ UNCHANGED <<ring, open, killed, unwoken>>

\* A process closes an end, by close or by exit; the last to close it calls
\* pipeclose.
close(t, e) ==
  /\ pc[t] = "user" /\ e \in ends[t]
  /\ ends' = [ends EXCEPT ![t] = @ \ {e}]
  /\ Goto(t, IF \E u \in Thread \ {t} : e \in ends[u] THEN "user"
             ELSE IF e = "r" THEN "closer" ELSE "closew")
  /\ UNCHANGED <<ring, readopen, writeopen, killed, n, unwoken>>

pipeclose_write_silent(t) ==
  /\ pc[t] = "closew"
  /\ writeopen' = FALSE
  /\ Goto(t, "user")
  /\ UNCHANGED <<ring, readopen, ends, killed, n, unwoken>>

pipeclose_write(t) ==
  /\ pc[t] = "closew"
  /\ writeopen' = FALSE
  /\ WakeReaders(t, "user")
  /\ UNCHANGED <<ring, readopen, ends, killed, n, unwoken>>

pipeclose_read(t) ==
  /\ pc[t] = "closer"
  /\ readopen' = FALSE
  /\ WakeWriters(t, "user")
  /\ UNCHANGED <<ring, writeopen, ends, killed, n, unwoken>>

\* kill marks a process and wakes nobody.
kill(t) ==
  /\ t \notin killed
  /\ killed' = killed \cup {t}
  /\ UNCHANGED <<ring, open, pc, n, unwoken>>

run(t) ==
  \/ pipewrite(t) \/ pipewrite_fails(t) \/ piperead(t) \/ piperead_sleeps(t)
  \/ pipeclose_write(t) \/ pipeclose_read(t)

Next == \E t \in Thread : call(t) \/ run(t) \/ kill(t) \/ (\E e \in {"r", "w"} : close(t, e))

Spec == Init /\ [][Next]_vars

\* Processes in the kernel run, and a killed process closes what it has open
\* when it gets back.
FairSpec ==
  Spec /\ \A t \in Thread : WF_vars(run(t))
                            /\ \A e \in {"r", "w"} : WF_vars(t \in killed /\ close(t, e))
-----------------------------------------------------------------------------
\* The bytes between nread and nwrite are the last ones written, in order and
\* none overwritten, also after the counters have wrapped around.
RingIntact ==
  /\ Used <= PIPESIZE
  /\ \A i \in 0..Used-1 : LET b == (nread + i) % W IN data[b % PIPESIZE] = b

\* A reader sleeps only on an empty pipe that has a writer, and a writer only
\* on a full pipe that has a reader: no wakeup of write, read or close is lost,
\* except by a writer that gives up, which skips the wakeup for its bytes.
SleepsForAReason ==
  \A t \in Thread :
    /\ pc[t] = "rsleep" => (Used = 0 \/ unwoken) /\ writeopen
    /\ pc[t] = "wsleep" => Used = PIPESIZE /\ readopen

\* A reader gets the end of file: once nobody has the write end, every read
\* returns, and a write to a pipe without reader as well.
NobodyWaitsForNobody ==
  \A t \in Thread :
    /\ pc[t] \in {"piperead", "rsleep"} /\ ~ writeopen ~> pc[t] = "user"
    /\ pc[t] \in {"pipewrite", "wsleep"} /\ ~ readopen ~> pc[t] = "user"
=============================================================================
