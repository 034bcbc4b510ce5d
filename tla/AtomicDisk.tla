----------------------------- MODULE AtomicDisk -----------------------------
(***************************************************************************)
(* What the log promises to the file system: operations that begin, write  *)
(* blocks and end, whose writes reach the disk all together and only when  *)
(* no operation is in progress, so that a crash never leaves a part of an  *)
(* operation behind.                                                       *)
(***************************************************************************)
CONSTANTS Block, Value, Thread

VARIABLES stable,   \* the blocks a restart finds
          current,  \* the blocks the operations read and write
          active    \* the threads inside an operation

vars == <<stable, current, active>>

Init ==
  /\ stable \in [Block -> Value]
  /\ current = stable
  /\ active = {}

Begin(t) ==
  /\ t \notin active
  /\ active' = active \cup {t}
  /\ UNCHANGED <<stable, current>>

Write(t, b, v) ==
  /\ t \in active
  /\ current' = [current EXCEPT ![b] = v]
  /\ UNCHANGED <<stable, active>>

End(t) ==
  /\ t \in active
  /\ active' = active \ {t}
  /\ UNCHANGED <<stable, current>>

Commit ==
  /\ active = {}
  /\ stable' = current
  /\ UNCHANGED <<current, active>>

Crash ==
  /\ current' = stable
  /\ active' = {}
  /\ UNCHANGED stable

Next ==
  \/ \E t \in Thread : Begin(t) \/ End(t)
  \/ \E t \in Thread, b \in Block, v \in Value : Write(t, b, v)
  \/ Commit
  \/ Crash

Spec == Init /\ [][Next]_vars
=============================================================================
