-------------------------------- MODULE MCProc --------------------------------
(***************************************************************************)
(* Proc for TLC.  The cpus are interchangeable: what counts is which        *)
(* threads run.                                                             *)
(*                                                                         *)
(* The kernel context of a thread that has ended is never read again: a new *)
(* thread in its slot starts at forkret.  A channel is read while a thread  *)
(* sleeps, cont while it is in sched(), joining while it joins.  States     *)
(* that differ in nothing else are taken for the same.                      *)
(***************************************************************************)
EXTENDS Proc

Ended(t) == tstate[t] \in {"TUNUSED", "TZOMBIE"}
Joins(t) == ~Ended(t) /\ (pc[t] = "join" \/ cont[t] = "join")

WellFormed ==
    /\ pc \in [Thread -> STRING] /\ cont \in [Thread -> STRING]
    /\ chan \in [Thread -> STRING \X Int \X Int]
    /\ joining \in [Thread -> [slot : Nat, id : Nat]]
    /\ thread \in [CPU -> Thread \cup {NoThread}]

LiveView ==
    <<WellFormed, procVars, tstate, tid, tkilled, kstack, {thread[c] : c \in CPU}, lock, idVars, ioVars, panicked,
      [t \in Thread |-> IF Ended(t) THEN <<"none", "none">> ELSE <<pc[t], cont[t]>>],
      [t \in Thread |-> IF tstate[t] = "TSLEEPING" THEN chan[t] ELSE NoChan],
      [t \in Thread |-> IF Joins(t) THEN joining[t] ELSE [slot |-> 0, id |-> 0]]>>
=============================================================================
