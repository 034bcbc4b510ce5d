-------------------------------- MODULE Mutex ---------------------------------
(***************************************************************************)
(* What a lock promises: at any time at most one thread owns it, and only   *)
(* the owner gives it up.  KMutex (the kernel's mutexes) and TournamentTree *)
(* (the user-level lock built from them) are shown to implement it.         *)
(***************************************************************************)
CONSTANTS Thread, Lock, NoOwner

VARIABLE owner

Init == owner = [l \in Lock |-> NoOwner]

Acquire(t, l) ==
    /\ owner[l] = NoOwner
    /\ owner' = [owner EXCEPT ![l] = t]

Release(t, l) ==
    /\ owner[l] = t
    /\ owner' = [owner EXCEPT ![l] = NoOwner]

Next == \E t \in Thread, l \in Lock : Acquire(t, l) \/ Release(t, l)

Spec == Init /\ [][Next]_owner
=============================================================================
