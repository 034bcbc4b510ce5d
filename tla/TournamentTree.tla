---------------------------- MODULE TournamentTree ----------------------------
(***************************************************************************)
(* The user-level lock of tournament_tree.c.  Its 2^Depth IDs are the       *)
(* leaves of a binary tree; each inner node is a kthread mutex.  A thread   *)
(* that acquires the lock with an ID locks the nodes from the leaf's parent *)
(* to the root, and unlocks them when it releases.                          *)
(*                                                                         *)
(* The kthread mutexes of the nodes are used through what Mutex says of     *)
(* them (KMutex implements it): owner[n] is the thread that locked node n.  *)
(* The sections under tree->lock contain nothing that waits and are one     *)
(* step each.                                                               *)
(***************************************************************************)
EXTENDS Integers, Sequences, FiniteSets

CONSTANTS Depth,
          Thread,
          NoThread,
          Programs,       \* what user programs do besides acquire and release
          MAX_MUTEXES,    \* of them, the ones the kernel has for this program
          MaxTrees        \* bound on the calls of trnmnt_tree_alloc

(***************************************************************************)
(* "dealloc": a thread may free the tree, and a new one is made.            *)
(* "reuse": malloc() returns memory with old contents.                      *)
(* "foreign": a thread also releases IDs that it did not acquire.           *)
(***************************************************************************)
ASSUME TreeAssumption ==
    /\ Depth \in Nat /\ MAX_MUTEXES \in Nat /\ MaxTrees \in Nat
    /\ NoThread \notin Thread
    /\ Programs \subseteq {"dealloc", "reuse", "foreign"}

threads     == 2 ^ Depth
total_nodes == 2 * threads - 1
Node == 0 .. total_nodes - 1
ID   == 0 .. threads - 1
NoID == -1

ASSUME ThreadsAssumption == threads \in Nat \ {0}   \* what proofs need of 2 ^ Depth

(***************************************************************************)
(* Children of n are 2n+1 and 2n+2; C's division truncates, so the root is  *)
(* its own parent.                                                          *)
(***************************************************************************)
leaf(i)   == total_nodes - threads + i
parent(n) == IF n = 0 THEN 0 ELSE (n - 1) \div 2

(***************************************************************************)
(* The orders in which release_lock(n) may unlock n and its ancestors: C    *)
(* does not say which operand of its + is evaluated first.                  *)
(***************************************************************************)
release_lock[n \in Node] ==
    IF n = 0 THEN {<<0>>}
    ELSE LET up == release_lock[parent(n)]
         IN  {Append(s, n) : s \in up} \cup {<<n>> \o s : s \in up}

VARIABLES live,                   \* the tree is allocated
          trees,                  \* calls of trnmnt_tree_alloc so far
          lost,                   \* node mutexes that dealloc could not free
          got,                    \* nodes below got have a mutex, the others -1
          taken_ids, num_of_locked,
          owner,                  \* node -> the thread that locked its mutex
          pc, id, node,           \* a thread's call: its ID, the node it is at
          todo, failed,           \*   nodes release_lock still has to unlock
          holds                   \* history: ID of an acquire that returned 0

treeVars == <<live, trees, lost, got, taken_ids, num_of_locked>>
vars == <<treeVars, owner, pc, id, node, todo, failed, holds>>

(***************************************************************************)
(* trnmnt_tree_alloc: one mutex for tree->lock, then one for every node as  *)
(* long as there are any.  Neither num_of_locked nor taken_ids is set.      *)
(***************************************************************************)
Got(left) == IF left < total_nodes THEN left ELSE total_nodes

Memory == IF "reuse" \in Programs THEN BOOLEAN ELSE {FALSE}

Init ==
    /\ live = TRUE /\ trees = 1 /\ lost = 0 /\ got = Got(MAX_MUTEXES - 1)
    /\ taken_ids = [i \in ID |-> FALSE] /\ num_of_locked = 0
    /\ owner = [n \in Node |-> NoThread]
    /\ pc = [t \in Thread |-> "user"]
    /\ id = [t \in Thread |-> 0]
    /\ node = [t \in Thread |-> 0]
    /\ todo = [t \in Thread |-> <<>>]
    /\ failed = [t \in Thread |-> FALSE]
    /\ holds = [t \in Thread |-> NoID]

trnmnt_tree_alloc(t) ==
    /\ ~live /\ pc[t] = "user" /\ trees < MaxTrees
    /\ trees + lost < MAX_MUTEXES          \* tree->lock gets a mutex
    /\ live' = TRUE
    /\ trees' = trees + 1
    /\ got' = Got(MAX_MUTEXES - (trees + 1) - lost)
    /\ taken_ids' \in [ID -> Memory]
    /\ num_of_locked' \in {IF b THEN 1 ELSE 0 : b \in Memory}
    /\ owner' = [n \in Node |-> NoThread]
    /\ UNCHANGED <<lost, pc, id, node, todo, failed, holds>>

trnmnt_tree_dealloc(t) ==
    /\ live /\ pc[t] = "user" /\ holds[t] = NoID /\ "dealloc" \in Programs
    /\ num_of_locked = 0
    /\ live' = FALSE
    /\ lost' = lost + Cardinality({n \in Node : owner[n] # NoThread})
    /\ UNCHANGED <<trees, got, taken_ids, num_of_locked, owner, pc, id, node, todo,
                   failed, holds>>

(***************************************************************************)
(* trnmnt_tree_acquire by a thread that holds no ID: a free ID is marked;   *)
(* then the nodes are locked one by one.  A tree without inner nodes has    *)
(* nothing to lock.                                                         *)
(***************************************************************************)
trnmnt_tree_acquire(t, i) ==
    /\ live /\ pc[t] = "user" /\ holds[t] = NoID
    /\ ~taken_ids[i]
    /\ taken_ids' = [taken_ids EXCEPT ![i] = TRUE]
    /\ num_of_locked' = num_of_locked + 1
    /\ id' = [id EXCEPT ![t] = i]
    /\ node' = [node EXCEPT ![t] = leaf(i)]
    /\ pc' = [pc EXCEPT ![t] = IF Depth = 0 THEN "user" ELSE "climb"]
    /\ holds' = [holds EXCEPT ![t] = IF Depth = 0 THEN i ELSE NoID]
    /\ UNCHANGED <<live, trees, lost, got, owner, todo, failed>>

Top_early(p) == parent(p) = 0                          \* mutant: a level too few
Top(p) == p = 0

lock_node(t) ==
    /\ pc[t] = "climb"
    /\ LET p == parent(node[t])
       IN  /\ p < got /\ owner[p] = NoThread
           /\ owner' = [owner EXCEPT ![p] = t]
           /\ node' = [node EXCEPT ![t] = p]
           /\ pc' = [pc EXCEPT ![t] = IF Top(p) THEN "user" ELSE "climb"]
           /\ holds' = [holds EXCEPT ![t] = IF Top(p) THEN id[t] ELSE NoID]
    /\ UNCHANGED <<treeVars, id, todo, failed>>

(***************************************************************************)
(* kthread_mutex_lock fails for a node without mutex and for one that the   *)
(* thread has locked: acquire returns -1 and keeps what it locked.          *)
(***************************************************************************)
lock_node_fails(t) ==
    /\ pc[t] = "climb"
    /\ LET p == parent(node[t]) IN p >= got \/ owner[p] = t
    /\ pc' = [pc EXCEPT ![t] = "user"]
    /\ UNCHANGED <<treeVars, owner, id, node, todo, failed, holds>>

(***************************************************************************)
(* trnmnt_tree_release: the nodes are unlocked, also after one of them      *)
(* failed; the ID is free again if none did.                                *)
(***************************************************************************)
ToUnlock_root(i) == {<<0>>}                            \* mutant: the root only
ToUnlock(i) == release_lock[parent(leaf(i))]

trnmnt_tree_release(t, i) ==
    /\ live /\ pc[t] = "user"
    /\ holds[t] = i \/ "foreign" \in Programs
    /\ taken_ids[i]
    /\ id' = [id EXCEPT ![t] = i]
    /\ \E s \in ToUnlock(i) : todo' = [todo EXCEPT ![t] = s]
    /\ failed' = [failed EXCEPT ![t] = FALSE]
    /\ pc' = [pc EXCEPT ![t] = "unlock"]
    /\ holds' = [holds EXCEPT ![t] = IF @ = i THEN NoID ELSE @]
    /\ UNCHANGED <<treeVars, owner, node>>

unlock_node(t) ==
    /\ pc[t] = "unlock" /\ todo[t] # <<>>
    /\ LET n == Head(todo[t])
       IN  /\ owner' = [owner EXCEPT ![n] = IF @ = t THEN NoThread ELSE @]
           /\ failed' = [failed EXCEPT ![t] = @ \/ owner[n] # t]
    /\ todo' = [todo EXCEPT ![t] = Tail(@)]
    /\ UNCHANGED <<treeVars, pc, id, node, holds>>

released(t) ==
    /\ pc[t] = "unlock" /\ todo[t] = <<>>
    /\ IF failed[t]
       THEN UNCHANGED <<taken_ids, num_of_locked>>
       ELSE /\ taken_ids' = [taken_ids EXCEPT ![id[t]] = FALSE]
            /\ num_of_locked' = num_of_locked - 1
    /\ pc' = [pc EXCEPT ![t] = "user"]
    /\ UNCHANGED <<live, trees, lost, got, owner, id, node, todo, failed, holds>>
-----------------------------------------------------------------------------
Next ==
    \E t \in Thread :
       \/ trnmnt_tree_alloc(t) \/ trnmnt_tree_dealloc(t)
       \/ \E i \in ID : trnmnt_tree_acquire(t, i) \/ trnmnt_tree_release(t, i)
       \/ lock_node(t) \/ lock_node_fails(t)
       \/ unlock_node(t) \/ released(t)

Spec == Init /\ [][Next]_vars

(***************************************************************************)
(* A thread goes on with its call; a node that stays free is locked by one  *)
(* that waits for it (FreeMutexTaken of KMutex, no more: a thread may lose  *)
(* a node to others any number of times); who holds the lock releases it.   *)
(***************************************************************************)
FairSpec ==
    /\ Spec
    /\ \A t \in Thread :
         /\ WF_vars(lock_node(t) \/ lock_node_fails(t) \/ unlock_node(t) \/ released(t))
         /\ WF_vars(\E i \in ID : holds[t] = i /\ trnmnt_tree_release(t, i))
-----------------------------------------------------------------------------
(***************************************************************************)
(* At most one thread holds the lock: is between an acquire that returned 0 *)
(* and its release.                                                         *)
(***************************************************************************)
MutualExclusion ==
    \A t, u \in Thread : (holds[t] # NoID /\ holds[u] # NoID) => t = u

(***************************************************************************)
(* A thread that holds the lock owns every node from its leaf's parent to   *)
(* the root, one that climbs owns those it has passed; nobody owns a node   *)
(* that is not on its way.  So a release by the holder finds every node     *)
(* locked by itself and does not fail.                                      *)
(***************************************************************************)
Path(i) == IF Depth = 0 THEN {}
           ELSE LET s == CHOOSE s \in release_lock[parent(leaf(i))] : TRUE
                IN  {s[k] : k \in 1 .. Len(s)}

Passed(t) ==
    CASE holds[t] # NoID -> Path(holds[t])
      [] pc[t] = "climb" -> {n \in Path(id[t]) : n >= node[t]}
      [] pc[t] = "unlock" -> {todo[t][k] : k \in 1 .. Len(todo[t])}
      [] OTHER -> {}

PathOwned ==
    \A t \in Thread : /\ {n \in Node : owner[n] = t} = Passed(t)
                      /\ ~failed[t]


(***************************************************************************)
(* When threads try to acquire the lock, some thread gets it or their calls *)
(* fail: the climb up the tree does not end in a deadlock.                  *)
(***************************************************************************)
Climbing == \E t \in Thread : pc[t] = "climb"

SomeoneEnters == Climbing ~> (~Climbing \/ \E t \in Thread : holds[t] # NoID)

(***************************************************************************)
(* The tree is an implementation of one abstract lock, owned by the thread  *)
(* that holds an ID.                                                        *)
(***************************************************************************)
Holder == IF \E t \in Thread : holds[t] # NoID
          THEN CHOOSE t \in Thread : holds[t] # NoID
          ELSE NoThread

Abs == INSTANCE Mutex WITH Lock <- {"tree"}, NoOwner <- NoThread,
                           owner <- [l \in {"tree"} |-> Holder]

ImplementsMutex == Abs!Spec
=============================================================================
