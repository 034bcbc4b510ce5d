----------------------------- MODULE TreeProofs -----------------------------
(***************************************************************************)
(* Proofs about TournamentTree: for any number of threads and any depth but *)
(* 0 at most one thread holds the lock, and the tree implements the         *)
(* abstract lock of module Mutex.  Programs may free the tree and make a    *)
(* new one; they release only what they acquired, and malloc() returns      *)
(* cleared memory (a tree made in old contents may have IDs in use from the *)
(* start, and a count that lets it be freed while it is used).              *)
(***************************************************************************)
EXTENDS TournamentTree, FiniteSetTheorems, TLAPS

WellUsed == Programs \subseteq {"dealloc"} /\ Depth # 0

(***************************************************************************)
(* The types that the argument needs.  Where a thread is in the tree does   *)
(* not matter: exclusion rests on the root.                                 *)
(***************************************************************************)
Types ==
    /\ live \in BOOLEAN
    /\ taken_ids \in [ID -> BOOLEAN] /\ num_of_locked \in Int
    /\ owner \in [Node -> Thread \cup {NoThread}]
    /\ pc \in [Thread -> {"user", "climb", "unlock"}]
    /\ id \in [Thread -> ID]
    /\ holds \in [Thread -> ID \cup {NoID}]

HolderOwnsRoot ==
    \A t \in Thread : holds[t] # NoID => owner[0] = t /\ pc[t] = "user"

(***************************************************************************)
(* A thread uses an ID from the moment it marked it; no two threads use the *)
(* same, so nobody clears the mark of another.                              *)
(***************************************************************************)
Uses(t, i) == holds[t] = i \/ (pc[t] # "user" /\ id[t] = i)

UsedIsTaken == \A t \in Thread, i \in ID : Uses(t, i) => live /\ taken_ids[i]

UsersDiffer == \A t, u \in Thread, i \in ID : (Uses(t, i) /\ Uses(u, i)) => t = u

taken == {i \in ID : taken_ids[i]}

Counted == live => num_of_locked = Cardinality(taken)

TreeInv == /\ Types /\ HolderOwnsRoot /\ UsedIsTaken /\ UsersDiffer /\ Counted

(* What the provers need to know of the sets.                              *)
LEMMA TreeBasics ==
    /\ 0 \in Node /\ 0 \in ID /\ NoID \notin ID /\ NoThread \notin Thread
    /\ IsFiniteSet(ID)
<1>1. 0 \in Node /\ 0 \in ID /\ NoID \notin ID
  BY ThreadsAssumption DEF Node, ID, NoID, total_nodes
<1>2. IsFiniteSet(ID)
  BY ThreadsAssumption, FS_Interval DEF ID
<1> QED BY <1>1, <1>2, TreeAssumption

(* The IDs in use are finitely many.                                       *)
LEMMA TakenFinite == IsFiniteSet(taken)
  BY TreeBasics, FS_Subset DEF taken

(* No ID is in use at the start.                                           *)
LEMMA TreeInit == Init => TreeInv
<1> SUFFICES ASSUME Init PROVE TreeInv
  OBVIOUS
<1> USE TreeBasics
<1>1. taken = {}
  BY DEF Init, taken
<1>2. Counted
  BY <1>1, FS_EmptySet DEF Init, Counted
<1> QED BY <1>2 DEF Init, TreeInv, Types, HolderOwnsRoot, UsedIsTaken, UsersDiffer, Uses

(* A new tree is made only when nobody uses the old one.                   *)
LEMMA Tree_alloc ==
    ASSUME WellUsed, TreeInv, NEW t \in Thread, trnmnt_tree_alloc(t)
    PROVE  TreeInv'
<1> USE TreeBasics
<1>1. taken_ids' = [i \in ID |-> FALSE] /\ num_of_locked' = 0
  BY Zenon DEF trnmnt_tree_alloc, WellUsed, Memory
<1>2. /\ live' = TRUE /\ ~live /\ owner' = [n \in Node |-> NoThread]
      /\ UNCHANGED <<pc, id, holds>>
  BY DEF trnmnt_tree_alloc
<1>3. \A x \in Thread, i \in ID : ~Uses(x, i)
  BY <1>2 DEF TreeInv, UsedIsTaken
<1>4. \A x \in Thread, i \in ID : ~Uses(x, i)'
  BY <1>2, <1>3 DEF Uses
<1>5. \A x \in Thread : holds[x] = NoID
  BY <1>3 DEF TreeInv, Types, Uses
<1>6. taken' = {}
  BY <1>1 DEF taken
<1>7. Counted'
  BY <1>1, <1>6, FS_EmptySet DEF Counted
<1>8. Types'
  BY <1>1, <1>2 DEF TreeInv, Types
<1> QED BY <1>2, <1>4, <1>5, <1>7, <1>8 DEF TreeInv, HolderOwnsRoot, UsedIsTaken, UsersDiffer

(* A tree is freed when no ID is in use.                                   *)
LEMMA Tree_dealloc ==
    ASSUME TreeInv, NEW t \in Thread, trnmnt_tree_dealloc(t)
    PROVE  TreeInv'
<1>1. /\ live /\ live' = FALSE /\ num_of_locked = 0
      /\ UNCHANGED <<taken_ids, num_of_locked, owner, pc, id, holds>>
  BY DEF trnmnt_tree_dealloc
<1>2. taken = {}
  BY <1>1, TakenFinite, FS_EmptySet DEF TreeInv, Counted
<1>3. \A x \in Thread, i \in ID : ~Uses(x, i)
  BY <1>2 DEF TreeInv, UsedIsTaken, taken
<1> QED BY <1>1, <1>3, Zenon DEF TreeInv, Types, HolderOwnsRoot, UsedIsTaken, UsersDiffer, Uses,
             Counted

(* An acquire uses an ID that nobody used.                                 *)
LEMMA Tree_acquire ==
    ASSUME WellUsed, TreeInv, NEW t \in Thread, NEW i \in ID, trnmnt_tree_acquire(t, i)
    PROVE  TreeInv'
<1> USE TreeBasics
<1>1. /\ live /\ live' = live /\ ~taken_ids[i] /\ pc[t] = "user" /\ holds[t] = NoID
      /\ taken_ids' = [taken_ids EXCEPT ![i] = TRUE]
      /\ num_of_locked' = num_of_locked + 1
      /\ id' = [id EXCEPT ![t] = i] /\ pc' = [pc EXCEPT ![t] = "climb"]
      /\ holds' = [holds EXCEPT ![t] = NoID]
      /\ owner' = owner
  BY DEF trnmnt_tree_acquire, WellUsed
<1>2. Types
  BY DEF TreeInv
<1>3. holds' = holds /\ \A j \in ID : taken_ids'[j] <=> (taken_ids[j] \/ j = i)
  BY <1>1, <1>2 DEF Types
<1>4. \A x \in Thread, j \in ID : Uses(x, j)' <=> (Uses(x, j) \/ (x = t /\ j = i))
  BY <1>1, <1>2, <1>3 DEF Types, Uses
<1>5. \A x \in Thread : ~Uses(x, i)
  BY <1>1 DEF TreeInv, UsedIsTaken
<1>6. Counted'
  <2>1. taken' = taken \cup {i} /\ i \notin taken
    BY <1>1, <1>3 DEF taken
  <2>2. Cardinality(taken') = Cardinality(taken) + 1
    BY <2>1, TakenFinite, FS_AddElement
  <2> QED BY <1>1, <2>2 DEF TreeInv, Counted
<1>7. Types'
  BY <1>1, <1>2 DEF Types
<1>8. HolderOwnsRoot'
  BY <1>1, <1>2, <1>3 DEF TreeInv, HolderOwnsRoot, Types
<1>9. UsedIsTaken'
  BY <1>1, <1>3, <1>4, Zenon DEF TreeInv, UsedIsTaken
<1>10. UsersDiffer'
  <2> SUFFICES ASSUME NEW x \in Thread, NEW y \in Thread, NEW j \in ID,
                      Uses(x, j)', Uses(y, j)'
               PROVE  x = y
    BY DEF UsersDiffer
  <2> QED BY <1>4, <1>5 DEF TreeInv, UsersDiffer
<1> QED BY <1>6, <1>7, <1>8, <1>9, <1>10 DEF TreeInv

(* Locking a node; the one that locks the root holds the tree.             *)
LEMMA Tree_lock_node ==
    ASSUME TreeInv, NEW t \in Thread, lock_node(t)
    PROVE  TreeInv'
<1> USE TreeBasics
<1> DEFINE p == parent(node[t])
<1>1. /\ pc[t] = "climb" /\ owner[p] = NoThread
      /\ owner' = [owner EXCEPT ![p] = t]
      /\ pc' = [pc EXCEPT ![t] = IF p = 0 THEN "user" ELSE "climb"]
      /\ holds' = [holds EXCEPT ![t] = IF p = 0 THEN id[t] ELSE NoID]
      /\ UNCHANGED <<live, taken_ids, num_of_locked, id>>
  BY DEF lock_node, Top, treeVars
<1> HIDE DEF p
<1>2. Types
  BY DEF TreeInv
<1>3. holds[t] = NoID
  BY <1>1 DEF TreeInv, HolderOwnsRoot
<1>4. Types'
  <2>1. owner' \in [Node -> Thread \cup {NoThread}]
    BY <1>1, <1>2, Zenon DEF Types
  <2>2. pc' \in [Thread -> {"user", "climb", "unlock"}] /\ holds' \in [Thread -> ID \cup {NoID}]
    BY <1>1, <1>2 DEF Types
  <2> QED BY <1>1, <1>2, <2>1, <2>2 DEF Types
<1>5. \A x \in Thread, j \in ID : Uses(x, j)' <=> Uses(x, j)
  BY <1>1, <1>2, <1>3 DEF Types, Uses
<1>6. HolderOwnsRoot'
  <2>1. \A x \in Thread \ {t} : pc'[x] = pc[x] /\ holds'[x] = holds[x]
    BY <1>1, <1>2 DEF Types
  <2>2. CASE p = 0
    <3>1. \A x \in Thread \ {t} : holds[x] = NoID
      BY <1>1, <2>2 DEF TreeInv, HolderOwnsRoot
    <3>2. owner'[0] = t /\ pc'[t] = "user"
      BY <1>1, <1>2, <2>2 DEF Types
    <3> QED BY <2>1, <3>1, <3>2 DEF HolderOwnsRoot
  <2>3. CASE p # 0
    <3>1. owner'[0] = owner[0] /\ holds'[t] = NoID
      BY <1>1, <1>2, <2>3 DEF Types
    <3> QED BY <2>1, <3>1 DEF TreeInv, HolderOwnsRoot
  <2> QED BY <2>2, <2>3
<1>7. UsedIsTaken' /\ UsersDiffer'
  BY <1>1, <1>5 DEF TreeInv, UsedIsTaken, UsersDiffer
<1>8. Counted'
  BY <1>1 DEF TreeInv, Counted, taken
<1> QED BY <1>4, <1>6, <1>7, <1>8 DEF TreeInv

(* An acquire that fails leaves its ID marked.                             *)
LEMMA Tree_lock_node_fails ==
    ASSUME TreeInv, NEW t \in Thread, lock_node_fails(t)
    PROVE  TreeInv'
<1>1. /\ pc[t] = "climb" /\ pc' = [pc EXCEPT ![t] = "user"]
      /\ UNCHANGED <<live, taken_ids, num_of_locked, owner, id, holds>>
  BY DEF lock_node_fails, treeVars
<1>2. \A x \in Thread, j \in ID : Uses(x, j)' => Uses(x, j)
  BY <1>1 DEF TreeInv, Types, Uses
<1>3. Types' /\ HolderOwnsRoot'
  BY <1>1 DEF TreeInv, Types, HolderOwnsRoot
<1>4. UsedIsTaken' /\ UsersDiffer' /\ Counted'
  BY <1>1, <1>2 DEF TreeInv, UsedIsTaken, UsersDiffer, Counted, taken
<1> QED BY <1>3, <1>4 DEF TreeInv

(* A release still uses its ID.                                            *)
LEMMA Tree_release ==
    ASSUME WellUsed, TreeInv, NEW t \in Thread, NEW i \in ID, trnmnt_tree_release(t, i)
    PROVE  TreeInv'
<1> USE TreeBasics
<1>1. /\ pc[t] = "user" /\ holds[t] = i
      /\ id' = [id EXCEPT ![t] = i] /\ pc' = [pc EXCEPT ![t] = "unlock"]
      /\ holds' = [holds EXCEPT ![t] = NoID]
      /\ UNCHANGED <<live, taken_ids, num_of_locked, owner>>
  BY Zenon DEF trnmnt_tree_release, WellUsed, treeVars
<1>2. \A x \in Thread, j \in ID : Uses(x, j)' <=> Uses(x, j)
  BY <1>1 DEF TreeInv, Types, Uses
<1>3. Types'
  BY <1>1 DEF TreeInv, Types
<1>4. HolderOwnsRoot'
  BY <1>1 DEF TreeInv, Types, HolderOwnsRoot
<1>5. UsedIsTaken' /\ UsersDiffer' /\ Counted'
  BY <1>1, <1>2 DEF TreeInv, UsedIsTaken, UsersDiffer, Counted, taken
<1> QED BY <1>3, <1>4, <1>5 DEF TreeInv

(* A thread unlocks only nodes it owns, and not while it holds the lock.   *)
LEMMA Tree_unlock_node ==
    ASSUME TreeInv, NEW t \in Thread, unlock_node(t)
    PROVE  TreeInv'
<1> USE TreeBasics
<1> DEFINE n == Head(todo[t])
<1>1. /\ pc[t] = "unlock"
      /\ owner' = [owner EXCEPT ![n] = IF owner[n] = t THEN NoThread ELSE owner[n]]
      /\ UNCHANGED <<live, taken_ids, num_of_locked, pc, id, holds>>
  BY DEF unlock_node, treeVars
<1> HIDE DEF n
<1>2. Types'
  <2>1. owner' \in [Node -> Thread \cup {NoThread}]
    BY <1>1, Zenon DEF TreeInv, Types
  <2> QED BY <1>1, <2>1 DEF TreeInv, Types
<1>3. HolderOwnsRoot'
  <2>1. owner[0] # t => owner'[0] = owner[0]
    BY <1>1 DEF TreeInv, Types
  <2> QED BY <1>1, <2>1 DEF TreeInv, HolderOwnsRoot
<1>4. UsedIsTaken' /\ UsersDiffer' /\ Counted'
  BY <1>1 DEF TreeInv, UsedIsTaken, UsersDiffer, Uses, Counted, taken
<1> QED BY <1>2, <1>3, <1>4 DEF TreeInv

(* The end of a release clears the mark of the ID it used.                 *)
LEMMA Tree_released ==
    ASSUME TreeInv, NEW t \in Thread, released(t)
    PROVE  TreeInv'
<1> USE TreeBasics
<1>1. /\ pc[t] = "unlock" /\ pc' = [pc EXCEPT ![t] = "user"]
      /\ UNCHANGED <<live, owner, id, holds>>
  BY DEF released
<1>2. Types /\ holds[t] = NoID /\ id[t] \in ID
  BY <1>1 DEF TreeInv, HolderOwnsRoot, Types
<1>3. \A x \in Thread, j \in ID : Uses(x, j)' <=> (Uses(x, j) /\ x # t)
  BY <1>1, <1>2 DEF Types, Uses
<1>4. HolderOwnsRoot' /\ UsersDiffer'
  BY <1>1, <1>2, <1>3 DEF TreeInv, Types, HolderOwnsRoot, UsersDiffer
<1>5. CASE UNCHANGED <<taken_ids, num_of_locked>>
  <2>1. Types' /\ UsedIsTaken' /\ Counted'
    BY <1>1, <1>3, <1>5 DEF TreeInv, Types, UsedIsTaken, Counted, taken
  <2> QED BY <1>4, <2>1 DEF TreeInv
<1>6. CASE /\ taken_ids' = [taken_ids EXCEPT ![id[t]] = FALSE]
           /\ num_of_locked' = num_of_locked - 1
  <2>1. \A j \in ID : taken_ids'[j] <=> (taken_ids[j] /\ j # id[t])
    BY <1>2, <1>6 DEF Types
  <2>2. Uses(t, id[t])
    BY <1>1 DEF Uses
  <2>3. Types'
    BY <1>1, <1>2, <1>6 DEF Types
  <2>4. UsedIsTaken'
    <3>1. \A x \in Thread \ {t} : ~Uses(x, id[t])
      BY <1>2, <2>2, Zenon DEF TreeInv, UsersDiffer
    <3> QED BY <1>1, <1>3, <2>1, <3>1, Zenon DEF TreeInv, UsedIsTaken
  <2>5. Counted'
    <3>1. taken' = taken \ {id[t]} /\ id[t] \in taken
      BY <1>2, <2>1, <2>2 DEF taken, TreeInv, UsedIsTaken
    <3>2. Cardinality(taken') = Cardinality(taken) - 1
      BY <3>1, TakenFinite, FS_RemoveElement
    <3> QED BY <1>1, <1>6, <3>2 DEF TreeInv, Counted
  <2> QED BY <1>4, <2>3, <2>4, <2>5 DEF TreeInv
<1> QED BY <1>5, <1>6 DEF released

(* Every step keeps the invariant.                                         *)
LEMMA TreeStep ==
    ASSUME WellUsed
    PROVE  TreeInv /\ [Next]_vars => TreeInv'
<1>1. ASSUME TreeInv, NEW t \in Thread, NEW i \in ID,
             trnmnt_tree_acquire(t, i) \/ trnmnt_tree_release(t, i)
      PROVE  TreeInv'
  BY <1>1, Tree_acquire, Tree_release
<1>2. ASSUME TreeInv, UNCHANGED vars
      PROVE  TreeInv'
  BY <1>2 DEF vars, treeVars, TreeInv, Types, HolderOwnsRoot, UsedIsTaken, UsersDiffer,
       Uses, Counted, taken
<1> QED BY <1>1, <1>2, Tree_alloc, Tree_dealloc, Tree_lock_node, Tree_lock_node_fails,
           Tree_unlock_node, Tree_released DEF Next

(* The invariant always holds.                                             *)
LEMMA TreeInvariant ==
    ASSUME WellUsed
    PROVE  Spec => []TreeInv
  BY TreeInit, TreeStep, PTL DEF Spec

(***************************************************************************)
(* The tournament tree excludes: at most one thread is between a successful *)
(* trnmnt_tree_acquire and its release, whatever the depth, the number of   *)
(* threads, and the number of nodes that got a mutex.                       *)
(***************************************************************************)
THEOREM TreeExclusion ==
    ASSUME WellUsed
    PROVE  Spec => []MutualExclusion
<1>1. TreeInv => MutualExclusion
  BY DEF TreeInv, HolderOwnsRoot, MutualExclusion
<1> QED BY <1>1, TreeInvariant, PTL

(* Who holds the lock, in this state and in the next.                      *)
LEMMA HolderIs ==
    /\ MutualExclusion => \A t \in Thread : holds[t] # NoID => Holder = t
    /\ (\A t \in Thread : holds[t] = NoID) => Holder = NoThread
    /\ MutualExclusion' => \A t \in Thread : holds'[t] # NoID => Holder' = t
    /\ (\A t \in Thread : holds'[t] = NoID) => Holder' = NoThread
<1>1. ASSUME MutualExclusion, NEW t \in Thread, holds[t] # NoID
      PROVE  Holder = t
  <2>1. Holder \in Thread /\ holds[Holder] # NoID
    BY <1>1 DEF Holder
  <2> QED BY <1>1, <2>1 DEF MutualExclusion
<1>2. ASSUME MutualExclusion', NEW t \in Thread, holds'[t] # NoID
      PROVE  Holder' = t
  <2>1. Holder' \in Thread /\ holds'[Holder'] # NoID
    BY <1>2 DEF Holder
  <2> QED BY <1>2, <2>1 DEF MutualExclusion
<1> QED BY <1>1, <1>2 DEF Holder

(* A step maps to a step of the abstract lock, or changes nothing of it.   *)
LEMMA TreeStepRefines ==
    ASSUME WellUsed, TreeInv, MutualExclusion, MutualExclusion', [Next]_vars
    PROVE  Abs!Next \/ UNCHANGED Holder
<1> USE TreeBasics
<1>0. holds \in [Thread -> ID \cup {NoID}] /\ id \in [Thread -> ID]
  BY DEF TreeInv, Types
<1>1. CASE holds' = holds
  BY <1>1 DEF Holder
<1>2. ASSUME NEW t \in Thread, lock_node(t), holds' # holds
      PROVE  Abs!Next
  <2>1. /\ pc[t] = "climb" /\ owner[0] = NoThread
        /\ holds' = [holds EXCEPT ![t] = id[t]]
    BY <1>0, <1>2, Zenon DEF lock_node, Top, TreeInv, HolderOwnsRoot
  <2>2. \A x \in Thread : holds[x] = NoID
    BY <2>1 DEF TreeInv, HolderOwnsRoot
  <2>3. holds'[t] # NoID
    BY <1>0, <2>1
  <2>4. Holder = NoThread /\ Holder' = t
    BY <2>2, <2>3, HolderIs
  <2>5. Abs!Acquire(t, "tree")
    BY <2>4 DEF Abs!Acquire
  <2> QED BY <2>5 DEF Abs!Next
<1>3. ASSUME NEW t \in Thread, NEW i \in ID, trnmnt_tree_release(t, i)
      PROVE  Abs!Next
  <2>1. holds[t] = i /\ holds' = [holds EXCEPT ![t] = NoID]
    BY <1>3, Zenon DEF trnmnt_tree_release, WellUsed
  <2>2. holds[t] # NoID
    BY <2>1
  <2>3. \A x \in Thread : holds'[x] = NoID
    BY <1>0, <2>1, <2>2 DEF MutualExclusion
  <2>4. Holder = t /\ Holder' = NoThread
    BY <2>2, <2>3, HolderIs
  <2>5. Abs!Release(t, "tree")
    BY <2>4 DEF Abs!Release
  <2> QED BY <2>5 DEF Abs!Next
<1>4. ASSUME NEW t \in Thread, NEW i \in ID, trnmnt_tree_acquire(t, i)
      PROVE  holds' = holds
  BY <1>0, <1>4 DEF trnmnt_tree_acquire, WellUsed
<1>5. ASSUME NEW t \in Thread,
             \/ trnmnt_tree_alloc(t) \/ trnmnt_tree_dealloc(t) \/ lock_node_fails(t)
             \/ unlock_node(t) \/ released(t)
      PROVE  holds' = holds
  BY <1>5 DEF trnmnt_tree_alloc, trnmnt_tree_dealloc, lock_node_fails, unlock_node, released
<1>6. CASE UNCHANGED vars
  BY <1>1, <1>6 DEF vars
<1> QED BY <1>1, <1>2, <1>3, <1>4, <1>5, <1>6 DEF Next

(***************************************************************************)
(* The tree is a lock: acquire takes it only while nobody owns it, and only *)
(* the owner's release gives it up.                                         *)
(***************************************************************************)
THEOREM TreeRefinement ==
    ASSUME WellUsed
    PROVE  Spec => ImplementsMutex
<1>1. Init => Abs!Init
  BY HolderIs DEF Init, Abs!Init
<1>2. TreeInv /\ MutualExclusion /\ MutualExclusion' /\ [Next]_vars
        => [Abs!Next]_([l \in {"tree"} |-> Holder])
  BY TreeStepRefines
<1> QED BY <1>1, <1>2, TreeInvariant, TreeExclusion, PTL DEF Spec, ImplementsMutex, Abs!Spec
=============================================================================
