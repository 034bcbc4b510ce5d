------------------------------ MODULE LogProofs ------------------------------
(***************************************************************************)
(* Proofs about Log: for any number of threads and blocks and any size of   *)
(* log and operation, the space begin_op reserves is enough, a block stays  *)
(* pinned until it is installed, and the log implements AtomicDisk across   *)
(* any number of crashes.                                                   *)
(***************************************************************************)
EXTENDS Log, FiniteSetTheorems, TLAPS

Committing == {"write_log", "write_head", "install", "erase", "done"}
Operating == {"op", "logging"}

Active == {t \in Thread : pc[t] \in Operating}

Types ==
    /\ disk \in [Block -> Value] /\ data \in [Block -> Value]
    /\ dlog \in [1..LOGSIZE -> Value]
    /\ lh \in Seq(Block) /\ dhead \in Seq(Block)
    /\ dirty \subseteq Block
    /\ outstanding \in Nat /\ committing \in BOOLEAN /\ up \in BOOLEAN
    /\ pc \in [Thread -> {"user", "begin", "asleep", "off"} \cup Operating \cup Committing]
    /\ tail \in Nat \ {0}
    /\ wrote \in [Thread -> SUBSET Block]
    /\ buf \in [Thread -> Block \cup {NoBlock}]

Distinct(s) == \A i, j \in 1..Len(s) : s[i] = s[j] => i = j

Headers == Distinct(lh) /\ Distinct(dhead) /\ Len(dhead) <= LOGSIZE

(***************************************************************************)
(* The blocks that operations in progress may still add to the header, as   *)
(* pairs of a thread and a number above those it has added.                 *)
(***************************************************************************)
Logged(t) == wrote[t] \cap Range(lh)

Reserved == {r \in Active \X (1..MAXOPBLOCKS) : r[2] > Cardinality(Logged(r[1]))}

Room == /\ outstanding = Cardinality(Active)
        /\ Len(lh) + Cardinality(Reserved) <= LOGSIZE
        /\ \A t \in Thread : /\ IsFiniteSet(wrote[t])
                             /\ Cardinality(wrote[t]) <= MAXOPBLOCKS

Buffers == \A t \in Thread : IF pc[t] = "logging" THEN buf[t] \in wrote[t]
                                                  ELSE buf[t] = NoBlock

(* One thread commits or recovers, and no operation is in progress then.    *)
Control ==
    /\ \A t, u \in Thread : pc[t] \in Committing /\ pc[u] \in Committing => t = u
    /\ up => /\ \A t \in Thread : pc[t] # "off"
             /\ committing <=> \E t \in Thread : pc[t] \in Committing
             /\ committing => Active = {}
    /\ ~up => /\ ~committing
              /\ \A t \in Thread : pc[t] \in {"off", "install", "erase"}

Installing == \E t \in Thread : pc[t] \in {"install", "erase"}

(* Where the commit stands, and what is then in the headers.                *)
Stage ==
    /\ Installing => dhead = lh
    /\ ~Installing => IF up THEN dhead = <<>> ELSE lh = <<>>
    /\ \A t \in Thread :
         /\ pc[t] \in {"write_log", "install"} => tail <= Len(lh)
         /\ pc[t] = "write_head" => tail = 1 /\ lh # <<>>
         /\ pc[t] = "done" => lh = <<>>
    /\ ~up /\ ~Installing => tail = 1

(* A buffer that is clean and not locked agrees with the disk.              *)
Clean == \A b \in Block :
    b \notin dirty /\ (\A t \in Thread : buf[t] # b) => data[b] = disk[b]

(* The blocks that have been copied to the log, and from the log home.      *)
InLog(t, i) == \/ pc[t] = "write_log" /\ i < tail
               \/ pc[t] = "write_head"
               \/ pc[t] = "install" /\ up

AtHome(t, i) == (pc[t] = "install" /\ i < tail) \/ pc[t] = "erase"

Copied == \A t \in Thread, i \in 1..Len(lh) :
    /\ InLog(t, i) => dlog[i] = data[lh[i]]
    /\ AtHome(t, i) => disk[lh[i]] = dlog[i]

LogInv == /\ Types /\ Headers /\ Room /\ Buffers /\ Control /\ Stage
          /\ PinnedUntilInstalled /\ Clean /\ Copied

(* What the provers need to know of the constants.                         *)
LEMMA LogBasics ==
    /\ NoBlock \notin Block /\ IsFiniteSet(Thread)
    /\ MAXOPBLOCKS \in Nat \ {0} /\ LOGSIZE \in Nat
  BY LogAssumption

(* The operations of a set of threads reserve so much at most.              *)
LEMMA PairsBound ==
    ASSUME NEW A, A \subseteq Thread, NEW R, R \subseteq A \X (1..MAXOPBLOCKS)
    PROVE  /\ IsFiniteSet(A) /\ Cardinality(A) \in Nat
           /\ IsFiniteSet(R) /\ Cardinality(R) \in Nat
           /\ Cardinality(R) <= Cardinality(A) * MAXOPBLOCKS
<1> USE LogBasics
<1>1. IsFiniteSet(A)
  BY FS_Subset
<1>2. IsFiniteSet(1..MAXOPBLOCKS) /\ Cardinality(1..MAXOPBLOCKS) = MAXOPBLOCKS
  BY FS_Interval
<1>3. /\ IsFiniteSet(A \X (1..MAXOPBLOCKS))
      /\ Cardinality(A \X (1..MAXOPBLOCKS)) = Cardinality(A) * MAXOPBLOCKS
  BY <1>1, <1>2, FS_Product
<1>4. IsFiniteSet(R) /\ Cardinality(R) <= Cardinality(A \X (1..MAXOPBLOCKS))
  BY <1>3, FS_Subset
<1> QED BY <1>1, <1>3, <1>4, FS_CardinalityType

LEMMA ReservedBound ==
    /\ IsFiniteSet(Active) /\ Cardinality(Active) \in Nat
    /\ IsFiniteSet(Reserved) /\ Cardinality(Reserved) \in Nat
  BY PairsBound DEF Active, Reserved

(* Without an operation in progress nothing is reserved.                    *)
LEMMA QuietRoom ==
    ASSUME NEW R, NEW A, A = {}, R \subseteq A \X (1..MAXOPBLOCKS)
    PROVE  Cardinality(R) = 0 /\ Cardinality(A) = 0
<1>1. R = {}
  OBVIOUS
<1> QED BY <1>1, FS_EmptySet

(* The header always fits.                                                  *)
LEMMA Fits == ASSUME Types, Room PROVE Len(lh) \in Nat /\ Len(lh) <= LOGSIZE
  BY ReservedBound, LogBasics DEF Types, Room

(* The space stays enough as long as no more is reserved than before.       *)
LEMMA RoomKept ==
    ASSUME Room, Types, lh' \in Seq(Block), Len(lh') <= Len(lh),
           outstanding' = Cardinality(Active'), Reserved' \subseteq Reserved,
           \A t \in Thread : /\ IsFiniteSet(wrote'[t])
                             /\ Cardinality(wrote'[t]) <= MAXOPBLOCKS
    PROVE  Room'
<1>1. Cardinality(Reserved') \in Nat /\ Cardinality(Reserved') <= Cardinality(Reserved)
  BY ReservedBound, FS_Subset, FS_CardinalityType
<1>2. Len(lh') + Cardinality(Reserved') <= LOGSIZE
  BY <1>1, ReservedBound, LogBasics DEF Room, Types
<1> QED BY <1>2 DEF Room

(* A step that leaves the operations alone.                                 *)
LEMMA RoomSame ==
    ASSUME Room, Types, UNCHANGED <<lh, outstanding, wrote>>, Active' = Active
    PROVE  Room'
<1>1. Reserved' = Reserved
  BY DEF Reserved, Logged
<1> QED BY <1>1 DEF Room

(* A step in a commit or in recovery.                                       *)
LEMMA RoomQuiet ==
    ASSUME Active' = {}, outstanding' = 0, lh' \in Seq(Block), Len(lh') <= LOGSIZE,
           \A t \in Thread : /\ IsFiniteSet(wrote'[t])
                             /\ Cardinality(wrote'[t]) <= MAXOPBLOCKS
    PROVE  Room'
<1>1. Cardinality(Reserved') = 0 /\ Cardinality(Active') = 0
  BY QuietRoom DEF Reserved
<1> QED BY <1>1, LogBasics DEF Room

(* The log is empty, and so are the operations.                             *)
LEMMA LogInit == Init => LogInv
<1> SUFFICES ASSUME Init PROVE LogInv
  OBVIOUS
<1> USE LogBasics DEF Init
<1>1. Types
  <2>1. PICK v \in Value : disk = [b \in Block |-> v] /\ dlog = [i \in 1..LOGSIZE |-> v]
    OBVIOUS
  <2>2. disk \in [Block -> Value] /\ dlog \in [1..LOGSIZE -> Value]
    BY <2>1
  <2>3. lh \in Seq(Block) /\ dhead \in Seq(Block)
    OBVIOUS
  <2>4. pc \in [Thread -> {"user", "begin", "asleep", "off"} \cup Operating \cup Committing]
    OBVIOUS
  <2>5. wrote \in [Thread -> SUBSET Block] /\ buf \in [Thread -> Block \cup {NoBlock}]
    OBVIOUS
  <2>6. data \in [Block -> Value] /\ dirty \subseteq Block /\ outstanding \in Nat
    BY <2>2
  <2>7. committing \in BOOLEAN /\ up \in BOOLEAN
    BY Zenon
  <2>8. tail \in Nat \ {0}
    OBVIOUS
  <2> QED BY <2>2, <2>3, <2>4, <2>5, <2>6, <2>7, <2>8, Zenon DEF Types
<1>2. Headers
  BY DEF Headers, Distinct
<1>3. Active = {} /\ ~Installing
  BY DEF Active, Operating, Installing
<1>4. Room
  <2>1. Cardinality(Reserved) = 0 /\ Cardinality(Active) = 0
    BY <1>3, QuietRoom DEF Reserved
  <2>2. \A t \in Thread : wrote[t] = {}
    OBVIOUS
  <2> QED BY <2>1, <2>2, FS_EmptySet DEF Room
<1>5. Buffers /\ Control /\ Clean
  BY DEF Buffers, Control, Committing, Clean
<1>6. Stage
  BY <1>3 DEF Stage
<1>7. PinnedUntilInstalled /\ Copied
  BY DEF PinnedUntilInstalled, Range, Copied, InLog, AtHome
<1> QED BY <1>1, <1>2, <1>4, <1>5, <1>6, <1>7 DEF LogInv

(* begin_op lets a thread in only when there is room for one more.          *)
LEMMA Log_begin_op ==
    ASSUME LogInv, NEW t \in Thread, begin_op(t)
    PROVE  LogInv'
<1> USE LogBasics DEF LogInv
<1>1. /\ pc[t] \in {"user", "begin"} /\ ~committing /\ ~NoSpace
      /\ outstanding' = outstanding + 1 /\ pc' = [pc EXCEPT ![t] = "op"]
      /\ UNCHANGED <<disk, dlog, dhead, data, dirty, lh, committing, tail, wrote, buf, up>>
  BY DEF begin_op, MustWait, Goto, ondisk, cache, local, machine
<1>2. Types'
  BY <1>1 DEF Types, Operating
<1>3. Active' = Active \cup {t} /\ t \notin Active
  BY <1>1 DEF Active, Operating, Types
<1>4. Room'
  <2>1. Cardinality(Active') = Cardinality(Active) + 1
    BY <1>3, ReservedBound, FS_AddElement
  <2>2. /\ Cardinality(Reserved') \in Nat
        /\ Cardinality(Reserved') <= Cardinality(Active') * MAXOPBLOCKS
    BY PairsBound DEF Reserved, Active
  <2>3. Len(lh) + Cardinality(Active') * MAXOPBLOCKS <= LOGSIZE
    BY <1>1, <2>1 DEF NoSpace, Room, Types
  <2>4. Len(lh') + Cardinality(Reserved') <= LOGSIZE
    <3>1. Len(lh) \in Nat /\ Cardinality(Active') * MAXOPBLOCKS \in Nat
      BY <2>1, ReservedBound DEF Types
    <3> DEFINE m == Cardinality(Active') * MAXOPBLOCKS
    <3> HIDE DEF m
    <3> QED BY <2>2, <2>3, <3>1, <1>1 DEF m
  <2> QED BY <1>1, <2>1, <2>4 DEF Room
<1>5. up /\ \A u \in Thread : pc'[u] \in Committing <=> pc[u] \in Committing
  BY <1>1 DEF Control, Committing, Types
<1>6. \A u \in Thread : pc[u] \notin Committing
  BY <1>1, <1>5 DEF Control
<1>7. Buffers' /\ Control' /\ Clean'
  BY <1>1, <1>5, <1>6 DEF Buffers, Control, Clean, Types
<1>8. Installing' = Installing /\ ~Installing
  BY <1>1, <1>6 DEF Installing, Committing, Types
<1>9. Stage'
  BY <1>1, <1>5, <1>6, <1>8 DEF Stage, Committing
<1>10. PinnedUntilInstalled'
  BY <1>1, <1>6, <1>5 DEF PinnedUntilInstalled, Committing
<1>11. Headers' /\ Copied'
  BY <1>1, <1>5, <1>6 DEF Headers, Copied, InLog, AtHome, Committing
<1> QED BY <1>2, <1>4, <1>7, <1>9, <1>10, <1>11

(* A step in which a thread outside commit and operation only moves.        *)
LEMMA Log_begin_op_sleeps ==
    ASSUME LogInv, NEW t \in Thread, begin_op_sleeps(t)
    PROVE  LogInv'
<1> USE LogBasics DEF LogInv
<1>1. /\ pc[t] \in {"user", "begin"} /\ pc' = [pc EXCEPT ![t] = "asleep"]
      /\ UNCHANGED <<disk, dlog, dhead, data, dirty, lh, outstanding, committing,
                     tail, wrote, buf, up>>
  BY DEF begin_op_sleeps, Goto, ondisk, cache, header, local, machine
<1>2. Types'
  BY <1>1 DEF Types
<1>3. Active' = Active
  BY <1>1 DEF Active, Operating, Types
<1>4. up /\ \A u \in Thread, l \in Committing : pc'[u] = l <=> pc[u] = l
  BY <1>1 DEF Control, Committing, Types
<1>5. Room'
  BY <1>1, <1>3, RoomSame
<1>6. Buffers' /\ Control' /\ Clean'
  BY <1>1, <1>3, <1>4 DEF Buffers, Control, Clean, Types
<1>7. Installing' = Installing
  BY <1>4 DEF Installing, Committing
<1>8. Stage'
  BY <1>1, <1>4, <1>7 DEF Stage, Committing
<1>9. PinnedUntilInstalled'
  BY <1>1, <1>4 DEF PinnedUntilInstalled, Committing
<1>10. Headers' /\ Copied'
  BY <1>1, <1>4 DEF Headers, Copied, InLog, AtHome, Committing
<1> QED BY <1>2, <1>5, <1>6, <1>8, <1>9, <1>10

(* While an operation is in progress nobody commits or recovers.            *)
LEMMA NoCommitter ==
    ASSUME LogInv, NEW t \in Thread, pc[t] \in Operating
    PROVE  up /\ ~committing /\ ~Installing /\ \A u \in Thread : pc[u] \notin Committing
<1>1. up
  BY DEF LogInv, Control, Operating
<1>2. ~committing
  BY <1>1 DEF LogInv, Control, Active
<1> QED BY <1>1, <1>2 DEF LogInv, Control, Installing, Committing

(* An operation that logs more of its blocks has less in reserve.           *)
LEMMA LessReserved ==
    ASSUME LogInv, Active' \subseteq Active,
           \A u \in Active' : Logged(u) \subseteq Logged(u)' /\ IsFiniteSet(Logged(u)')
    PROVE  Reserved' \subseteq Reserved
<1> SUFFICES ASSUME NEW r \in Reserved' PROVE r \in Reserved
  OBVIOUS
<1>1. r \in Active' \X (1..MAXOPBLOCKS) /\ r[2] > Cardinality(Logged(r[1])')
  BY DEF Reserved
<1>2. /\ Cardinality(Logged(r[1])) \in Nat /\ Cardinality(Logged(r[1])') \in Nat
      /\ Cardinality(Logged(r[1])) <= Cardinality(Logged(r[1])')
  BY <1>1, FS_Subset, FS_CardinalityType
<1>3. r[2] > Cardinality(Logged(r[1]))
  BY <1>1, <1>2
<1> QED BY <1>1, <1>3 DEF Reserved

(* The writer has the buffer locked until it is pinned.                     *)
LEMMA Log_modify ==
    ASSUME LogInv, NEW t \in Thread, NEW b \in Block, NEW v \in Value, modify(t, b, v)
    PROVE  LogInv'
<1> USE LogBasics DEF LogInv
<1>1. /\ pc[t] = "op" /\ pc' = [pc EXCEPT ![t] = "logging"]
      /\ Cardinality(wrote[t] \cup {b}) <= MAXOPBLOCKS
      /\ data' = [data EXCEPT ![b] = v]
      /\ wrote' = [wrote EXCEPT ![t] = @ \cup {b}] /\ buf' = [buf EXCEPT ![t] = b]
      /\ UNCHANGED <<disk, dlog, dhead, dirty, lh, outstanding, committing, tail, up>>
  BY DEF modify, Goto, ondisk, header
<1>2. Types'
  BY <1>1 DEF Types, Operating
<1>3. Active' = Active
  BY <1>1 DEF Active, Operating, Types
<1>4. up /\ ~committing /\ ~Installing /\ \A u \in Thread : pc[u] \notin Committing
  BY <1>1, NoCommitter DEF Operating
<1>5. \A u \in Thread : pc'[u] \notin Committing
  BY <1>1, <1>4 DEF Committing, Types
<1>6. Room'
  <2>1. \A u \in Thread : /\ IsFiniteSet(wrote'[u]) /\ wrote[u] \subseteq wrote'[u]
                          /\ Cardinality(wrote'[u]) <= MAXOPBLOCKS
    <3>1. IsFiniteSet(wrote[t] \cup {b})
      BY FS_AddElement DEF Room
    <3> QED BY <3>1, <1>1 DEF Room, Types
  <2>2. \A u \in Thread : Logged(u) \subseteq Logged(u)' /\ IsFiniteSet(Logged(u)')
    BY <2>1, <1>1, FS_Subset DEF Logged
  <2>3. Reserved' \subseteq Reserved
    BY <2>2, <1>3, LessReserved DEF Active
  <2>4. outstanding' = Cardinality(Active') /\ lh' \in Seq(Block) /\ Len(lh') <= Len(lh)
    BY <1>1, <1>3 DEF Room, Types
  <2> QED BY <2>1, <2>3, <2>4, RoomKept
<1>7. Buffers' /\ Clean'
  BY <1>1 DEF Buffers, Clean, Types
<1>8. Control'
  BY <1>1, <1>4, <1>5 DEF Control, Types
<1>9. ~Installing'
  BY <1>5 DEF Installing, Committing
<1>10. Stage'
  BY <1>1, <1>4, <1>5, <1>9 DEF Stage, Committing
<1>11. PinnedUntilInstalled'
  BY <1>1, <1>4, <1>5 DEF PinnedUntilInstalled, Committing
<1>12. Headers' /\ Copied'
  BY <1>1, <1>5 DEF Headers, Copied, InLog, AtHome, Committing
<1> QED BY <1>2, <1>6, <1>7, <1>8, <1>10, <1>11, <1>12

(* The elements of a sequence.                                              *)
LEMMA InRange ==
    ASSUME NEW s \in Seq(Block), NEW b
    PROVE  b \in Range(s) <=> \E i \in 1..Len(s) : b = s[i]
<1>1. DOMAIN s = 1..Len(s)
  OBVIOUS
<1> QED BY <1>1, Zenon DEF Range

(* A block at the end of a sequence.                                        *)
LEMMA Appended ==
    ASSUME NEW s \in Seq(Block), NEW b \in Block
    PROVE  /\ Append(s, b) \in Seq(Block) /\ Len(Append(s, b)) = Len(s) + 1
           /\ Range(Append(s, b)) = Range(s) \cup {b}
           /\ Distinct(s) /\ b \notin Range(s) => Distinct(Append(s, b))
<1>1. /\ Append(s, b) \in Seq(Block) /\ Len(s) \in Nat
      /\ Len(Append(s, b)) = Len(s) + 1 /\ Append(s, b)[Len(s) + 1] = b
      /\ \A i \in 1..Len(s) : Append(s, b)[i] = s[i]
      /\ DOMAIN s = 1..Len(s) /\ DOMAIN Append(s, b) = 1..Len(s) + 1
  OBVIOUS
<1>2. \A i \in 1..Len(s) + 1 : i \in 1..Len(s) \/ i = Len(s) + 1
  BY <1>1
<1>3. \A i \in 1..Len(s) : i \in 1..Len(s) + 1
  BY <1>1
<1>4. Len(s) + 1 \in 1..Len(s) + 1
  BY <1>1
<1> DEFINE a == Append(s, b)  n == Len(s)  d == 1..n  e == 1..n + 1
<1> HIDE DEF a, n, d, e
<1>5. Range(a) = Range(s) \cup {b}
  BY <1>1, <1>2, <1>3, <1>4 DEF Range, a, n, d, e
<1>6. Distinct(s) /\ b \notin Range(s) => Distinct(a)
  BY <1>1, <1>2 DEF Distinct, Range, a, n, d, e
<1> QED BY <1>1, <1>5, <1>6 DEF a

(* A block enters the header out of the reserve of the thread that wrote it. *)
LEMMA Log_log_write ==
    ASSUME LogInv, NEW t \in Thread, log_write(t)
    PROVE  LogInv'
<1> USE LogBasics DEF LogInv
<1> DEFINE b == buf[t]
<1>1. /\ pc[t] = "logging" /\ pc' = [pc EXCEPT ![t] = "op"]
      /\ lh' = IF b \in Range(lh) THEN lh ELSE Append(lh, b)
      /\ dirty' = dirty \cup {b} /\ buf' = [buf EXCEPT ![t] = NoBlock]
      /\ UNCHANGED <<disk, dlog, dhead, data, outstanding, committing, tail, wrote, up>>
  BY DEF log_write, Goto, ondisk, machine
<1>2. b \in wrote[t] /\ b \in Block
  BY <1>1 DEF Buffers, Types
<1> HIDE DEF b
<1>3. /\ lh' \in Seq(Block) /\ Range(lh') = Range(lh) \cup {b} /\ Distinct(lh')
      /\ Len(lh') = IF b \in Range(lh) THEN Len(lh) ELSE Len(lh) + 1
  <2>1. CASE b \in Range(lh)
    BY <2>1, <1>1 DEF Types, Headers
  <2>2. CASE b \notin Range(lh)
    BY <2>2, <1>1, <1>2, Appended DEF Types, Headers
  <2> QED BY <2>1, <2>2
<1>4. Types'
  BY <1>1, <1>2, <1>3 DEF Types, Operating
<1>5. Active' = Active
  BY <1>1 DEF Active, Operating, Types
<1>6. up /\ ~committing /\ ~Installing /\ \A u \in Thread : pc[u] \notin Committing
  BY <1>1, NoCommitter DEF Operating
<1>7. \A u \in Thread : pc'[u] \notin Committing
  BY <1>1, <1>6 DEF Committing, Types
<1>8. Room'
  <2>1. CASE b \in Range(lh)
    BY <2>1, <1>1, <1>5, RoomSame
  <2>2. CASE b \notin Range(lh)
    <3> DEFINE n == Cardinality(Logged(t))
               x == <<t, n + 1>>
    <3>1. \A u \in Thread : Logged(u) \subseteq Logged(u)' /\ IsFiniteSet(Logged(u)')
      BY <1>1, <1>3, FS_Subset DEF Logged, Room
    <3>2. Reserved' \subseteq Reserved
      BY <3>1, <1>5, LessReserved DEF Active
    <3>3. Logged(t)' = Logged(t) \cup {b} /\ b \notin Logged(t)
      BY <1>1, <1>2, <1>3, <2>2 DEF Logged
    <3>4. IsFiniteSet(Logged(t))
      BY FS_Subset DEF Logged, Room
    <3>5. Cardinality(Logged(t)') = n + 1 /\ n \in Nat
      BY <3>3, <3>4, FS_AddElement, FS_CardinalityType
    <3>6. n + 1 <= MAXOPBLOCKS
      <4>1. Logged(t)' \subseteq wrote[t]
        BY <1>1 DEF Logged
      <4>2. Cardinality(Logged(t)') <= Cardinality(wrote[t]) /\ Cardinality(wrote[t]) \in Nat
        BY <4>1, FS_Subset, FS_CardinalityType DEF Room
      <4>3. Cardinality(wrote[t]) <= MAXOPBLOCKS
        BY DEF Room
      <4> QED BY <4>2, <4>3, <3>5
    <3> HIDE DEF n
    <3>7. x \in Reserved
      <4>1. t \in Active /\ n + 1 \in 1..MAXOPBLOCKS
        BY <1>1, <3>5, <3>6 DEF Active, Operating
      <4>2. x[1] = t /\ x[2] = n + 1 /\ n + 1 > n
        BY <3>5
      <4> QED BY <4>1, <4>2 DEF Reserved, n
    <3>8. x \notin Reserved'
      <4>1. ~(n + 1 > Cardinality(Logged(t)'))
        BY <3>5
      <4> QED BY <4>1 DEF Reserved
    <3> HIDE DEF x
    <3>9. Cardinality(Reserved') \in Nat /\ Cardinality(Reserved') <= Cardinality(Reserved) - 1
      <4>1. /\ IsFiniteSet(Reserved \ {x})
            /\ Cardinality(Reserved \ {x}) = Cardinality(Reserved) - 1
        BY <3>7, ReservedBound, FS_RemoveElement
      <4>2. Reserved' \subseteq Reserved \ {x}
        BY <3>2, <3>8
      <4>3. IsFiniteSet(Reserved') /\ Cardinality(Reserved') <= Cardinality(Reserved \ {x})
        BY <4>1, <4>2, FS_Subset
      <4> QED BY <4>1, <4>3, FS_CardinalityType
    <3>10. Len(lh') + Cardinality(Reserved') <= LOGSIZE
      BY <3>9, <2>2, <1>3, ReservedBound DEF Room, Types
    <3> QED BY <3>10, <1>1, <1>5 DEF Room
  <2> QED BY <2>1, <2>2
<1>9. Buffers' /\ Clean'
  BY <1>1, <1>2 DEF Buffers, Clean, Types, b
<1>10. Control'
  BY <1>1, <1>6, <1>7 DEF Control, Types
<1>11. ~Installing'
  BY <1>7 DEF Installing, Committing
<1>12. Stage'
  BY <1>1, <1>6, <1>7, <1>11 DEF Stage, Committing
<1>13. PinnedUntilInstalled'
  BY <1>1, <1>3, <1>6, <1>7 DEF PinnedUntilInstalled, Committing
<1>14. Headers' /\ Copied'
  BY <1>1, <1>3, <1>7 DEF Headers, Copied, InLog, AtHome, Committing
<1> QED BY <1>4, <1>8, <1>9, <1>10, <1>12, <1>13, <1>14

(* The last operation to end starts the commit.                             *)
LEMMA Log_end_op ==
    ASSUME LogInv, NEW t \in Thread, end_op(t)
    PROVE  LogInv'
<1> USE LogBasics DEF LogInv
<1>1. /\ pc[t] = "op" /\ outstanding' = outstanding - 1
      /\ tail' = 1 /\ wrote' = [wrote EXCEPT ![t] = {}]
      /\ UNCHANGED <<disk, dlog, dhead, data, dirty, lh, buf, up>>
  BY DEF end_op, ondisk, cache
<1>2. up /\ ~committing /\ ~Installing /\ \A u \in Thread : pc[u] \notin Committing
  BY <1>1, NoCommitter DEF Operating
<1>3. \/ /\ outstanding = 1 /\ committing' = TRUE
         /\ \/ lh = <<>> /\ pc' = [pc EXCEPT ![t] = "done"]
            \/ lh # <<>> /\ pc' = [pc EXCEPT ![t] = "write_log"]
      \/ /\ outstanding # 1 /\ UNCHANGED committing
         /\ pc' = [u \in Thread |-> IF u = t THEN "user"
                                    ELSE IF pc[u] = "asleep" THEN "begin" ELSE pc[u]]
  BY DEF end_op, Goto, WakeAndGoto
<1>4. /\ pc' \in [Thread -> {"user", "begin", "asleep", "off"} \cup Operating \cup Committing]
      /\ committing' \in BOOLEAN
  <2>1. CASE outstanding = 1
    BY <1>3, <2>1 DEF Committing, Types
  <2>2. CASE outstanding # 1
    BY <1>3, <2>2 DEF Types
  <2> QED BY <2>1, <2>2
<1>5. Active' = Active \ {t} /\ t \in Active
  BY <1>1, <1>3 DEF Active, Operating, Types
<1>6. Cardinality(Active') = Cardinality(Active) - 1 /\ IsFiniteSet(Active')
  BY <1>5, ReservedBound, FS_RemoveElement
<1>7. outstanding' = Cardinality(Active') /\ outstanding' \in Nat
  BY <1>1, <1>6, FS_CardinalityType DEF Room
<1>8. Types'
  <2>1. wrote' \in [Thread -> SUBSET Block]
    BY <1>1 DEF Types
  <2>2. tail' \in Nat \ {0}
    BY <1>1
  <2> QED BY <1>1, <1>4, <1>7, <2>1, <2>2, Zenon DEF Types
<1>9. Room'
  <2>1. \A u \in Thread : /\ IsFiniteSet(wrote'[u])
                          /\ Cardinality(wrote'[u]) <= MAXOPBLOCKS
    <3>1. ASSUME NEW u \in Thread PROVE IsFiniteSet(wrote'[u]) /\ Cardinality(wrote'[u]) <= MAXOPBLOCKS
      <4>1. CASE u = t
        BY <4>1, <1>1, FS_EmptySet DEF Types
      <4>2. CASE u # t
        BY <4>2, <1>1 DEF Types, Room
      <4> QED BY <4>1, <4>2
    <3> QED BY <3>1
  <2>2. \A u \in Active' : Logged(u)' = Logged(u) /\ IsFiniteSet(Logged(u)')
    BY <1>1, <1>5, <2>1, FS_Subset DEF Logged, Active, Types
  <2>3. Reserved' \subseteq Reserved
    BY <2>2, <1>5, LessReserved
  <2>4. lh' \in Seq(Block) /\ Len(lh') <= Len(lh)
    BY <1>1 DEF Types
  <2> QED BY <2>1, <2>3, <2>4, <1>7, RoomKept
<1>10. Buffers' /\ Clean'
  BY <1>1, <1>3 DEF Buffers, Clean, Types
<1>11. \A u \in Thread : pc'[u] \in Committing => outstanding = 1 /\ u = t
  BY <1>2, <1>3 DEF Committing, Types
<1>12. Control'
  <2>1. \A u \in Thread : pc'[u] # "off"
    BY <1>2, <1>3 DEF Control, Types
  <2>2. committing' <=> outstanding = 1
    BY <1>2, <1>3
  <2>3. outstanding = 1 => pc'[t] \in Committing
    BY <1>3 DEF Committing, Types
  <2>4. outstanding = 1 => Active' = {}
    BY <1>1, <1>6, <1>7, FS_EmptySet
  <2> QED BY <1>1, <1>2, <1>11, <2>1, <2>2, <2>3, <2>4 DEF Control
<1>13. ~Installing'
  BY <1>2, <1>3 DEF Installing, Committing, Types
<1>14. \A u \in Thread : /\ pc'[u] = "done" => lh = <<>>
                         /\ pc'[u] = "write_log" => lh # <<>>
                         /\ pc'[u] \notin {"write_head", "install", "erase"}
  BY <1>2, <1>3 DEF Committing, Types
<1>15. Stage'
  <2>1. lh # <<>> => 1 <= Len(lh)
    BY DEF Types
  <2> QED BY <1>1, <1>2, <1>13, <1>14, <2>1 DEF Stage
<1>16. PinnedUntilInstalled'
  BY <1>1, <1>2, <1>14 DEF PinnedUntilInstalled, Committing
<1>17. Headers' /\ Copied'
  <2>1. Headers'
    BY <1>1 DEF Headers
  <2>2. \A u \in Thread, i \in 1..Len(lh) : ~InLog(u, i)' /\ ~AtHome(u, i)'
    BY <1>1, <1>14 DEF InLog, AtHome
  <2> QED BY <1>1, <2>1, <2>2 DEF Copied
<1> QED BY <1>8, <1>9, <1>10, <1>12, <1>15, <1>16, <1>17

(* While a thread commits or recovers nobody has a buffer locked.           *)
LEMMA Committer ==
    ASSUME LogInv, NEW t \in Thread, pc[t] \in Committing
    PROVE  /\ Active = {} /\ outstanding = 0 /\ Len(lh) \in Nat /\ Len(lh) <= LOGSIZE
           /\ \A u \in Thread : u # t => pc[u] \notin Committing
           /\ \A u \in Thread : buf[u] = NoBlock
<1> USE DEF LogInv
<1>1. Active = {}
  <2>1. CASE up
    BY <2>1 DEF Control
  <2>2. CASE ~up
    BY <2>2 DEF Control, Active, Operating
  <2> QED BY <2>1, <2>2
<1>2. outstanding = 0
  BY <1>1, FS_EmptySet DEF Room
<1>3. \A u \in Thread : buf[u] = NoBlock
  BY <1>1 DEF Buffers, Active, Operating
<1> QED BY <1>1, <1>2, <1>3, Fits DEF Control

(* write_log copies one more block of the cache.                            *)
LEMMA Log_write_log ==
    ASSUME LogInv, NEW t \in Thread, write_log(t)
    PROVE  LogInv'
<1> USE LogBasics DEF LogInv
<1>1. /\ pc[t] = "write_log" /\ dlog' = [dlog EXCEPT ![tail] = data[lh[tail]]]
      /\ UNCHANGED <<disk, dhead, data, dirty, lh, outstanding, committing, wrote, buf, up>>
  BY DEF write_log, cache, header, machine
<1>2. \/ tail < Len(lh) /\ tail' = tail + 1 /\ pc' = pc
      \/ ~(tail < Len(lh)) /\ tail' = 1 /\ pc' = [pc EXCEPT ![t] = "write_head"]
  BY DEF write_log, NextBlock, Goto
<1>3. /\ Active = {} /\ Len(lh) \in Nat /\ Len(lh) <= LOGSIZE
      /\ \A u \in Thread : u # t => pc[u] \notin Committing
  BY <1>1, Committer DEF Committing
<1>4. tail \in 1..Len(lh) /\ tail \in 1..LOGSIZE /\ lh[tail] \in Block
  BY <1>1, <1>3 DEF Stage, Types
<1>5. pc'[t] \in {"write_log", "write_head"} /\ \A u \in Thread : u # t => pc'[u] = pc[u]
  BY <1>1, <1>2 DEF Types
<1>6. Types'
  <2>1. dlog' \in [1..LOGSIZE -> Value]
    BY <1>1, <1>4 DEF Types
  <2>2. tail' \in Nat \ {0}
    BY <1>2 DEF Types
  <2>3. pc' \in [Thread -> {"user", "begin", "asleep", "off"} \cup Operating \cup Committing]
    BY <1>2 DEF Types, Committing
  <2> QED BY <1>1, <2>1, <2>2, <2>3, Zenon DEF Types
<1>7. Active' = Active
  BY <1>1, <1>5 DEF Active, Operating
<1>8. Room'
  BY <1>1, <1>7, RoomSame
<1>9. Buffers' /\ Clean'
  BY <1>1, <1>5 DEF Buffers, Clean
<1>10. up /\ Control'
  BY <1>1, <1>3, <1>5, <1>7 DEF Control, Committing
<1>11. ~Installing /\ ~Installing'
  BY <1>1, <1>3, <1>5 DEF Installing, Committing
<1>12. \A u \in Thread : /\ u # t => pc'[u] \notin Committing
                         /\ pc'[u] \notin {"done", "install", "erase"}
  BY <1>3, <1>5 DEF Committing
<1>13. Stage'
  <2>1. lh # <<>>
    BY <1>4
  <2>2. pc'[t] = "write_log" => tail' <= Len(lh)
    BY <1>1, <1>2, <1>4 DEF Types
  <2>3. pc'[t] = "write_head" => tail' = 1
    BY <1>1, <1>2 DEF Types
  <2>4. dhead' = <<>> /\ up'
    BY <1>1, <1>10, <1>11 DEF Stage
  <2> QED BY <1>1, <1>11, <1>12, <2>1, <2>2, <2>3, <2>4 DEF Stage, Committing
<1>14. PinnedUntilInstalled'
  BY <1>1, <1>11 DEF PinnedUntilInstalled, Installing
<1>15. Headers'
  BY <1>1 DEF Headers
<1>16. Copied'
  <2>1. \A i \in 1..Len(lh) : pc'[t] = "write_log" /\ i < tail' => i = tail \/ i < tail
    BY <1>1, <1>2, <1>4 DEF Types
  <2>2. \A i \in 1..Len(lh) : pc'[t] = "write_head" => i = tail \/ i < tail
    BY <1>1, <1>2, <1>4 DEF Types
  <2>3. \A i \in 1..Len(lh) : i = tail \/ i < tail => dlog'[i] = data[lh[i]]
    BY <1>1, <1>3, <1>4 DEF Copied, InLog, Types
  <2> QED BY <1>1, <1>12, <2>1, <2>2, <2>3 DEF Copied, InLog, AtHome, Committing
<1> QED BY <1>6, <1>8, <1>9, <1>10, <1>13, <1>14, <1>15, <1>16

(* write_head: the whole transaction is in the log when it commits.         *)
LEMMA Log_write_head ==
    ASSUME LogInv, NEW t \in Thread, write_head(t)
    PROVE  LogInv'
<1> USE LogBasics DEF LogInv
<1>1. /\ pc[t] = "write_head" /\ pc' = [pc EXCEPT ![t] = "install"] /\ dhead' = lh
      /\ UNCHANGED <<disk, dlog, data, dirty, lh, outstanding, committing, tail, wrote, buf, up>>
  BY DEF write_head, Goto, cache, header, local, machine
<1>2. /\ Active = {} /\ Len(lh) \in Nat /\ Len(lh) <= LOGSIZE
      /\ \A u \in Thread : u # t => pc[u] \notin Committing
  BY <1>1, Committer DEF Committing
<1>3. pc'[t] = "install" /\ \A u \in Thread : u # t => pc'[u] = pc[u]
  BY <1>1 DEF Types
<1>4. Types'
  BY <1>1 DEF Types, Committing
<1>5. Active' = Active
  BY <1>1, <1>3 DEF Active, Operating
<1>6. Room'
  BY <1>1, <1>5, RoomSame
<1>7. Buffers' /\ Clean'
  BY <1>1, <1>3 DEF Buffers, Clean
<1>8. up /\ Control'
  BY <1>1, <1>2, <1>3, <1>5 DEF Control, Committing
<1>9. ~Installing /\ Installing'
  BY <1>1, <1>2, <1>3 DEF Installing, Committing
<1>10. tail = 1 /\ 1 <= Len(lh)
  BY <1>1, <1>2 DEF Stage, Types
<1>11. Stage'
  BY <1>1, <1>2, <1>3, <1>8, <1>9, <1>10 DEF Stage, Committing
<1>12. PinnedUntilInstalled'
  <2>1. dirty = Range(lh)
    BY <1>9 DEF PinnedUntilInstalled, Installing
  <2>2. Range(lh) = {lh[i] : i \in tail..Len(lh)}
    BY <1>10 DEF Range, Types
  <2> QED BY <1>1, <1>3, <1>8, <2>1, <2>2 DEF PinnedUntilInstalled
<1>13. Headers'
  BY <1>1, <1>2 DEF Headers
<1>14. Copied'
  BY <1>1, <1>2, <1>3, <1>10 DEF Copied, InLog, AtHome, Committing
<1> QED BY <1>4, <1>6, <1>7, <1>8, <1>11, <1>12, <1>13, <1>14

(* install_trans writes one more block home, which is then no longer pinned. *)
LEMMA Log_install_trans ==
    ASSUME LogInv, NEW t \in Thread, install_trans(t)
    PROVE  LogInv'
<1> USE LogBasics DEF LogInv
<1> DEFINE b == lh[tail]
<1>1. /\ pc[t] = "install" /\ dirty' = dirty \ {b}
      /\ data' = [data EXCEPT ![b] = dlog[tail]] /\ disk' = [disk EXCEPT ![b] = dlog[tail]]
      /\ UNCHANGED <<dlog, dhead, lh, outstanding, committing, wrote, buf, up>>
  BY DEF install_trans, header, machine
<1>2. \/ tail < Len(lh) /\ tail' = tail + 1 /\ pc' = pc
      \/ ~(tail < Len(lh)) /\ tail' = 1 /\ pc' = [pc EXCEPT ![t] = "erase"]
  BY DEF install_trans, NextBlock, Goto
<1>3. /\ Active = {} /\ Len(lh) \in Nat /\ Len(lh) <= LOGSIZE
      /\ \A u \in Thread : u # t => pc[u] \notin Committing
  BY <1>1, Committer DEF Committing
<1>4. tail \in 1..Len(lh) /\ tail \in 1..LOGSIZE /\ b \in Block /\ dlog[tail] \in Value
  BY <1>1, <1>3 DEF Stage, Types
<1>5. \A i \in 1..Len(lh) : lh[i] = b => i = tail
  BY <1>4 DEF Headers, Distinct
<1>6. pc'[t] \in {"install", "erase"} /\ \A u \in Thread : u # t => pc'[u] = pc[u]
  BY <1>1, <1>2 DEF Types
<1>7. Types'
  <2>1. data' \in [Block -> Value] /\ disk' \in [Block -> Value]
    BY <1>1, <1>4 DEF Types
  <2>2. tail' \in Nat \ {0}
    BY <1>2 DEF Types
  <2>3. pc' \in [Thread -> {"user", "begin", "asleep", "off"} \cup Operating \cup Committing]
    BY <1>2 DEF Types, Committing
  <2>4. dirty' \subseteq Block
    BY <1>1 DEF Types
  <2> QED BY <1>1, <2>1, <2>2, <2>3, <2>4, Zenon DEF Types
<1> HIDE DEF b
<1>8. Active' = Active
  BY <1>1, <1>6 DEF Active, Operating
<1>9. Room'
  BY <1>1, <1>8, RoomSame
<1>10. Buffers'
  BY <1>1, <1>6 DEF Buffers
<1>11. Clean'
  BY <1>1, <1>4 DEF Clean, Types
<1>12. Control'
  BY <1>1, <1>3, <1>6, <1>8 DEF Control, Committing
<1>13. Installing /\ Installing'
  BY <1>1, <1>6 DEF Installing
<1>14. \A u \in Thread : u # t => pc'[u] \notin Committing
  BY <1>3, <1>6
<1>15. Stage'
  <2>1. pc'[t] = "install" => tail' <= Len(lh)
    BY <1>1, <1>2, <1>4 DEF Types
  <2>2. dhead' = lh'
    BY <1>1, <1>13 DEF Stage
  <2> QED BY <1>1, <1>6, <1>13, <1>14, <2>1, <2>2 DEF Stage, Committing
<1>16. PinnedUntilInstalled'
  <2>1. dirty = IF up THEN {lh[i] : i \in tail..Len(lh)} ELSE {}
    BY <1>1 DEF PinnedUntilInstalled
  <2>2. CASE ~up
    BY <1>1, <1>13, <2>1, <2>2 DEF PinnedUntilInstalled, Installing
  <2>3. CASE up /\ pc'[t] = "install"
    <3>1. tail' = tail + 1
      BY <1>1, <1>2, <2>3 DEF Types
    <3>2. dirty' = {lh[i] : i \in tail + 1..Len(lh)}
      <4>1. \A i \in tail..Len(lh) : i \in 1..Len(lh) /\ (i = tail \/ i \in tail + 1..Len(lh))
        BY <1>3, <1>4
      <4>2. \A i \in tail + 1..Len(lh) : i \in tail..Len(lh) /\ i # tail
        BY <1>3, <1>4
      <4> QED BY <1>1, <1>5, <2>1, <2>3, <4>1, <4>2 DEF b
    <3> QED BY <1>1, <2>3, <3>1, <3>2 DEF PinnedUntilInstalled
  <2>4. CASE up /\ pc'[t] = "erase"
    <3>1. tail = Len(lh)
      BY <1>1, <1>2, <1>4, <2>4 DEF Types
    <3>2. dirty' = {}
      <4>1. \A i \in tail..Len(lh) : i = tail
        BY <3>1, <1>3
      <4> QED BY <4>1, <1>1, <2>1, <2>4 DEF b
    <3>3. \A u \in Thread : pc'[u] # "install"
      BY <1>14, <2>4 DEF Committing
    <3> QED BY <1>1, <2>4, <3>2, <3>3 DEF PinnedUntilInstalled
  <2> QED BY <2>2, <2>3, <2>4, <1>6
<1>17. Headers'
  BY <1>1 DEF Headers
<1>18. Copied'
  <2>1. \A i \in 1..Len(lh) : /\ (pc'[t] = "install" /\ i < tail') => i = tail \/ i < tail
                              /\ pc'[t] = "erase" => i = tail \/ i < tail
    BY <1>1, <1>2, <1>4 DEF Types
  <2>2. \A i \in 1..Len(lh) : i = tail \/ i < tail => disk'[lh[i]] = dlog[i]
    BY <1>1, <1>4, <1>5 DEF Copied, AtHome, Types, b
  <2>3. \A i \in 1..Len(lh) : up => dlog[i] = data'[lh[i]]
    BY <1>1, <1>4, <1>5 DEF Copied, InLog, Types, b
  <2> QED BY <1>1, <1>6, <1>14, <2>1, <2>2, <2>3 DEF Copied, InLog, AtHome, Committing
<1> QED BY <1>7, <1>9, <1>10, <1>11, <1>12, <1>15, <1>16, <1>17, <1>18

(* erase: everything is at home when the header is cleared.                 *)
LEMMA Log_erase ==
    ASSUME LogInv, NEW t \in Thread, erase(t)
    PROVE  LogInv'
<1> USE LogBasics DEF LogInv
<1>1. /\ pc[t] = "erase" /\ lh' = <<>> /\ dhead' = <<>> /\ up' = TRUE
      /\ UNCHANGED <<disk, dlog, data, dirty, outstanding, committing, tail, wrote, buf>>
  BY DEF erase, cache, local
<1>2. \/ up /\ pc' = [pc EXCEPT ![t] = "done"]
      \/ ~up /\ pc' = [u \in Thread |-> "user"]
  BY DEF erase, Goto
<1>3. /\ Active = {} /\ outstanding = 0
      /\ \A u \in Thread : u # t => pc[u] \notin Committing
  BY <1>1, Committer DEF Committing
<1>4. Types'
  <2>1. pc' \in [Thread -> {"user", "begin", "asleep", "off"} \cup Operating \cup Committing]
    BY <1>2 DEF Types, Committing
  <2>2. lh' \in Seq(Block) /\ dhead' \in Seq(Block)
    BY <1>1
  <2> QED BY <1>1, <2>1, <2>2, Zenon DEF Types
<1>5. Active' = {}
  BY <1>2, <1>3 DEF Active, Operating, Types
<1>6. Room'
  <2>1. lh' \in Seq(Block) /\ Len(lh') <= LOGSIZE /\ outstanding' = 0
    BY <1>1, <1>3
  <2>2. \A u \in Thread : IsFiniteSet(wrote'[u]) /\ Cardinality(wrote'[u]) <= MAXOPBLOCKS
    BY <1>1 DEF Room
  <2> QED BY <1>5, <2>1, <2>2, RoomQuiet
<1>7. Buffers' /\ Clean'
  <2>1. \A u \in Thread : pc'[u] = "logging" => pc[u] = "logging"
    BY <1>2 DEF Types
  <2>2. \A u \in Thread : buf[u] = NoBlock
    BY <1>1, Committer DEF Committing
  <2>3. \A u \in Thread : pc'[u] # "logging"
    BY <1>5 DEF Active, Operating
  <2> QED BY <1>1, <2>2, <2>3 DEF Buffers, Clean
<1>8. \A u \in Thread : pc'[u] \in Committing <=> up /\ u = t
  BY <1>2, <1>3 DEF Committing, Types
<1>9. Control'
  <2>1. \A u \in Thread : pc'[u] # "off"
    BY <1>2 DEF Control, Types
  <2>2. committing' <=> up
    BY <1>1 DEF Control, Committing
  <2> QED BY <1>1, <1>5, <1>8, <2>1, <2>2 DEF Control
<1>10. \A u \in Thread : pc'[u] \notin {"write_log", "write_head", "install", "erase"}
  BY <1>2, <1>3 DEF Committing, Types
<1>11. ~Installing'
  BY <1>10 DEF Installing
<1>12. Stage'
  BY <1>1, <1>10, <1>11 DEF Stage
<1>13. PinnedUntilInstalled'
  <2>1. dirty = {}
    BY <1>1, <1>3 DEF PinnedUntilInstalled, Committing
  <2>2. Range(lh') = {}
    BY <1>1 DEF Range
  <2> QED BY <1>1, <1>10, <2>1, <2>2 DEF PinnedUntilInstalled
<1>14. Headers' /\ Copied'
  BY <1>1 DEF Headers, Distinct, Copied
<1> QED BY <1>4, <1>6, <1>7, <1>9, <1>12, <1>13, <1>14

(* The end of end_op lets the waiting threads look again.                   *)
LEMMA Log_committed ==
    ASSUME LogInv, NEW t \in Thread, committed(t)
    PROVE  LogInv'
<1> USE LogBasics DEF LogInv
<1>1. /\ pc[t] = "done" /\ committing' = FALSE
      /\ pc' = [u \in Thread |-> IF u = t THEN "user"
                                 ELSE IF pc[u] = "asleep" THEN "begin" ELSE pc[u]]
      /\ UNCHANGED <<disk, dlog, dhead, data, dirty, lh, outstanding, tail, wrote, buf, up>>
  BY DEF committed, WakeAndGoto, ondisk, cache, local, machine
<1>2. Active = {} /\ \A u \in Thread : u # t => pc[u] \notin Committing
  BY <1>1, Committer DEF Committing
<1>3. Types'
  <2>1. pc' \in [Thread -> {"user", "begin", "asleep", "off"} \cup Operating \cup Committing]
    BY <1>1 DEF Types
  <2> QED BY <1>1, <2>1, Zenon DEF Types
<1>4. Active' = Active
  BY <1>1 DEF Active, Operating
<1>5. Room'
  BY <1>1, <1>4, RoomSame
<1>6. Buffers' /\ Clean'
  BY <1>1 DEF Buffers, Clean
<1>7. \A u \in Thread : pc'[u] \notin Committing
  BY <1>1, <1>2 DEF Committing
<1>8. up /\ Control'
  <2>1. up /\ \A u \in Thread : pc'[u] # "off"
    BY <1>1 DEF Control
  <2> QED BY <1>1, <1>7, <2>1 DEF Control
<1>9. ~Installing /\ ~Installing'
  BY <1>1, <1>2, <1>7 DEF Installing, Committing
<1>10. Stage'
  BY <1>1, <1>7, <1>8, <1>9 DEF Stage, Committing
<1>11. PinnedUntilInstalled'
  BY <1>1, <1>9 DEF PinnedUntilInstalled, Installing
<1>12. Headers' /\ Copied'
  BY <1>1, <1>7 DEF Headers, Copied, InLog, AtHome, Committing
<1> QED BY <1>3, <1>5, <1>6, <1>8, <1>10, <1>11, <1>12

(* The invariant does not speak of panicked and crashes.                    *)
LEMMA LogStutter ==
    ASSUME LogInv, UNCHANGED <<disk, dlog, dhead, data, dirty, lh, outstanding,
                               committing, pc, tail, wrote, buf, up>>
    PROVE  LogInv'
<1> USE DEF LogInv
<1>1. Types' /\ Headers'
  BY Zenon DEF Types, Headers, Distinct
<1>2. Active' = Active /\ Installing' = Installing
  BY DEF Active, Installing
<1>3. Room'
  BY <1>2, RoomSame
<1>4. Buffers' /\ Control' /\ Stage'
  BY <1>2 DEF Buffers, Control, Stage
<1>5. PinnedUntilInstalled' /\ Clean' /\ Copied'
  BY DEF PinnedUntilInstalled, Clean, Copied, InLog, AtHome
<1> QED BY <1>1, <1>3, <1>4, <1>5

(* Only buffers that agree with the disk are recycled: the cache does not   *)
(* change.                                                                  *)
LEMMA EvictHarmless == ASSUME LogInv, NEW b \in Block, evict(b) PROVE data' = data
  BY DEF LogInv, evict, Clean, Types

LEMMA Log_evict == ASSUME LogInv, NEW b \in Block, evict(b) PROVE LogInv'
<1>1. UNCHANGED <<disk, dlog, dhead, dirty, lh, outstanding, committing, pc, tail,
                  wrote, buf, up>>
  BY DEF evict, ondisk, header, local, machine
<1> QED BY <1>1, EvictHarmless, LogStutter

(* A crash leaves the disk.                                                 *)
LEMMA Log_crash == ASSUME LogInv, crash PROVE LogInv'
<1> USE LogBasics DEF LogInv
<1>1. /\ up' = FALSE /\ data' = disk /\ dirty' = {} /\ lh' = <<>> /\ outstanding' = 0
      /\ committing' = FALSE /\ pc' = [t \in Thread |-> "off"] /\ tail' = 1
      /\ wrote' = [t \in Thread |-> {}] /\ buf' = [t \in Thread |-> NoBlock]
      /\ UNCHANGED <<disk, dlog, dhead>>
  BY DEF crash, ondisk
<1>2. Types'
  <2>1. pc' \in [Thread -> {"user", "begin", "asleep", "off"} \cup Operating \cup Committing]
    BY <1>1
  <2>2. wrote' \in [Thread -> SUBSET Block] /\ buf' \in [Thread -> Block \cup {NoBlock}]
    BY <1>1
  <2>3. lh' \in Seq(Block) /\ outstanding' \in Nat /\ tail' \in Nat \ {0} /\ dirty' \subseteq Block
    BY <1>1
  <2> QED BY <1>1, <2>1, <2>2, <2>3, Zenon DEF Types
<1>3. Active' = {} /\ ~Installing'
  BY <1>1 DEF Active, Operating, Installing
<1>4. Room'
  <2>1. \A t \in Thread : wrote'[t] = {}
    BY <1>1
  <2>2. \A t \in Thread : IsFiniteSet(wrote'[t]) /\ Cardinality(wrote'[t]) <= MAXOPBLOCKS
    BY <2>1, FS_EmptySet
  <2>3. lh' \in Seq(Block) /\ Len(lh') <= LOGSIZE
    BY <1>1
  <2> QED BY <1>1, <1>3, <2>2, <2>3, RoomQuiet
<1>5. Buffers' /\ Control' /\ Clean'
  BY <1>1 DEF Buffers, Control, Committing, Clean
<1>6. Stage'
  BY <1>1, <1>3 DEF Stage
<1>7. PinnedUntilInstalled'
  BY <1>1 DEF PinnedUntilInstalled, Range
<1>8. Headers' /\ Copied'
  BY <1>1 DEF Headers, Distinct, Copied
<1> QED BY <1>2, <1>4, <1>5, <1>6, <1>7, <1>8

(* Recovery starts from the header on disk.                                 *)
LEMMA Log_read_head ==
    ASSUME LogInv, NEW t \in Thread, read_head(t)
    PROVE  LogInv'
<1> USE LogBasics DEF LogInv
<1>1. /\ \A u \in Thread : pc[u] = "off"
      /\ lh' = dhead
      /\ UNCHANGED <<disk, dlog, dhead, data, dirty, outstanding, committing, tail,
                     wrote, buf, up>>
  BY DEF read_head, ondisk, cache, local, machine
<1>2. \/ dhead = <<>> /\ pc' = [pc EXCEPT ![t] = "erase"]
      \/ dhead # <<>> /\ pc' = [pc EXCEPT ![t] = "install"]
  BY DEF read_head, Goto
<1>3. ~up /\ Active = {} /\ ~Installing
  BY <1>1 DEF Control, Active, Operating, Installing
<1>4. /\ pc'[t] = IF dhead = <<>> THEN "erase" ELSE "install"
      /\ \A u \in Thread : u # t => pc'[u] = "off"
  BY <1>1, <1>2 DEF Types
<1>5. Types'
  <2>1. pc' \in [Thread -> {"user", "begin", "asleep", "off"} \cup Operating \cup Committing]
    BY <1>2 DEF Types, Committing
  <2>2. lh' \in Seq(Block)
    BY <1>1 DEF Types
  <2> QED BY <1>1, <2>1, <2>2, Zenon DEF Types
<1>6. Active' = {}
  BY <1>4 DEF Active, Operating
<1>7. Room'
  <2>1. outstanding = 0
    BY <1>3, FS_EmptySet DEF Room
  <2>2. \A u \in Thread : IsFiniteSet(wrote'[u]) /\ Cardinality(wrote'[u]) <= MAXOPBLOCKS
    BY <1>1 DEF Room
  <2>3. lh' \in Seq(Block) /\ Len(lh') <= LOGSIZE /\ outstanding' = 0
    BY <1>1, <2>1 DEF Types, Headers
  <2> QED BY <1>6, <2>2, <2>3, RoomQuiet
<1>8. Buffers' /\ Clean'
  BY <1>1, <1>4 DEF Buffers, Clean
<1>9. Control'
  BY <1>1, <1>3, <1>4 DEF Control, Committing
<1>10. Installing'
  BY <1>4 DEF Installing
<1>11. tail = 1 /\ (dhead # <<>> => 1 <= Len(dhead))
  BY <1>3 DEF Stage, Types
<1>12. Stage'
  BY <1>1, <1>3, <1>4, <1>10, <1>11 DEF Stage
<1>13. PinnedUntilInstalled'
  <2>1. dirty = {}
    BY <1>3 DEF PinnedUntilInstalled, Installing, Stage, Range
  <2> QED BY <1>1, <1>3, <1>4, <2>1 DEF PinnedUntilInstalled
<1>14. Headers'
  BY <1>1 DEF Headers
<1>15. Copied'
  <2>1. pc'[t] = "erase" => Len(lh') = 0
    BY <1>1, <1>4
  <2>2. \A u \in Thread, i \in 1..Len(lh') : ~InLog(u, i)' /\ ~AtHome(u, i)'
    BY <1>1, <1>3, <1>4, <1>11, <2>1 DEF InLog, AtHome
  <2> QED BY <2>2 DEF Copied
<1> QED BY <1>5, <1>7, <1>8, <1>9, <1>12, <1>13, <1>14, <1>15

(* LogInv is inductive.                                                     *)
LEMMA LogStep == LogInv /\ [Next]_vars => LogInv'
<1> SUFFICES ASSUME LogInv, [Next]_vars PROVE LogInv'
  OBVIOUS
<1>1. CASE UNCHANGED vars
  BY <1>1, LogStutter DEF vars
<1>2. ASSUME NEW t \in Thread, call(t) PROVE LogInv'
  BY <1>2, Log_begin_op, Log_modify DEF call
<1>3. ASSUME NEW t \in Thread, run(t) PROVE LogInv'
  BY <1>3, Log_begin_op_sleeps, Log_log_write, Log_end_op, Log_write_log,
     Log_write_head, Log_install_trans, Log_erase, Log_committed DEF run
<1>4. ASSUME NEW t \in Thread, read_head(t) PROVE LogInv'
  BY <1>4, Log_read_head
<1>5. ASSUME NEW b \in Block, evict(b) PROVE LogInv'
  BY <1>5, Log_evict
<1> QED BY <1>1, <1>2, <1>3, <1>4, <1>5, Log_crash DEF Next

LEMMA LogInvariant == Spec => []LogInv
  BY LogInit, LogStep, PTL DEF Spec

(* A block is pinned from log_write to its installation, and not longer.    *)
THEOREM Pinned == Spec => []PinnedUntilInstalled
<1>1. LogInv => PinnedUntilInstalled
  BY DEF LogInv
<1> QED BY <1>1, LogInvariant, PTL

(***************************************************************************)
(* The reservation of begin_op is enough: the operations in progress never  *)
(* log more blocks than the header has entries.                             *)
(***************************************************************************)
THEOREM ReservationSuffices == Spec => [](Len(lh) <= LOGSIZE)
<1>1. LogInv => Len(lh) <= LOGSIZE
  BY Fits DEF LogInv
<1> QED BY <1>1, LogInvariant, PTL

(* What recovery makes of a block that is in the header, and of another.    *)
Recovers ==
    /\ Recovered \in [Block -> Value]
    /\ \A i \in 1..Len(dhead) : dhead[i] \in Block /\ Recovered[dhead[i]] = dlog[i]
    /\ \A b \in Block : b \notin Range(dhead) => Recovered[b] = disk[b]

LEMMA RecoveredBlock == ASSUME LogInv PROVE Recovers
<1> USE LogBasics DEF LogInv
<1> DEFINE At(b) == CHOOSE i \in DOMAIN dhead : dhead[i] = b
<1>1. DOMAIN dhead = 1..Len(dhead) /\ \A i \in 1..Len(dhead) : dhead[i] \in Block
  BY DEF Types
<1>2. ASSUME NEW i \in 1..Len(dhead) PROVE At(dhead[i]) = i
  BY <1>1 DEF Headers, Distinct
<1>3. Recovered = [b \in Block |-> IF b \in Range(dhead) THEN dlog[At(b)] ELSE disk[b]]
  BY DEF Recovered
<1> HIDE DEF At
<1>4. \A i \in 1..Len(dhead) : dhead[i] \in Range(dhead) /\ Recovered[dhead[i]] = dlog[i]
  BY <1>1, <1>2, <1>3 DEF Range
<1>5. \A i \in 1..Len(dhead) : dlog[i] \in Value
  <2>1. \A i \in 1..Len(dhead) : i \in 1..LOGSIZE
    BY DEF Types, Headers
  <2> QED BY <2>1 DEF Types
<1>6. Recovered \in [Block -> Value]
  <2> SUFFICES ASSUME NEW b \in Block
               PROVE  (IF b \in Range(dhead) THEN dlog[At(b)] ELSE disk[b]) \in Value
    BY <1>3
  <2>1. CASE b \in Range(dhead)
    BY <2>1, <1>1, <1>2, <1>5 DEF Range
  <2>2. CASE b \notin Range(dhead)
    BY <2>2 DEF Types
  <2> QED BY <2>1, <2>2
<1> QED BY <1>1, <1>3, <1>4, <1>6 DEF Recovers

(* Nothing is left to recover when the header is empty, ...                 *)
LEMMA NothingLogged == ASSUME LogInv, dhead = <<>> PROVE Recovered = disk
<1>1. Range(dhead) = {}
  BY DEF Range
<1> QED BY <1>1, RecoveredBlock DEF LogInv, Recovers, Types

(* ... nor when everything in it is at home.                                *)
LEMMA AllHome == ASSUME LogInv, NEW t \in Thread, pc[t] = "erase" PROVE Recovered = disk
<1> USE DEF LogInv
<1>1. dhead = lh
  BY DEF Stage, Installing
<1>2. \A i \in 1..Len(dhead) : disk[dhead[i]] = dlog[i]
  BY <1>1 DEF Copied, AtHome
<1>3. ASSUME NEW b \in Block PROVE Recovered[b] = disk[b]
  <2>1. CASE b \in Range(dhead)
    <3>1. PICK i \in 1..Len(dhead) : b = dhead[i]
      BY <2>1, InRange DEF Types
    <3> QED BY <3>1, <1>2, RecoveredBlock DEF Recovers
  <2>2. CASE b \notin Range(dhead)
    BY <2>2, RecoveredBlock DEF Recovers
  <2> QED BY <2>1, <2>2
<1> QED BY <1>3, RecoveredBlock DEF Recovers, Types

(* The abstract state of AtomicDisk.                                        *)
Current == IF up THEN data ELSE Recovered

Same == Recovered' = Recovered /\ Current' = Current /\ Active' = Active

LEMMA SameDisk ==
    ASSUME UNCHANGED <<disk, dlog, dhead>> PROVE Recovered' = Recovered
  BY DEF Recovered

(* write_head is the commit: a restart now finds what the cache holds.      *)
LEMMA Refine_write_head ==
    ASSUME LogInv, LogInv', NEW t \in Thread, write_head(t)
    PROVE  Abs!Commit
<1> USE DEF LogInv
<1>1. /\ pc[t] = "write_head" /\ pc' = [pc EXCEPT ![t] = "install"] /\ dhead' = lh
      /\ UNCHANGED <<disk, dlog, data, dirty, lh, up>>
  BY DEF write_head, Goto, cache, header, machine
<1>2. /\ Active = {} /\ \A u \in Thread : u # t => pc[u] \notin Committing
      /\ \A u \in Thread : buf[u] = NoBlock
  BY <1>1, Committer DEF Committing
<1>3. up /\ dirty = Range(lh)
  BY <1>1, <1>2 DEF Control, PinnedUntilInstalled, Committing
<1>4. \A i \in 1..Len(lh) : dlog[i] = data[lh[i]]
  BY <1>1 DEF Copied, InLog
<1>5. /\ Recovered' \in [Block -> Value]
      /\ \A i \in 1..Len(dhead') : Recovered'[dhead'[i]] = dlog'[i]
      /\ \A b \in Block : b \notin Range(dhead') => Recovered'[b] = disk'[b]
  <2>1. (LogInv => Recovers)'
    BY RecoveredBlock, PTL
  <2> QED BY <2>1 DEF Recovers
<1>6. ASSUME NEW b \in Block PROVE Recovered'[b] = data[b]
  <2>1. CASE b \in Range(lh)
    <3>1. PICK i \in 1..Len(lh) : b = lh[i]
      BY <2>1, InRange DEF Types
    <3> QED BY <3>1, <1>1, <1>4, <1>5
  <2>2. CASE b \notin Range(lh)
    BY <2>2, <1>1, <1>2, <1>3, <1>5, LogBasics DEF Clean
  <2> QED BY <2>1, <2>2
<1>7. Recovered' = data
  BY <1>5, <1>6 DEF Types
<1>8. Active' = {}
  BY <1>1, <1>2 DEF Active, Operating, Types
<1> QED BY <1>1, <1>2, <1>3, <1>7, <1>8 DEF Abs!Commit, Active, Operating

(* Installing changes neither what a restart finds nor what bread returns.  *)
LEMMA Refine_install ==
    ASSUME LogInv, LogInv', NEW t \in Thread, install_trans(t)
    PROVE  Same
<1> USE DEF LogInv
<1> DEFINE b == lh[tail]
<1>1. /\ pc[t] = "install"
      /\ data' = [data EXCEPT ![b] = dlog[tail]] /\ disk' = [disk EXCEPT ![b] = dlog[tail]]
      /\ UNCHANGED <<dlog, dhead, lh, up>>
  BY DEF install_trans, header, machine
<1>2. dhead = lh /\ tail \in 1..Len(lh) /\ b \in Block
  BY <1>1 DEF Stage, Installing, Types
<1>3. b \in Range(dhead)
  BY <1>2, InRange DEF Types
<1> HIDE DEF b
<1>4. Recovered' = Recovered
  <2>1. \A c \in Block : c \notin Range(dhead) => disk'[c] = disk[c]
    BY <1>1, <1>3 DEF Types
  <2> QED BY <1>1, <2>1 DEF Recovered
<1>5. up => data' = data
  BY <1>1, <1>2 DEF Copied, InLog, Types, b
<1>6. Active' = Active
  BY <1>1 DEF install_trans, NextBlock, Goto, Active, Operating, Types
<1>7. Current' = Current
  BY <1>1, <1>4, <1>5, Zenon DEF Current
<1> QED BY <1>4, <1>6, <1>7 DEF Same

(* Clearing the header forgets only what is at home.                        *)
LEMMA Refine_erase ==
    ASSUME LogInv, LogInv', NEW t \in Thread, erase(t)
    PROVE  Same
<1> USE DEF LogInv
<1>1. /\ pc[t] = "erase" /\ dhead' = <<>> /\ up' = TRUE /\ UNCHANGED <<disk, data>>
      /\ \/ up /\ pc' = [pc EXCEPT ![t] = "done"]
         \/ ~up /\ pc' = [u \in Thread |-> "user"]
  BY DEF erase, cache, Goto
<1>2. /\ Active = {} /\ \A u \in Thread : buf[u] = NoBlock
      /\ \A u \in Thread : u # t => pc[u] \notin Committing
  BY <1>1, Committer DEF Committing
<1>3. Recovered = disk
  BY <1>1, AllHome
<1>4. (LogInv /\ dhead = <<>> => Recovered = disk)'
  BY NothingLogged, PTL
<1>5. Recovered' = disk
  BY <1>1, <1>4
<1>6. dirty = {}
  BY <1>1, <1>2 DEF PinnedUntilInstalled, Committing
<1>7. data = disk
  BY <1>2, <1>6, LogBasics DEF Clean, Types
<1>8. Active' = {}
  BY <1>1, <1>2 DEF Active, Operating, Types
<1> QED BY <1>1, <1>2, <1>3, <1>5, <1>7, <1>8 DEF Same, Current

(* Every step is one of AtomicDisk, or changes nothing it speaks of.        *)
LEMMA LogStepRefines ==
    ASSUME LogInv, LogInv', [Next]_vars
    PROVE  Abs!Next \/ Same
<1> USE DEF LogInv
<1>1. ASSUME NEW t \in Thread, begin_op(t) PROVE Abs!Begin(t)
  <2>1. /\ pc[t] \in {"user", "begin"} /\ pc' = [pc EXCEPT ![t] = "op"]
        /\ UNCHANGED <<disk, dlog, dhead, data, up>>
    BY <1>1 DEF begin_op, Goto, ondisk, cache, machine
  <2>2. t \notin Active /\ Active' = Active \cup {t}
    BY <2>1 DEF Active, Operating, Types
  <2> QED BY <2>1, <2>2, SameDisk DEF Abs!Begin, Active, Operating
<1>2. ASSUME NEW t \in Thread, NEW b \in Block, NEW v \in Value, modify(t, b, v)
      PROVE  Abs!Write(t, b, v)
  <2>1. /\ pc[t] = "op" /\ pc' = [pc EXCEPT ![t] = "logging"]
        /\ data' = [data EXCEPT ![b] = v] /\ UNCHANGED <<disk, dlog, dhead, up>>
    BY <1>2 DEF modify, Goto, ondisk
  <2>2. up /\ t \in Active /\ Active' = Active
    BY <2>1 DEF Active, Operating, Control, Types
  <2> QED BY <2>1, <2>2, SameDisk DEF Abs!Write, Active, Operating
<1>3. ASSUME NEW t \in Thread, end_op(t) PROVE Abs!End(t)
  <2>1. pc[t] = "op" /\ UNCHANGED <<disk, dlog, dhead, data, up>>
    BY <1>3 DEF end_op, ondisk, cache
  <2>2. t \in Active /\ Active' = Active \ {t}
    <3>1. \/ \E l \in {"done", "write_log"} : pc' = [pc EXCEPT ![t] = l]
          \/ pc' = [u \in Thread |-> IF u = t THEN "user"
                                     ELSE IF pc[u] = "asleep" THEN "begin" ELSE pc[u]]
      BY <1>3 DEF end_op, Goto, WakeAndGoto
    <3> QED BY <2>1, <3>1 DEF Active, Operating, Types
  <2> QED BY <2>1, <2>2, SameDisk DEF Abs!End, Active, Operating
<1>4. ASSUME crash PROVE Abs!Crash
  <2>1. /\ up' = FALSE /\ pc' = [t \in Thread |-> "off"] /\ UNCHANGED <<disk, dlog, dhead>>
    BY <1>4 DEF crash, ondisk
  <2>2. Active' = {}
    BY <2>1 DEF Active, Operating
  <2> QED BY <2>1, <2>2, SameDisk DEF Abs!Crash, Active, Operating
<1>5. ASSUME NEW t \in Thread, begin_op_sleeps(t) \/ log_write(t) \/ committed(t) \/ read_head(t)
      PROVE  Same
  <2>1. UNCHANGED <<disk, dlog, dhead, data, up>>
    BY <1>5 DEF begin_op_sleeps, log_write, committed, read_head, ondisk, cache, machine
  <2>2. Active' = Active
    <3>1. CASE begin_op_sleeps(t)
      BY <3>1 DEF begin_op_sleeps, Goto, Active, Operating, Types
    <3>2. CASE log_write(t)
      BY <3>2 DEF log_write, Goto, Active, Operating, Types
    <3>3. CASE committed(t)
      BY <3>3 DEF committed, WakeAndGoto, Active, Operating, Types
    <3>4. CASE read_head(t)
      BY <3>4 DEF read_head, Goto, Active, Operating, Types
    <3> QED BY <1>5, <3>1, <3>2, <3>3, <3>4
  <2> QED BY <2>1, <2>2, SameDisk DEF Same, Current
<1>6. ASSUME NEW t \in Thread, write_log(t) PROVE Same
  <2>1. /\ pc[t] = "write_log" /\ UNCHANGED <<disk, dhead, data, up>>
        /\ pc' = pc \/ pc' = [pc EXCEPT ![t] = "write_head"]
    BY <1>6 DEF write_log, NextBlock, Goto, cache, machine
  <2>2. up /\ \A u \in Thread : u # t => pc[u] \notin Committing
    BY <2>1, Committer DEF Control, Committing
  <2>3. dhead = <<>> /\ dhead' = <<>>
    BY <2>1, <2>2 DEF Stage, Installing, Committing
  <2>4. (LogInv /\ dhead = <<>> => Recovered = disk)'
    BY NothingLogged, PTL
  <2>5. Recovered = disk /\ Recovered' = disk
    BY <2>1, <2>3, <2>4, NothingLogged
  <2>6. Active' = Active
    BY <2>1 DEF Active, Operating, Types
  <2> QED BY <2>1, <2>5, <2>6 DEF Same, Current
<1>7. ASSUME NEW b \in Block, evict(b) PROVE Same
  <2>1. UNCHANGED <<disk, dlog, dhead, pc, up>>
    BY <1>7 DEF evict, ondisk, machine
  <2> QED BY <1>7, <2>1, EvictHarmless, SameDisk DEF Same, Current, Active
<1>8. CASE UNCHANGED vars
  BY <1>8, SameDisk DEF vars, Same, Current, Active
<1>9. ASSUME NEW t \in Thread, call(t) \/ run(t) \/ read_head(t) PROVE Abs!Next \/ Same
  BY <1>1, <1>2, <1>3, <1>5, <1>6, <1>9, Refine_write_head, Refine_install, Refine_erase
     DEF call, run, Abs!Next
<1> QED BY <1>4, <1>7, <1>8, <1>9 DEF Next, Abs!Next

(***************************************************************************)
(* The log implements AtomicDisk: what a restart finds changes in one step, *)
(* from one state between operations to the next.                           *)
(***************************************************************************)
THEOREM LogRefinement == Spec => ImplementsAtomicDisk
<1>1. Init => Abs!Init
  <2> SUFFICES ASSUME Init PROVE Abs!Init
    OBVIOUS
  <2>1. LogInv
    BY LogInit
  <2>2. Recovered = disk /\ disk \in [Block -> Value] /\ data = disk /\ up
    BY <2>1, NothingLogged DEF Init, LogInv, Types
  <2>3. {t \in Thread : pc[t] \in {"op", "logging"}} = {}
    BY DEF Init
  <2> QED BY <2>2, <2>3 DEF Abs!Init
<1>2. LogInv /\ LogInv' /\ [Next]_vars => [Abs!Next]_(Abs!vars)
  BY LogStepRefines DEF Same, Current, Active, Operating, Abs!vars
<1> QED BY <1>1, <1>2, LogInvariant, PTL DEF Spec, ImplementsAtomicDisk, Abs!Spec
==============================================================================
