------------------------------ MODULE BufProofs ------------------------------
(***************************************************************************)
(* Proofs about BufCache: for any number of threads, buffers and blocks, a  *)
(* block has one buffer, whoever holds it sees the last contents anyone     *)
(* gave the block, and no update is lost when a buffer is recycled.         *)
(***************************************************************************)
EXTENDS BufCache, FiniteSetTheorems, WellFoundedInduction, TLAPS

Types ==
    /\ blockno \in [Buf -> Block \cup {None}]
    /\ valid \subseteq Buf /\ dirty \subseteq valid /\ bad \subseteq Buf
    /\ refcnt \in [Buf -> Nat]
    /\ data \in [Buf -> Value]
    /\ holder \in [Buf -> Thread \cup {None}]
    /\ idequeue \in Seq(Buf)
    /\ disk \in [Block -> Value] /\ latest \in [Block -> Value]
    /\ pc \in [Thread -> {"idle", "lock", "waiting", "rw", "io", "woken", "have", "released"}]
    /\ buf \in [Thread -> Buf \cup {0}]
    /\ want \in [Thread -> Block \cup {None}]

(* Every buffer is in the list.                                            *)
Listed == /\ mru \in [Buf -> Buf]
          /\ \A b \in Buf : \E i \in Buf : mru[i] = b

(* A buffer's count is the number of threads between bget and the end of    *)
(* brelse, and it keeps the block they asked for.                           *)
Users(b) == {t \in Thread : buf[t] = b}

Counted == \A b \in Buf : refcnt[b] = Cardinality(Users(b))

HasBlock == \A t \in Thread : IF pc[t] = "idle" THEN buf[t] = 0
                              ELSE /\ buf[t] \in Buf /\ want[t] \in Block
                                   /\ blockno[buf[t]] = want[t]

(* The holder of the sleep lock, and what it may rely on.                   *)
Locked == {"rw", "io", "woken", "have"}

HolderKnown ==
    /\ \A t \in Thread : pc[t] \in Locked => holder[buf[t]] = t
    /\ \A b \in Buf : holder[b] # None => buf[holder[b]] = b /\ pc[holder[b]] \in Locked

Flags == \A t \in Thread :
    /\ pc[t] = "have" => buf[t] \in valid
    /\ pc[t] = "woken" => buf[t] \in valid \ dirty
    /\ pc[t] = "rw" => buf[t] \notin valid \ dirty

(* The queue holds the buffers whose threads wait in iderw, each once, and  *)
(* the controller works on the first.                                       *)
Queued ==
    /\ \A i \in 1..Len(idequeue) :
         \E t \in Thread : pc[t] = "io" /\ buf[t] = idequeue[i]
    /\ \A i, j \in 1..Len(idequeue) : idequeue[i] = idequeue[j] => i = j

Command(b) == [write |-> b \in dirty, blockno |-> blockno[b],
               data |-> IF b \in dirty THEN data[b] ELSE None]

Driven == idequeue # <<>> => drive = Command(Head(idequeue))

(* A valid buffer has the last contents, and so has the disk unless a dirty *)
(* buffer does.                                                             *)
Fresh == \A b \in valid :
    /\ blockno[b] \in Block
    /\ b \in bad \ dirty \/ data[b] = latest[blockno[b]]

OnDisk == \A n \in Block : disk[n] = latest[n] \/ \E b \in dirty : blockno[b] = n

BufInv == /\ Types /\ Listed /\ Counted /\ HasBlock /\ HolderKnown /\ Flags
          /\ Queued /\ Driven /\ Fresh /\ OnDisk /\ OneBufferPerBlock

(* What the provers need to know of the constants.                         *)
LEMMA BufBasics ==
    /\ NBUF \in Nat /\ None \notin Block /\ None \notin Thread
    /\ 0 \notin Buf /\ Buf \subseteq Nat
  BY BufAssumption DEF Buf

(* The search from the end of the list finds an unused buffer if there is   *)
(* one: the last of a nonempty set of places exists.                        *)
LEMMA FindsUnused == ASSUME Listed, Unused # {} PROVE LeastRecent \in Unused
<1> USE BufBasics
<1> DEFINE P == {j \in Buf : mru[j] \in Unused}
           T == {NBUF - j : j \in P}
<1>1. P # {}
  BY DEF Listed, Unused
<1>2. T \subseteq Nat /\ T # {}
  BY <1>1 DEF Buf
<1>3. PICK x \in T : \A y \in T : ~(<<y, x>> \in OpToRel(<, Nat))
  <2> HIDE DEF T
  <2> QED BY <1>2, NatLessThanWellFounded, WFMin
<1>4. \A y \in T : ~(y < x)
  BY <1>2, <1>3 DEF OpToRel
<1>5. PICK j \in P : x = NBUF - j
  OBVIOUS
<1>6. \A k \in j+1..NBUF : mru[k] \notin Unused
  <2> SUFFICES ASSUME NEW k \in j+1..NBUF, mru[k] \in Unused PROVE FALSE
    OBVIOUS
  <2>1. k \in P /\ NBUF - k \in T
    BY DEF Buf
  <2> QED BY <2>1, <1>4, <1>5 DEF Buf
<1>7. \E m \in Buf : mru[m] \in Unused /\ \A k \in m+1..NBUF : mru[k] \notin Unused
  BY <1>5, <1>6
<1> QED BY <1>7 DEF LeastRecent

(* A buffer that some thread uses has a count above zero.                   *)
LEMMA UsersFinite == ASSUME NEW b PROVE IsFiniteSet(Users(b)) /\ Cardinality(Users(b)) \in Nat
  BY BufAssumption, FS_Subset, FS_CardinalityType DEF Users

LEMMA UsedCounted ==
    ASSUME Counted, NEW t \in Thread, buf[t] \in Buf
    PROVE  refcnt[buf[t]] # 0
<1>1. Users(buf[t]) # {}
  BY DEF Users
<1> QED BY <1>1, UsersFinite, FS_EmptySet DEF Counted

(* Before the first call nobody uses a buffer and the disk is up to date.   *)
LEMMA BufInit == Init => BufInv
<1> SUFFICES ASSUME Init PROVE BufInv
  OBVIOUS
<1> USE BufBasics DEF Init
<1>1. Types
  BY DEF Types
<1>2. Listed
  <2>1. mru \in [Buf -> Buf]
    BY DEF Buf
  <2>2. ASSUME NEW b \in Buf PROVE \E i \in Buf : mru[i] = b
    <3>1. NBUF + 1 - b \in Buf /\ mru[NBUF + 1 - b] = b
      BY DEF Buf
    <3> QED BY <3>1
  <2> QED BY <2>1, <2>2 DEF Listed
<1>3. Counted
  <2>1. \A b \in Buf : Users(b) = {}
    BY DEF Users
  <2> QED BY <2>1, FS_EmptySet DEF Counted
<1>4. HasBlock /\ HolderKnown /\ Flags /\ Fresh /\ OnDisk /\ OneBufferPerBlock
  BY DEF HasBlock, HolderKnown, Locked, Flags, Fresh, OnDisk, OneBufferPerBlock
<1>5. Queued /\ Driven
  BY DEF Queued, Driven
<1> QED BY <1>1, <1>2, <1>3, <1>4, <1>5 DEF BufInv

(* The invariant does not speak of panicked and errors.                     *)
LEMMA BufStutter ==
    ASSUME BufInv,
           UNCHANGED <<blockno, valid, dirty, refcnt, data, holder, mru, idequeue,
                       drive, disk, pc, buf, want, latest, bad>>
    PROVE  BufInv'
<1>1. Types' /\ Listed'
  BY DEF BufInv, Types, Listed
<1>2. Counted'
  BY DEF BufInv, Counted, Users
<1>3. HasBlock' /\ HolderKnown' /\ Flags'
  BY DEF BufInv, HasBlock, HolderKnown, Flags
<1>4. Queued' /\ Driven'
  BY DEF BufInv, Queued, Driven, Command
<1>5. Fresh' /\ OnDisk' /\ OneBufferPerBlock'
  BY DEF BufInv, Fresh, OnDisk, OneBufferPerBlock
<1> QED BY <1>1, <1>2, <1>3, <1>4, <1>5 DEF BufInv

(* A thread joins the users of the block's buffer.                          *)
LEMMA Buf_cached ==
    ASSUME BufInv, NEW t \in Thread, NEW n \in Block, bget_cached(t, n)
    PROVE  BufInv'
<1> USE BufBasics DEF BufInv
<1>1. PICK b \in Buf :
        /\ blockno[b] = n /\ pc[t] = "idle" /\ buf[t] = 0
        /\ refcnt' = [refcnt EXCEPT ![b] = @ + 1]
        /\ buf' = [buf EXCEPT ![t] = b] /\ want' = [want EXCEPT ![t] = n]
        /\ pc' = [pc EXCEPT ![t] = "lock"]
  BY DEF bget_cached, Cached, Goto, HasBlock
<1>2. UNCHANGED <<blockno, valid, dirty, data, holder, mru, idequeue, drive,
                  disk, latest, bad, panicked>>
  BY DEF bget_cached, ide, ghosts
<1>3. Types'
  BY <1>1, <1>2 DEF Types
<1>4. Counted'
  <2> SUFFICES ASSUME NEW c \in Buf PROVE refcnt'[c] = Cardinality(Users(c)')
    BY DEF Counted
  <2>1. CASE c = b
    <3>1. Users(c)' = Users(c) \cup {t} /\ t \notin Users(c)
      BY <1>1, <2>1 DEF Users, Types
    <3>2. Cardinality(Users(c) \cup {t}) = Cardinality(Users(c)) + 1
      BY <3>1, UsersFinite, FS_AddElement
    <3> QED BY <3>1, <3>2, <1>1, <2>1 DEF Counted, Types
  <2>2. CASE c # b
    <3>1. Users(c)' = Users(c)
      BY <1>1, <2>2 DEF Users, Types
    <3> QED BY <3>1, <1>1, <2>2 DEF Counted, Types
  <2> QED BY <2>1, <2>2
<1>5. HasBlock'
  BY <1>1, <1>2 DEF HasBlock, Types
<1>6. HolderKnown' /\ Flags'
  BY <1>1, <1>2 DEF HolderKnown, Locked, Flags, Types
<1>7. Queued' /\ Driven'
  <2>1. \A u \in Thread : pc[u] = "io" => pc'[u] = "io" /\ buf'[u] = buf[u]
    BY <1>1 DEF Types
  <2>2. Queued'
    BY <2>1, <1>2 DEF Queued
  <2>3. Driven'
    BY <1>2 DEF Driven, Command
  <2> QED BY <2>2, <2>3
<1>8. Listed' /\ Fresh' /\ OnDisk' /\ OneBufferPerBlock'
  BY <1>2 DEF Listed, Fresh, OnDisk, OneBufferPerBlock
<1> QED BY <1>3, <1>4, <1>5, <1>6, <1>7, <1>8

(* The buffer recycled is nobody's, clean and not in the queue; no other    *)
(* has the block.                                                           *)
LEMMA Buf_recycle ==
    ASSUME BufInv, NEW t \in Thread, NEW n \in Block, bget_recycle(t, n)
    PROVE  BufInv'
<1> USE BufBasics DEF BufInv
<1>1. /\ pc[t] = "idle" /\ buf[t] = 0 /\ Cached(n) = {}
      /\ UNCHANGED <<data, holder, mru, idequeue, drive, disk, latest, bad>>
  BY DEF bget_recycle, ide, ghosts, HasBlock
<1>2. CASE Unused = {}
  <2>1. UNCHANGED <<blockno, valid, dirty, refcnt, pc, buf, want>>
    BY <1>2 DEF bget_recycle
  <2> QED BY <2>1, <1>1, BufStutter
<1>3. CASE Unused # {}
  <2> DEFINE b == LeastRecent
  <2>1. b \in Buf /\ refcnt[b] = 0 /\ b \notin dirty
    BY <1>3, FindsUnused DEF Unused
  <2>2. /\ blockno' = [blockno EXCEPT ![b] = n]
        /\ valid' = valid \ {b} /\ dirty' = dirty \ {b}
        /\ refcnt' = [refcnt EXCEPT ![b] = 1]
        /\ buf' = [buf EXCEPT ![t] = b] /\ want' = [want EXCEPT ![t] = n]
        /\ pc' = [pc EXCEPT ![t] = "lock"]
    BY <1>3 DEF bget_recycle, Goto
  <2> HIDE DEF b
  <2>3. \A u \in Thread : buf[u] # b
    BY <2>1, UsedCounted
  <2>4. \A c \in Buf : blockno[c] # n
    BY <1>1 DEF Cached
  <2>5. Types'
    BY <1>1, <2>1, <2>2 DEF Types
  <2>6. Counted'
    <3> SUFFICES ASSUME NEW c \in Buf PROVE refcnt'[c] = Cardinality(Users(c)')
      BY DEF Counted
    <3>1. CASE c = b
      <4>1. Users(c)' = {t}
        BY <2>2, <2>3, <3>1 DEF Users, Types
      <4> QED BY <4>1, <2>2, <3>1, FS_Singleton DEF Types
    <3>2. CASE c # b
      <4>1. Users(c)' = Users(c)
        BY <1>1, <2>2, <3>2 DEF Users, Types
      <4> QED BY <4>1, <2>2, <3>2 DEF Counted, Types
    <3> QED BY <3>1, <3>2
  <2>7. HasBlock'
    BY <2>1, <2>2, <2>3 DEF HasBlock, Types
  <2>8. HolderKnown' /\ Flags'
    BY <1>1, <2>1, <2>2, <2>3 DEF HolderKnown, Locked, Flags, HasBlock, Types
  <2>9. Queued' /\ Driven'
    <3>1. \A u \in Thread : pc[u] = "io" => pc'[u] = "io" /\ buf'[u] = buf[u]
      BY <1>1, <2>2 DEF Types
    <3>2. Queued'
      BY <3>1, <1>1 DEF Queued
    <3>3. ASSUME idequeue # <<>> PROVE Head(idequeue) \in Buf \ {b}
      BY <3>3, <2>3 DEF Queued, Types
    <3>4. Driven'
      BY <3>3, <1>1, <2>2 DEF Driven, Command, Types
    <3> QED BY <3>2, <3>4
  <2>10. Fresh' /\ OnDisk'
    BY <1>1, <2>1, <2>2 DEF Fresh, OnDisk, Types
  <2>11. Listed' /\ OneBufferPerBlock'
    BY <1>1, <2>1, <2>2, <2>4 DEF Listed, OneBufferPerBlock, Types
  <2> QED BY <2>5, <2>6, <2>7, <2>8, <2>9, <2>10, <2>11
<1> QED BY <1>2, <1>3

(* Taking the sleep lock, or going to sleep on it.                          *)
LEMMA Buf_acquiresleep ==
    ASSUME BufInv, NEW t \in Thread, acquiresleep(t)
    PROVE  BufInv'
<1> USE BufBasics DEF BufInv
<1>1. /\ pc[t] = "lock" /\ buf[t] \in Buf
      /\ UNCHANGED <<blockno, valid, dirty, refcnt, data, mru, idequeue, drive,
                     disk, buf, want, latest, bad>>
  BY DEF acquiresleep, ide, ghosts, HasBlock
<1>2. \/ /\ holder[buf[t]] = None
         /\ holder' = [holder EXCEPT ![buf[t]] = t]
         /\ \/ buf[t] \in valid /\ pc' = [pc EXCEPT ![t] = "have"]
            \/ buf[t] \notin valid /\ pc' = [pc EXCEPT ![t] = "rw"]
      \/ pc' = [pc EXCEPT ![t] = "waiting"] /\ UNCHANGED holder
  BY DEF acquiresleep, Goto
<1>3. Types' /\ HasBlock' /\ HolderKnown'
  <2>1. CASE /\ holder[buf[t]] = None
             /\ holder' = [holder EXCEPT ![buf[t]] = t]
             /\ \E l \in {"have", "rw"} : pc' = [pc EXCEPT ![t] = l]
    <3>1. Types'
      BY <1>1, <2>1 DEF Types
    <3>2. HasBlock'
      BY <1>1, <2>1 DEF Types, HasBlock
    <3>3. HolderKnown'
      BY <1>1, <2>1 DEF HolderKnown, Locked, Types
    <3> QED BY <3>1, <3>2, <3>3
  <2>2. CASE pc' = [pc EXCEPT ![t] = "waiting"] /\ UNCHANGED holder
    BY <1>1, <2>2 DEF Types, HasBlock, HolderKnown, Locked
  <2> QED BY <2>1, <2>2, <1>2
<1>4. Flags'
  BY <1>1, <1>2 DEF Flags, Types
<1>5. Queued'
  <2>1. \A u \in Thread : pc[u] = "io" => pc'[u] = "io"
    BY <1>1, <1>2 DEF Types
  <2> QED BY <2>1, <1>1 DEF Queued
<1>6. Counted' /\ Driven'
  BY <1>1 DEF Counted, Users, Driven, Command
<1>7. Listed' /\ Fresh' /\ OnDisk' /\ OneBufferPerBlock'
  BY <1>1 DEF Listed, Fresh, OnDisk, OneBufferPerBlock
<1> QED BY <1>3, <1>4, <1>5, <1>6, <1>7

(* The buffer joins the queue, in which it is not yet.                      *)
LEMMA Buf_iderw ==
    ASSUME BufInv, NEW t \in Thread, iderw(t)
    PROVE  BufInv'
<1> USE BufBasics DEF BufInv
<1>1. /\ pc[t] = "rw" /\ buf[t] \in Buf
      /\ idequeue' = Append(idequeue, buf[t])
      /\ pc' = [pc EXCEPT ![t] = "io"]
      /\ UNCHANGED <<blockno, valid, dirty, refcnt, data, holder, mru, disk,
                     buf, want, latest, bad>>
  BY DEF iderw, bufs, ghosts, Goto, HasBlock
<1>2. Types' /\ HasBlock' /\ HolderKnown' /\ Flags'
  BY <1>1 DEF Types, HasBlock, HolderKnown, Locked, Flags
<1>3. \A i \in 1..Len(idequeue) : idequeue[i] # buf[t]
  BY <1>1 DEF Queued, HolderKnown, Locked, Types
<1>4. /\ Len(idequeue') = Len(idequeue) + 1 /\ Len(idequeue) \in Nat
      /\ idequeue'[Len(idequeue')] = buf[t]
      /\ \A i \in 1..Len(idequeue) : idequeue'[i] = idequeue[i]
  BY <1>1 DEF Types
<1>5. Queued'
  <2>1. \A u \in Thread : pc[u] = "io" => pc'[u] = "io"
    BY <1>1 DEF Types
  <2>2. pc'[t] = "io" /\ buf'[t] = buf[t]
    BY <1>1 DEF Types
  <2>3. \A i \in 1..Len(idequeue') : i \in 1..Len(idequeue) \/ i = Len(idequeue')
    BY <1>4
  <2>4. \A i \in 1..Len(idequeue') :
           \E u \in Thread : pc'[u] = "io" /\ buf'[u] = idequeue'[i]
    BY <1>1, <1>4, <2>1, <2>2, <2>3 DEF Queued
  <2>5. \A i, j \in 1..Len(idequeue') : idequeue'[i] = idequeue'[j] => i = j
    BY <1>3, <1>4, <2>3 DEF Queued
  <2> QED BY <2>4, <2>5 DEF Queued
<1>6. Driven'
  <2>1. CASE idequeue = <<>>
    <3>1. Head(idequeue') = buf[t]
      BY <1>1, <2>1
    <3>2. drive' = Command(buf[t])
      BY <2>1 DEF iderw, idestart, Command
    <3> QED BY <3>1, <3>2, <1>1 DEF Driven, Command
  <2>2. CASE idequeue # <<>>
    <3>1. Head(idequeue') = Head(idequeue)
      BY <1>1, <2>2 DEF Types
    <3>2. drive' = drive
      BY <2>2 DEF iderw
    <3> QED BY <3>1, <3>2, <2>2, <1>1 DEF Driven, Command
  <2> QED BY <2>1, <2>2
<1>7. Counted'
  BY <1>1 DEF Counted, Users
<1>8. Listed' /\ Fresh' /\ OnDisk' /\ OneBufferPerBlock'
  BY <1>1 DEF Listed, Fresh, OnDisk, OneBufferPerBlock
<1> QED BY <1>2, <1>5, <1>6, <1>7, <1>8

(* After the wakeup the buffer is valid and clean: the thread has it.       *)
LEMMA Buf_woken ==
    ASSUME BufInv, NEW t \in Thread, iderw_woken(t)
    PROVE  BufInv'
<1> USE BufBasics DEF BufInv
<1>1. /\ pc[t] = "woken" /\ buf[t] \in valid \ dirty
      /\ pc' = [pc EXCEPT ![t] = "have"]
      /\ UNCHANGED <<blockno, valid, dirty, refcnt, data, holder, mru, idequeue,
                     drive, disk, buf, want, latest, bad>>
  BY DEF iderw_woken, bufs, ide, ghosts, Goto, Flags
<1>2. Types' /\ HasBlock' /\ HolderKnown' /\ Flags'
  BY <1>1 DEF Types, HasBlock, HolderKnown, Locked, Flags
<1>3. Queued'
  <2>1. \A u \in Thread : pc[u] = "io" => pc'[u] = "io"
    BY <1>1 DEF Types
  <2> QED BY <2>1, <1>1 DEF Queued
<1>4. Counted' /\ Driven'
  BY <1>1 DEF Counted, Users, Driven, Command
<1>5. Listed' /\ Fresh' /\ OnDisk' /\ OneBufferPerBlock'
  BY <1>1 DEF Listed, Fresh, OnDisk, OneBufferPerBlock
<1> QED BY <1>2, <1>3, <1>4, <1>5

(* The interrupt serves the first of the queue, whose thread alone has it.  *)
LEMMA Buf_ideintr ==
    ASSUME BufInv, NEW ok \in BOOLEAN, ideintr(ok)
    PROVE  BufInv'
<1> USE BufBasics DEF BufInv
<1> DEFINE b == Head(idequeue)
<1>1. /\ idequeue # <<>>
      /\ idequeue' = Tail(idequeue)
      /\ valid' = valid \cup {b} /\ dirty' = dirty \ {b}
      /\ pc' = [t \in Thread |-> IF pc[t] = "io" /\ buf[t] = b THEN "woken" ELSE pc[t]]
      /\ UNCHANGED <<blockno, refcnt, holder, mru, buf, want, latest>>
  BY DEF ideintr
<1>2. /\ ok \/ b \notin dirty
      /\ bad' = IF ok THEN bad \ {b} ELSE bad \cup {b}
      /\ disk' = IF drive.write THEN [disk EXCEPT ![drive.blockno] = drive.data]
                                ELSE disk
      /\ data' = IF b \notin dirty /\ ok THEN [data EXCEPT ![b] = disk[drive.blockno]]
                                         ELSE data
  BY DEF ideintr
<1>3. /\ Len(idequeue) \in Nat \ {0} /\ b = idequeue[1]
      /\ Len(idequeue') = Len(idequeue) - 1
      /\ \A i \in 1..Len(idequeue') :
           i + 1 \in 1..Len(idequeue) /\ idequeue'[i] = idequeue[i + 1]
      /\ idequeue' \in Seq(Buf)
  BY <1>1 DEF Types
<1>4. PICK w \in Thread : pc[w] = "io" /\ buf[w] = b
  BY <1>3 DEF Queued
<1>5. /\ b \in Buf /\ blockno[b] \in Block
      /\ \A u \in Thread : pc[u] \in Locked /\ buf[u] = b => u = w
  BY <1>4 DEF HasBlock, HolderKnown, Locked
<1>6. /\ drive.write = (b \in dirty) /\ drive.blockno = blockno[b]
      /\ b \in dirty => drive.data = data[b]
  BY <1>1 DEF Driven, Command
<1>7. \A i \in 1..Len(idequeue') : idequeue'[i] \in Buf \ {b}
  BY <1>3, <1>5 DEF Queued, Types
<1> HIDE DEF b
<1>8. \A c \in dirty : blockno[c] = blockno[b] => c = b
  BY <1>5 DEF OneBufferPerBlock, Types
<1>9. Types'
  <2>1. disk' \in [Block -> Value] /\ data' \in [Buf -> Value]
    BY <1>2, <1>5, <1>6 DEF Types
  <2>2. /\ valid' \subseteq Buf /\ dirty' \subseteq valid' /\ bad' \subseteq Buf
    BY <1>1, <1>2, <1>5 DEF Types
  <2> QED BY <2>1, <2>2, <1>1, <1>3 DEF Types
<1>10. HasBlock'
  BY <1>1 DEF HasBlock, Types
<1>11. HolderKnown'
  BY <1>1 DEF HolderKnown, Locked, Types
<1>12. Flags'
  BY <1>1, <1>4, <1>5 DEF Flags, Locked, Types
<1>13. Queued'
  <2>1. \A i \in 1..Len(idequeue') : \E u \in Thread : pc'[u] = "io" /\ buf'[u] = idequeue'[i]
    <3> SUFFICES ASSUME NEW i \in 1..Len(idequeue')
                 PROVE  \E u \in Thread : pc'[u] = "io" /\ buf'[u] = idequeue'[i]
      OBVIOUS
    <3>1. PICK u \in Thread : pc[u] = "io" /\ buf[u] = idequeue'[i]
      BY <1>3 DEF Queued
    <3> QED BY <3>1, <1>1, <1>7
  <2>2. \A i, j \in 1..Len(idequeue') : idequeue'[i] = idequeue'[j] => i = j
    BY <1>3 DEF Queued
  <2> QED BY <2>1, <2>2 DEF Queued
<1>14. Driven'
  <2> SUFFICES ASSUME idequeue' # <<>> PROVE drive' = Command(Head(idequeue))'
    BY DEF Driven
  <2> DEFINE h == Head(idequeue')
  <2>1. h \in Buf \ {b}
    BY <1>3, <1>7
  <2>2. drive' = Command(h)
    BY DEF ideintr, idestart, Command
  <2> HIDE DEF h
  <2>3. (h \in dirty' <=> h \in dirty) /\ blockno'[h] = blockno[h] /\ data'[h] = data[h]
    BY <1>1, <1>2, <2>1 DEF Types
  <2>4. Command(h) = [write |-> h \in dirty', blockno |-> blockno'[h],
                      data |-> IF h \in dirty' THEN data'[h] ELSE None]
    BY <2>3 DEF Command
  <2> QED BY <2>2, <2>4 DEF Command, h
<1>15. Fresh'
  <2> SUFFICES ASSUME NEW c \in valid'
               PROVE  /\ blockno'[c] \in Block
                      /\ c \in bad' \ dirty' \/ data'[c] = latest'[blockno'[c]]
    BY DEF Fresh
  <2>1. CASE c # b
    BY <2>1, <1>1, <1>2 DEF Fresh, Types
  <2>2. CASE c = b /\ b \in dirty
    BY <2>2, <1>1, <1>2, <1>5 DEF Fresh, Types
  <2>3. CASE c = b /\ b \notin dirty /\ ok
    <3>1. disk[blockno[b]] = latest[blockno[b]]
      BY <2>3, <1>5, <1>8 DEF OnDisk
    <3> QED BY <3>1, <2>3, <1>1, <1>2, <1>5, <1>6 DEF Types
  <2>4. CASE c = b /\ ~ok
    BY <2>4, <1>1, <1>2, <1>5
  <2> QED BY <2>1, <2>2, <2>3, <2>4
<1>16. OnDisk'
  <2>1. CASE b \in dirty
    <3>1. disk' = [disk EXCEPT ![blockno[b]] = data[b]] /\ data[b] = latest[blockno[b]]
      BY <2>1, <1>2, <1>6 DEF Fresh, Types
    <3> QED BY <3>1, <1>1, <1>5 DEF OnDisk, Types
  <2>2. CASE b \notin dirty
    BY <2>2, <1>1, <1>2, <1>6 DEF OnDisk
  <2> QED BY <2>1, <2>2
<1>17. Listed' /\ Counted' /\ OneBufferPerBlock'
  BY <1>1 DEF Listed, Counted, Users, OneBufferPerBlock
<1> QED BY <1>9, <1>10, <1>11, <1>12, <1>13, <1>14, <1>15, <1>16, <1>17

(* The holder changes a buffer that is in no queue.                         *)
LEMMA Buf_change ==
    ASSUME BufInv, NEW t \in Thread, NEW v \in Value, NEW l \in {"rw", "have"}, change(t, v, l)
    PROVE  BufInv'
<1> USE BufBasics DEF BufInv
<1> DEFINE b == buf[t]
<1>1. /\ pc[t] = "have"
      /\ data' = [data EXCEPT ![b] = v] /\ latest' = [latest EXCEPT ![want[t]] = v]
      /\ bad' = bad \ {b} /\ dirty' = dirty \cup {b}
      /\ pc' = [pc EXCEPT ![t] = l]
      /\ UNCHANGED <<blockno, valid, refcnt, holder, mru, idequeue, drive, disk, buf, want>>
  BY DEF change, Goto, ide
<1>2. /\ b \in Buf /\ want[t] \in Block /\ blockno[b] = want[t] /\ b \in valid
      /\ \A u \in Thread : pc[u] \in Locked /\ buf[u] = b => u = t
  BY <1>1 DEF HasBlock, HolderKnown, Flags, Locked
<1>3. Types'
  BY <1>1, <1>2 DEF Types
<1> HIDE DEF b
<1>4. HasBlock' /\ HolderKnown'
  BY <1>1 DEF HasBlock, HolderKnown, Locked, Types
<1>5. Flags'
  BY <1>1, <1>2 DEF Flags, Locked, Types, b
<1>6. Queued'
  <2>1. \A u \in Thread : pc[u] = "io" => pc'[u] = "io"
    BY <1>1 DEF Types
  <2> QED BY <2>1, <1>1 DEF Queued
<1>7. Driven'
  <2> SUFFICES ASSUME idequeue # <<>> PROVE drive = Command(Head(idequeue))'
    BY <1>1 DEF Driven
  <2> DEFINE h == Head(idequeue)
  <2>1. h \in Buf \ {b}
    <3>1. \E u \in Thread : pc[u] = "io" /\ buf[u] = h
      BY DEF Queued, Types
    <3> QED BY <3>1, <1>1, <1>2 DEF HasBlock, Locked
  <2>2. drive = Command(h) /\ h = Head(idequeue')
    BY <1>1 DEF Driven
  <2> HIDE DEF h
  <2>3. (h \in dirty' <=> h \in dirty) /\ blockno'[h] = blockno[h] /\ data'[h] = data[h]
    BY <1>1, <2>1 DEF Types
  <2>4. Command(h) = [write |-> h \in dirty', blockno |-> blockno'[h],
                      data |-> IF h \in dirty' THEN data'[h] ELSE None]
    BY <2>3 DEF Command
  <2> QED BY <2>2, <2>4 DEF Command
<1>8. Fresh' /\ OnDisk'
  BY <1>1, <1>2 DEF Fresh, OnDisk, OneBufferPerBlock, Types
<1>9. Listed' /\ Counted' /\ OneBufferPerBlock'
  BY <1>1 DEF Listed, Counted, Users, OneBufferPerBlock
<1> QED BY <1>3, <1>4, <1>5, <1>6, <1>7, <1>8, <1>9

(* The sleep lock is free, and its sleepers try again.                      *)
LEMMA Buf_releasesleep ==
    ASSUME BufInv, NEW t \in Thread, releasesleep(t)
    PROVE  BufInv'
<1> USE BufBasics DEF BufInv
<1>1. /\ pc[t] = "have" /\ buf[t] \in Buf
      /\ holder' = [holder EXCEPT ![buf[t]] = None]
      /\ pc' = [u \in Thread |->
                  IF u = t THEN "released"
                  ELSE IF pc[u] = "waiting" /\ buf[u] = buf[t] THEN "lock" ELSE pc[u]]
      /\ UNCHANGED <<blockno, valid, dirty, refcnt, data, mru, idequeue, drive,
                     disk, buf, want, latest, bad>>
  BY DEF releasesleep, ide, ghosts, HasBlock
<1>2. Types' /\ HasBlock'
  BY <1>1 DEF Types, HasBlock
<1>3. HolderKnown'
  BY <1>1 DEF HolderKnown, Locked, Types
<1>4. Flags'
  BY <1>1 DEF Flags, Types
<1>5. Queued'
  <2>1. \A u \in Thread : pc[u] = "io" => pc'[u] = "io"
    BY <1>1
  <2> QED BY <2>1, <1>1 DEF Queued
<1>6. Counted' /\ Driven'
  BY <1>1 DEF Counted, Users, Driven, Command
<1>7. Listed' /\ Fresh' /\ OnDisk' /\ OneBufferPerBlock'
  BY <1>1 DEF Listed, Fresh, OnDisk, OneBufferPerBlock
<1> QED BY <1>2, <1>3, <1>4, <1>5, <1>6, <1>7

(* Moving a buffer to the front of the list loses none.                     *)
LEMMA FrontKeepsList ==
    ASSUME Listed, NEW b \in Buf
    PROVE  /\ MoveToFront(b) \in [Buf -> Buf]
           /\ \A c \in Buf : \E i \in Buf : MoveToFront(b)[i] = c
<1> USE BufBasics
<1> DEFINE After(i) == \E k \in i..NBUF : mru[k] = b
           m == [i \in Buf |-> IF i = 1 THEN b ELSE IF After(i) THEN mru[i-1] ELSE mru[i]]
<1>1. MoveToFront(b) = m
  BY DEF MoveToFront
<1>2. 1 \in Buf /\ \A i \in Buf : i # 1 => i - 1 \in Buf
  BY DEF Buf
<1>3. m \in [Buf -> Buf]
  <2> HIDE DEF After
  <2> QED BY <1>2 DEF Listed
<1>4. ASSUME NEW c \in Buf PROVE \E i \in Buf : m[i] = c
  <2>1. CASE c = b
    BY <2>1, <1>2
  <2>2. CASE c # b
    <3>1. PICK i \in Buf : mru[i] = c
      BY DEF Listed
    <3>2. CASE After(i + 1)
      <4>1. i + 1 \in Buf /\ i + 1 # 1 /\ (i + 1) - 1 = i
        BY <3>2 DEF Buf
      <4>2. m[i + 1] = mru[i]
        <5> HIDE DEF After
        <5> QED BY <4>1, <3>2
      <4> QED BY <3>1, <4>1, <4>2
    <3>3. CASE ~After(i + 1)
      <4>1. ~After(i)
        BY <2>2, <3>1, <3>3 DEF Buf
      <4>2. i # 1
        BY <4>1 DEF Listed, Buf
      <4> HIDE DEF After
      <4> QED BY <3>1, <4>1, <4>2
    <3> QED BY <3>2, <3>3
  <2> QED BY <2>1, <2>2
<1> QED BY <1>1, <1>3, <1>4

(* A thread leaves the users of its buffer.                                 *)
LEMMA Buf_brelse ==
    ASSUME BufInv, NEW t \in Thread, brelse(t)
    PROVE  BufInv'
<1> USE BufBasics DEF BufInv
<1> DEFINE b == buf[t]
<1>1. /\ pc[t] = "released" /\ b \in Buf
      /\ refcnt' = [refcnt EXCEPT ![b] = @ - 1]
      /\ mru' = MoveToFront(b) \/ mru' = mru
      /\ buf' = [buf EXCEPT ![t] = 0] /\ want' = [want EXCEPT ![t] = None]
      /\ pc' = [pc EXCEPT ![t] = "idle"]
      /\ UNCHANGED <<blockno, valid, dirty, data, holder, idequeue, drive, disk,
                     latest, bad>>
  BY DEF brelse, Goto, ide, ghosts, HasBlock
<1> HIDE DEF b
<1>2. refcnt[b] \in Nat \ {0}
  BY <1>1, UsedCounted DEF Types, b
<1>3. Types'
  BY <1>1, <1>2 DEF Types
<1>4. Listed'
  <2>1. /\ MoveToFront(b) \in [Buf -> Buf]
        /\ \A c \in Buf : \E i \in Buf : MoveToFront(b)[i] = c
    BY <1>1, FrontKeepsList
  <2>2. CASE mru' = mru
    BY <2>2 DEF Listed
  <2>3. CASE mru' = MoveToFront(b)
    BY <2>1, <2>3 DEF Listed
  <2> QED BY <2>2, <2>3, <1>1
<1>5. Counted'
  <2> SUFFICES ASSUME NEW c \in Buf PROVE refcnt'[c] = Cardinality(Users(c)')
    BY DEF Counted
  <2>1. CASE c = b
    <3>1. Users(c)' = Users(c) \ {t} /\ t \in Users(c)
      BY <1>1, <2>1 DEF Users, Types, b
    <3>2. Cardinality(Users(c) \ {t}) = Cardinality(Users(c)) - 1
      BY <3>1, UsersFinite, FS_RemoveElement
    <3> QED BY <3>1, <3>2, <1>1, <2>1 DEF Counted, Types
  <2>2. CASE c # b
    <3>1. Users(c)' = Users(c)
      BY <1>1, <2>2 DEF Users, Types, b
    <3> QED BY <3>1, <1>1, <2>2 DEF Counted, Types
  <2> QED BY <2>1, <2>2
<1>6. HasBlock' /\ Flags'
  BY <1>1 DEF HasBlock, Flags, Types
<1>7. HolderKnown'
  BY <1>1 DEF HolderKnown, Locked, Types
<1>8. Queued'
  <2>1. \A u \in Thread : pc[u] = "io" => pc'[u] = "io" /\ buf'[u] = buf[u]
    BY <1>1 DEF Types
  <2> QED BY <2>1, <1>1 DEF Queued
<1>9. Driven' /\ Fresh' /\ OnDisk' /\ OneBufferPerBlock'
  BY <1>1 DEF Driven, Command, Fresh, OnDisk, OneBufferPerBlock
<1> QED BY <1>3, <1>4, <1>5, <1>6, <1>7, <1>8, <1>9

(* BufInv is inductive.                                                     *)
LEMMA BufStep == BufInv /\ [Next]_vars => BufInv'
<1> SUFFICES ASSUME BufInv, [Next]_vars PROVE BufInv'
  OBVIOUS
<1>1. CASE UNCHANGED vars
  BY <1>1, BufStutter DEF vars, bufs, ide, ghosts
<1>2. ASSUME NEW t \in Thread, call(t) PROVE BufInv'
  BY <1>2, Buf_cached, Buf_recycle DEF call
<1>3. ASSUME NEW t \in Thread, use(t) PROVE BufInv'
  BY <1>3, Buf_change DEF use
<1>4. ASSUME NEW t \in Thread, run(t) PROVE BufInv'
  BY <1>4, Buf_acquiresleep, Buf_iderw, Buf_woken, Buf_brelse DEF run
<1>5. ASSUME NEW t \in Thread, releasesleep(t) PROVE BufInv'
  BY <1>5, Buf_releasesleep
<1>6. ASSUME NEW ok \in BOOLEAN, ideintr(ok) PROVE BufInv'
  BY <1>6, Buf_ideintr
<1> QED BY <1>1, <1>2, <1>3, <1>4, <1>5, <1>6 DEF Next

LEMMA BufInvariant == Spec => []BufInv
  BY BufInit, BufStep, PTL DEF Spec

(* bget never makes a second copy of a block.                               *)
THEOREM OneCopy == Spec => []OneBufferPerBlock
<1>1. BufInv => OneBufferPerBlock
  BY DEF BufInv
<1> QED BY <1>1, BufInvariant, PTL

(* Whoever holds a buffer after bread has its block alone and sees what was *)
(* last put into it, unless the read had an error.                          *)
THEOREM CacheCoherent == Spec => []ReadsLatest
<1>1. BufInv => ReadsLatest
  BY DEF BufInv, ReadsLatest, HasBlock, HolderKnown, Locked, Flags, Fresh, Types
<1> QED BY <1>1, BufInvariant, PTL

(* An update that is not on the disk is in a buffer that bget leaves alone. *)
THEOREM UpdatesKept == Spec => []NothingLost
<1>1. BufInv => NothingLost
  BY DEF BufInv, NothingLost, OnDisk, Fresh, Types
<1> QED BY <1>1, BufInvariant, PTL
==============================================================================
