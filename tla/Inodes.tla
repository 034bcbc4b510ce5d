------------------------------- MODULE Inodes -------------------------------
(***************************************************************************)
(* Inodes and directories: the inode cache, path lookup and the calls that *)
(* create, link, unlink, open and close files (fs.c and sysfile.c), by     *)
(* processes that run at the same time.  A step is what a call does        *)
(* between two moments at which it may have to wait for an inode's lock;   *)
(* the locks it keeps meanwhile are in lock.  The log makes each call one  *)
(* transaction and is module Log; the cached copy of an inode is written   *)
(* through, so one copy of type, nlink and contents is enough.  The cache  *)
(* has room for all inodes, and paths contain neither "." nor "..".        *)
(***************************************************************************)
EXTENDS Integers, Sequences, FiniteSets, FiniteSetsExt

CONSTANTS Thread,   \* single-threaded processes
          Name,     \* names of files
          Path,     \* the paths used in calls: sequences of names, after "/"
                    \* if they start at the root
          NINUM,    \* inodes on disk
          NBLOCK,   \* data blocks on disk
          Calls,    \* the calls the programs make
          MaxCalls  \* bound on the number of calls in a behaviour

ASSUME InodesAssumption ==
  /\ NINUM \in Nat \ {0} /\ NBLOCK \in Nat /\ MaxCalls \in Nat
  /\ \A p \in Path : p # <<>> /\ \A i \in DOMAIN p : p[i] \in Name \cup {"/"}

Inum == 1..NINUM
Block == 1..NBLOCK
ROOTINO == 1

VARIABLES type, nlink,  \* the inode on disk
          entry,        \* the entries of a directory, 0 for none
          addr,         \* the block of an inode, 0 for none
          bitmap,       \* the blocks in use
          ref, valid,   \* the inode cache
          lock,         \* the threads that hold an inode's lock
          cwd, open,    \* current directory and open file of a process
          ctx,          \* what a process is doing in the kernel
          calls,        \* the calls made so far
          panicked

disk == <<type, nlink, entry, addr, bitmap>>
vars == <<disk, ref, valid, lock, cwd, open, ctx, calls, panicked>>

\* The variables of a call: the rest of the path, whether nameiparent looks it
\* up, inodes ip and dp, the second path of link, and the inode that iput
\* works on with the place to go on afterwards.
User == [pc |-> "user", call |-> "none", path |-> <<>>, parent |-> FALSE,
         name |-> "/", ip |-> 0, dp |-> 0, new |-> <<>>, put |-> 0, next |-> "user"]

NoEntries == [n \in Name |-> 0]

Init ==
  /\ type = [i \in Inum |-> IF i = ROOTINO THEN "dir" ELSE "free"]
  /\ nlink = [i \in Inum |-> IF i = ROOTINO THEN 1 ELSE 0]
  /\ entry = [i \in Inum |-> NoEntries]
  /\ addr = [i \in Inum |-> IF i = ROOTINO THEN 1 ELSE 0]
  /\ bitmap = {1}
  /\ ref = [i \in Inum |-> IF i = ROOTINO THEN Cardinality(Thread) ELSE 0]
  /\ valid = {ROOTINO}
  /\ lock = [i \in Inum |-> {}]
  /\ cwd = [t \in Thread |-> ROOTINO]
  /\ open = [t \in Thread |-> 0]
  /\ ctx = [t \in Thread |-> User]
  /\ calls = 0
  /\ panicked = FALSE

At(t, l) == ctx[t].pc = l
Local(t, c) == ctx' = [ctx EXCEPT ![t] = c]

\* iput(i) and then go on at l.
PutThen(t, c, i, l) == Local(t, [c EXCEPT !.pc = "iput", !.put = i, !.next = l])

Panic == panicked' = TRUE /\ UNCHANGED <<disk, ref, valid, lock, cwd, open, ctx>>

\* ilock waits for the lock, and panics if it reads a free inode from the disk.
Unlocked(i) == lock[i] = {}
NoType(i) == i \notin valid /\ type[i] = "free"

\* iunlock.
iunlock(i) == lock' = [lock EXCEPT ![i] = {}]

\* iget and idup: one more reference, in a cache entry that is there or free.
iget(i) == ref' = [ref EXCEPT ![i] = @ + 1]

\* dirlookup, and dirlink into a free entry.
dirlookup(dp, name) == entry[dp][name]
dirlink(dp, name, ip) == entry' = [entry EXCEPT ![dp][name] = ip]

isdirempty(i) == entry[i] = NoEntries

\* ialloc takes the first free inode, balloc the first free block.
ialloc == Min({i \in Inum : type[i] = "free"})
balloc == Min(Block \ bitmap)

\* bmap gives an inode its block.
bmap(i) == addr' = [addr EXCEPT ![i] = balloc] /\ bitmap' = bitmap \cup {balloc}

itrunc_leaks(i) == addr' = [addr EXCEPT ![i] = 0] /\ UNCHANGED bitmap

\* itrunc: bfree of the block.
itrunc(i) == addr' = [addr EXCEPT ![i] = 0] /\ bitmap' = bitmap \ {addr[i]}

\* skipelem: what is left of a path after its first name.
skipelem(path) == Tail(path)
-----------------------------------------------------------------------------
\* A call begins: the path starts at the root, by iget, or at the current
\* directory, by idup.
begin(t, call, path, new) ==
  LET abs == Head(path) = "/"
      ip == IF abs THEN ROOTINO ELSE cwd[t]
  IN /\ At(t, "user") /\ call \in Calls
     /\ call \in {"open", "create"} => open[t] = 0
     /\ iget(ip)
     /\ Local(t, [User EXCEPT !.pc = "namex", !.call = call,
                     !.path = IF abs THEN Tail(path) ELSE path,
                     !.parent = call \in {"create", "mkdir", "unlink"},
                     !.ip = ip, !.new = new])
     /\ UNCHANGED <<disk, valid, lock, cwd, open, panicked>>

\* Where a call goes when its path was not found.
NotFound(t) == IF ctx[t].call = "link" /\ ctx[t].parent THEN "link_bad" ELSE "user"

\* namex, one element of the path, under the lock of ip.
namex(t) ==
  LET c == ctx[t]
      ip == c.ip
      next == dirlookup(ip, Head(c.path))
  IN /\ At(t, "namex") /\ c.path # <<>> /\ Unlocked(ip)
     /\ IF NoType(ip) THEN Panic
        ELSE /\ valid' = valid \cup {ip}
             /\ IF type[ip] # "dir"
                  THEN PutThen(t, c, ip, NotFound(t)) /\ UNCHANGED ref
                ELSE IF c.parent /\ Len(c.path) = 1
                  THEN /\ Local(t, [c EXCEPT !.pc = c.call, !.name = Head(c.path),
                                             !.dp = ip, !.ip = c.dp, !.path = <<>>])
                       /\ UNCHANGED ref
                ELSE IF next = 0
                  THEN PutThen(t, c, ip, NotFound(t)) /\ UNCHANGED ref
                ELSE /\ iget(next)
                     /\ PutThen(t, [c EXCEPT !.path = skipelem(@), !.ip = next], ip, "namex")
             /\ UNCHANGED <<disk, lock, cwd, open, panicked>>

\* The end of the path.  Only "/" alone makes nameiparent fail here.
namex_end(t) ==
  LET c == ctx[t] IN
  /\ At(t, "namex") /\ c.path = <<>>
  /\ IF c.parent THEN PutThen(t, c, c.ip, NotFound(t))
     ELSE Local(t, [c EXCEPT !.pc = c.call])
  /\ UNCHANGED <<disk, ref, valid, lock, cwd, open, panicked>>

\* The inode iput frees: itrunc with its bfree, and type 0.
Freeable_shared(i) == i \in valid /\ nlink[i] = 0

Freeable(i) == i \in valid /\ nlink[i] = 0 /\ ref[i] = 1

iput(t) ==
  LET i == ctx[t].put IN
  /\ At(t, "iput") /\ Unlocked(i)
  /\ IF Freeable(i) /\ addr[i] \notin bitmap \cup {0} THEN Panic
     ELSE /\ IF Freeable(i)
               THEN /\ type' = [type EXCEPT ![i] = "free"]
                    /\ entry' = [entry EXCEPT ![i] = NoEntries]
                    /\ itrunc(i)
                    /\ valid' = valid \ {i}
                    /\ UNCHANGED nlink
               ELSE UNCHANGED <<disk, valid>>
          /\ Local(t, [ctx[t] EXCEPT !.pc = "iput_ref"])
          /\ UNCHANGED <<ref, lock, cwd, open, panicked>>

\* The end of iput: the reference, under icache.lock.  A cache entry without
\* references is forgotten.
iput_ref(t) ==
  LET c == ctx[t] IN
  /\ At(t, "iput_ref")
  /\ ref' = [ref EXCEPT ![c.put] = @ - 1]
  /\ valid' = IF ref[c.put] = 1 THEN valid \ {c.put} ELSE valid
  /\ Local(t, IF c.next = "user" THEN User
              ELSE [c EXCEPT !.pc = c.next, !.put = 0, !.next = "user"])
  /\ UNCHANGED <<disk, lock, cwd, open, panicked>>
-----------------------------------------------------------------------------
\* sys_open ends with a descriptor for ip; or it drops ip, if ip is a directory
\* to be written or there is no free file or descriptor.
Opened(t, ip) ==
  \/ Local(t, User) /\ open' = [open EXCEPT ![t] = ip]
  \/ PutThen(t, ctx[t], ip, "user") /\ UNCHANGED open

\* sys_open of an existing inode.
sys_open(t) ==
  LET ip == ctx[t].ip IN
  /\ At(t, "open") /\ Unlocked(ip)
  /\ IF NoType(ip) THEN Panic
     ELSE /\ valid' = valid \cup {ip}
          /\ Opened(t, ip)
          /\ UNCHANGED <<disk, ref, lock, cwd, panicked>>

\* Closing the file: iput.
sys_close(t) ==
  /\ At(t, "user") /\ "close" \in Calls /\ open[t] # 0
  /\ open' = [open EXCEPT ![t] = 0]
  /\ PutThen(t, [User EXCEPT !.call = "close"], open[t], "user")
  /\ UNCHANGED <<disk, ref, valid, lock, cwd, panicked>>

\* filewrite: writei with bmap, which allocates the block at the first write.
write(t) ==
  LET ip == open[t] IN
  /\ At(t, "user") /\ "write" \in Calls /\ ip # 0 /\ Unlocked(ip)
  /\ type[ip] = "file" /\ addr[ip] = 0 /\ bitmap # Block
  /\ IF NoType(ip) THEN Panic
     ELSE /\ bmap(ip)
          /\ UNCHANGED <<type, nlink, entry, ref, valid, lock, cwd, open, ctx, panicked>>

\* create, with the parent locked: the name exists.
create_exists(t) ==
  LET c == ctx[t]
      dp == c.dp
      ip == dirlookup(dp, c.name)
  IN /\ c.pc \in {"create", "mkdir"} /\ Unlocked(dp)
     /\ ip # 0
     /\ IF NoType(dp) THEN Panic
        ELSE /\ valid' = valid \cup {dp}
             /\ iget(ip)
             /\ PutThen(t, [c EXCEPT !.ip = ip], dp, "create_found")
             /\ UNCHANGED <<disk, lock, cwd, open, panicked>>

create_found(t) ==
  LET c == ctx[t] IN
  /\ At(t, "create_found") /\ Unlocked(c.ip)
  /\ IF NoType(c.ip) THEN Panic
     ELSE /\ valid' = valid \cup {c.ip}
          /\ IF c.call = "create" /\ type[c.ip] = "file"
               THEN Opened(t, c.ip)
               ELSE PutThen(t, c, c.ip, "user") /\ UNCHANGED open
          /\ UNCHANGED <<disk, ref, lock, cwd, panicked>>

\* create makes the inode and its entry, and unlocks the parent; the new inode
\* stays locked while iput drops the parent.  A directory gets a block for its
\* dots, and a link to its parent.
create(t) ==
  LET c == ctx[t]
      dp == c.dp
      ip == ialloc
      dir == c.call = "mkdir"
  IN /\ c.pc \in {"create", "mkdir"} /\ Unlocked(dp)
     /\ dirlookup(dp, c.name) = 0
     /\ \E i \in Inum : type[i] = "free"
     /\ dir => bitmap # Block
     /\ IF NoType(dp) THEN Panic
        ELSE /\ type' = [type EXCEPT ![ip] = IF dir THEN "dir" ELSE "file"]
             /\ nlink' = [i \in Inum |-> IF i = ip THEN 1
                                         ELSE IF i = dp /\ dir THEN nlink[i] + 1
                                         ELSE nlink[i]]
             /\ dirlink(dp, c.name, ip)
             /\ IF dir THEN bmap(ip) ELSE UNCHANGED <<addr, bitmap>>
             /\ valid' = valid \cup {ip, dp}
             /\ iget(ip)
             /\ lock' = [lock EXCEPT ![ip] = {t}]
             /\ PutThen(t, [c EXCEPT !.ip = ip], dp, "created")
             /\ UNCHANGED <<cwd, open, panicked>>

\* Back in sys_open or sys_mkdir, which unlock the new inode.
created(t) ==
  LET c == ctx[t] IN
  /\ At(t, "created")
  /\ iunlock(c.ip)
  /\ IF c.call = "create"
       THEN Opened(t, c.ip)
       ELSE PutThen(t, c, c.ip, "user") /\ UNCHANGED open
  /\ UNCHANGED <<disk, ref, valid, cwd, panicked>>
-----------------------------------------------------------------------------
\* sys_unlink with the parent locked: the name is looked up.
sys_unlink(t) ==
  LET c == ctx[t]
      dp == c.dp
      ip == dirlookup(dp, c.name)
  IN /\ At(t, "unlink") /\ Unlocked(dp)
     /\ IF NoType(dp) THEN Panic
        ELSE /\ valid' = valid \cup {dp}
             /\ IF ip = 0
                  THEN PutThen(t, c, dp, "user") /\ UNCHANGED <<ref, lock>>
                  ELSE /\ iget(ip)
                       /\ lock' = [lock EXCEPT ![dp] = {t}]
                       /\ Local(t, [c EXCEPT !.pc = "unlink_ip", !.ip = ip])
             /\ UNCHANGED <<disk, cwd, open, panicked>>

\* ilock of an inode without type, or one without links, is a panic.
Dead(i) == NoType(i) \/ nlink[i] < 1

\* ip is locked too: a directory that is not empty stays.
unlink_notempty(t) ==
  LET c == ctx[t] IN
  /\ At(t, "unlink_ip") /\ Unlocked(c.ip)
  /\ ~ Dead(c.ip) /\ type[c.ip] = "dir" /\ ~ isdirempty(c.ip)
  /\ valid' = valid \cup {c.ip}
  /\ PutThen(t, c, c.ip, "unlink_bad")
  /\ UNCHANGED <<disk, ref, lock, cwd, open, panicked>>

unlink_bad(t) ==
  LET c == ctx[t] IN
  /\ At(t, "unlink_bad")
  /\ iunlock(c.dp)
  /\ PutThen(t, c, c.dp, "user")
  /\ UNCHANGED <<disk, ref, valid, cwd, open, panicked>>

\* The entry goes, and the parent's link if ip is a directory; the parent is
\* put while ip stays locked.
unlink_entry(t) ==
  LET c == ctx[t] IN
  /\ At(t, "unlink_ip") /\ Unlocked(c.ip)
  /\ type[c.ip] = "dir" /\ ~ Dead(c.ip) => isdirempty(c.ip)
  /\ IF Dead(c.ip) THEN Panic
     ELSE /\ entry' = [entry EXCEPT ![c.dp][c.name] = 0]
          /\ nlink' = IF type[c.ip] = "dir" THEN [nlink EXCEPT ![c.dp] = @ - 1] ELSE nlink
          /\ valid' = valid \cup {c.ip}
          /\ lock' = [lock EXCEPT ![c.dp] = {}, ![c.ip] = {t}]
          /\ PutThen(t, c, c.dp, "unlink_link")
          /\ UNCHANGED <<type, addr, bitmap, ref, cwd, open, panicked>>

unlink_link(t) ==
  LET c == ctx[t] IN
  /\ At(t, "unlink_link")
  /\ nlink' = [nlink EXCEPT ![c.ip] = @ - 1]
  /\ iunlock(c.ip)
  /\ PutThen(t, c, c.ip, "user")
  /\ UNCHANGED <<type, entry, addr, bitmap, ref, valid, cwd, open, panicked>>
-----------------------------------------------------------------------------
\* sys_link: count the new link first, then look for the new parent.
sys_link(t) ==
  LET c == ctx[t]
      abs == Head(c.new) = "/"
      start == IF abs THEN ROOTINO ELSE cwd[t]
  IN /\ At(t, "link") /\ ~ c.parent /\ Unlocked(c.ip)
     /\ IF NoType(c.ip) THEN Panic
        ELSE /\ valid' = valid \cup {c.ip}
             /\ IF type[c.ip] = "dir"
                  THEN PutThen(t, c, c.ip, "user") /\ UNCHANGED <<nlink, ref>>
                  ELSE /\ nlink' = [nlink EXCEPT ![c.ip] = @ + 1]
                       /\ iget(start)
                       /\ Local(t, [c EXCEPT !.pc = "namex", !.parent = TRUE,
                                      !.path = IF abs THEN Tail(c.new) ELSE c.new,
                                      !.new = <<>>, !.ip = start, !.dp = c.ip])
             /\ UNCHANGED <<type, entry, addr, bitmap, lock, cwd, open, panicked>>

\* dirlink in the new parent.  If the name is there, dirlink drops the inode it
\* found with the parent still locked.
link_entry(t) ==
  LET c == ctx[t]
      old == dirlookup(c.dp, c.name)
  IN /\ At(t, "link") /\ c.parent /\ Unlocked(c.dp)
     /\ IF NoType(c.dp) THEN Panic
        ELSE /\ valid' = valid \cup {c.dp}
             /\ IF old = 0
                  THEN /\ dirlink(c.dp, c.name, c.ip)
                       /\ PutThen(t, c, c.dp, "link_done")
                       /\ UNCHANGED <<ref, lock>>
                  ELSE /\ iget(old)
                       /\ lock' = [lock EXCEPT ![c.dp] = {t}]
                       /\ PutThen(t, c, old, "link_exists")
                       /\ UNCHANGED entry
             /\ UNCHANGED <<type, nlink, addr, bitmap, cwd, open, panicked>>

link_done(t) ==
  /\ At(t, "link_done")
  /\ PutThen(t, ctx[t], ctx[t].ip, "user")
  /\ UNCHANGED <<disk, ref, valid, lock, cwd, open, panicked>>

link_exists(t) ==
  LET c == ctx[t] IN
  /\ At(t, "link_exists")
  /\ iunlock(c.dp)
  /\ PutThen(t, [c EXCEPT !.dp = c.ip], c.dp, "link_bad")
  /\ UNCHANGED <<disk, ref, valid, cwd, open, panicked>>

link_bad_unput(t) ==
  LET ip == ctx[t].dp IN
  /\ At(t, "link_bad") /\ Unlocked(ip)
  /\ nlink' = [nlink EXCEPT ![ip] = @ - 1]
  /\ Local(t, User)
  /\ UNCHANGED <<type, entry, addr, bitmap, ref, valid, lock, cwd, open, panicked>>

\* The link cannot be made: take the count back and drop the inode, which
\* is in dp since namex had ip.
link_bad(t) ==
  LET ip == ctx[t].dp IN
  /\ At(t, "link_bad") /\ Unlocked(ip)
  /\ IF NoType(ip) THEN Panic
     ELSE /\ nlink' = [nlink EXCEPT ![ip] = @ - 1]
          /\ valid' = valid \cup {ip}
          /\ PutThen(t, ctx[t], ip, "user")
          /\ UNCHANGED <<type, entry, addr, bitmap, ref, lock, cwd, open, panicked>>

\* sys_chdir: drop the old directory, then take the new one.
sys_chdir(t) ==
  LET ip == ctx[t].ip IN
  /\ At(t, "chdir") /\ Unlocked(ip)
  /\ IF NoType(ip) THEN Panic
     ELSE /\ valid' = valid \cup {ip}
          /\ IF type[ip] # "dir" THEN PutThen(t, ctx[t], ip, "user")
             ELSE PutThen(t, ctx[t], cwd[t], "chdir_done")
          /\ UNCHANGED <<disk, ref, lock, cwd, open, panicked>>

chdir_done(t) ==
  /\ At(t, "chdir_done")
  /\ cwd' = [cwd EXCEPT ![t] = ctx[t].ip]
  /\ Local(t, User)
  /\ UNCHANGED <<disk, ref, valid, lock, open, panicked>>

call(t) ==
  /\ calls < MaxCalls /\ calls' = calls + 1
  /\ \/ \E p \in Path, c \in {"open", "create", "mkdir", "unlink", "chdir"} : begin(t, c, p, <<>>)
     \/ \E p, q \in Path : begin(t, "link", p, q)
     \/ sys_close(t) \/ write(t)

run(t) ==
  /\ calls' = calls
  /\ \/ namex(t) \/ namex_end(t) \/ iput(t) \/ iput_ref(t)
     \/ sys_open(t) \/ create_exists(t) \/ create_found(t) \/ create(t) \/ created(t)
     \/ sys_unlink(t) \/ unlink_notempty(t) \/ unlink_bad(t) \/ unlink_entry(t)
     \/ unlink_link(t) \/ sys_link(t) \/ link_entry(t) \/ link_done(t)
     \/ link_exists(t) \/ link_bad(t) \/ sys_chdir(t) \/ chdir_done(t)

Next == ~ panicked /\ \E t \in Thread : call(t) \/ run(t)

Spec == Init /\ [][Next]_vars
-----------------------------------------------------------------------------
\* The entries that name inode i.
Links(i) == {x \in Inum \X Name : entry[x[1]][x[2]] = i}

\* A directory entry always leads to an inode that is allocated and counts at
\* least the entries that name it: an inode with a name is never freed.  Nor does
\* a process meet a free inode through a path, an open file or its current
\* directory, or use up a link count, whatever is unlinked meanwhile: ilock,
\* iput and unlink would panic.
EntriesCounted ==
  /\ ~ panicked
  /\ \A i \in Inum : Links(i) # {} => type[i] # "free" /\ nlink[i] >= Cardinality(Links(i))

\* Between calls, every reference in the cache belongs to an open file or a
\* current directory, and no inode is locked: no path through the calls, failed
\* ones included, loses a reference or a lock.
RefsCounted ==
  (\A t \in Thread : At(t, "user")) =>
    \A i \in Inum :
      /\ ref[i] = Cardinality({t \in Thread : cwd[t] = i})
                + Cardinality({t \in Thread : open[t] = i})
      /\ Unlocked(i)

\* Each block in use belongs to exactly one inode, and each block of an inode
\* is marked in use.
BlocksOwnedOnce ==
  /\ bitmap = {addr[i] : i \in Inum} \ {0}
  /\ \A i, j \in Inum : addr[i] = addr[j] /\ addr[i] # 0 => i = j
=============================================================================
