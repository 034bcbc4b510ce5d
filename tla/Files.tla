------------------------------- MODULE Files --------------------------------
(***************************************************************************)
(* File descriptors, the table of open files and pipes (file.c, pipe.c and *)
(* the calls of sysfile.c, fork and exit that use them).  Descriptors      *)
(* belong to a process and are shared, without a lock, by its threads; an  *)
(* open file is shared by the descriptors that fork and dup made of it.    *)
(***************************************************************************)
EXTENDS Naturals, FiniteSets, FiniteSetsExt

CONSTANTS NPROC, NTHREAD,   \* processes; threads of the first process
          NOFILE, NFILE,    \* descriptors of a process; open files
          NPIPE,            \* pages for pipes
          Calls             \* the calls the programs make

ASSUME FilesAssumption == {NPROC, NTHREAD, NOFILE, NFILE, NPIPE} \subseteq Nat \ {0}

Proc == 1..NPROC
Thread == Proc \X (1..NTHREAD)
Fd == 1..NOFILE
File == 1..NFILE
Pipe == 1..NPIPE

VARIABLES ofile,    \* the descriptors of each process, 0 when free
          file,     \* ftable
          pipe,     \* the pipes, without their bytes
          iref,     \* references to the inode that open files use
          live,     \* the processes
          ctx,      \* what each thread is doing in the kernel
          panicked

vars == <<ofile, file, pipe, iref, live, ctx, panicked>>

\* The variables of a call: f and g are files, fd a descriptor, fd0 the first
\* descriptor of sys_pipe, p a pipe and w the end of it that is being closed.
User == [pc |-> "user", call |-> "none", f |-> 0, g |-> 0, fd |-> 0, fd0 |-> 0,
         p |-> 0, w |-> FALSE]
Gone == [User EXCEPT !.pc = "gone"]

Free == [ref |-> 0, type |-> "NONE", readable |-> FALSE, writable |-> FALSE,
         pipe |-> 0]

NoPipe == [alive |-> FALSE, readopen |-> FALSE, writeopen |-> FALSE]

Init ==
  /\ ofile = [p \in Proc |-> [d \in Fd |-> 0]]
  /\ file = [f \in File |-> Free]
  /\ pipe = [q \in Pipe |-> NoPipe]
  /\ iref = 0
  /\ live = {1}
  /\ ctx = [t \in Thread |-> IF t[1] = 1 THEN User ELSE Gone]
  /\ panicked = FALSE

At(t, l) == ctx[t].pc = l
Local(t, c) == ctx' = [ctx EXCEPT ![t] = c]
Goto(t, l) == ctx' = [ctx EXCEPT ![t].pc = l]
Return(t) == Local(t, User)
Panic == panicked' = TRUE /\ UNCHANGED <<ofile, file, pipe, iref, live, ctx>>

-----------------------------------------------------------------------------
\* The calls that take a descriptor: argfd reads ofile without a lock.
argfd(t, call, d) ==
  /\ At(t, "user") /\ call \in Calls
  /\ ofile[t[1]][d] # 0
  /\ Local(t, [User EXCEPT !.pc = CASE call = "read" -> "fileread"
                                    [] call = "write" -> "filewrite"
                                    [] call = "close" -> "clear"
                                    [] call = "dup" -> "fdalloc",
                           !.call = call, !.f = ofile[t[1]][d],
                           !.fd = IF call = "close" THEN d ELSE 0])
  /\ UNCHANGED <<ofile, file, pipe, iref, live, panicked>>

\* fdalloc: find the first free descriptor, then take it.
fdalloc(t) ==
  /\ At(t, "fdalloc")
  /\ LET free == {d \in Fd : ofile[t[1]][d] = 0} IN
       IF free # {}
         THEN Local(t, [ctx[t] EXCEPT !.pc = "fdset", !.fd = Min(free)])
         ELSE IF ctx[t].call = "dup" THEN Return(t) ELSE Goto(t, "undo")
  /\ UNCHANGED <<ofile, file, pipe, iref, live, panicked>>

fdset(t) ==
  /\ At(t, "fdset")
  /\ LET c == ctx[t]
         second == c.fd0 # 0
     IN /\ ofile' = [ofile EXCEPT ![t[1]][c.fd] = IF second THEN c.g ELSE c.f]
        /\ CASE c.call = "dup" -> Goto(t, "filedup")
             [] c.call = "open" -> Goto(t, "settype")
             [] c.call = "pipe" /\ ~ second ->
                  Local(t, [c EXCEPT !.pc = "fdalloc", !.fd0 = c.fd])
             [] c.call = "pipe" /\ second -> Return(t)
  /\ UNCHANGED <<file, pipe, iref, live, panicked>>

filedup(t) ==
  /\ At(t, "filedup")
  /\ IF file[ctx[t].f].ref < 1 THEN Panic
     ELSE /\ file' = [file EXCEPT ![ctx[t].f].ref = @ + 1]
          /\ Return(t)
          /\ UNCHANGED <<ofile, pipe, iref, live, panicked>>

\* sys_close: the descriptor is cleared, then the file is closed.
clear(t) ==
  /\ At(t, "clear")
  /\ ofile' = [ofile EXCEPT ![t[1]][ctx[t].fd] = 0]
  /\ Goto(t, "fileclose")
  /\ UNCHANGED <<file, pipe, iref, live, panicked>>

\* Where a thread goes on after fileclose: sys_open drops the inode, sys_pipe
\* closes its second file, exit clears the descriptor.
Closed(c) ==
  CASE c.call = "close" -> User
    [] c.call = "open" -> [c EXCEPT !.pc = "iput", !.f = 0]
    [] c.call = "pipe" -> IF c.g = 0 THEN User
                          ELSE [c EXCEPT !.pc = "fileclose", !.f = c.g, !.g = 0]
    [] c.call = "exit" -> [c EXCEPT !.pc = "exitfd"]

\* fileclose under ftable.lock.  The last reference frees the file and the
\* thread goes on with a copy of it.  The other fields of a free file keep
\* their values in the code; only a thread that still uses it would see them,
\* see Transfer.
fileclose(t) ==
  /\ At(t, "fileclose")
  /\ LET c == ctx[t]
         ff == file[c.f]
     IN IF ff.ref < 1 THEN Panic
        ELSE /\ file' = [file EXCEPT ![c.f] =
                           IF @.ref > 1 THEN [@ EXCEPT !.ref = @ - 1] ELSE Free]
             /\ Local(t, CASE ff.ref > 1 \/ ff.type = "NONE" -> Closed(c)
                           [] ff.ref = 1 /\ ff.type = "PIPE" ->
                                [c EXCEPT !.pc = "pipeclose", !.p = ff.pipe,
                                          !.w = ff.writable]
                           [] ff.ref = 1 /\ ff.type = "INODE" ->
                                [c EXCEPT !.pc = "iput"])
             /\ UNCHANGED <<ofile, pipe, iref, live, panicked>>

\* iput in fileclose, and iunlockput in a sys_open that failed.
iput(t) ==
  /\ At(t, "iput")
  /\ iref' = iref - 1
  /\ IF ctx[t].call = "open" THEN Return(t) ELSE Local(t, Closed(ctx[t]))
  /\ UNCHANGED <<ofile, file, pipe, live, panicked>>

pipeclose_frees(t) ==
  /\ At(t, "pipeclose")
  /\ LET c == ctx[t]
         q == IF c.w THEN [pipe[c.p] EXCEPT !.writeopen = FALSE]
                     ELSE [pipe[c.p] EXCEPT !.readopen = FALSE]
     IN /\ pipe' = [pipe EXCEPT ![c.p] = IF q.readopen THEN q ELSE NoPipe]
        /\ Local(t, Closed(c))
  /\ UNCHANGED <<ofile, file, iref, live, panicked>>

\* pipeclose: one end is closed; the second close frees the page.  (Who it
\* wakes is part of module Pipe.)
pipeclose(t) ==
  /\ At(t, "pipeclose")
  /\ LET c == ctx[t]
         q == IF c.w THEN [pipe[c.p] EXCEPT !.writeopen = FALSE]
                     ELSE [pipe[c.p] EXCEPT !.readopen = FALSE]
     IN /\ pipe' = [pipe EXCEPT ![c.p] = IF q.readopen \/ q.writeopen THEN q ELSE NoPipe]
        /\ Local(t, Closed(c))
  /\ UNCHANGED <<ofile, file, iref, live, panicked>>
-----------------------------------------------------------------------------
\* sys_pipe, and sys_open once it has the inode.
sys_pipe(t) ==
  /\ At(t, "user") /\ "pipe" \in Calls
  /\ Local(t, [User EXCEPT !.pc = "filealloc", !.call = "pipe"])
  /\ UNCHANGED <<ofile, file, pipe, iref, live, panicked>>

sys_open(t) ==
  /\ At(t, "user") /\ "open" \in Calls
  /\ iref' = iref + 1
  /\ Local(t, [User EXCEPT !.pc = "filealloc", !.call = "open"])
  /\ UNCHANGED <<ofile, file, pipe, live, panicked>>

\* filealloc, called once by sys_open and twice by pipealloc.
filealloc(t) ==
  /\ At(t, "filealloc")
  /\ LET c == ctx[t]
         free == {f \in File : file[f].ref = 0}
     IN IF free # {}
          THEN /\ file' = [file EXCEPT ![Min(free)].ref = 1]
               /\ Local(t, CASE c.call = "open" ->
                                  [c EXCEPT !.pc = "fdalloc", !.f = Min(free)]
                             [] c.call = "pipe" /\ c.f = 0 ->
                                  [c EXCEPT !.f = Min(free)]
                             [] c.call = "pipe" /\ c.f # 0 ->
                                  [c EXCEPT !.pc = "pipealloc", !.g = Min(free)])
          ELSE /\ CASE c.call = "open" -> Goto(t, "iput")
                    [] c.call = "pipe" /\ c.f = 0 -> Return(t)
                    [] c.call = "pipe" /\ c.f # 0 -> Goto(t, "fileclose")
               /\ UNCHANGED file
  /\ UNCHANGED <<ofile, pipe, iref, live, panicked>>

\* The rest of pipealloc: a page for the pipe, and the two files.
pipealloc(t) ==
  /\ At(t, "pipealloc")
  /\ \E q \in {x \in Pipe : ~ pipe[x].alive} :
       /\ pipe' = [pipe EXCEPT ![q] = [NoPipe EXCEPT !.alive = TRUE,
                                         !.readopen = TRUE, !.writeopen = TRUE]]
       /\ file' = [file EXCEPT
            ![ctx[t].f] = [@ EXCEPT !.type = "PIPE", !.readable = TRUE,
                                    !.writable = FALSE, !.pipe = q],
            ![ctx[t].g] = [@ EXCEPT !.type = "PIPE", !.readable = FALSE,
                                    !.writable = TRUE, !.pipe = q]]
  /\ Goto(t, "fdalloc")
  /\ UNCHANGED <<ofile, iref, live, panicked>>

\* kalloc finds no page.
pipealloc_fails(t) ==
  /\ At(t, "pipealloc")
  /\ \A q \in Pipe : pipe[q].alive
  /\ Goto(t, "fileclose")
  /\ UNCHANGED <<ofile, file, pipe, iref, live, panicked>>

\* sys_pipe and sys_open give up for want of a descriptor.
undo(t) ==
  /\ At(t, "undo")
  /\ ofile' = [ofile EXCEPT ![t[1]] =
                 [d \in Fd |-> IF d = ctx[t].fd0 THEN 0 ELSE @[d]]]
  /\ Goto(t, "fileclose")
  /\ UNCHANGED <<file, pipe, iref, live, panicked>>

\* The last lines of sys_open fill in the file, opened for O_RDWR.
settype(t) ==
  /\ At(t, "settype")
  /\ file' = [file EXCEPT ![ctx[t].f] = [@ EXCEPT !.type = "INODE", !.pipe = 0,
                                            !.readable = TRUE, !.writable = TRUE]]
  /\ Return(t)
  /\ UNCHANGED <<ofile, pipe, iref, live, panicked>>
-----------------------------------------------------------------------------
\* fileread and filewrite: refuse the wrong end, go on to the pipe, or to the
\* inode, whose data is not modelled here.  A file that was closed or is not
\* filled in yet has old contents, which may lead to the panic.
Transfer(t, allowed, l) ==
  LET ff == file[ctx[t].f] IN
  IF ff.type = "NONE" THEN Panic
  ELSE /\ IF allowed /\ ff.type = "PIPE"
            THEN Local(t, [ctx[t] EXCEPT !.pc = l, !.p = ff.pipe])
            ELSE Return(t)
       /\ UNCHANGED <<ofile, file, pipe, iref, live, panicked>>

fileread(t) == At(t, "fileread") /\ Transfer(t, file[ctx[t].f].readable, "piperead")

filewrite(t) == At(t, "filewrite") /\ Transfer(t, file[ctx[t].f].writable, "pipewrite")

\* piperead or pipewrite returns; how long it takes is part of module Pipe.
transferred(t) ==
  /\ ctx[t].pc \in {"piperead", "pipewrite"}
  /\ Return(t)
  /\ UNCHANGED <<ofile, file, pipe, iref, live, panicked>>
-----------------------------------------------------------------------------
\* fork finds a process slot.  It holds ptable.lock, so forks exclude another.
fork(t) ==
  /\ At(t, "user") /\ "fork" \in Calls
  /\ \A u \in Thread : ctx[u].call # "fork"
  /\ live # Proc
  /\ Local(t, [User EXCEPT !.pc = "forkfd", !.call = "fork", !.fd = 1])
  /\ UNCHANGED <<ofile, file, pipe, iref, live, panicked>>

fork_fd_shared(t) ==
  LET c == ctx[t]
      child == Min(Proc \ live)
  IN /\ At(t, "forkfd") /\ c.fd \in Fd
     /\ ofile' = [ofile EXCEPT ![child][c.fd] = ofile[t[1]][c.fd]]
     /\ Local(t, [c EXCEPT !.fd = @ + 1])
     /\ UNCHANGED <<file, pipe, iref, live, panicked>>

\* fork copies the next descriptor, and after the last one the child runs.
fork_fd(t) ==
  LET c == ctx[t]
      f == ofile[t[1]][c.fd]
      child == Min(Proc \ live)
  IN /\ At(t, "forkfd") /\ c.fd \in Fd
     /\ IF f # 0 /\ file[f].ref < 1 THEN Panic
        ELSE /\ ofile' = [ofile EXCEPT ![child][c.fd] = f]
             /\ file' = IF f = 0 THEN file ELSE [file EXCEPT ![f].ref = @ + 1]
             /\ Local(t, [c EXCEPT !.fd = @ + 1])
             /\ UNCHANGED <<pipe, iref, live, panicked>>

fork_done(t) ==
  LET child == Min(Proc \ live) IN
  /\ At(t, "forkfd") /\ ctx[t].fd \notin Fd
  /\ live' = live \cup {child}
  /\ ctx' = [ctx EXCEPT ![t] = User, ![<<child, 1>>] = User]
  /\ UNCHANGED <<ofile, file, pipe, iref, panicked>>

\* exit, once kill_other_threads has left it the only thread.  The first
\* process never exits.
exit(t) ==
  /\ At(t, "user") /\ "exit" \in Calls /\ t[1] # 1
  /\ Local(t, [User EXCEPT !.pc = "exit", !.call = "exit", !.fd = 1])
  /\ UNCHANGED <<ofile, file, pipe, iref, live, panicked>>

\* safe_exit closes the next descriptor, and clears it afterwards.
exit_fd(t) ==
  LET c == ctx[t] IN
  /\ At(t, "exit") /\ c.fd \in Fd
  /\ Local(t, IF ofile[t[1]][c.fd] = 0 THEN [c EXCEPT !.fd = @ + 1]
              ELSE [c EXCEPT !.pc = "fileclose", !.f = ofile[t[1]][c.fd]])
  /\ UNCHANGED <<ofile, file, pipe, iref, live, panicked>>

exit_clear(t) ==
  /\ At(t, "exitfd")
  /\ ofile' = [ofile EXCEPT ![t[1]][ctx[t].fd] = 0]
  /\ Local(t, [ctx[t] EXCEPT !.pc = "exit", !.fd = @ + 1])
  /\ UNCHANGED <<file, pipe, iref, live, panicked>>

exit_done(t) ==
  /\ At(t, "exit") /\ ctx[t].fd \notin Fd
  /\ live' = live \ {t[1]}
  /\ Local(t, Gone)
  /\ UNCHANGED <<ofile, file, pipe, iref, panicked>>

Descriptors(t) ==
  \/ \E d \in Fd, call \in {"close", "dup", "read", "write"} : argfd(t, call, d)
  \/ fdalloc(t) \/ fdset(t) \/ filedup(t) \/ clear(t) \/ fileclose(t) \/ iput(t)

Pipes(t) ==
  \/ sys_pipe(t) \/ filealloc(t) \/ pipealloc(t) \/ pipealloc_fails(t) \/ undo(t)
  \/ sys_open(t) \/ settype(t) \/ fileread(t) \/ filewrite(t)
  \/ transferred(t) \/ pipeclose(t)

Processes(t) ==
  \/ fork(t) \/ fork_fd(t) \/ fork_done(t)
  \/ exit(t) \/ exit_fd(t) \/ exit_clear(t) \/ exit_done(t)

\* A panic stops the system, which TLC reports as a deadlock: the assertions of
\* filedup, fileclose, fileread and filewrite hold as long as the threads of a
\* process do not share descriptors.
Next ==
  /\ ~ panicked
  /\ \E t \in Thread : Descriptors(t) \/ Pipes(t) \/ Processes(t)

Spec == Init /\ [][Next]_vars
-----------------------------------------------------------------------------
Settled == \A t \in Thread : ctx[t].pc \in {"user", "piperead", "pipewrite", "gone"}

\* Once the calls in progress are over, each file is open exactly as often as
\* there are descriptors for it, and each inode reference belongs to an open
\* file: no failed call leaks a file, and none is freed early.  An end of a pipe
\* is open exactly while some file for it is, and the page of the pipe is kept
\* exactly as long as one of the ends.
RefsCounted ==
  Settled =>
    /\ \A f \in File :
         file[f].ref = Cardinality({x \in Proc \X Fd : ofile[x[1]][x[2]] = f})
    /\ \A f \in File : file[f].ref = 0 <=> file[f].type = "NONE"
    /\ iref = Cardinality({f \in File : file[f].type = "INODE"})
    /\ \A q \in Pipe :
         LET ends == {f \in File : file[f].type = "PIPE" /\ file[f].pipe = q}
         IN  /\ pipe[q].readopen <=> \E f \in ends : ~ file[f].writable
             /\ pipe[q].writeopen <=> \E f \in ends : file[f].writable
             /\ pipe[q].alive <=> ends # {}

\* Nobody reads, writes, sleeps on or closes a pipe whose page was freed.
NoUseAfterFree ==
  \A t \in Thread :
    ctx[t].pc \in {"piperead", "pipewrite", "pipeclose"} =>
      pipe[ctx[t].p].alive
=============================================================================
