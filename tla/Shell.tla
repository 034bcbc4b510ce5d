--------------------------------- MODULE Shell ---------------------------------
(***************************************************************************)
(* The shell (sh.c): lines are typed, parsed and run by processes that fork *)
(* and wait for each other, joined by pipes.  fork(), wait(), exit(),       *)
(* pipe(), dup() and close() do what modules Proc, Files and Pipe say, in   *)
(* one step each; a pipe is a number of bytes.  A process does everything   *)
(* up to its next call that others can see in one step.                     *)
(*                                                                         *)
(* Two programs stand for the others: "ls" writes and ends, "cat" copies    *)
(* its input to its output.  The console gives cat the end of file.         *)
(***************************************************************************)
EXTENDS ShParser, SequencesExt

CONSTANTS Tokens,       \* the tokens of any line, typed to be parsed
          MaxTyped,     \* bound on the tokens of a line
          Script,       \* the lines that are entered at a quiet prompt
          Meanwhile,    \* the lines that are entered while others run
          NPROC,        \* process slots: 1 is the shell's, init has its own
          NPIPE,        \* pipes the system has pages and files for
          PIPESIZE,     \* bytes a pipe holds
          LSBYTES       \* bytes ls writes

ASSUME TokensAssumption == Tokens \subseteq Words \cup Symbols /\ Words = {"ls", "cat", "cd"}
ASSUME BoundsAssumption ==
    /\ MaxTyped \in Nat /\ NPROC \in Nat \ {0} /\ NPIPE \in Nat
    /\ PIPESIZE \in Nat \ {0} /\ LSBYTES \in Nat

Slot == 1..NPROC
Fd   == 0..4
init == 0
sh   == 1

Closed  == [k |-> "none", pipe |-> 0]
Console == [k |-> "console", pipe |-> 0]
File    == [k |-> "file", pipe |-> 0]

VARIABLES line,   \* what has been typed
          proc,   \* per slot: where the process is, its command, descriptors, parent,
                  \* how it was started, the descriptors of its pipe and a count
          pipe    \* bytes in each pipe

vars == <<line, proc, pipe>>

NoCmd == Failed.cmd
Free  == [pc |-> "free", cmd |-> NoCmd, fd |-> [d \in Fd |-> Closed], parent |-> init,
          start |-> "none", p0 |-> 0, p1 |-> 0, n |-> 0]
Fresh == [Free EXCEPT !.pc = "getcmd", !.fd = [d \in Fd |-> IF d <= 2 THEN Console ELSE Closed]]

Init == /\ line = << >>
        /\ proc = [i \in Slot |-> IF i = sh THEN Fresh ELSE Free]
        /\ pipe = [k \in 1..NPIPE |-> 0]
-----------------------------------------------------------------------------
At(i, l)      == proc[i].pc = l
Children(i)   == {j \in Slot : ~At(j, "free") /\ proc[j].parent = i}
FreeSlots     == {j \in Slot : At(j, "free")}
Lowest(S)     == CHOOSE x \in S : \A y \in S : x <= y
LowestFd(f)   == Lowest({d \in Fd : f[d] = Closed})
Holds(k, p)   == \E j \in Slot, d \in Fd : proc[j].fd[d] = [k |-> k, pipe |-> p]
FreePipes     == {p \in 1..NPIPE : ~Holds("r", p) /\ ~Holds("w", p)}

(***************************************************************************)
(* The process table becomes t; a pipe nobody holds any more is freed.      *)
(***************************************************************************)
Kept(t)    == [p \in 1..NPIPE |-> IF \E j \in Slot, d \in Fd : t[j].fd[d].pipe = p
                                 THEN pipe[p] ELSE 0]
Becomes(t) == proc' = t /\ pipe' = Kept(t) /\ UNCHANGED line

(***************************************************************************)
(* exit() of i in the process table t: descriptors are closed, children go  *)
(* to init.                                                                 *)
(***************************************************************************)
Exited(t, i) ==
    [j \in Slot |->
        IF j = i THEN [Free EXCEPT !.pc = "zombie", !.parent = t[i].parent, !.start = t[i].start]
        ELSE IF t[j].parent = i THEN [t[j] EXCEPT !.parent = init] ELSE t[j]]

(***************************************************************************)
(* fork1(): the child is a copy that goes to pc with cmd; the parent goes   *)
(* on as after.  When fork() fails, panic() ends the parent; children it    *)
(* has not waited for are lost.                                             *)
(***************************************************************************)
Forked(i, pc, cmd, start, after) ==
    LET j == Lowest(FreeSlots) IN
    [proc EXCEPT ![j] = [proc[i] EXCEPT !.pc = pc, !.cmd = cmd, !.parent = i, !.start = start],
                 ![i] = after]

PanicFork_retry(i) == proc          \* mutant: fork() is tried again until it works

PanicFork(i) ==
    Exited([j \in Slot |-> IF j \in Children(i) THEN [proc[j] EXCEPT !.start = "lost"] ELSE proc[j]], i)

fork1(i, pc, cmd, start, after) ==
    \/ FreeSlots # {} /\ Becomes(Forked(i, pc, cmd, start, after))
    \/ Becomes(PanicFork(i))

exit(i)    == Becomes(Exited(proc, i))
Goto(i, r) == Becomes([proc EXCEPT ![i] = r])
-----------------------------------------------------------------------------
(***************************************************************************)
(* main() and getcmd(): a line is typed, a child parses and runs it.        *)
(***************************************************************************)
Quiet     == FreeSlots = Slot \ {sh}
Begins(l) == \E e \in IF Quiet THEN Script ELSE Meanwhile : IsPrefix(l, e)

gets(tok) ==
    /\ At(sh, "getcmd")
    /\ (Quiet /\ Len(line) < MaxTyped /\ tok \in Tokens) \/ Begins(Append(line, tok))
    /\ line' = Append(line, tok)
    /\ UNCHANGED <<proc, pipe>>

Erase == At(sh, "getcmd") /\ line' = << >> /\ UNCHANGED <<proc, pipe>>

killline == line # << >> /\ Erase

IsCd == Len(line) > 1 /\ Head(line) = "cd"

main_cd == line \in Script /\ IsCd /\ Erase

main_eof == At(sh, "getcmd") /\ line = << >> /\ exit(sh)

main_fork ==
    /\ At(sh, "getcmd") /\ line \in Script /\ ~IsCd
    /\ fork1(sh, "parsecmd", parsecmd(line), "waited", [proc[sh] EXCEPT !.pc = "main_wait"])

parse(i) ==
    /\ At(i, "parsecmd")
    /\ IF proc[i].cmd = NoCmd THEN exit(i) ELSE Goto(i, [proc[i] EXCEPT !.pc = "runcmd"])

(***************************************************************************)
(* wait(): a zombie child is reaped, and the caller goes on as after.  A    *)
(* caller always has a child: wait() would return -1 without one, which     *)
(* here would show as a deadlock.                                           *)
(***************************************************************************)
wait(i, after) ==
    \E j \in Children(i) : At(j, "zombie") /\ proc' = [proc EXCEPT ![j] = Free, ![i] = after]

main_wait ==
    /\ At(sh, "main_wait")
    /\ wait(sh, [proc[sh] EXCEPT !.pc = "getcmd"])
    /\ line' = << >> /\ UNCHANGED pipe

(***************************************************************************)
(* init reaps orphans, and starts the shell again when it has ended.        *)
(***************************************************************************)
init_wait(i) ==
    /\ i # sh /\ At(i, "zombie") /\ proc[i].parent = init
    /\ Goto(i, Free)

init_restart ==
    /\ At(sh, "zombie")
    /\ proc' = [proc EXCEPT ![sh] = Fresh] /\ line' = << >> /\ UNCHANGED pipe
-----------------------------------------------------------------------------
(***************************************************************************)
(* runcmd(), by the type of the command.                                    *)
(***************************************************************************)
Runs(i, t) == At(i, "runcmd") /\ proc[i].cmd.type = t

run_exec(i) ==
    /\ Runs(i, "EXEC")
    /\ LET argv == proc[i].cmd.argv IN
       \/ exit(i)                                         \* no program, or exec() fails
       \/ /\ argv # << >> /\ argv[1] # "cd"
          /\ Goto(i, [proc[i] EXCEPT !.cmd = NoCmd, !.n = LSBYTES,
                                      !.pc = IF argv = <<"cat">> THEN "cat" ELSE "ls"])

run_redir(i) ==
    /\ Runs(i, "REDIR")
    /\ LET c == proc[i].cmd
           f == [proc[i].fd EXCEPT ![c.fd] = Closed]
       IN  \/ exit(i)                                     \* open() fails
           \/ Goto(i, [proc[i] EXCEPT !.cmd = c.cmd, !.fd = [f EXCEPT ![LowestFd(f)] = File]])

run_list(i) ==
    /\ Runs(i, "LIST")
    /\ fork1(i, "runcmd", proc[i].cmd.left, "waited",
             [proc[i] EXCEPT !.pc = "list_wait", !.cmd = @.right])

list_wait_none(i) ==                \* mutant: the right command does not wait for the left
    At(i, "list_wait") /\ Goto(i, [proc[i] EXCEPT !.pc = "runcmd"])

list_wait(i) ==
    /\ At(i, "list_wait")
    /\ wait(i, [proc[i] EXCEPT !.pc = "runcmd"]) /\ UNCHANGED <<line, pipe>>

run_back(i) ==
    /\ Runs(i, "BACK")
    /\ fork1(i, "runcmd", proc[i].cmd.cmd, "background", [proc[i] EXCEPT !.pc = "exit", !.cmd = NoCmd])

run_exit(i) == At(i, "exit") /\ exit(i)

(***************************************************************************)
(* pipe(), then the left and the right process; the parent closes both ends *)
(* and waits for two children.                                              *)
(***************************************************************************)
run_pipe(i) ==
    /\ Runs(i, "PIPE")
    /\ LET f  == proc[i].fd
           p  == Lowest(FreePipes)
           p0 == LowestFd(f)
           f0 == [f EXCEPT ![p0] = [k |-> "r", pipe |-> p]]
           p1 == LowestFd(f0)
       IN  \/ exit(i)                                     \* pipe() fails: panic()
           \/ /\ FreePipes # {}
              /\ Goto(i, [proc[i] EXCEPT !.pc = "pipe_left", !.p0 = p0, !.p1 = p1,
                                         !.fd = [f0 EXCEPT ![p1] = [k |-> "w", pipe |-> p]]])

pipe_left(i) ==
    /\ At(i, "pipe_left")
    /\ fork1(i, "left", proc[i].cmd.left, "waited", [proc[i] EXCEPT !.pc = "pipe_right"])

pipe_right(i) ==
    /\ At(i, "pipe_right")
    /\ fork1(i, "right", proc[i].cmd.right, "waited", [proc[i] EXCEPT !.pc = "pipe_close", !.cmd = NoCmd])

BothClosed(i, f) == [f EXCEPT ![proc[i].p0] = Closed, ![proc[i].p1] = Closed]

pipe_close(i) ==
    /\ At(i, "pipe_close")
    /\ Goto(i, [proc[i] EXCEPT !.pc = "pipe_wait", !.fd = BothClosed(i, @), !.n = 2])

pipe_wait(i) ==
    /\ At(i, "pipe_wait")
    /\ wait(i, [proc[i] EXCEPT !.n = @ - 1, !.pc = IF proc[i].n = 1 THEN "exit" ELSE @])
    /\ UNCHANGED <<line, pipe>>

(***************************************************************************)
(* In the children: close() of descriptor d, dup() of the end the process   *)
(* keeps, and close() of both.                                              *)
(***************************************************************************)
Joined_open(i, d, end) ==           \* mutant: the child does not close p[0] and p[1]
    LET f == [proc[i].fd EXCEPT ![d] = Closed]
    IN  [f EXCEPT ![LowestFd(f)] = proc[i].fd[end]]

Joined(i, d, end) ==
    LET f == [proc[i].fd EXCEPT ![d] = Closed]
    IN  BothClosed(i, [f EXCEPT ![LowestFd(f)] = proc[i].fd[end]])

pipe_child(i) ==
    \/ At(i, "left") /\ Goto(i, [proc[i] EXCEPT !.pc = "runcmd", !.fd = Joined(i, 1, proc[i].p1)])
    \/ At(i, "right") /\ Goto(i, [proc[i] EXCEPT !.pc = "runcmd", !.fd = Joined(i, 0, proc[i].p0)])
-----------------------------------------------------------------------------
(***************************************************************************)
(* write() of one byte to descriptor 1 by i, which then goes on as r: it    *)
(* waits while the pipe is full and has a reader.  Only a full pipe is      *)
(* found to have no reader.                                                 *)
(***************************************************************************)
Out(i) == proc[i].fd[1]
In(i)  == proc[i].fd[0]
Broken(i) == Out(i).k = "w" /\ pipe[Out(i).pipe] = PIPESIZE /\ ~Holds("r", Out(i).pipe)

Put(i, r) ==
    /\ proc' = [proc EXCEPT ![i] = r]
    /\ IF Out(i).k # "w" \/ Broken(i) THEN UNCHANGED pipe
       ELSE /\ pipe[Out(i).pipe] < PIPESIZE
            /\ pipe' = [pipe EXCEPT ![Out(i).pipe] = @ + 1]
    /\ UNCHANGED line

ls(i) ==
    /\ At(i, "ls")
    /\ IF proc[i].n = 0 THEN exit(i) ELSE Put(i, [proc[i] EXCEPT !.n = @ - 1])

cat_read(i) ==
    /\ At(i, "cat")
    /\ CASE In(i).k = "r" /\ pipe[In(i).pipe] > 0 ->
              /\ proc' = [proc EXCEPT ![i].pc = "cat_write"]
              /\ pipe' = [pipe EXCEPT ![In(i).pipe] = @ - 1] /\ UNCHANGED line
         [] In(i).k = "r" /\ pipe[In(i).pipe] = 0 -> ~Holds("w", In(i).pipe) /\ exit(i)
         [] In(i).k = "file" /\ proc[i].n > 0 ->
              Goto(i, [proc[i] EXCEPT !.pc = "cat_write", !.n = @ - 1])
         [] OTHER -> exit(i)

cat_write(i) ==
    /\ At(i, "cat_write")
    /\ IF Broken(i) THEN exit(i) ELSE Put(i, [proc[i] EXCEPT !.pc = "cat"])
-----------------------------------------------------------------------------
Step(i) ==
    \/ parse(i) \/ init_wait(i)
    \/ run_exec(i) \/ run_redir(i) \/ run_list(i) \/ list_wait(i) \/ run_back(i) \/ run_exit(i)
    \/ run_pipe(i) \/ pipe_left(i) \/ pipe_right(i) \/ pipe_close(i) \/ pipe_wait(i) \/ pipe_child(i)
    \/ ls(i) \/ cat_read(i) \/ cat_write(i)

Main == main_wait \/ init_restart

Next == \/ \E tok \in Words \cup Symbols : gets(tok)
        \/ killline \/ main_cd \/ main_eof \/ main_fork
        \/ Main
        \/ \E i \in Slot : Step(i)

(***************************************************************************)
(* Every process that can run does: the scheduler is fair (module Proc).    *)
(* Nobody has to type.                                                      *)
(***************************************************************************)
Spec == Init /\ [][Next]_vars /\ WF_vars(Main) /\ \A i \in Slot : WF_vars(Step(i))
-----------------------------------------------------------------------------
(***************************************************************************)
(* parsecmd() accepts exactly the lines of the language, and gives each the *)
(* one meaning it has there: precedence, nesting and the order of the       *)
(* redirections come out of six mutually recursive functions that only look *)
(* one character ahead.                                                     *)
(***************************************************************************)
ParsesGrammar == At(sh, "getcmd") => Lines(line) = {parsecmd(line)} \ {NoCmd}

(***************************************************************************)
(* The prompt means that the line is done: the shell has no child then, and *)
(* a process loses its parent only if the line said so with &, or because   *)
(* fork() failed half-way through a pipeline.  So everything that runs at   *)
(* the prompt descends from one of those, although wait() reaps any child   *)
(* and nobody looks at the pid it returns.                                  *)
(***************************************************************************)
PromptMeansDone ==
    /\ At(sh, "getcmd") => Children(sh) = {}
    /\ \A i \in Slot \ {sh} : ~At(i, "free") /\ proc[i].parent = init =>
           proc[i].start \in {"background", "lost"}

(***************************************************************************)
(* A program runs with the ends of the pipes it was put between, on         *)
(* descriptors 0 and 1, and with no other: one write end too many and the   *)
(* reader never sees the end of file, one read end too many and the writer  *)
(* never sees that nobody reads.                                            *)
(***************************************************************************)
OnlyItsEnds ==
    \A i \in Slot : proc[i].pc \in {"ls", "cat", "cat_write"} =>
        /\ In(i).k # "w" /\ Out(i).k # "r"
        /\ \A d \in Fd \ {0, 1} : proc[i].fd[d].k \notin {"r", "w"}

(***************************************************************************)
(* The shell gets back to its prompt (or ends, and init starts another one) *)
(* after every line: no pipeline waits for ever, however its processes are  *)
(* scheduled and whichever fork(), open(), pipe() or exec() fails.          *)
(***************************************************************************)
PromptReturns == At(sh, "main_wait") ~> proc[sh].pc \in {"getcmd", "zombie"}
=============================================================================
