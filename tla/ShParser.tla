------------------------------- MODULE ShParser -------------------------------
(***************************************************************************)
(* The command-line parser of sh.c.  A line is a sequence of tokens, as     *)
(* gettoken() and peek() cut it: white space is gone, and an argument or a  *)
(* file name is one token.  A parse function takes what is left of the line *)
(* and returns the command and what is left after it.  panic() in the       *)
(* parser ends the process that parses: the result is Failed.               *)
(***************************************************************************)
EXTENDS Integers, Sequences

CONSTANTS Words,      \* the tokens that are arguments ('a' of gettoken)
          MAXARGS     \* slots of execcmd.argv, the terminating 0 included

Symbols == {"<", ">", ">>", "|", "&", ";", "(", ")"}

ASSUME WordsAssumption   == Words \cap Symbols = {}
ASSUME MaxargsAssumption == MAXARGS \in Nat \ {0}

(***************************************************************************)
(* The constructors.                                                        *)
(***************************************************************************)
execcmd(argv)          == [type |-> "EXEC", argv |-> argv]
redircmd(c, fd)        == [type |-> "REDIR", cmd |-> c, fd |-> fd]
pipecmd(left, right)   == [type |-> "PIPE", left |-> left, right |-> right]
listcmd(left, right)   == [type |-> "LIST", left |-> left, right |-> right]
backcmd(c)             == [type |-> "BACK", cmd |-> c]

Failed == [cmd |-> [type |-> "none"], rest |-> << >>]
Ok(r)  == r.cmd.type # "none"

peek(s, toks) == s # << >> /\ Head(s) \in toks

(***************************************************************************)
(* parseredirs(): the descriptors to redirect, in the order of the line.    *)
(***************************************************************************)
RedirFd(tok) == IF tok = "<" THEN 0 ELSE 1

RECURSIVE parseredirs(_)
parseredirs(s) ==
    IF ~peek(s, {"<", ">", ">>"}) THEN [ok |-> TRUE, fds |-> << >>, rest |-> s]
    ELSE IF ~peek(Tail(s), Words) THEN [ok |-> FALSE, fds |-> << >>, rest |-> << >>]
    ELSE LET r == parseredirs(Tail(Tail(s)))
         IN  [r EXCEPT !.fds = <<RedirFd(Head(s))>> \o @]

RECURSIVE Redirected(_, _)          \* each redirection encloses those before it
Redirected(c, fds) ==
    IF fds = << >> THEN c ELSE Redirected(redircmd(c, Head(fds)), Tail(fds))

(***************************************************************************)
(* The loop of parseexec(), with the arguments and redirections it has.     *)
(***************************************************************************)
RECURSIVE ExecLoop(_, _, _)
ExecLoop(argv, fds, s) ==
    IF s = << >> \/ peek(s, {"|", ")", "&", ";"})
    THEN [cmd |-> Redirected(execcmd(argv), fds), rest |-> s]
    ELSE IF Head(s) \notin Words \/ Len(argv) + 1 >= MAXARGS THEN Failed
    ELSE LET r == parseredirs(Tail(s))
         IN  IF r.ok THEN ExecLoop(Append(argv, Head(s)), fds \o r.fds, r.rest) ELSE Failed

RECURSIVE parseline(_), Backs(_, _), parsepipe(_), parseblock(_), parseexec(_)

parseexec(s) ==
    IF peek(s, {"("}) THEN parseblock(s)
    ELSE LET r == parseredirs(s)
         IN  IF r.ok THEN ExecLoop(<< >>, r.fds, r.rest) ELSE Failed

parseblock(s) ==
    LET b == parseline(Tail(s))
        r == parseredirs(Tail(b.rest))
    IN  IF Ok(b) /\ peek(b.rest, {")"}) /\ r.ok
        THEN [cmd |-> Redirected(b.cmd, r.fds), rest |-> r.rest]
        ELSE Failed

parsepipe_left(s) ==                \* mutant: pipes associate to the left
    LET l == parseexec(s)
        m == parseexec(Tail(l.rest))
        r == parsepipe(Tail(m.rest))
    IN  IF ~Ok(l) \/ ~peek(l.rest, {"|"}) THEN l
        ELSE IF ~Ok(m) THEN Failed
        ELSE IF ~peek(m.rest, {"|"}) THEN [cmd |-> pipecmd(l.cmd, m.cmd), rest |-> m.rest]
        ELSE IF Ok(r) THEN [cmd |-> pipecmd(pipecmd(l.cmd, m.cmd), r.cmd), rest |-> r.rest]
        ELSE Failed

parsepipe(s) ==
    LET l == parseexec(s)
        r == parsepipe(Tail(l.rest))
    IN  IF ~Ok(l) \/ ~peek(l.rest, {"|"}) THEN l
        ELSE IF Ok(r) THEN [cmd |-> pipecmd(l.cmd, r.cmd), rest |-> r.rest]
        ELSE Failed

Backs(c, s) == IF peek(s, {"&"}) THEN Backs(backcmd(c), Tail(s)) ELSE [cmd |-> c, rest |-> s]

parseline(s) ==
    LET p == parsepipe(s)
        b == Backs(p.cmd, p.rest)
        r == parseline(Tail(b.rest))
    IN  IF ~Ok(p) THEN Failed
        ELSE IF ~peek(b.rest, {";"}) THEN b
        ELSE IF Ok(r) THEN [cmd |-> listcmd(b.cmd, r.cmd), rest |-> r.rest]
        ELSE Failed

parsecmd(s) == LET r == parseline(s) IN IF r.rest = << >> THEN r.cmd ELSE Failed.cmd
-----------------------------------------------------------------------------
(***************************************************************************)
(* The language, for comparison: the commands that the token sequence s, as *)
(* a whole, can stand for.                                                  *)
(*    line  ::=  pipe  |  line' ; line       line'  ::=  pipe  |  line' &   *)
(*    pipe  ::=  exec  |  exec | pipe                                       *)
(*    exec  ::=  words and redirections  |  ( line ) redirections           *)
(***************************************************************************)
Before(s, i) == SubSeq(s, 1, i - 1)
After(s, i)  == SubSeq(s, i + 1, Len(s))
Places(s, t) == {i \in 1..Len(s) : s[i] = t}

IsRedir(s, i)  == s[i] \in {"<", ">", ">>"}
IsFile(s, i)   == i > 1 /\ IsRedir(s, i - 1)
Simple(s)      == \A i \in 1..Len(s) :
                    IF IsRedir(s, i) THEN i < Len(s) /\ s[i + 1] \in Words ELSE s[i] \in Words
Selected(s, P(_)) == [n \in 1..Len(SelectSeq([i \in 1..Len(s) |-> i], P)) |->
                        s[SelectSeq([i \in 1..Len(s) |-> i], P)[n]]]
Args(s)        == LET arg(i) == ~IsRedir(s, i) /\ ~IsFile(s, i) IN Selected(s, arg)
Fds(s)         == LET op(i) == IsRedir(s, i)
                      toks  == Selected(s, op)
                  IN  [n \in 1..Len(toks) |-> RedirFd(toks[n])]

OnlyRedirs(s)  == Simple(s) /\ Args(s) = << >>

RECURSIVE Lines(_), Jobs(_), Pipes(_), Execs(_)

Execs(s) ==
    {Redirected(execcmd(Args(s)), Fds(s)) : x \in {y \in {s} : Simple(y) /\ Len(Args(y)) < MAXARGS}}
    \cup UNION {{Redirected(c, Fds(After(s, i))) : c \in Lines(SubSeq(s, 2, i - 1))} :
                    i \in {j \in Places(s, ")") : s[1] = "(" /\ OnlyRedirs(After(s, j))}}

Pipes(s) ==
    Execs(s) \cup UNION {{pipecmd(l, r) : l \in Execs(Before(s, i)), r \in Pipes(After(s, i))} :
                            i \in Places(s, "|")}

Jobs(s) ==
    Pipes(s) \cup (IF s # << >> /\ s[Len(s)] = "&"
                   THEN {backcmd(c) : c \in Jobs(Before(s, Len(s)))} ELSE {})

Lines(s) ==
    Jobs(s) \cup UNION {{listcmd(l, r) : l \in Jobs(Before(s, i)), r \in Lines(After(s, i))} :
                            i \in Places(s, ";")}
=============================================================================
