-------------------------------- MODULE MCShell --------------------------------
(***************************************************************************)
(* The lines that are entered: every kind of command, pipelines inside      *)
(* pipelines, lists and background jobs, a reader that does not read, a     *)
(* line that does not parse, and one that needs more processes than there   *)
(* are.                                                                     *)
(***************************************************************************)
EXTENDS Shell

MCScript ==
    {<< >>, <<"ls">>, <<"cd", "ls">>, <<"(", "ls">>,
     <<"ls", "|", "cat">>, <<"ls", "|", "ls">>, <<"ls", "|", "cat", "|", "cat">>,
     <<"cat", "<", "cd", "|", "cat">>, <<"cat", "<", "cd", "|", "ls", "<", "cd">>,
     <<"ls", "|", "cat", "&">>, <<"cat", "&", ";", "ls">>,
     <<"(", "ls", ";", "cat", ")", "|", "cat">>, <<"(", "ls", "&", ")", "|", "cat">>,
     <<"ls", "|", "(", "cat", "|", "ls", "&", ")">>,
     <<"(", "ls", "|", "cat", ")", "|", "(", "ls", "|", "cat", ")">>}

MCMeanwhile == {<<"ls">>}
=============================================================================
