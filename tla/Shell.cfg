CONSTANTS
  Words = {"ls", "cat", "cd"}
  MAXARGS = 3
  Tokens = {"ls", "|", "&", ";", "<", "(", ")"}
  MaxTyped = 5
  Script <- MCScript
  Meanwhile <- MCMeanwhile
  NPROC = 6
  NPIPE = 3
  PIPESIZE = 1
  LSBYTES = 2
SPECIFICATION Spec
INVARIANTS ParsesGrammar PromptMeansDone OnlyItsEnds
PROPERTIES PromptReturns
