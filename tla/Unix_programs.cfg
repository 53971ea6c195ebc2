\* Every program, each kind of call failing once; the pipes hold less than the
\* files, so that writers wait.
SPECIFICATION Spec
CONSTANTS
  Processes = 5
  Pipes = 4
  PIPE_SIZE = 8
  MayFail = {"fork", "pipe", "open", "exec", "kill", "split"}
  MIN_RUN = 16
  BUFFER_SIZE = 6
  MaxProcs = 3
  Bytes = 9
  LsClients = 2
  Complaint = 10
  ReverseClients = 2
  Typed <- FourLines
  Texts <- ThreeTexts
CHECK_DEADLOCK FALSE
INVARIANTS
  DecodesToSource
  PromptClean
  ArrivesInFull
  AnswersInStep
PROPERTIES
  EachSettles
