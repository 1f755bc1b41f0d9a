\* A quitter and a peer that stays compete for one descriptor.
SPECIFICATION FairSpec
CONSTANTS
  c1 = c1
  c2 = c2
  NULL = NULL
  Clients <- Both
  FDs <- OneFD
  HeaderLen = 2
  BodyLen = 1
  BuffSize = 3
  RespLen = 2
  SndBuf = 1
  Script <- Gets
  MinFirst = 2
  Quitters <- One
INVARIANTS
  TypeOK
  RegistryAgrees
  NoDanglingWatcher
  NoStrandedOutput
  OutputAccounted
PROPERTIES
  ImplementsService
  Released
  Answered
\* Once every peer is done the loop waits in epoll for ever.
CHECK_DEADLOCK FALSE
