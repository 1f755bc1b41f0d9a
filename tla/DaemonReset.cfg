\* A request with a body; its closing record comes in a segment of its own.
SPECIFICATION Spec
CONSTANTS
  c1 = c1
  c2 = c2
  NULL = NULL
  Clients <- One
  FDs <- OneFD
  HeaderLen = 2
  BodyLen = 1
  BuffSize = 20
  RespLen = 2
  SndBuf = 2
  Script <- OnePost
  MinFirst = 2
  Quitters <- None
INVARIANTS
  NeverReset
\* Once every peer is done the loop waits in epoll for ever.
CHECK_DEADLOCK FALSE
