\* Two connections at a time, one request with a body, hang-ups in every order.
SPECIFICATION Spec
CONSTANTS
  c1 = c1
  c2 = c2
  NULL = NULL
  Clients <- Both
  FDs <- TwoFDs
  HeaderLen = 2
  BodyLen = 1
  BuffSize = 3
  RespLen = 2
  SndBuf = 1
  Script <- PostAndGet
  MinFirst = 1
  Quitters <- Both
INVARIANTS
  LeaksOnlyByDoubleAnswer
\* Once every peer is done the loop waits in epoll for ever.
CHECK_DEADLOCK FALSE
