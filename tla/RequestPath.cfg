\* Every beginning of requests with scaled-down headers, and the contents of
\* complete ones with real bytes.
SPECIFICATION Spec
CONSTANTS
  HeaderLen = 3
  BodyLen = 1
  Base = 256
  Half = 128
  QueryString <- Query
  Prefix <- Padding
  Ids = {1, 2}
  Lens = {1, 2}
  Pads = {0, 1}
  MaxParams = 2
  MaxStdin = 1
  MaxPairs = 2
  Bytes = {37, 48, 50, 53, 65, 71, 102}
  MaxLen = 4
  SignBytes = {37, 50, 53}
  MaxSigns = 6
INVARIANTS
  AcceptedExactlyWhenClosed
  NeverRefused
  NoMixture
  ParamsSoFar
  DecodedSoFar
\* The request is answered, or was refused.
CHECK_DEADLOCK FALSE
