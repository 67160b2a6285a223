SPECIFICATION Spec
SYMMETRY Symmetry
CONSTANTS
  k1 = k1
  k2 = k2
  k3 = k3
  k4 = k4
  Keys = {k1, k2, k3, k4}
  Values = {x, y}
  Nodes = {n1, n2, n3, n4}
  NULL = NULL
  Hash <- MCHash
  MinSize = 1
  Entries = {e1, e2, e3}
  head = head
  NIL = NIL
  Chars = {a, b}
  NUL = NUL
  FILLER = FILLER
  INT_SPACE = 2
  MaxText = 2
  MaxLiteral = 1
  MaxLen = 3
  WIDTH = 5
  MaxDigits = 3
  MaxBuf = 3
  MaxTimeout = 2
  MaxFailures = 1
  MaxSignals = 1
  MaxNow = 5
  Lines <- MCLines
  MaxLines = 2
  MaxConfigs = 2
  host_port <- MCHostPort
  atoi <- MCAtoi
  basename <- MCBasename
INVARIANTS ChainsSound PointersAgree OperationsOnSequences BufferSound OperationsOnText ParsesExactly BufferWritten ReturnsInTime ConnectSound ServicesOwnMemory
PROPERTIES ImplementsDictionary
