SPECIFICATION Spec
CONSTANTS
  MaxBuf = 3
  MaxBytes = 3
  MAX_BLOCKING_WRITE = 2
  HostLimit = 2
  MaxAddrs = 3
  Features = {"native-roots"}
  Bundled = {"web"}
  NativeStores = {{}, {"web"}}
  Host = "host.example"
  RootOptions <- SomeRoots
  NameOptions <- SomeNames
  Peers <- AnyPeers
INVARIANTS FirstThatAnswers
PROPERTIES Contract ReadReturns
CHECK_DEADLOCK FALSE
