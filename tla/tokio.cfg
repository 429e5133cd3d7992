SPECIFICATION Spec
CONSTANTS
  MaxBuf = 3
  MaxBytes = 3
  Features = {"native-roots"}
  Bundled = {"web"}
  NativeStores = {{}, {"own"}}
  Host = "host.example"
  RootOptions <- SomeRoots
  NameOptions <- SomeNames
  Peers <- AnyPeers
PROPERTIES Contract
CHECK_DEADLOCK FALSE
