SPECIFICATION MessageSpec
CONSTANTS
  Sessions = {c1}
  Users = {"ann", "bob"}
  Nonces = {"n1", "n2"}
  ServerNonces = {"s1", "s2"}
  ServerSalt = "salt"
  ServerIterations = 600000
  PeerFirsts <- MCPeerFirsts
  None = none
  MAX_ADDRESS_LEN = 4
  MAX_LOCAL_PART_LEN = 2
  MAX_DOMAIN_LEN = 2
  RawBytes <- MCRawBytes
  EncodedChars <- MCEncodedChars
  Words <- MCWords
  TextChars <- MCTextChars
  CodeLines <- MCCodeLines
  ReplyParts <- MCReplyParts
  PemLines <- MCPemLines
  Attrs <- MCAttrs
  ClientNonce = "n1"
  NameChars <- MCNameChars
  MaxAddress = 0
  MaxSasl = 0
  MaxRaw = 0
  MaxEncoded = 0
  U16_MAX = 50
  MaxWords = 0
  MaxText = 8
  MaxReply = 0
  MAX_BLOCKS = 2
  Certificates = {"A", "B"}
  MaxLines = 0
  MaxGood = 0
  MaxAttrs = 0
  MaxName = 0
INVARIANTS CodeEndsAtBoundary
CHECK_DEADLOCK FALSE
