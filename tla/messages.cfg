SPECIFICATION MessageSpec
CONSTANTS
  Sessions = {c1, c2}
  Users = {"ann", "bob"}
  Nonces = {"n1", "n2"}
  ServerNonces = {"s1", "s2"}
  ServerSalt = "salt"
  ServerIterations = 600000
  PeerFirsts <- MCPeerFirsts
  None = none
  MAX_ADDRESS_LEN = 4
  MAX_LOCAL_PART_LEN = 2
  MAX_DOMAIN_LEN = 2
  RawBytes <- MCRawBytes
  EncodedChars <- MCEncodedChars
  Words <- MCWords
  TextChars <- MCTextChars
  CodeLines <- MCCodeLines
  ReplyParts <- MCReplyParts
  PemLines <- MCPemLines
  Attrs <- MCAttrs
  ClientNonce = "n1"
  NameChars <- MCNameChars
  MaxAddress = 4
  MaxSasl = 4
  MaxRaw = 5
  MaxEncoded = 8
  U16_MAX = 50
  MaxWords = 7
  MaxText = 8
  MaxReply = 10
  MAX_BLOCKS = 2
  Certificates = {"A", "B"}
  MaxLines = 5
  MaxGood = 9
  MaxAttrs = 4
  MaxName = 4
INVARIANTS ServerHasProved NoFirstServesTwo HonestServerAccepted
           OneCommand CredentialsSurvive RoundTrip
           NoOfferIsLost CodeIsSpelledOut QueueIdIsReal
           AllOrNothing ErrorNamesBlock ParsedAsSpecified NameSurvives
CHECK_DEADLOCK FALSE
