SPECIFICATION CFairSpec
CONSTANTS
    Replies <- NoReplies
    Offers <- SomeOffers
    MaxRcpts = 2
    MaxSends = 1
    MaxUnread = 6
    MaxUpgrades = 1
    MaxCancels = 0
    Texts <- SomeTexts
    Certificates = {"A", "B"}
    BundledRoots = {"P"}
    Signers = {"A", "B", "P"}
INVARIANTS OnlyToTrusted AcceptedIsReported
PROPERTIES Delivers SendReturns
