SPECIFICATION FairSpec
CONSTANTS
    Replies <- NoReplies
    Offers <- BothOffers
    MaxRcpts = 1
    MaxSends = 1
    MaxUnread = 4
    MaxUpgrades = 1
    MaxCancels = 1
PROPERTY QuitCloses
