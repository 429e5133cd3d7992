SPECIFICATION SysSpec
CONSTANTS
    Replies <- NoReplies
    Offers <- BothOffers
    MaxRcpts = 2
    MaxSends = 2
    MaxUnread = 6
    MaxUpgrades = 1
    MaxCancels = 1
INVARIANTS InStep OkMeansQueued QueuedIsComplete
