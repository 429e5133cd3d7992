SPECIFICATION Spec
CONSTANTS
    Replies <- AllReplies
    MaxRcpts = 1
    MaxSends = 0
    MaxUnread = 1
    MaxUpgrades = 1
    MaxCancels = 0
INVARIANT AbortedOnce
