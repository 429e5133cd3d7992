SPECIFICATION Spec
CONSTANTS
    Replies <- AllReplies
    MaxRcpts = 2
    MaxSends = 1
    MaxUnread = 2
    MaxUpgrades = 1
    MaxCancels = 1
CONSTRAINT OneAtATime
INVARIANTS TypeOK TransitionsAllowed ClosedIsAudited IdleIsReusable ChannelIntegrity
PROPERTIES BodyNeedsEveryRecipient NoPlaintextFallback ClosedIsFinal
