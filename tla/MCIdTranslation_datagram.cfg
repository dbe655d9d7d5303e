\* Two sender names, one type and one user message, sent after its names were
\* announced; it may take the datagram channel and overtake the description.
CONSTANTS
    s1 = s1
    s2 = s2
    t1 = t1
    SenderNames <- MCSenderNames
    TypeNames <- MCTypeNames
    MaxUserMsgs = 1
    CosChoices <- MCCosChoices
    Subscriptions <- MCSubscriptions
SPECIFICATION Spec
INVARIANT AnnouncedUserMessageNeverDropped
CHECK_DEADLOCK FALSE
