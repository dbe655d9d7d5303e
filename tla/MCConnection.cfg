\* Two sender and two type names, which A and B may register in opposite
\* orders; one user message, on a connection whose classes of service all
\* have Reliable or on one that may use the datagram channel; the ping
\* monitor reports after more than 2 ticks of silence (spec 8, scenario 6:
\* a diagnostic at 3 s).  The timer never stops, so the system never
\* deadlocks.
CONSTANTS
    s1 = s1
    s2 = s2
    t1 = t1
    t2 = t2
    SenderNames <- MCSenderNames
    TypeNames <- MCTypeNames
    MaxUserMsgs = 1
    CosChoices <- MCCosChoices
    Subscriptions <- MCSubscriptions
    Threshold = 1
SPECIFICATION ConnSpec
INVARIANT HandlersSeeOnlyTheirMessages OnePingInFlight
PROPERTY ImplementsPeerNames HungPeerReported LivePeerCycles AnnouncedUserMessageDelivered
