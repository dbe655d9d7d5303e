---------------------------- MODULE MCConnection ----------------------------
EXTENDS Connection

CONSTANTS s1, s2, t1, t2
MCSenderNames == {s1, s2}
MCTypeNames == {t1, t2}
\* User messages may be Reliable, on the reliable channel, or LowLatency
\* alone, on the datagram channel.
MCCosChoices == {{ClassOfService.Reliable, ClassOfService.LowLatency}}
\* B's application subscribes to one type from one sender, besides the
\* wildcard handler it starts with.
MCSubscriptions == {[type |-> t1, sender |-> s2]}
=============================================================================
