--------------------------- MODULE MCIdTranslation ---------------------------
EXTENDS IdTranslation

CONSTANTS s1, s2, t1
MCSenderNames == {s1, s2}
MCTypeNames == {t1}
\* User messages may be LowLatency without Reliable: the datagram channel.
MCCosChoices == {{ClassOfService.Reliable, ClassOfService.LowLatency}}
MCSubscriptions == {[type |-> t1, sender |-> s2]}
=============================================================================
