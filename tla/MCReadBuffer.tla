---------------------------- MODULE MCReadBuffer ----------------------------
EXTENDS ReadBuffer

\* The peer sends 0 to 6 distinct bytes: none, part of the cookie, the
\* cookie, or the cookie and some frame bytes.
MCInputs == {[i \in 1..k |-> i] : k \in 0..6}

\* The peer has sent six bytes.
MCFullInput == {<<1, 2, 3, 4, 5, 6>>}
=============================================================================
