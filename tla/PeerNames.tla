------------------------------ MODULE PeerNames ------------------------------
(***************************************************************************)
(* What the sender-id translation promises (spec 4.3, 4.5), abstractly:   *)
(* the peer registers names, each getting the next id of a dense,         *)
(* append-only numbering, and this side learns bindings (peer id, name)   *)
(* that are always the peer's own.                                        *)
(***************************************************************************)
EXTENDS Naturals, Sequences, SequencesExt

CONSTANT Names

VARIABLES
    peer,   \* the peer's names; id i - 1 names peer[i]
    known   \* the bindings [id, name] this side has learned

Init == peer = <<>> /\ known = {}

\* The peer registers a name it has not registered before.
Register(n) == n \notin ToSet(peer) /\ peer' = Append(peer, n) /\ UNCHANGED known

\* This side learns one of the peer's bindings.
Learn == \E i \in DOMAIN peer :
            known' = known \cup {[id |-> i - 1, name |-> peer[i]]} /\ UNCHANGED peer

Next == (\E n \in Names : Register(n)) \/ Learn

Spec == Init /\ [][Next]_<<peer, known>>
=============================================================================
