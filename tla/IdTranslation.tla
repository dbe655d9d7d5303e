---------------------------- MODULE IdTranslation ----------------------------
(***************************************************************************)
(* Sender- and type-id translation between two connections (spec 4.3 to  *)
(* 4.5).  Peer A registers sender and type names through                   *)
(* ConnectionIP::add_sender and add_type (src/src/connection_ip.rs),     *)
(* which only add them to A's dispatcher.  Announcing a registered name   *)
(* to the peer, with a description system message on the reliable         *)
(* channel (Endpoint::send_system_change, spec 4.5), is a separate step:  *)
(* nothing under src/ makes it, so it may come at any later time or       *)
(* never.  A sends user messages tagged with its own                      *)
(* sender and type ids and a ClassOfService (src/src/types.rs): the      *)
(* transport puts a message whose class has Reliable on the reliable     *)
(* channel and any other on the datagram channel.  Peer B has its own    *)
(* dispatcher tables, numbering names in its own order, and endpoint      *)
(* tables from A's ids to B's; it routes each user message to the        *)
(* handlers whose (type, sender) filter matches the translated ids         *)
(* (id_filter_matches, determine_id_range and is_system_message of        *)
(* src/src/types.rs).  The dispatcher and translation tables are not      *)
(* under src/: they follow spec 4.3 and 4.4.                              *)
(***************************************************************************)
EXTENDS Integers, Sequences, SequencesExt, Bitwise

CONSTANTS
    SenderNames,   \* sender names
    TypeNames,     \* user message type names
    MaxUserMsgs,   \* bound on the user messages A sends
    CosChoices,    \* the sets of ClassOfService values a connection may use
    Subscriptions  \* the [type, sender] names, or None, B's handlers ask for

None == -1                   \* Option::None for an id
SENDER_DESCRIPTION == -1     \* system message types (negative; the values of
TYPE_DESCRIPTION == -2       \* the crate's constants module, not under src/)

\* The two translated categories, each with its names and the system
\* message type that describes one of its ids (description_type()).
Categories == {"sender", "type"}
NamesOf(c) == IF c = "sender" THEN SenderNames ELSE TypeNames
description_type == [type |-> TYPE_DESCRIPTION, sender |-> SENDER_DESCRIPTION]

\* types.rs: the ClassOfService bitflags.
ClassOfService == [Reliable |-> 1, FixedLatency |-> 2, LowLatency |-> 4,
                   FixedThroughput |-> 8, HighThroughput |-> 16]

VARIABLES
    aNames,     \* A's dispatcher tables: in category c, A's id i - 1 names aNames[c][i]
    bNames,     \* B's dispatcher tables
    bRemote,    \* B's endpoint tables: A's id r of c maps to B's id bRemote[c][r + 1], or None
    tcp,        \* reliable, ordered channel A -> B
    udp,        \* datagram channel A -> B: ordered, may lose
    handlers,   \* B's handlers' filters [type, sender]: None or one of B's ids
    delivered,  \* [filter, meant]: a handler got a message A sent as meant
    dropped,    \* user messages B could not resolve: their sender and wasAnnounced
    sent,       \* user messages A has sent
    cos,        \* the ClassOfService values this connection's user messages carry
    announced   \* per category, how many of A's ids have had their description sent

tableVars == <<aNames, bNames, bRemote, handlers, delivered, dropped, sent, cos, announced>>
vars == <<tableVars, tcp, udp>>

\* The id a dispatcher table gives a name it holds.
IdOf(table, n) == SelectInSeq(table, LAMBDA x : x = n) - 1

\* add(name): the name's id if it has one, else appended (spec 4.3).
AddName(table, n) == IF n \in ToSet(table) THEN table ELSE Append(table, n)

\* The endpoint table with A's id r bound to B's id l, padded with None.
Bind(table, r, l) ==
    [i \in 1..IF r + 1 > Len(table) THEN r + 1 ELSE Len(table) |->
        IF i = r + 1 THEN l ELSE IF i <= Len(table) THEN table[i] ELSE None]

\* types.rs
is_system_message(type) == type < 0

\* Mutant: a filter matches only its own id; None matches nothing.
id_filter_matches_exact(filter, other) == filter = other

id_filter_matches(filter, other) == filter = None \/ filter = other

determine_id_range(id, len) ==
    IF id < 0 THEN "BelowZero" ELSE IF id < len THEN "InArray" ELSE "AboveArray"


\* The transport's channel choice: the Reliable bit of the class.
IsReliable(class) == (class & ClassOfService.Reliable) # 0

\* B's id in category c for A's id r, or None when B's endpoint table
\* cannot resolve it.
Translate(c, r) ==
    IF determine_id_range(r, Len(bRemote[c])) = "InArray" THEN bRemote[c][r + 1] ELSE None

\* Mutant: the type id is routed as A sent it, untranslated.
TranslatedIds_type(m) == [sender |-> Translate("sender", m.sender), type |-> m.type]

\* A user message's (sender, type) in B's numbering.
TranslatedIds(m) == [sender |-> Translate("sender", m.sender), type |-> Translate("type", m.type)]

-----------------------------------------------------------------------------
Init ==
    /\ aNames = [c \in Categories |-> <<>>] /\ bNames = aNames
    /\ bRemote = aNames
    /\ tcp = <<>> /\ udp = <<>>
    /\ handlers = {[type |-> None, sender |-> None]}     \* a wildcard handler
    /\ delivered = {} /\ dropped = {} /\ sent = 0
    /\ cos \in CosChoices
    /\ announced = [c \in Categories |-> 0]

\* Mutant: the sender name is appended even when A already has it.
add_sender_dup(n) ==
    /\ aNames' = [aNames EXCEPT !.sender = Append(@, n)]
    /\ UNCHANGED <<bNames, bRemote, tcp, udp, handlers, delivered, dropped, sent, cos, announced>>

\* ConnectionIP::add_sender and add_type on A: the dispatcher adds a new
\* name of the category.  A name A already has gets its id back and
\* changes nothing.
add_sender(n) ==
    /\ n \notin ToSet(aNames.sender)
    /\ aNames' = [aNames EXCEPT !.sender = Append(@, n)]
    /\ UNCHANGED <<bNames, bRemote, tcp, udp, handlers, delivered, dropped, sent, cos, announced>>

add_type(n) ==
    /\ n \notin ToSet(aNames.type)
    /\ aNames' = [aNames EXCEPT !.type = Append(@, n)]
    /\ UNCHANGED <<bNames, bRemote, tcp, udp, handlers, delivered, dropped, sent, cos, announced>>

\* Endpoint::send_system_change on A's endpoint: the description of the
\* next of A's ids of category c, in the order they were registered, goes
\* out at once on the reliable channel, bypassing the outbound buffer
\* (spec 4.5).
send_system_change(c) ==
    LET i == announced[c]
    IN  /\ i < Len(aNames[c])
        /\ tcp' = Append(tcp, [type |-> description_type[c], sender |-> i, name |-> aNames[c][i + 1]])
        /\ announced' = [announced EXCEPT ![c] = i + 1]
    /\ UNCHANGED <<aNames, bNames, bRemote, udp, handlers, delivered, dropped, sent, cos>>

\* A sends a user message from a registered sender with a registered type
\* (get_sender_id and get_type_id are Some), buffered with one of the
\* connection's classes of service.  meant is what A meant, and
\* wasAnnounced whether both its ids had been announced; neither is on
\* the wire, only the properties read them.
SendUser(n, t) ==
    /\ sent < MaxUserMsgs /\ n \in ToSet(aNames.sender) /\ t \in ToSet(aNames.type)
    /\ \E class \in cos :
          LET tid == IdOf(aNames.type, t)
              sid == IdOf(aNames.sender, n)
              m == [type |-> tid, sender |-> sid, meant |-> [sender |-> n, type |-> t],
                    wasAnnounced |-> tid < announced.type /\ sid < announced.sender]
          IN  IF IsReliable(class)
              THEN tcp' = Append(tcp, m) /\ UNCHANGED udp
              ELSE udp' = Append(udp, m) /\ UNCHANGED tcp
    /\ sent' = sent + 1
    /\ UNCHANGED <<aNames, bNames, bRemote, handlers, delivered, dropped, cos, announced>>

\* B registers a handler for a type name and a sender name, either of which
\* may be a wildcard: add_type and add_sender on B, then the filter is B's
\* ids of the names.
RegisterHandler(t, n) ==
    /\ bNames' = [c \in Categories |->
                    LET x == IF c = "type" THEN t ELSE n
                    IN  IF x = None THEN bNames[c] ELSE AddName(bNames[c], x)]
    /\ handlers' = handlers \cup
          {[type   |-> IF t = None THEN None ELSE IdOf(bNames'.type, t),
            sender |-> IF n = None THEN None ELSE IdOf(bNames'.sender, n)]}
    /\ UNCHANGED <<aNames, bRemote, tcp, udp, delivered, dropped, sent, cos, announced>>

\* B handles message m: a description binds A's id of its category to B's
\* id of the name (created if new); a user message is translated and
\* routed to every handler whose filters match, or dropped when its sender
\* is unresolved (spec 7).  An unresolved type still reaches handlers with
\* no type filter (spec 4.4).
Handle(m) ==
    IF is_system_message(m.type)
    THEN LET c  == CHOOSE c \in Categories : description_type[c] = m.type
             b2 == AddName(bNames[c], m.name)
         IN  /\ bNames' = [bNames EXCEPT ![c] = b2]
             /\ bRemote' = [bRemote EXCEPT ![c] = Bind(@, m.sender, IdOf(b2, m.name))]
             /\ UNCHANGED <<delivered, dropped>>
    ELSE LET l == TranslatedIds(m)
         IN  /\ IF l.sender = None
                THEN dropped' = dropped \cup {[sender |-> m.meant.sender, wasAnnounced |-> m.wasAnnounced]}
                     /\ UNCHANGED delivered
                ELSE /\ delivered' = delivered \cup
                          {[filter |-> h, meant |-> m.meant] :
                              h \in {h \in handlers : /\ id_filter_matches(h.type, l.type)
                                                      /\ id_filter_matches(h.sender, l.sender)}}
                     /\ UNCHANGED dropped
             /\ UNCHANGED <<bNames, bRemote>>

ReceiveTcp ==
    /\ tcp # <<>>
    /\ Handle(Head(tcp))
    /\ tcp' = Tail(tcp)
    /\ UNCHANGED <<aNames, udp, handlers, sent, cos, announced>>

ReceiveUdp ==
    /\ udp # <<>>
    /\ Handle(Head(udp))
    /\ udp' = Tail(udp)
    /\ UNCHANGED <<aNames, tcp, handlers, sent, cos, announced>>

\* The datagram channel loses a message.
LoseDatagram ==
    /\ udp # <<>>
    /\ udp' = Tail(udp)
    /\ UNCHANGED <<tableVars, tcp>>

\* What A and B's application may do.
UserNext ==
    \/ \E n \in SenderNames : add_sender(n)
    \/ \E t \in TypeNames : add_type(t)
    \/ \E c \in Categories : send_system_change(c)
    \/ \E n \in SenderNames, t \in TypeNames : SendUser(n, t)
    \/ \E s \in Subscriptions : RegisterHandler(s.type, s.sender)

Next == UserNext \/ ReceiveTcp \/ ReceiveUdp \/ LoseDatagram

Spec == Init /\ [][Next]_vars

-----------------------------------------------------------------------------
Filter == [type : {None} \cup Nat, sender : {None} \cup Nat]

TypeOK ==
    /\ \A c \in Categories : /\ aNames[c] \in Seq(NamesOf(c))
                             /\ bNames[c] \in Seq(NamesOf(c))
                             /\ bRemote[c] \in Seq({None} \cup Nat)
                             /\ announced[c] \in 0..Len(aNames[c])
    /\ handlers \subseteq Filter
    /\ delivered \subseteq [filter : Filter, meant : [sender : SenderNames, type : TypeNames]]
    /\ dropped \subseteq [sender : SenderNames, wasAnnounced : BOOLEAN] /\ sent \in 0..MaxUserMsgs

\* B's name for its id l of category c, or the wildcard.
BName(c, l) == IF l = None THEN None ELSE bNames[c][l + 1]

(***************************************************************************)
(* A handler registered on B for a type and a sender name only ever       *)
(* receives messages A sent with that type and from that sender: both ids *)
(* A put in the message, each through B's endpoint table of its category, *)
(* are B's ids of the same names, although the dispatchers number names   *)
(* in different orders and the descriptions may still be on their way.    *)
(***************************************************************************)
HandlersSeeOnlyTheirMessages ==
    \A d \in delivered :
        /\ d.filter.sender = None \/ BName("sender", d.filter.sender) = d.meant.sender
        /\ d.filter.type = None \/ BName("type", d.filter.type) = d.meant.type

(***************************************************************************)
(* A user message A sends after the descriptions of its sender and type   *)
(* were sent is never dropped as unresolved: the description reaches B    *)
(* before any message that uses the sender's id (spec 4.5), whichever     *)
(* channel the message's class of service puts it on.                      *)
(***************************************************************************)
AnnouncedUserMessageNeverDropped == \A d \in dropped : ~d.wasAnnounced

\* B's view of A's numbering in category c: the names its endpoint table
\* binds A's ids to.
KnownBindings(c) ==
    {[id |-> r - 1, name |-> bNames[c][bRemote[c][r] + 1]] :
        r \in {r \in DOMAIN bRemote[c] : bRemote[c][r] # None}}

AbstractSenders == INSTANCE PeerNames
    WITH Names <- SenderNames, peer <- aNames.sender, known <- KnownBindings("sender")
AbstractTypes == INSTANCE PeerNames
    WITH Names <- TypeNames, peer <- aNames.type, known <- KnownBindings("type")

(***************************************************************************)
(* Each category's tables implement PeerNames: A's table is a dense       *)
(* append-only numbering, and every binding B's endpoint table holds is   *)
(* one of A's.                                                            *)
(***************************************************************************)
ImplementsPeerNames == AbstractSenders!Spec /\ AbstractTypes!Spec
=============================================================================
