----------------------------- MODULE Connection -----------------------------
(***************************************************************************)
(* A connection with its ping monitor (spec 4.7, 5): the two peers of    *)
(* IdTranslation, and on A the ping client of src/src/async_io/ping.rs,   *)
(* whose Stream::poll_next waits for the next tick of a one-second        *)
(* Interval and runs check_ping_cycle, printing the radio silence it     *)
(* returns.  check_ping_cycle, and B's answer to a ping, are not under   *)
(* src/: they follow spec 4.7.  Idle sends a ping on the reliable       *)
(* channel, queued behind A's other outbound traffic; Awaiting counts   *)
(* the ticks since the first unanswered ping and reports once they      *)
(* exceed Threshold; B answers a ping with a pong on the channel B -> A, *)
(* which A's receive task hands to the monitor.  B may hang for good:   *)
(* from then on it takes nothing off the channels.                      *)
(***************************************************************************)
EXTENDS IdTranslation

CONSTANT Threshold   \* ticks of silence after which a tick reports

PING == -3     \* the ping system message type
PONG == -4     \* the pong system message type

\* Beyond this many ticks every further tick reports alike: the tick count
\* of one unanswered ping stops growing here.
SilenceCap == Threshold + 1

VARIABLES
    pingState,  \* "Idle" or "Awaiting"
    elapsed,    \* ticks since the first unanswered ping, capped at SilenceCap
    back,       \* channel B -> A: pongs
    bAlive,     \* B still runs its receive task
    reported    \* the last check_ping_cycle returned Some(radio_silence)

pingVars == <<pingState, elapsed, back, bAlive, reported>>
connVars == <<vars, pingVars>>

ConnInit ==
    /\ Init
    /\ pingState = "Idle" /\ elapsed = 0 /\ back = <<>>
    /\ bAlive = TRUE /\ reported = FALSE

\* Mutant: a ping goes out on every tick, answered or not.
check_ping_cycle_resend ==
    /\ tcp' = Append(tcp, [type |-> PING])
    /\ pingState' = "Awaiting"
    /\ elapsed' = IF pingState = "Idle" THEN 0 ELSE Min({elapsed + 1, SilenceCap})
    /\ reported' = (pingState = "Awaiting" /\ elapsed' > Threshold)

\* Mutant: the silence is measured from the last tick, not the first
\* unanswered ping.
check_ping_cycle_restamp ==
    \/ pingState = "Idle" /\ tcp' = Append(tcp, [type |-> PING])
       /\ pingState' = "Awaiting" /\ elapsed' = 0 /\ reported' = FALSE
    \/ pingState = "Awaiting" /\ elapsed' = 0
       /\ reported' = (elapsed' > Threshold) /\ UNCHANGED <<tcp, pingState>>

\* One tick: Idle sends a ping and starts counting; Awaiting counts the
\* tick and returns Some(radio silence) once the count exceeds Threshold.
check_ping_cycle ==
    \/ pingState = "Idle" /\ tcp' = Append(tcp, [type |-> PING])
       /\ pingState' = "Awaiting" /\ elapsed' = 0 /\ reported' = FALSE
    \/ pingState = "Awaiting" /\ elapsed' = Min({elapsed + 1, SilenceCap})
       /\ reported' = (elapsed' > Threshold) /\ UNCHANGED <<tcp, pingState>>

\* Client::poll_next: the Interval is ready, check_ping_cycle runs, and
\* its radio silence, if any, is printed.  The Interval never ends.  The
\* two error returns, the timer's error mapped by map_err and a failed
\* ping send passed on by `?`, are left out: the model's timer has no
\* runtime to shut down and its channels always accept a message.
poll_next ==
    /\ check_ping_cycle
    /\ UNCHANGED <<tableVars, udp, back, bAlive>>

\* B takes the next message off the reliable channel: a ping is answered
\* with a pong, anything else is handled as in IdTranslation.
BReceiveTcp ==
    /\ bAlive /\ tcp # <<>>
    /\ IF Head(tcp).type = PING
       THEN /\ back' = Append(back, [type |-> PONG])
            /\ tcp' = Tail(tcp)
            /\ UNCHANGED <<tableVars, udp>>
       ELSE ReceiveTcp /\ UNCHANGED back
    /\ UNCHANGED <<pingState, elapsed, bAlive, reported>>

BReceiveUdp == bAlive /\ ReceiveUdp /\ UNCHANGED pingVars

\* Mutant: the pong is taken but the outstanding ping is not cleared.
HandlePong_keep ==
    /\ back # <<>>
    /\ back' = Tail(back)
    /\ UNCHANGED <<pingState, elapsed>>

\* A receives a pong: the monitor goes back to Idle.
HandlePong ==
    /\ back # <<>>
    /\ back' = Tail(back)
    /\ pingState' = "Idle" /\ elapsed' = 0

APong ==
    /\ HandlePong
    /\ UNCHANGED <<vars, bAlive, reported>>

\* B stops: its task hangs or its host goes away, without closing A's side.
BHangs == bAlive /\ bAlive' = FALSE /\ UNCHANGED <<vars, pingState, elapsed, back, reported>>

ConnNext ==
    \/ (UserNext \/ LoseDatagram) /\ UNCHANGED pingVars
    \/ BReceiveTcp \/ BReceiveUdp \/ poll_next \/ APong \/ BHangs

ConnSpec ==
    /\ ConnInit /\ [][ConnNext]_connVars
    /\ WF_connVars(poll_next) /\ WF_connVars(BReceiveTcp) /\ WF_connVars(APong)
-----------------------------------------------------------------------------
\* Pings on the channel A -> B and pongs on the channel B -> A.
PingsInFlight == Len(SelectSeq(tcp, LAMBDA m : m.type = PING)) + Len(back)

(***************************************************************************)
(* The monitor's one slot matches the channels: while Awaiting exactly one *)
(* ping or its pong is in flight, while Idle none, whatever the ticks,    *)
(* B's receives and A's pong handling interleave (spec 4.7: a ping only  *)
(* from Idle).                                                             *)
(***************************************************************************)
OnePingInFlight == PingsInFlight = IF pingState = "Awaiting" THEN 1 ELSE 0

(***************************************************************************)
(* A peer that hangs is reported: once B stops, poll_next's               *)
(* check_ping_cycle eventually returns a radio silence on every tick.    *)
(***************************************************************************)
HungPeerReported == ~bAlive ~> []reported

(***************************************************************************)
(* While B runs, every ping is answered: the monitor returns to Idle      *)
(* infinitely often.                                                       *)
(***************************************************************************)
LivePeerCycles == []bAlive => []<>(pingState = "Idle")

\* A user message A meant as mm is on the reliable channel, sent after
\* both its ids were announced; a message meant as mm has reached one of
\* B's handlers.
Meant == [sender : SenderNames, type : TypeNames]
AnnouncedOnTcp(mm) ==
    \E i \in 1..Len(tcp) : tcp[i].type >= 0 /\ tcp[i].meant = mm /\ tcp[i].wasAnnounced
Reached(mm) == \E d \in delivered : d.meant = mm

(***************************************************************************)
(* A user message A puts on the reliable channel after the descriptions   *)
(* of its sender and type were sent reaches a handler of B unless B       *)
(* hangs: B's handling of the descriptions ahead of it binds both ids,    *)
(* the translated ids pass the endpoint's range checks, and the wildcard  *)
(* handler B starts with matches them.  Stated for an instance with one   *)
(* user message (MaxUserMsgs = 1), where the message on the channel and   *)
(* the message reached are the same one.                                  *)
(***************************************************************************)
AnnouncedUserMessageDelivered ==
    (\E mm \in Meant : AnnouncedOnTcp(mm)) ~> ((\E mm \in Meant : Reached(mm)) \/ ~bAlive)
=============================================================================
