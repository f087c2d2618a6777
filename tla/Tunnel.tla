------------------------------- MODULE Tunnel -------------------------------
(***************************************************************************)
(* Relayed sessions: an agent's one tunnel, which carries every relayed    *)
(* viewer's packets tagged with their session, and each viewer's own       *)
(* carrier - a QUIC connection, a WebTransport session or a WebSocket      *)
(* (server/src/rendezvous.rs: relay, register and Ceiling;                 *)
(* server/src/api.rs: tunnel and OverTcp; server/src/webtransport.rs:      *)
(* serve; transport/src/relay.rs: Tunnel and Inbox).                       *)
(*                                                                         *)
(* Two tasks of the server carry a session: the viewer's relay loop and    *)
(* the one that reads the agent's datagrams for all sessions.  A packet is *)
(* its session and its size.                                               *)
(***************************************************************************)
EXTENDS Naturals, Sequences

CONSTANTS
    Sessions,    \* relayed sessions of one agent
    Sizes,       \* sizes of packets
    Ceiling,     \* config::Relay::ceiling, in bytes; 0 lifts it
    QueueBound,  \* RELAY_QUEUE: packets waiting to go out to one browser
    InboxLimit,  \* relay.rs: INBOX_LIMIT
    PacketBound  \* bound: packets sent in a session, each way

VARIABLES
    relay,     \* Agent::relays: whether the session has its entry
    carried,   \* Ceiling::carried
    passed,    \* bytes the server let through (Stats::relayed)
    capped,    \* how often the ceiling was reported (Stats::capped)
    reading,   \* the agent's datagram whose relay was looked up, or NoPacket
    queue,     \* to each viewer: OverTcp's channel
    inbox,     \* at the agent: Inbox::packets
    sent,      \* packets the viewer, and the agent, have sent
    got        \* what each viewer received, by session it was sent for

tunnelVars == <<relay, carried, passed, capped, reading, queue, inbox, sent, got>>

NoPacket == [session |-> 0, size |-> 0]
Packet == [session : Sessions, size : Sizes]

ASSUME TunnelAssumption ==
    /\ Sizes \subseteq Nat /\ Ceiling \in Nat
    /\ QueueBound \in Nat /\ InboxLimit \in Nat /\ PacketBound \in Nat
    /\ NoPacket \notin Packet

(* A mutant: lets a packet through while there is any room left. *)
Allows_AnyRoom(s, size) == Ceiling = 0 \/ carried[s] < Ceiling

(* Ceiling::allows: counts first, whether or not it then lets through. *)
Allows(s, size) == Ceiling = 0 \/ carried[s] + size <= Ceiling
Counted(s, size) ==
    /\ carried' = [carried EXCEPT ![s] = @ + size]
    /\ passed' = [passed EXCEPT ![s] = IF Allows(s, size) THEN @ + size ELSE @]
    /\ capped' = [capped EXCEPT ![s] =
                    IF ~Allows(s, size) /\ carried[s] <= Ceiling THEN @ + 1 ELSE @]

---------------------------------------------------------------------------
(* Introduction::relay: the session's entry, then its loop. *)
Open(s) ==
    /\ relay[s] = "none"
    /\ relay' = [relay EXCEPT ![s] = "open"]
    /\ UNCHANGED <<carried, passed, capped, reading, queue, inbox, sent, got>>

(* The viewer's datagram, tagged and sent on; Inbox::push drops past its   *)
(* limit.  Past the ceiling the loop ends, and with it the tunnel.         *)
FromViewer(s) ==
    /\ relay[s] = "open" /\ sent[s].viewer < PacketBound
    /\ sent' = [sent EXCEPT ![s].viewer = @ + 1]
    /\ \E size \in Sizes :
          /\ Counted(s, size)
          /\ IF Allows(s, size)
             THEN /\ inbox' = IF Len(inbox) < InboxLimit
                              THEN Append(inbox, [session |-> s, size |-> size])
                              ELSE inbox
                  /\ UNCHANGED relay
             ELSE /\ relay' = [relay EXCEPT ![s] = "closed"]
                  /\ UNCHANGED inbox
    /\ UNCHANGED <<reading, queue, got>>

(* The viewer goes: read_datagram returns none and the entry is removed. *)
ViewerLeaves(s) ==
    /\ relay[s] = "open"
    /\ relay' = [relay EXCEPT ![s] = "closed"]
    /\ UNCHANGED <<carried, passed, capped, reading, queue, inbox, sent, got>>

(* The agent's endpoint reads its inbox (poll_recv). *)
AgentReads ==
    /\ inbox # <<>>
    /\ inbox' = Tail(inbox)
    /\ UNCHANGED <<relay, carried, passed, capped, reading, queue, sent, got>>

(* The agent's datagram: its session's relay is looked up under the lock,  *)
(* and let go of; one without a relay is dropped.                          *)
FromAgent(s) ==
    /\ reading = NoPacket /\ relay[s] # "none" /\ sent[s].agent < PacketBound
    /\ sent' = [sent EXCEPT ![s].agent = @ + 1]
    /\ \E size \in Sizes :
          reading' = IF relay[s] = "open" THEN [session |-> s, size |-> size] ELSE NoPacket
    /\ UNCHANGED <<relay, carried, passed, capped, queue, inbox, got>>

(* Counted against the same ceiling and given to the viewer's carrier,     *)
(* which drops what does not fit (try_send).                               *)
ToViewer ==
    LET s == reading.session IN
    /\ reading # NoPacket
    /\ Counted(s, reading.size)
    /\ queue' = IF Allows(s, reading.size) /\ Len(queue[s]) < QueueBound
                THEN [queue EXCEPT ![s] = Append(@, reading.session)]
                ELSE queue
    /\ reading' = NoPacket
    /\ UNCHANGED <<relay, inbox, sent, got>>

(* The writing task sends what waits; it is aborted with the tunnel. *)
ViewerGets(s) ==
    /\ relay[s] = "open" /\ queue[s] # <<>>
    /\ got' = [got EXCEPT ![s] = @ \cup {Head(queue[s])}]
    /\ queue' = [queue EXCEPT ![s] = Tail(@)]
    /\ UNCHANGED <<relay, carried, passed, capped, reading, inbox, sent>>

---------------------------------------------------------------------------
TunnelInit ==
    /\ relay = [s \in Sessions |-> "none"]
    /\ carried = [s \in Sessions |-> 0] /\ passed = [s \in Sessions |-> 0]
    /\ capped = [s \in Sessions |-> 0]
    /\ reading = NoPacket /\ inbox = <<>>
    /\ queue = [s \in Sessions |-> <<>>]
    /\ sent = [s \in Sessions |-> [viewer |-> 0, agent |-> 0]]
    /\ got = [s \in Sessions |-> {}]

TunnelNext ==
    \/ \E s \in Sessions : \/ Open(s) \/ FromViewer(s) \/ ViewerLeaves(s)
                           \/ FromAgent(s) \/ ViewerGets(s)
    \/ AgentReads \/ ToViewer

TunnelSpec == TunnelInit /\ [][TunnelNext]_tunnelVars

---------------------------------------------------------------------------
(* The queues are bounded and hold packets of the sessions. *)
TunnelTypeOK ==
    /\ reading \in Packet \cup {NoPacket}
    /\ Len(inbox) <= InboxLimit /\ \A i \in DOMAIN inbox : inbox[i] \in Packet
    /\ \A s \in Sessions : Len(queue[s]) <= QueueBound /\ passed[s] <= carried[s]

(* No session carries more than the ceiling, both directions together,     *)
(* whichever task counts first.                                            *)
CeilingHolds == Ceiling # 0 => \A s \in Sessions : passed[s] <= Ceiling

(* Once the ceiling is reached it stays reached - a smaller packet does    *)
(* not fit after a larger one did not - and is reported once.              *)
CeilingStays ==
    [][\A s \in Sessions : capped[s] > 0 => passed'[s] = passed[s] /\ capped'[s] = 1]_tunnelVars

(* A viewer is given the packets of its own session only, and no packets   *)
(* of any once its tunnel was closed.                                      *)
NoCrosstalk == \A s \in Sessions : got[s] \subseteq {s}
ClosedGetsNothing ==
    [][\A s \in Sessions : relay[s] = "closed" => got'[s] = got[s]]_tunnelVars
====
