---------------------------- MODULE Registration ----------------------------
(***************************************************************************)
(* An agent staying registered with its server, and what hangs on it:      *)
(* stay_registered and serve_registration (transport/src/rendezvous.rs),   *)
(* look_up (agent/src/unattended.rs) and the events handled by serve       *)
(* (agent/src/portable.rs): what the host shows, and an endpoint for the   *)
(* relayed viewers of each server connection.                              *)
(***************************************************************************)
EXTENDS Naturals, Sequences, FiniteSets

CONSTANTS
    LookupFirst, LookupMax,       \* LOOKUP_RETRY_FIRST and _MAX, seconds
    ReconnectFirst, ReconnectMax, \* RECONNECT_FIRST and _MAX, seconds
    DialBound,                    \* bound: connections made to the server
    FaultBound,                   \* bound: times the server or the network fails
    ComingBound                   \* bound: viewers the server introduces

ASSUME RegistrationAssumption ==
    /\ {LookupFirst, LookupMax, ReconnectFirst, ReconnectMax} \subseteq Nat
    /\ ReconnectFirst <= LookupFirst /\ LookupFirst <= LookupMax
    /\ ReconnectFirst <= ReconnectMax
    /\ DialBound \in Nat /\ FaultBound \in Nat /\ ComingBound \in Nat

Dials == 1..DialBound

VARIABLES
    reachable,  \* whether the server answers
    alive,      \* whether the connection of the last dial still is one
    registering,\* where the agent is
    retry,      \* the wait of look_up's or stay_registered's loop
    shows,      \* host.server
    dials,      \* connections made so far; the last is the current one
    relays,     \* endpoints for relayed viewers: none, open, closed
    acceptors,  \* connections whose relay endpoint has an accept loop
    relayed,    \* viewers served through it
    coming,     \* Incoming messages not yet read
    punched,    \* sessions the agent sent packets for
    readied,    \* sessions it said Ready for
    viewers,    \* history: viewers introduced
    faults      \* history

regVars == <<reachable, alive, registering, retry, shows, dials, relays, acceptors, relayed, coming,
             punched, readied, viewers, faults>>
relaying == <<relays, acceptors, relayed>>
introduced == <<coming, punched, readied, viewers>>

Doubled(wait, max) == IF 2 * wait < max THEN 2 * wait ELSE max

---------------------------------------------------------------------------
(* look_up: until the server's name is found. *)

LookUp ==
    /\ registering = "lookup"
    /\ \/ /\ registering' = "connect" /\ retry' = ReconnectFirst /\ UNCHANGED shows
       \/ /\ ~reachable /\ registering' = "lookupWait" /\ shows' = "unreachable"
          /\ UNCHANGED retry
    /\ UNCHANGED <<reachable, alive, dials, relaying, introduced, faults>>

(* A mutant: it keeps waiting. *)
LookUpAgain_Never ==
    /\ registering = "lookupWait"
    /\ registering' = "lookupWait" /\ retry' = Doubled(retry, LookupMax)
    /\ UNCHANGED <<reachable, alive, shows, dials, relaying, introduced, faults>>

LookUpAgain ==
    /\ registering = "lookupWait"
    /\ registering' = "lookup" /\ retry' = Doubled(retry, LookupMax)
    /\ UNCHANGED <<reachable, alive, shows, dials, relaying, introduced, faults>>

---------------------------------------------------------------------------
(* stay_registered *)

(* register's connect_server, and the endpoint for relayed viewers. *)
Dial ==
    /\ registering = "connect" /\ reachable /\ dials < DialBound
    /\ registering' = "ask" /\ dials' = dials + 1 /\ alive' = TRUE
    /\ relays' = [relays EXCEPT ![dials + 1] = "open"]
    /\ UNCHANGED <<reachable, retry, shows, acceptors, relayed, introduced, faults>>

(* serve_registration: Registered, heard by the host and the accept loop.  *)
Registers ==
    /\ registering = "ask" /\ alive
    /\ registering' = "serve" /\ shows' = "online"
    /\ acceptors' = acceptors \cup {dials}
    /\ UNCHANGED <<reachable, alive, retry, dials, relays, relayed, introduced, faults>>

(* A mutant: the relay's endpoint is left open. *)
Ended_RelayOpen(wait) ==
    /\ registering' = "wait" /\ shows' = "unreachable"
    /\ retry' = wait
    /\ coming' = <<>>
    /\ UNCHANGED relays

(* The end of register and what the loop makes of it: the relay's endpoint *)
(* is closed and the host told.                                            *)
Ended(wait) ==
    /\ registering' = "wait" /\ shows' = "unreachable"
    /\ retry' = wait
    /\ relays' = [d \in Dials |-> IF d = dials /\ relays[d] = "open" THEN "closed" ELSE relays[d]]
    /\ coming' = <<>>

(* It cannot connect, is refused, or waits for an answer that never comes. *)
Unreached ==
    /\ registering \in {"connect", "ask"}
    /\ registering = "connect" => ~reachable
    /\ Ended(retry)
    /\ UNCHANGED <<reachable, alive, dials, acceptors, relayed, punched, readied, viewers, faults>>

(* The server ended the stream: Ok, and the wait starts over. *)
StreamEnds ==
    /\ registering = "serve" /\ faults < FaultBound /\ faults' = faults + 1
    /\ Ended(ReconnectFirst)
    /\ UNCHANGED <<reachable, alive, dials, acceptors, relayed, punched, readied, viewers>>

(* The connection was lost: recv_message fails, and the wait goes on from  *)
(* where it was.                                                           *)
ConnectionLost ==
    /\ registering = "serve" /\ ~alive
    /\ Ended(retry)
    /\ UNCHANGED <<reachable, alive, dials, acceptors, relayed, punched, readied, viewers, faults>>

(* A mutant: the wait grows without end. *)
Retry_Unbounded ==
    /\ registering = "wait"
    /\ registering' = "connect" /\ retry' = 2 * retry
    /\ UNCHANGED <<reachable, alive, shows, dials, relaying, introduced, faults>>

Retry ==
    /\ registering = "wait"
    /\ registering' = "connect" /\ retry' = Doubled(retry, ReconnectMax)
    /\ UNCHANGED <<reachable, alive, shows, dials, relaying, introduced, faults>>

---------------------------------------------------------------------------
(* Viewers. *)

(* The server introduces one. *)
Introduces ==
    /\ registering = "serve" /\ alive /\ viewers < ComingBound
    /\ viewers' = viewers + 1 /\ coming' = Append(coming, viewers + 1)
    /\ UNCHANGED <<reachable, alive, registering, retry, shows, dials, relaying, punched, readied,
                   faults>>

(* A mutant: the viewer is told to come first. *)
Incoming_ReadyFirst ==
    /\ registering = "serve" /\ coming # <<>>
    /\ IF Head(coming) \in readied
       THEN punched' = punched \cup {Head(coming)} /\ coming' = Tail(coming) /\ UNCHANGED readied
       ELSE readied' = readied \cup {Head(coming)} /\ UNCHANGED <<punched, coming>>
    /\ UNCHANGED <<reachable, alive, registering, retry, shows, dials, relaying, viewers, faults>>

(* Incoming: the packets that open the way, PUNCH_HEAD_START later Ready.  *)
Incoming ==
    /\ registering = "serve" /\ coming # <<>>
    /\ IF Head(coming) \in punched
       THEN readied' = readied \cup {Head(coming)} /\ coming' = Tail(coming) /\ UNCHANGED punched
       ELSE punched' = punched \cup {Head(coming)} /\ UNCHANGED <<readied, coming>>
    /\ UNCHANGED <<reachable, alive, registering, retry, shows, dials, relaying, viewers, faults>>

(* accept_viewers on the relay's endpoint: a viewer comes, its session     *)
(* ends, the endpoint is closed and the loop with it.                      *)
RelayedComes(d) ==
    /\ d \in acceptors /\ relays[d] = "open" /\ d \notin relayed
    /\ relayed' = relayed \cup {d}
    /\ UNCHANGED <<reachable, alive, registering, retry, shows, dials, relays, acceptors, introduced,
                   faults>>
RelayedGoes(d) ==
    /\ d \in relayed /\ relayed' = relayed \ {d}
    /\ UNCHANGED <<reachable, alive, registering, retry, shows, dials, relays, acceptors, introduced,
                   faults>>

(* A mutant: the accept loop does not end with its endpoint. *)
AcceptEnds_KeepsWaiting(d) ==
    /\ d \in acceptors /\ relays[d] = "none" /\ acceptors' = acceptors \ {d}
    /\ UNCHANGED <<reachable, alive, registering, retry, shows, dials, relays, relayed, introduced,
                   faults>>

AcceptEnds(d) ==
    /\ d \in acceptors /\ relays[d] = "closed" /\ acceptors' = acceptors \ {d}
    /\ UNCHANGED <<reachable, alive, registering, retry, shows, dials, relays, relayed, introduced,
                   faults>>

(* The server or the way to it fails, and with it the connection. *)
ServerGoes ==
    /\ reachable /\ faults < FaultBound /\ faults' = faults + 1
    /\ reachable' = FALSE /\ alive' = FALSE
    /\ UNCHANGED <<registering, retry, shows, dials, relaying, introduced>>
ServerComes ==
    /\ ~reachable /\ reachable' = TRUE
    /\ UNCHANGED <<alive, registering, retry, shows, dials, relaying, introduced, faults>>

RegInit ==
    /\ reachable \in BOOLEAN /\ alive = FALSE /\ registering = "lookup" /\ retry = LookupFirst
    /\ shows = "connecting" /\ dials = 0
    /\ relays = [d \in Dials |-> "none"] /\ acceptors = {} /\ relayed = {}
    /\ coming = <<>> /\ punched = {} /\ readied = {} /\ viewers = 0
    /\ faults = 0

RegStep ==
    \/ LookUp \/ LookUpAgain \/ Dial \/ Registers \/ ConnectionLost \/ Retry \/ Incoming

RegNext ==
    \/ RegStep \/ Unreached \/ StreamEnds
    \/ Introduces \/ ServerGoes \/ ServerComes
    \/ \E d \in Dials : RelayedComes(d) \/ RelayedGoes(d) \/ AcceptEnds(d)

(* Tasks go on, timers run out, and a server that keeps answering answers. *)
RegFairness ==
    /\ WF_regVars(RegStep) /\ SF_regVars(Registers) /\ WF_regVars(~alive /\ Unreached)
    /\ \A d \in Dials : WF_regVars(AcceptEnds(d))
                        /\ WF_regVars(relays[d] = "closed" /\ RelayedGoes(d))

RegSpec == RegInit /\ [][RegNext]_regVars /\ RegFairness

---------------------------------------------------------------------------
(* Every variable keeps its type; a wait never grows past its most. *)
RegTypeOK ==
    /\ registering \in {"lookup", "lookupWait", "connect", "ask", "serve", "wait"}
    /\ shows \in {"connecting", "online", "unreachable"} /\ dials \in 0..DialBound
    /\ retry \in ReconnectFirst..(IF LookupMax < ReconnectMax THEN ReconnectMax ELSE LookupMax)
    /\ acceptors \subseteq Dials  /\ relayed \subseteq Dials

(* Viewers come through one relay only, that of the server connection the  *)
(* agent is registered on, and the host shows online just then.            *)
OneWayIn ==
    /\ \A d \in Dials : relays[d] = "open" => d = dials /\ registering \in {"ask", "serve"}
    /\ shows = "online" <=> \E d \in acceptors : relays[d] = "open"

(* A viewer is told to come only once the packets that open its way have   *)
(* left, in every registration.                                            *)
PunchedFirst == readied \subseteq punched

(* A server that stays reachable sees the agent register in the end,       *)
(* however often and for how long it was not.                              *)
OnlineDone == shows = "online" \/ dials = DialBound
ComesOnline == <>[]reachable => []<>OnlineDone

(* Sessions and accept loops of a lost connection's relay end.             *)
LeftRelays == {d \in acceptors \cup relayed : relays[d] = "closed"}
OldRelayEnds == LeftRelays # {} ~> LeftRelays = {}

(* What stay_registered's comment says of a registration that was lost.    *)
Promptly ==
    [][registering = "serve" /\ registering' = "wait" => retry' = ReconnectFirst]_regVars
====
