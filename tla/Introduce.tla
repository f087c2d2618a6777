----------------------------- MODULE Introduce -----------------------------
(***************************************************************************)
(* A viewer reaching a device the server introduced it to: every address   *)
(* at once and the relay beside them (transport/src/rendezvous.rs), and    *)
(* the agent taking what arrives (accept_viewers in agent/src/main.rs).    *)
(* The paths are the device's addresses and "relay"; what carries the      *)
(* relayed one is the connection the introduction was made on.             *)
(***************************************************************************)
EXTENDS Naturals, FiniteSets

CONSTANTS Addresses   \* where the server says the device may be reached

RelayPath == "relay"
Paths == Addresses \cup {RelayPath}

(* An address is none of the words this module has beside them. *)
ASSUME AddressAssumption ==
    Addresses \cap {"relay", "going", "failed", "nowhere", "nobody", "other"} = {}

VARIABLES
    route,       \* Route::Best or RelayOnly
    stage,       \* where introduce is
    attempt,     \* the viewer's side of each path
    reached,     \* the agent's side of each path
    direct,      \* race: going, failed, or the address that won
    ready,       \* prefer_direct: a relayed connection is kept ready
    relayFailed, \* prefer_direct: relay_failed
    graceOver,   \* DIRECT_GRACE has passed since
    chosen,      \* the path of the connection returned
    introducer,  \* the viewer's connection to the server: open or closed
    slot,        \* who has the agent's one slot: nobody, another viewer, a path
    told         \* what the agent told the viewer

introVars == <<route, stage, attempt, reached, direct, ready, relayFailed, graceOver, chosen,
               introducer, slot, told>>
ofAgent == <<reached, slot, told>>
choosing == <<direct, ready, relayFailed, graceOver, chosen>>

Nowhere == "nowhere"
Vacant == "nobody"
Other == "other"

(* A connection the viewer dropped or closed, told to the agent or not. *)
CloseAt(paths) == [p \in Paths |-> IF p \in paths /\ attempt[p] \in {"trying", "made"}
                                 THEN "closed" ELSE attempt[p]]

---------------------------------------------------------------------------
(* introduce *)

(* connect_server, the request and the answer: refused, lost, another      *)
(* device's key, or the peer.                                              *)
AskServer ==
    /\ stage = "ask"
    /\ \/ /\ stage' = "connecting"
          /\ attempt' = [p \in Paths |-> IF p = RelayPath \/ route = "best"
                                         THEN "trying" ELSE attempt[p]]
          /\ direct' = IF route = "best" /\ Addresses # {} THEN "going" ELSE "failed"
          /\ UNCHANGED introducer
       \/ /\ stage' = "failed" /\ introducer' = "closed"
          /\ UNCHANGED <<attempt, direct>>
    /\ UNCHANGED <<route, ready, relayFailed, graceOver, chosen, ofAgent>>

(* A handshake completes at the agent first; the viewer hears of it, or    *)
(* its PEER_CONNECT_TIMEOUT runs out.                                      *)
ReachesAgent(p) ==
    /\ attempt[p] = "trying" /\ reached[p] = "no"
    /\ p = RelayPath => introducer = "open"
    /\ reached' = [reached EXCEPT ![p] = "waiting"]
    /\ UNCHANGED <<route, stage, attempt, choosing, introducer, slot, told>>

(* race: the first made wins, and the others are dropped. *)
DirectMade(a) ==
    /\ stage = "connecting" /\ direct = "going"
    /\ attempt[a] = "trying" /\ reached[a] # "no"
    /\ direct' = a
    /\ attempt' = [CloseAt(Addresses) EXCEPT ![a] = "made"]
    /\ UNCHANGED <<route, stage, ready, relayFailed, graceOver, chosen, introducer, ofAgent>>

DirectTimedOut(a) ==
    /\ stage = "connecting" /\ direct = "going" /\ attempt[a] = "trying"
    /\ attempt' = [attempt EXCEPT ![a] = "lost"]
    /\ direct' = IF \E b \in Addresses \ {a} : attempt[b] = "trying" THEN "going" ELSE "failed"
    /\ UNCHANGED <<route, stage, ready, relayFailed, graceOver, chosen, introducer, ofAgent>>

(* prefer_direct's three branches and its last check, then what introduce  *)
(* does with the connection: a direct one closes the introducer.           *)
TakeDirect ==
    /\ stage = "connecting" /\ direct \in Addresses
    /\ stage' = "made" /\ chosen' = direct
    /\ attempt' = CloseAt({RelayPath}) /\ introducer' = "closed"
    /\ UNCHANGED <<route, direct, ready, relayFailed, graceOver, ofAgent>>

(* A mutant: the direct attempts go on when the relayed one is taken. *)
TakeRelayed_LosersKept ==
    /\ stage = "connecting" /\ ready /\ (direct = "failed" \/ graceOver)
    /\ stage' = "made" /\ chosen' = RelayPath
    /\ UNCHANGED <<attempt, route, direct, ready, relayFailed, graceOver, introducer, ofAgent>>

TakeRelayed ==
    /\ stage = "connecting" /\ ready /\ (direct = "failed" \/ graceOver)
    /\ stage' = "made" /\ chosen' = RelayPath
    /\ attempt' = CloseAt(Addresses)
    /\ UNCHANGED <<route, direct, ready, relayFailed, graceOver, introducer, ofAgent>>

RelayMade ==
    /\ stage = "connecting" /\ attempt[RelayPath] = "trying" /\ reached[RelayPath] # "no"
    /\ attempt' = [attempt EXCEPT ![RelayPath] = "made"]
    /\ ready' = TRUE
    /\ UNCHANGED <<route, stage, direct, relayFailed, graceOver, chosen, introducer, ofAgent>>

RelayTimedOut ==
    /\ stage = "connecting" /\ attempt[RelayPath] = "trying"
    /\ attempt' = [attempt EXCEPT ![RelayPath] = "lost"]
    /\ relayFailed' = TRUE
    /\ UNCHANGED <<route, stage, direct, ready, graceOver, chosen, introducer, ofAgent>>

GraceEnds ==
    /\ stage = "connecting" /\ ready /\ ~graceOver
    /\ graceOver' = TRUE
    /\ UNCHANGED <<route, stage, attempt, direct, ready, relayFailed, chosen, introducer, ofAgent>>

(* A mutant: no direct connection, no connection. *)
AllFailed_DirectOnly ==
    /\ stage = "connecting" /\ direct = "failed" /\ ~ready
    /\ stage' = "failed" /\ introducer' = "closed" /\ attempt' = CloseAt(Paths)
    /\ UNCHANGED <<route, choosing, ofAgent>>

AllFailed ==
    /\ stage = "connecting" /\ direct = "failed" /\ relayFailed
    /\ stage' = "failed" /\ introducer' = "closed"
    /\ UNCHANGED <<route, attempt, choosing, ofAgent>>

---------------------------------------------------------------------------
(* The viewer's session on the connection it was given. *)

(* It opens its control stream, or find_granted found no grant and drops   *)
(* the connection.                                                         *)
OpensControl ==
    /\ stage = "made"
    /\ \/ stage' = "session" /\ UNCHANGED attempt
       \/ stage' = "over" /\ attempt' = CloseAt({chosen})
    /\ UNCHANGED <<route, choosing, introducer, ofAgent>>

(* The session ends: by the viewer, the agent, or the connection's loss.   *)
SessionOver ==
    /\ stage = "session"
    /\ stage' = "over" /\ attempt' = CloseAt({chosen})
    /\ UNCHANGED <<route, choosing, introducer, ofAgent>>

(* A mutant: what carries a relayed session is closed with the others. *)
IntroducerClosed_AtOnce ==
    /\ stage \in {"made", "session", "over"} /\ chosen = RelayPath /\ introducer = "open"
    /\ introducer' = "closed"
    /\ UNCHANGED <<route, stage, attempt, choosing, ofAgent>>

(* What carried a relayed session is closed after it. *)
IntroducerClosed ==
    /\ stage = "over" /\ chosen = RelayPath /\ introducer = "open"
    /\ introducer' = "closed"
    /\ UNCHANGED <<route, stage, attempt, choosing, ofAgent>>

---------------------------------------------------------------------------
(* accept_viewers *)

(* A mutant: the slot is claimed when the handshake is done. *)
AcceptControl_AtHandshake(p) ==
    /\ reached[p] = "waiting"
    /\ \/ /\ slot = Vacant /\ slot' = p
          /\ reached' = [reached EXCEPT ![p] = "serving"] /\ UNCHANGED told
       \/ /\ slot # Vacant /\ UNCHANGED slot
          /\ reached' = [reached EXCEPT ![p] = "gone"]
          /\ told' = IF chosen = p THEN "busy" ELSE told
    /\ UNCHANGED <<route, stage, attempt, choosing, introducer>>

(* The control stream arrives: only now is the slot claimed. *)
AcceptControl(p) ==
    /\ reached[p] = "waiting" /\ stage \in {"session", "over"} /\ chosen = p
    /\ \/ /\ slot = Vacant /\ slot' = p
          /\ reached' = [reached EXCEPT ![p] = "serving"] /\ UNCHANGED told
       \/ /\ slot # Vacant /\ UNCHANGED slot
          /\ reached' = [reached EXCEPT ![p] = "gone"] /\ told' = "busy"
    /\ UNCHANGED <<route, stage, attempt, choosing, introducer>>

(* The viewer closed it, or FIRST_STREAM ran out. *)
NotUsed(p) ==
    /\ reached[p] = "waiting" /\ attempt[p] \in {"closed", "lost"}
    /\ reached' = [reached EXCEPT ![p] = "gone"]
    /\ UNCHANGED <<route, stage, attempt, choosing, introducer, slot, told>>

(* session::serve returns: the permit is dropped. *)
ServeEnds(p) ==
    /\ reached[p] = "serving" /\ attempt[p] = "closed"
    /\ reached' = [reached EXCEPT ![p] = "gone"] /\ slot' = Vacant
    /\ UNCHANGED <<route, stage, attempt, choosing, introducer, told>>

OtherViewer ==
    /\ \/ slot = Vacant /\ slot' = Other
       \/ slot = Other /\ slot' = Vacant
    /\ UNCHANGED <<route, stage, attempt, choosing, introducer, reached, told>>

IntroInit ==
    /\ route \in {"best", "relayOnly"} /\ stage = "ask"
    /\ attempt = [p \in Paths |-> "none"] /\ reached = [p \in Paths |-> "no"]
    /\ direct = "going" /\ ready = FALSE /\ relayFailed = FALSE /\ graceOver = FALSE
    /\ chosen = Nowhere /\ introducer = "open" /\ slot = Vacant /\ told = "nothing"

Progresses ==
    \/ AskServer \/ TakeDirect \/ TakeRelayed \/ RelayTimedOut \/ GraceEnds \/ AllFailed
    \/ \E a \in Addresses : DirectTimedOut(a)
Cleans ==
    \/ IntroducerClosed \/ \E p \in Paths : NotUsed(p) \/ ServeEnds(p)

IntroNext ==
    \/ Progresses \/ Cleans
    \/ RelayMade \/ OpensControl \/ SessionOver \/ OtherViewer
    \/ \E a \in Addresses : DirectMade(a)
    \/ \E p \in Paths : ReachesAgent(p) \/ AcceptControl(p)

(* Timers run out and tasks go on; nothing is assumed of the network.      *)
IntroFairness ==
    /\ WF_introVars(Progresses) /\ WF_introVars(IntroducerClosed)
    /\ \A p \in Paths : WF_introVars(NotUsed(p)) /\ WF_introVars(ServeEnds(p))

IntroSpec == IntroInit /\ [][IntroNext]_introVars /\ IntroFairness

---------------------------------------------------------------------------
(* Every variable keeps its type. *)
IntroTypeOK ==
    /\ stage \in {"ask", "connecting", "made", "session", "over", "failed"}
    /\ attempt \in [Paths -> {"none", "trying", "made", "closed", "lost"}]
    /\ reached \in [Paths -> {"no", "waiting", "serving", "gone"}]
    /\ chosen \in Paths \cup {Nowhere} /\ slot \in Paths \cup {Vacant, Other}

(* A viewer's own unused connections never take the slot: it hears that    *)
(* the agent is busy only while its slot is another viewer's.              *)
NoSelfBusy ==
    [][told' = "busy" /\ told # "busy" => slot = Other]_introVars

(* A relayed session keeps what carries it; a direct one leaves nothing    *)
(* open at the server.                                                     *)
CarrierThere ==
    /\ stage \in {"made", "session"} => (introducer = "open" <=> chosen = RelayPath)
    /\ stage = "failed" => introducer = "closed"

(* Introductions fail only once every way that was tried has run out of    *)
(* time by itself: none that might still answer, and none made, is given   *)
(* up.                                                                     *)
UsesWhatWorks == stage = "failed" => \A p \in Paths : attempt[p] \in {"none", "lost"}

(* Introductions end, whatever the network does, and then nothing of them  *)
(* stays: no connection but the one chosen lasts at either end, and the    *)
(* server's is closed once it carries nothing.                             *)
Settled ==
    /\ stage # "connecting"
    /\ \A p \in Paths \ {chosen} : /\ attempt[p] \in {"none", "closed", "lost"}
                                   /\ reached[p] \in {"no", "gone"}
    /\ stage \in {"over", "failed"} => introducer = "closed" /\ slot \notin Paths
Settles == stage = "connecting" ~> Settled
====
