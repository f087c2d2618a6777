----------------------------- MODULE Rendezvous -----------------------------
(***************************************************************************)
(* The server's registry (crates/server/src/rendezvous.rs): agents register *)
(* under the ID their key gives, viewers ask for an ID and wait for the     *)
(* agent found there, managed devices outrank strangers for their IDs.      *)
(*                                                                         *)
(* Every connection is a task. A step is what it does under one lock, or    *)
(* between two awaits. A connection registers or asks once, so it stands    *)
(* for the registration or session number the server gives it.              *)
(***************************************************************************)
EXTENDS FiniteSets

CONSTANTS Keys,      \* the agents' keys
          Ids,       \* device IDs, ten digits of a key: keys may share one
          IdOf,      \* Fingerprint::device_id
          Conns,     \* agents' connections
          KeyOf,     \* the certificate each comes with
          Tokens,    \* keys whose owners have an enrollment token
          Viewers,   \* viewers' connections
          IdWanted,  \* the ID each viewer asks for
          KeyGranted, \* the device its user has a grant for, or None
          None

ASSUME NoneAssumption == /\ None \notin Conns
                         /\ None \notin [conn : Conns, enrolled : BOOLEAN]
ASSUME IdsAssumption == IdOf \in [Keys -> Ids] /\ KeyOf \in [Conns -> Keys]
ASSUME TokensAssumption == Tokens \subseteq Keys
ASSUME ViewersAssumption == /\ IdWanted \in [Viewers -> Ids]
                            /\ KeyGranted \in [Viewers -> Keys \cup {None}]
                            /\ \A v \in Viewers : KeyGranted[v] # None =>
                                   IdOf[KeyGranted[v]] = IdWanted[v]

VARIABLES
    agents,     \* Registry.agents: the registration held by each ID
    phase,      \* how far each agent's task got
    alive,      \* agents' connections not known to be lost
    looked,     \* what is_enrolled said when each agent registered
    displaced,  \* the stranger each agent is about to close
    devices,    \* keys in the database's table of devices
    enrolling,  \* enrollments in the database, not yet in the registry
    step,       \* how far each viewer's task got
    found,      \* the registration each viewer was given a copy of
    incoming,   \* viewers announced to their agent, which has not answered
    latest,     \* history: the last connection to claim each ID
    managed,    \* history: keys that have been devices
    readied     \* history: viewers whose agent said it was ready

agentVars == <<agents, phase, alive, looked, displaced, latest>>
deviceVars == <<devices, enrolling, managed>>
viewerVars == <<step, found, incoming, readied>>
vars == <<agentVars, deviceVars, viewerVars>>

IdOfConn(c) == IdOf[KeyOf[c]]

Registration == [conn : Conns, enrolled : BOOLEAN]

Init == /\ agents = [i \in Ids |-> None] /\ latest = [i \in Ids |-> None]
        /\ phase = [c \in Conns |-> "away"] /\ alive = {}
        /\ looked = [c \in Conns |-> FALSE]
        /\ displaced = [c \in Conns |-> None]
        /\ devices = {} /\ enrolling = {} /\ managed = {}
        /\ step = [v \in Viewers |-> "away"]
        /\ found = [v \in Viewers |-> None] /\ incoming = {} /\ readied = {}

Move(c, from, to) == phase[c] = from /\ phase' = [phase EXCEPT ![c] = to]
Advance(v, from, to) == step[v] = from /\ step' = [step EXCEPT ![v] = to]

-----------------------------------------------------------------------------
(* register *)

\* An agent connects and asks to be registered.
Register(c) ==
    /\ Move(c, "away", "looking")
    /\ alive' = alive \cup {c}
    /\ UNCHANGED <<agents, looked, displaced, latest, deviceVars, viewerVars>>

\* A connection ends or is found dead, whatever its task is doing.
Lost(c) ==
    /\ c \in alive
    /\ alive' = alive \ {c}
    /\ UNCHANGED <<agents, phase, looked, displaced, latest, deviceVars, viewerVars>>

\* is_enrolled: a lookup that fails counts as no.
Look(c) ==
    /\ Move(c, "looking", "claiming")
    /\ \E says \in BOOLEAN : /\ says => KeyOf[c] \in devices
                             /\ looked' = [looked EXCEPT ![c] = says]
    /\ UNCHANGED <<agents, alive, displaced, latest, deviceVars, viewerVars>>

\* The mutant has the match arms for the same key and for a stranger swapped.
ClaimOf_Swapped(holder, c) ==
    IF holder = None THEN "Take"
    ELSE IF ~holder.enrolled /\ looked[c] THEN "Displace"
    ELSE IF KeyOf[holder.conn] = KeyOf[c] THEN "Take" ELSE "Refuse"

ClaimOf(holder, c) ==
    IF holder = None THEN "Take"
    ELSE IF KeyOf[holder.conn] = KeyOf[c] THEN "Take"
    ELSE IF ~holder.enrolled /\ looked[c] THEN "Displace" ELSE "Refuse"

\* Under one lock: the ID is looked up, claimed, and the entry put in.
Claim(c) ==
    LET holder == agents[IdOfConn(c)]
        claim == ClaimOf(holder, c) IN
    /\ claim # "Refuse"
    /\ Move(c, "claiming", "claimed")
    /\ displaced' = [displaced EXCEPT ![c] = IF claim = "Displace" THEN holder.conn
                                             ELSE None]
    /\ agents' = [agents EXCEPT ![IdOfConn(c)] =
                     [conn |-> c, enrolled |-> looked[c]]]
    /\ latest' = [latest EXCEPT ![IdOfConn(c)] = c]
    /\ UNCHANGED <<alive, looked, deviceVars, viewerVars>>

\* IdTaken: the agent is told, and cut off.
Refuse(c) ==
    /\ ClaimOf(agents[IdOfConn(c)], c) = "Refuse"
    /\ Move(c, "claiming", "refused")
    /\ alive' = alive \ {c}
    /\ UNCHANGED <<agents, looked, displaced, latest, deviceVars, viewerVars>>

\* The stranger's connection is closed, and the device's presence noted.
CloseStranger(c) ==
    /\ Move(c, "claimed", "telling")
    /\ alive' = alive \ {displaced[c]}
    /\ displaced' = [displaced EXCEPT ![c] = None]
    /\ UNCHANGED <<agents, looked, latest, deviceVars, viewerVars>>

\* The agent is told that it is registered.
Tell(c) ==
    /\ c \in alive
    /\ Move(c, "telling", "serving")
    /\ UNCHANGED <<agents, alive, looked, displaced, latest, deviceVars, viewerVars>>

\* It cannot be told: register() returns the error, and handle() does, before
\* it comes to remove().
TellFails(c) ==
    /\ c \notin alive
    /\ Move(c, "telling", "untold")
    /\ UNCHANGED <<agents, alive, looked, displaced, latest, deviceVars, viewerVars>>

\* serve_agent returns: the connection is lost, the stream ends, or something
\* unexpected came on it.
Leave(c) ==
    /\ Move(c, "serving", "removing")
    /\ UNCHANGED <<agents, alive, looked, displaced, latest, deviceVars, viewerVars>>

\* The mutant removes whatever is registered under its ID.
Remove_Whatever(c) ==
    /\ Move(c, "removing", "gone")
    /\ agents' = [agents EXCEPT ![IdOfConn(c)] = None]
    /\ alive' = alive \ {c}
    /\ UNCHANGED <<looked, displaced, latest, deviceVars, viewerVars>>

\* The mutant keeps a managed device's registration.
Remove_KeepsManaged(c) ==
    /\ Move(c, "removing", "gone")
    /\ agents' = [agents EXCEPT ![IdOfConn(c)] =
                     IF @ # None /\ @.conn = c /\ ~@.enrolled THEN None ELSE @]
    /\ alive' = alive \ {c}
    /\ UNCHANGED <<looked, displaced, latest, deviceVars, viewerVars>>

\* remove(): its own registration only. The task ends, and its stream with it.
Remove(c) ==
    /\ Move(c, "removing", "gone")
    /\ agents' = [agents EXCEPT ![IdOfConn(c)] =
                     IF @ # None /\ @.conn = c THEN None ELSE @]
    /\ alive' = alive \ {c}
    /\ UNCHANGED <<looked, displaced, latest, deviceVars, viewerVars>>

-----------------------------------------------------------------------------
(* enroll, and devices deleted *)

\* A good token: the device is in the database.
Enroll(k) ==
    /\ k \in Tokens
    /\ devices' = devices \cup {k} /\ managed' = managed \cup {k}
    /\ enrolling' = enrolling \cup {k}
    /\ UNCHANGED <<agentVars, viewerVars>>

\* The mutant marks whoever has the device's ID.
Manage_AnyKey(k) ==
    /\ k \in enrolling
    /\ enrolling' = enrolling \ {k}
    /\ agents' = [agents EXCEPT ![IdOf[k]] =
                     IF @ # None THEN [@ EXCEPT !.enrolled = TRUE] ELSE @]
    /\ UNCHANGED <<phase, alive, looked, displaced, latest, devices, managed,
                   viewerVars>>

\* "Registered already, under this key: managed from now on."
Manage(k) ==
    /\ k \in enrolling
    /\ enrolling' = enrolling \ {k}
    /\ agents' = [agents EXCEPT ![IdOf[k]] =
                     IF @ # None /\ KeyOf[@.conn] = k
                     THEN [@ EXCEPT !.enrolled = TRUE] ELSE @]
    /\ UNCHANGED <<phase, alive, looked, displaced, latest, devices, managed,
                   viewerVars>>

\* An administrator deletes the device: the registry is not told.
DeleteDevice(k) ==
    /\ k \in devices
    /\ devices' = devices \ {k}
    /\ UNCHANGED <<agentVars, enrolling, managed, viewerVars>>

-----------------------------------------------------------------------------
(* introduce *)

\* Whom a viewer may be sent to: whoever has the ID or, with a token, only the
\* device its user has a grant for.
Reachable(v, token) ==
    LET agent == agents[IdWanted[v]] IN
    /\ agent # None
    /\ token => KeyOf[agent.conn] = KeyGranted[v]

\* The viewer gets a copy of the entry; with a token, that is recorded before
\* anything else happens.
Find(v, token) ==
    /\ Reachable(v, token)
    /\ Advance(v, "away", "found")
    /\ found' = [found EXCEPT ![v] = agents[IdWanted[v]].conn]
    /\ UNCHANGED <<agentVars, deviceVars, incoming, readied>>

\* Offline; or too many attempts, no account, or no grant.
NotFound(v) ==
    /\ Advance(v, "away", "refused")
    /\ UNCHANGED <<agentVars, deviceVars, found, incoming, readied>>

\* The session waits in the agent's table, and the agent is sent Incoming.
Announce(v) ==
    /\ Advance(v, "found", "waiting")
    /\ phase[found[v]] # "untold"
    /\ incoming' = incoming \cup {v}
    /\ UNCHANGED <<agentVars, deviceVars, found, readied>>

\* Nobody takes the agent's messages any more: its writer stopped at a
\* connection lost, or was never started.
AnnounceFails(v) ==
    /\ Advance(v, "found", "refused")
    /\ found[v] \notin alive /\ phase[found[v]] \notin {"claimed", "telling"}
    /\ UNCHANGED <<agentVars, deviceVars, found, incoming, readied>>

\* The mutant takes any answer for a yes.
Answer_AlwaysYes(v, ready) ==
    /\ v \in incoming
    /\ found[v] \in alive /\ phase[found[v]] = "serving"
    /\ incoming' = incoming \ {v}
    /\ step' = [step EXCEPT ![v] = IF @ = "waiting" THEN "ready" ELSE @]
    /\ readied' = IF ready THEN readied \cup {v} ELSE readied
    /\ UNCHANGED <<agentVars, deviceVars, found>>

\* serve_agent gets the agent's answer and passes it to the viewer, if it is
\* still waiting for this session.
Answer(v, ready) ==
    /\ v \in incoming
    /\ found[v] \in alive /\ phase[found[v]] = "serving"
    /\ incoming' = incoming \ {v}
    /\ step' = [step EXCEPT ![v] = IF @ # "waiting" THEN @
                                   ELSE IF ready THEN "ready" ELSE "refused"]
    /\ readied' = IF ready THEN readied \cup {v} ELSE readied
    /\ UNCHANGED <<agentVars, deviceVars, found>>

\* AGENT_ANSWER passes.
AnswerTimeout(v) ==
    /\ Advance(v, "waiting", "refused")
    /\ UNCHANGED <<agentVars, deviceVars, found, incoming, readied>>

\* The viewer is told where the agent is, and the relay runs.
Relay(v) ==
    /\ Advance(v, "ready", "relaying")
    /\ UNCHANGED <<agentVars, deviceVars, found, incoming, readied>>

\* The viewer closes its connection, before it is told or while relayed; or
\* the session reaches its ceiling.
RelayEnds(v) ==
    /\ \/ Advance(v, "ready", "gone")
       \/ Advance(v, "relaying", "gone")
    /\ UNCHANGED <<agentVars, deviceVars, found, incoming, readied>>

-----------------------------------------------------------------------------
RegisterStep(c) == Look(c) \/ Claim(c) \/ Refuse(c) \/ CloseStranger(c)
                   \/ Tell(c) \/ TellFails(c) \/ Remove(c)

Agent(c) == Register(c) \/ Lost(c) \/ RegisterStep(c) \/ Leave(c)

Device(k) == Enroll(k) \/ Manage(k) \/ DeleteDevice(k)

IntroduceStep(v) == Announce(v) \/ AnnounceFails(v) \/ AnswerTimeout(v) \/ Relay(v)

Viewer(v) == \/ NotFound(v) \/ IntroduceStep(v) \/ RelayEnds(v)
             \/ \E token \in BOOLEAN : Find(v, token)
             \/ \E ready \in BOOLEAN : Answer(v, ready)

Next == \/ \E c \in Conns : Agent(c)
        \/ \E k \in Keys : Device(k)
        \/ \E v \in Viewers : Viewer(v)

Spec == Init /\ [][Next]_vars

\* A task that can go on does; serve_agent returns once its connection is lost;
\* timeouts end. Connections are lost, viewers come and devices are enrolled at
\* will.
FairSpec == /\ Spec
            /\ \A c \in Conns :
                   WF_vars(RegisterStep(c) \/ (c \notin alive /\ Leave(c)))
            /\ \A v \in Viewers : WF_vars(IntroduceStep(v))

-----------------------------------------------------------------------------
(* Properties *)

Phases == {"away", "looking", "claiming", "claimed", "telling", "serving",
           "removing", "refused", "untold", "gone"}
Steps == {"away", "found", "waiting", "ready", "relaying", "refused", "gone"}

\* Every field has its type, an entry is under its own key's ID, and only
\* another key's connection is about to be closed.
TypeOK ==
    /\ agents \in [Ids -> Registration \cup {None}]
    /\ \A i \in Ids : agents[i] # None => IdOfConn(agents[i].conn) = i
    /\ latest \in [Ids -> Conns \cup {None}]
    /\ phase \in [Conns -> Phases] /\ alive \subseteq Conns
    /\ looked \in [Conns -> BOOLEAN]
    /\ displaced \in [Conns -> Conns \cup {None}]
    /\ \A c \in Conns : displaced[c] # None => KeyOf[displaced[c]] # KeyOf[c]
    /\ devices \subseteq managed /\ managed \subseteq Keys
    /\ enrolling \subseteq managed
    /\ step \in [Viewers -> Steps] /\ found \in [Viewers -> Conns \cup {None}]
    /\ incoming \subseteq Viewers /\ readied \subseteq Viewers

\* Agent.registration: "so a stale connection going away does not remove the
\* one that replaced it". The connection that claimed an ID last has it for as
\* long as its task runs, whoever comes, leaves or is enrolled meanwhile.
LatestStaysRegistered ==
    \A i \in Ids : latest[i] # None /\ phase[latest[i]] \in {"claimed", "telling", "serving"}
                   => agents[i] # None /\ agents[i].conn = latest[i]

\* "An enrolled device also outranks a stranger for its ID": a device looked up
\* as enrolled is turned away only for another key that is or was managed.
ManagedOutranks ==
    \A c \in Conns : looked[c] /\ phase[c] = "refused" =>
        \E k \in managed \ {KeyOf[c]} : IdOf[k] = IdOfConn(c)

\* "Only once the agent has said it is ready: the relay is no open proxy."
\* Late answers, timeouts and reconnecting agents notwithstanding.
OnlyOnceReady == \A v \in Viewers : step[v] \in {"ready", "relaying"} => v \in readied

EntryOf(c) == agents[IdOfConn(c)] # None /\ agents[IdOfConn(c)].conn = c

\* handle: serve_agent, then remove. An agent that was registered and served is
\* not found any more once its task is over, even if it was managed, replaced
\* or replaced another meanwhile.
ServedAreRemoved == \A c \in Conns : phase[c] = "gone" => ~EntryOf(c)

\* docs/self-hosting.md: "A killed agent, or one whose network vanished, shows
\* as offline within 15 seconds", and the device list shows as online who has
\* an entry (Registry::online).
LostAreOffline ==
    \A c \in Conns : c \notin alive /\ EntryOf(c) ~> ~EntryOf(c)
---------------------------------------------------------------------------
\* For TLC: two keys that give the same ID; one agent comes back on a second
\* connection; a viewer comes, with or without an account's token.
OneId == [k \in Keys |-> "i1"]
KeyOfConn == [c \in Conns |-> IF c = "s1" THEN "stranger" ELSE "device"]
WantedId == [v \in Viewers |-> "i1"]
GrantedKey == [v \in Viewers |-> "device"]

=============================================================================
