--------------------------- MODULE PasswordProof ---------------------------
(***************************************************************************)
(* How a viewer and an agent prove a password to each other without        *)
(* sending it (core/src/access.rs, used by prove in agent/src/session.rs   *)
(* and viewer/src/direct.rs): one SPAKE2 message each way, then a proof    *)
(* each way, over a transcript tied to the connection underneath.          *)
(*                                                                         *)
(* Several exchanges run at once, on connections of their own.  What is    *)
(* sent on any of them may turn up late, twice, on another connection or   *)
(* back where it came from, as it does when two connections are spliced.   *)
(* The cryptography is symbolic: a SPAKE2 message says who made it from    *)
(* what material, and only whoever has that material arrives at its key.   *)
(***************************************************************************)
EXTENDS Integers, FiniteSets

CONSTANTS
    ViewerEnds, AgentEnds,  \* the ends exchanges run at
    Bindings,               \* what a connection exports; both its ends derive the same
    Typed,                  \* passwords as typed or read out, <<digits, spaced>>
    SecretKinds             \* what the agent says it asks for

(* An end is at one side, and no end is the name of nobody. *)
ASSUME EndsAssumption ==
    ViewerEnds \cap AgentEnds = {} /\ "none" \notin ViewerEnds \cup AgentEnds

VARIABLES
    ends,   \* each end: where it is, its binding, its material, what it sent and got
    pakes,  \* every SPAKE2 message sent
    proofs  \* every proof sent

pakeVars == <<ends, pakes, proofs>>

Ends2 == ViewerEnds \cup AgentEnds
NoPake == [side |-> "none", by |-> "none", material |-> <<>>]

Material_AsTyped(kind, typed) == <<kind, typed[1], typed[2]>>

(* Secret::material: a one-time password is read out in groups, so spaces
   do not count; an access password is stretched as typed. *)
Material(kind, typed) ==
    IF kind = "one time" THEN <<kind, typed[1]>> ELSE <<kind, typed[1], typed[2]>>

(* The key an end arrives at from its own message and the other's: the same
   at both ends exactly when both used the same material and messages. *)
KeyOf(mine, theirs) ==
    [viewer |-> IF mine.side = "viewer" THEN mine ELSE theirs,
     agent |-> IF mine.side = "viewer" THEN theirs ELSE mine,
     known |-> IF mine.material = theirs.material THEN "both" ELSE mine.by]

ProofOf_Unbound(whose, mine, theirs, binding) ==
    [whose |-> whose, key |-> KeyOf(mine, theirs), binding |-> "none"]

ProofOf_OneLabel(whose, mine, theirs, binding) ==
    [whose |-> "either", key |-> KeyOf(mine, theirs), binding |-> binding]

(* proof and transcript: whose it is, the key, the messages and the binding. *)
ProofOf(whose, mine, theirs, binding) ==
    [whose |-> whose, key |-> KeyOf(mine, theirs), binding |-> binding]

(* Viewer::start: an agent that asks for a stretch beyond reason is refused. *)
ViewerStarts(v) ==
    /\ ends[v].at = "new"
    /\ IF ends[v].kind = "unreasonable"
       THEN /\ ends' = [ends EXCEPT ![v].at = "refused"]
            /\ UNCHANGED <<pakes, proofs>>
       ELSE LET x == [side |-> "viewer", by |-> v, material |-> Material(ends[v].kind, ends[v].typed)]
            IN  /\ ends' = [ends EXCEPT ![v].at = "started", ![v].mine = x]
                /\ pakes' = pakes \cup {x}
                /\ UNCHANGED proofs

(* Agent::answer: a message that names the agent's own side is malformed. *)
AgentAnswers(a, x) ==
    /\ ends[a].at = "new"
    /\ IF x.side = "agent"
       THEN ends' = [ends EXCEPT ![a].at = "refused"] /\ UNCHANGED pakes
       ELSE LET y == [side |-> "agent", by |-> a, material |-> Material(ends[a].kind, ends[a].typed)]
            IN  /\ ends' = [ends EXCEPT ![a].at = "answered", ![a].mine = y, ![a].theirs = x]
                /\ pakes' = pakes \cup {y}
    /\ UNCHANGED proofs

(* Viewer::prove *)
ViewerProves(v, y) ==
    /\ ends[v].at = "started"
    /\ IF y.side = "viewer"
       THEN ends' = [ends EXCEPT ![v].at = "refused"] /\ UNCHANGED proofs
       ELSE /\ ends' = [ends EXCEPT ![v].at = "proved", ![v].theirs = y]
            /\ proofs' = proofs \cup {ProofOf("viewer", ends[v].mine, y, ends[v].binding)}
    /\ UNCHANGED pakes

(* Agent::check, and prove in session.rs: the agent's own proof is sent only
   to whoever proved first. *)
AgentChecks(a, p) ==
    /\ ends[a].at = "answered"
    /\ IF p = ProofOf("viewer", ends[a].mine, ends[a].theirs, ends[a].binding)
       THEN /\ ends' = [ends EXCEPT ![a].at = "admitted"]
            /\ proofs' = proofs \cup {ProofOf("agent", ends[a].mine, ends[a].theirs, ends[a].binding)}
       ELSE ends' = [ends EXCEPT ![a].at = "refused"] /\ UNCHANGED proofs
    /\ UNCHANGED pakes

(* Proven::check, and prove in direct.rs. *)
ViewerChecks(v, p) ==
    /\ ends[v].at = "proved"
    /\ ends' = [ends EXCEPT ![v].at =
            IF p = ProofOf("agent", ends[v].mine, ends[v].theirs, ends[v].binding)
            THEN "admitted" ELSE "refused"]
    /\ UNCHANGED <<pakes, proofs>>

End(kind, typed, binding) ==
    [at |-> "new", kind |-> kind, typed |-> typed, binding |-> binding,
     mine |-> NoPake, theirs |-> NoPake]

(* Two ends with one binding are the two ends of one connection. *)
PakeInit ==
    /\ ends \in [Ends2 -> {End(k, t, b) : k \in SecretKinds, t \in Typed, b \in Bindings}]
    /\ \A e, f \in ViewerEnds : ends[e].binding = ends[f].binding => e = f
    /\ \A e, f \in AgentEnds : ends[e].binding = ends[f].binding => e = f
    /\ \A a \in AgentEnds : ends[a].kind # "unreasonable"
    /\ pakes = {} /\ proofs = {}

PakeNext ==
    \/ \E v \in ViewerEnds :
        \/ ViewerStarts(v)
        \/ \E y \in pakes : ViewerProves(v, y)
        \/ \E p \in proofs : ViewerChecks(v, p)
    \/ \E a \in AgentEnds :
        \/ \E x \in pakes : AgentAnswers(a, x)
        \/ \E p \in proofs : AgentChecks(a, p)

PakeSpec == PakeInit /\ [][PakeNext]_pakeVars

PakeTypeOK ==
    /\ \A e \in Ends2 : ends[e].at \in {"new", "started", "answered", "proved", "admitted", "refused"}
    /\ \A x \in pakes : x.by \in Ends2

(* Two ends that answered each other: the same connection, the same material,
   and each has the other's message. *)
Met(v, a) ==
    /\ ends[v].binding = ends[a].binding
    /\ ends[v].mine.material = ends[a].mine.material
    /\ ends[v].theirs = ends[a].mine /\ ends[a].theirs = ends[v].mine

(* An agent lets in only the viewer at the other end of its own connection,
   and only with its own password, wherever messages turned up. *)
AdmittedMet ==
    \A a \in AgentEnds : ends[a].at = "admitted" => \E v \in ViewerEnds : Met(v, a)

(* A viewer goes on only with an agent at the other end of its connection
   that has the password and has let it in. *)
ViewerMet ==
    \A v \in ViewerEnds : ends[v].at = "admitted" =>
        \E a \in AgentEnds : Met(v, a) /\ ends[a].at = "admitted"

(* A one-time password is right however it was spaced when it was typed: if
   both ends of a connection have the same digits and each other's messages,
   the agent takes the proof the viewer sent. *)
RightPasswordWorks ==
    \A v \in ViewerEnds : \A a \in AgentEnds :
        (/\ ends[v].binding = ends[a].binding
         /\ ends[v].kind = "one time" /\ ends[a].kind = "one time"
         /\ ends[v].typed[1] = ends[a].typed[1]
         /\ ends[v].theirs.by = a /\ ends[a].theirs.by = v)
            => \E p \in proofs : p = ProofOf("viewer", ends[a].mine, ends[a].theirs, ends[a].binding)
=============================================================================
