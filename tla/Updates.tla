------------------------------- MODULE Updates ------------------------------
(***************************************************************************)
(* An installed agent that updates itself (crates/agent/src/update.rs) and  *)
(* is restarted, by the installer or by the service, while viewers come     *)
(* and go. What the agent keeps only in memory is lost with the process.    *)
(***************************************************************************)
EXTENDS Admission

CONSTANTS MaxRestarts   \* bound on the restarts of the agent

ASSUME RestartsAssumption == MaxRestarts \in Nat

VARIABLES updater,   \* where Updates::once is
          mark,      \* history: the newest number Host gave at the last look
          restarts

updateVars == <<updater, mark, restarts>>
allVars == <<vars, updateVars>>

UpdateInit == Init /\ updater = "waiting" /\ mark = 0 /\ restarts = 0

\* keep_updated runs beside an unattended agent's registration.
Updating == config.host = "Quiet" /\ config.gate # "OneTime"

\* The mutant does not look, or looks only once.
NoSession_Unchecked == TRUE

NoSession == host.session = None

\* Time for a check: not now, with a session on. Else the server is asked and,
\* if it offers a good release, the package fetched.
FirstLook ==
    /\ updater = "waiting" /\ Updating
    /\ NoSession
    /\ updater' = "fetching"
    /\ UNCHANGED <<vars, mark, restarts>>

\* Nothing newer, the server busy, or anything gone wrong on the way.
NotInstalled ==
    /\ updater \in {"fetching", "writing"}
    /\ updater' = "waiting"
    /\ UNCHANGED <<vars, mark, restarts>>

\* "Nothing has touched this machine until here": the second look, after the
\* fetch; then the package is written.
SecondLook ==
    /\ updater = "fetching"
    /\ updater' = IF NoSession THEN "writing" ELSE "waiting"
    /\ mark' = host.next
    /\ UNCHANGED <<vars, restarts>>

\* The package is written, and the installer started.
Install ==
    /\ updater = "writing"
    /\ updater' = "installing"
    /\ UNCHANGED <<vars, mark, restarts>>

\* The process ends, for the installer or because the service starts another
\* agent, and the next one begins with the same configuration. Viewers are gone.
Restart ==
    /\ Updating
    /\ restarts < MaxRestarts /\ restarts' = restarts + 1
    /\ updater' = "waiting" /\ mark' = 0
    /\ phase' = [c \in Conns |-> IF phase[c] = "away" THEN "away" ELSE "gone"]
    /\ slot' = None
    /\ gate' = [gate EXCEPT !.failures = 0, !.lockedUntil = 0]
    /\ tries' = <<0>>
    /\ seen' = {}
    /\ host' = [request |-> None, session |-> None, next |-> 0]
    /\ UNCHANGED <<config, now, exchange, granted, proved, taken, answer, painted,
                   consent>>

UpdateNext == \/ Next /\ UNCHANGED updateVars
              \/ FirstLook \/ NotInstalled \/ SecondLook \/ Install \/ Restart

UpdateSpec == UpdateInit /\ [][UpdateNext]_allVars

-----------------------------------------------------------------------------
(* Properties *)

\* A session that began before `once` looked for the second time, after the
\* fetch, is not ended by the installer it starts.
OldSessionsSurvive ==
    updater = "installing" /\ host.session # None => host.session.number > mark

\* The comment in `once`: "An update restarts the service: never during a
\* session."
NeverDuringSession == [][updater' = "installing" => host.session = None]_allVars

-----------------------------------------------------------------------------
(* An instance for TLC *)

\* Unattended agents: an access password, grants, or both of them.
UnderService == {[gate |-> "Access", grants |-> FALSE, both |-> FALSE, host |-> "Quiet"],
                 [gate |-> "Access", grants |-> TRUE, both |-> TRUE, host |-> "Quiet"],
                 [gate |-> "None", grants |-> TRUE, both |-> FALSE, host |-> "Quiet"]}

TwoGrants == {[nonce |-> 1, genuine |-> TRUE, issued |-> 0, expires |-> 0],
              [nonce |-> 2, genuine |-> TRUE, issued |-> 1, expires |-> 1]}

=============================================================================
