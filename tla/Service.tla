------------------------------ MODULE Service ------------------------------
(***************************************************************************)
(* The Windows service of an installed agent (agent/src/service.rs): it    *)
(* keeps one agent process running in the session that has the console,    *)
(* and moves it when that changes.  Processes outlive the service that     *)
(* started them; each opens the stop event of its own service and session. *)
(***************************************************************************)
EXTENDS Naturals, FiniteSets

CONSTANTS
    Consoles,     \* sessions that can own the console
    AgentBound,   \* bound: agent processes ever started
    DeathBound,   \* bound: times the service itself fails
    BackoffFirst, \* RESTART_FIRST, seconds
    BackoffMax    \* RESTART_MAX, seconds

NoSession == "none"

ASSUME ServiceAssumption ==
    /\ AgentBound \in Nat /\ DeathBound \in Nat /\ NoSession \notin Consoles
    /\ BackoffFirst \in Nat /\ BackoffMax \in Nat /\ BackoffFirst <= BackoffMax

VARIABLES
    console,   \* WTSGetActiveConsoleSessionId
    service,   \* stopped, running, stopping, or dead and to be restarted
    stopAsked, \* Event::Stop is in the channel
    tending,   \* where the service's thread is
    seen,      \* the console session tend read
    mine,      \* supervisor.agent, or 0
    pause,     \* backoff.wait
    due,       \* seconds until backoff.next
    agents,    \* every agent process: [state, session, by, told]
    raised,    \* the stop events that are set: <<service, session>>
    deaths     \* services that failed so far, which numbers them

svcVars == <<console, service, stopAsked, tending, seen, mine, pause, due, agents, raised, deaths>>

Nobody == [state |-> "none", session |-> NoSession, by |-> 0, told |-> FALSE]
Processes == 1..AgentBound
EventOf(p) == <<agents[p].by, agents[p].session>>

(* Processes that have a handle of p's stop event open. *)
Alive(p) == agents[p].state \in {"run", "closing", "ending"}

---------------------------------------------------------------------------
(* The supervisor. *)

(* Backoff::failed: an agent that ran for HEALTHY_RUN starts over promptly. *)
BackoffFailed(healthy) ==
    LET now == IF healthy THEN BackoffFirst ELSE pause IN
    /\ due' = now
    /\ pause' = IF 2 * now < BackoffMax THEN 2 * now ELSE BackoffMax

(* A mutant: the agent in the other session is forgotten. *)
TendMoves_Forgotten ==
    /\ service = "running" /\ tending = "tend"
    /\ mine # 0 /\ agents[mine].session # console
    /\ seen' = console /\ tending' = "start" /\ mine' = 0
    /\ UNCHANGED <<raised, agents, console, service, stopAsked, pause, due, deaths>>

(* tend: an agent left in another session is told to stop.                 *)
TendMoves ==
    /\ service = "running" /\ tending = "tend"
    /\ mine # 0 /\ agents[mine].session # console
    /\ seen' = console /\ tending' = "waits"
    /\ raised' = raised \cup {EventOf(mine)}
    /\ agents' = [agents EXCEPT ![mine].told = TRUE]
    /\ UNCHANGED <<console, service, stopAsked, mine, pause, due, deaths>>

(* A mutant: the exit is noticed and its handles are mine. *)
TendExited_NotReleased ==
    /\ service = "running" /\ tending = "tend"
    /\ mine # 0 /\ agents[mine].session = console /\ agents[mine].state = "gone"
    /\ tending' = "sleep"
    /\ \E healthy \in BOOLEAN : BackoffFailed(healthy)
    /\ UNCHANGED <<seen, mine, raised, console, service, stopAsked, agents, deaths>>

(* One that exited is noticed, and its handles closed (release).           *)
TendExited ==
    /\ service = "running" /\ tending = "tend"
    /\ mine # 0 /\ agents[mine].session = console /\ agents[mine].state = "gone"
    /\ seen' = console /\ tending' = "start" /\ mine' = 0
    /\ \E healthy \in BOOLEAN : BackoffFailed(healthy)
    /\ raised' = IF \E p \in Processes \ {mine} : Alive(p) /\ EventOf(p) = EventOf(mine)
              THEN raised ELSE raised \ {EventOf(mine)}
    /\ UNCHANGED <<console, service, stopAsked, agents, deaths>>

TendKeeps ==
    /\ service = "running" /\ tending = "tend"
    /\ \/ mine # 0 /\ agents[mine].session = console /\ agents[mine].state # "gone"
       \/ mine = 0
    /\ seen' = IF mine = 0 THEN console ELSE NoSession
    /\ tending' = IF mine = 0 THEN "start" ELSE "sleep"
    /\ UNCHANGED <<console, service, stopAsked, mine, pause, due, agents, raised, deaths>>

(* A mutant: the agent that does not stop in time is left to itself. *)
StopAgent_LeftAlone ==
    /\ tending = "waits"
    /\ mine' = 0
    /\ tending' = IF service = "stopping" THEN "stopped" ELSE "start"
    /\ UNCHANGED <<agents, raised, console, service, stopAsked, seen, pause, due, deaths>>

(* stop_agent, after SetEvent: the process ends in time, or is ended;      *)
(* nothing waits for an ended process to be gone.                          *)
StopAgent ==
    /\ tending = "waits"
    /\ LET stopped == [agents EXCEPT ![mine].state = IF @ = "gone" THEN @ ELSE "ending"] IN
       /\ agents' = stopped
       /\ raised' = IF \E p \in Processes : stopped[p].state \in {"run", "closing", "ending"}
                                         /\ EventOf(p) = EventOf(mine)
                 THEN raised ELSE raised \ {EventOf(mine)}
    /\ mine' = 0
    /\ tending' = IF service = "stopping" THEN "stopped" ELSE "start"
    /\ UNCHANGED <<console, service, stopAsked, seen, pause, due, deaths>>

NotDue ==
    /\ service = "running" /\ tending = "start" /\ (seen = NoSession \/ due > 0)
    /\ tending' = "sleep" /\ seen' = NoSession
    /\ UNCHANGED <<console, service, stopAsked, mine, pause, due, agents, raised, deaths>>

Fresh == CHOOSE p \in Processes : agents[p].state = "none"
               /\ \A q \in 1..(p - 1) : agents[q].state # "none"

(* A mutant: the event is taken as it is found. *)
StartAgent_NoReset ==
    /\ service = "running" /\ tending = "start" /\ seen # NoSession /\ due = 0
    /\ \E p \in Processes : agents[p].state = "none"
    /\ LET p == Fresh IN
       /\ mine' = p
       /\ agents' = [agents EXCEPT ![p] = [state |-> "run", session |-> seen, by |-> deaths,
                                          told |-> FALSE]]
    /\ tending' = "sleep" /\ seen' = NoSession
    /\ UNCHANGED <<raised, console, service, stopAsked, pause, due, deaths>>

(* start_agent, in the session tend read before it stopped another.  The   *)
(* event's name comes back with the session, and is reset.                 *)
StartAgent ==
    /\ service = "running" /\ tending = "start" /\ seen # NoSession /\ due = 0
    /\ \E p \in Processes : agents[p].state = "none"
    /\ LET p == Fresh IN
       /\ mine' = p
       /\ agents' = [agents EXCEPT ![p] = [state |-> "run", session |-> seen, by |-> deaths,
                                          told |-> FALSE]]
    /\ raised' = raised \ {<<deaths, seen>>}
    /\ tending' = "sleep" /\ seen' = NoSession
    /\ UNCHANGED <<console, service, stopAsked, pause, due, deaths>>

StartFailed ==
    /\ service = "running" /\ tending = "start" /\ seen # NoSession /\ due = 0
    /\ BackoffFailed(FALSE)
    /\ tending' = "sleep" /\ seen' = NoSession
    /\ UNCHANGED <<console, service, stopAsked, mine, agents, raised, deaths>>

(* A mutant: every event only wakes the loop. *)
Woken_StopLost ==
    /\ service = "running" /\ tending = "sleep"
    /\ tending' = "tend" /\ stopAsked' = FALSE
    /\ due' = IF due > 0 THEN due - 1 ELSE 0
    /\ UNCHANGED <<console, service, seen, mine, pause, agents, raised, deaths>>

(* serve's loop: an event, or a second gone by. *)
Woken ==
    /\ service = "running" /\ tending = "sleep" /\ ~stopAsked
    /\ tending' = "tend"
    /\ due' = IF due > 0 THEN due - 1 ELSE 0
    /\ UNCHANGED <<console, service, stopAsked, seen, mine, pause, agents, raised, deaths>>

ServiceStops ==
    /\ service = "running" /\ tending = "sleep" /\ stopAsked
    /\ service' = "stopping" /\ stopAsked' = FALSE
    /\ IF mine = 0
       THEN tending' = "stopped" /\ UNCHANGED <<raised, agents>>
       ELSE /\ tending' = "waits"
            /\ raised' = raised \cup {EventOf(mine)}
            /\ agents' = [agents EXCEPT ![mine].told = TRUE]
    /\ UNCHANGED <<console, seen, mine, pause, due, deaths>>

ServiceStopped ==
    /\ service = "stopping" /\ tending = "stopped"
    /\ service' = "stopped" /\ seen' = NoSession
    /\ UNCHANGED <<console, stopAsked, tending, mine, pause, due, agents, raised, deaths>>

---------------------------------------------------------------------------
(* The agent process (unattended::run, service::stop_requested). *)

(* It sees its event raised, closes its endpoint and waits for it to be idle. *)
Signalled(p) == EventOf(p) \in raised
AgentToldToStop(p) ==
    /\ agents[p].state = "run" /\ Signalled(p)
    /\ agents' = [agents EXCEPT ![p].state = "closing"]
    /\ UNCHANGED <<console, service, stopAsked, tending, seen, mine, pause, due, raised, deaths>>

(* It is done, or was ended. *)
AgentGone(p) ==
    /\ agents[p].state \in {"closing", "ending"}
    /\ agents' = [agents EXCEPT ![p].state = "gone"]
    /\ UNCHANGED <<console, service, stopAsked, tending, seen, mine, pause, due, raised, deaths>>

(* It panics, cannot read its configuration, or is ended by someone. *)
AgentExits(p) ==
    /\ agents[p].state = "run"
    /\ agents' = [agents EXCEPT ![p].state = "gone"]
    /\ UNCHANGED <<console, service, stopAsked, tending, seen, mine, pause, due, raised, deaths>>

---------------------------------------------------------------------------
(* Windows, and the administrator. *)

ConsoleChanges ==
    /\ \E s \in Consoles \cup {NoSession} : s # console /\ console' = s
    /\ UNCHANGED <<service, stopAsked, tending, seen, mine, pause, due, agents, raised, deaths>>

(* uninstall, restart and install ask the service to stop and wait for it  *)
(* (stop_and_wait); a restart then starts it, as Windows does when it      *)
(* comes up or when the service failed.                                    *)
StopRequested ==
    /\ service = "running" /\ ~stopAsked
    /\ stopAsked' = TRUE
    /\ UNCHANGED <<console, service, tending, seen, mine, pause, due, agents, raised, deaths>>

ServiceStarts ==
    /\ service \in {"stopped", "dead"}
    /\ service' = "running" /\ stopAsked' = FALSE /\ tending' = "tend" /\ seen' = NoSession
    /\ mine' = 0 /\ pause' = BackoffFirst /\ due' = 0
    /\ UNCHANGED <<console, agents, raised, deaths>>

(* The service itself fails: its handles are gone, its agent is not. *)
ServiceDies ==
    /\ service \in {"running", "stopping"} /\ deaths < DeathBound
    /\ service' = "dead" /\ deaths' = deaths + 1
    /\ mine' = 0 /\ seen' = NoSession /\ tending' = "tend" /\ stopAsked' = FALSE
    /\ raised' = {e \in raised : \E p \in Processes : Alive(p) /\ EventOf(p) = e}
    /\ UNCHANGED <<console, pause, due, agents>>

SvcInit ==
    /\ console \in Consoles \cup {NoSession} /\ service = "running" /\ stopAsked = FALSE
    /\ tending = "tend" /\ seen = NoSession /\ mine = 0 /\ pause = BackoffFirst /\ due = 0
    /\ agents = [p \in Processes |-> Nobody] /\ raised = {} /\ deaths = 0

Tend == TendMoves \/ TendExited \/ TendKeeps \/ NotDue \/ StartAgent \/ Woken
Winds == StopAgent \/ ServiceStops \/ ServiceStopped

SvcNext ==
    \/ Tend \/ StartFailed \/ Winds
    \/ \E p \in Processes : AgentToldToStop(p) \/ AgentGone(p) \/ AgentExits(p)
    \/ ConsoleChanges \/ StopRequested \/ ServiceStarts \/ ServiceDies

Spent == \A p \in Processes : agents[p].state # "none"

(* The service's thread and the system go on; starting a process works     *)
(* when it keeps being tried (and fails once the bound on them is met).    *)
SvcFairness ==
    /\ WF_svcVars(TendMoves \/ TendExited \/ TendKeeps \/ NotDue \/ Woken \/ Winds)
    /\ SF_svcVars(StartAgent) /\ WF_svcVars(Spent /\ StartFailed) /\ WF_svcVars(ServiceStarts)
    /\ \A p \in Processes : WF_svcVars(AgentToldToStop(p)) /\ WF_svcVars(AgentGone(p))

SvcSpec == SvcInit /\ [][SvcNext]_svcVars /\ SvcFairness

---------------------------------------------------------------------------
(* Every variable keeps its type. *)
SvcTypeOK ==
    /\ service \in {"running", "stopping", "stopped", "dead"}
    /\ tending \in {"tend", "waits", "start", "sleep", "stopped"} /\ mine \in 0..AgentBound
    /\ pause \in BackoffFirst..BackoffMax /\ due \in 0..BackoffMax
    /\ \A p \in Processes : agents[p].state \in {"none", "run", "closing", "ending", "gone"}

Working == {p \in Processes : agents[p].state = "run"}
Own == {p \in Working : agents[p].by = deaths}

(* One agent works at a time, whatever the console does, for as long as    *)
(* the service does not fail itself: the one before was told to stop and   *)
(* is gone or was ended.                                                   *)
OneAgent == Cardinality(Own) <= 1 /\ Cardinality(Working) <= 1 + deaths

(* Once the service says it has stopped, no agent it started works on.     *)
StoppedIsQuiet == service = "stopped" => Own = {}

(* An agent stops as asked only when it was asked: never by the event of   *)
(* an agent that was in its session before it.                             *)
StoppedOnlyAsked == \A p \in Processes : agents[p].state = "closing" => agents[p].told

(* One process, whatever fails: what the comment on Supervisor says.       *)
OneAgentAlways == Cardinality(Working) <= 1

(* The session that keeps the console is served: an agent runs in it again *)
(* and again, however the console moved before and however often it exits. *)
Served == \E p \in Working : agents[p].session = console
ServiceDue == console # NoSession /\ service = "running" /\ ~stopAsked
ConsoleServed == <>[]ServiceDue => []<>(Served \/ Spent)

(* A service that was asked to stop stops. *)
StopDue == service = "running" /\ stopAsked
StopDone == service \in {"stopped", "dead"}
StopsWhenAsked == StopDue ~> StopDone
====
