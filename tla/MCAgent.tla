------------------------------ MODULE MCAgent -------------------------------
(***************************************************************************)
(* The agent's parts, for TLC: a session's video and its restarts, the     *)
(* keyboard and pointer, the rate, the registration at the server, the     *)
(* service that keeps an agent running, the installation and the log file. *)
(* `part` says which of them a behaviour is of; the others stay as they    *)
(* began, so the reachable states of the parts add up instead of           *)
(* multiplying. Since `part` never changes, a leads-to between             *)
(* disjunctions over the parts is one leads-to for each of them.           *)
(***************************************************************************)
EXTENDS Session, Keyboard, RateControl, Registration, Service, Installation

VARIABLE part

agentVars == <<part, sessVars, kbVars, rateVars, regVars, svcVars, instVars, logVars>>

TwoCeilings == {[kbps |-> 1200, fps |-> 30], [kbps |-> 500, fps |-> 10]}

AgentInit ==
    /\ part \in {"session", "keyboard", "rate", "registration", "service", "installation",
                 "log"}
    /\ SessInit /\ KbInit /\ RateInit /\ RegInit /\ SvcInit /\ InstInit /\ LogInit
    /\ part = "rate" \/ (/\ ceiling.kbps = 500 /\ capacity = 350 /\ demand = 100
                          /\ target = 350)
    /\ part = "registration" \/ reachable
    /\ part = "service" \/ console = NoSession

(* The parts that are not at work. *)
Others ==
    /\ IF part = "session" THEN TRUE ELSE UNCHANGED sessVars
    /\ IF part = "keyboard" THEN TRUE ELSE UNCHANGED kbVars
    /\ IF part = "rate" THEN TRUE ELSE UNCHANGED rateVars
    /\ IF part = "registration" THEN TRUE ELSE UNCHANGED regVars
    /\ IF part = "service" THEN TRUE ELSE UNCHANGED svcVars
    /\ IF part = "installation" THEN TRUE ELSE UNCHANGED instVars
    /\ IF part = "log" THEN TRUE ELSE UNCHANGED logVars
    /\ UNCHANGED part

AgentNext ==
    \/ part = "session" /\ SessNext /\ Others
    \/ part = "keyboard" /\ KbNext /\ Others
    \/ part = "rate" /\ RateNext /\ Others
    \/ part = "registration" /\ RegNext /\ Others
    \/ part = "service" /\ SvcNext /\ Others
    \/ part = "installation" /\ InstNext /\ Others
    \/ part = "log" /\ LogNext /\ Others

(* The fairness conditions of SessSpec, KbSpec, RateSpec, RegSpec, SvcSpec *)
(* and InstSpec, each for the part at work.                                *)
AgentFairness ==
    /\ \A n \in Streams :
          /\ WF_sessVars(part = "session" /\ ThreadStep(n) /\ UNCHANGED ofSession)
          /\ WF_sessVars(part = "session" /\ SenderEnds(n) /\ UNCHANGED ofSession)
    /\ WF_sessVars(part = "session" /\ (SessionStep \/ SenderDone))
    /\ WF_sessVars(part = "session" /\ RestartDue)
    /\ WF_sessVars(part = "session" /\ ReadEnd)
    /\ \A n \in Links :
          /\ WF_kbVars(part = "keyboard" /\ Inject(n))
          /\ WF_kbVars(part = "keyboard" /\ ReleaseAll(n))
          /\ \A who \in {"session", "streams"} :
                WF_kbVars(part = "keyboard" /\ HolderGoes(n, who))
    /\ WF_rateVars(part = "rate" /\ (FreeInterval \/ SteadyInterval))
    /\ WF_regVars(part = "registration" /\ RegStep)
    /\ WF_regVars(part = "registration" /\ ~alive /\ Unreached)
    /\ SF_regVars(part = "registration" /\ Registers)
    /\ \A d \in Dials :
          /\ WF_regVars(part = "registration" /\ AcceptEnds(d))
          /\ WF_regVars(part = "registration" /\ relays[d] = "closed" /\ RelayedGoes(d))
    /\ WF_svcVars(part = "service" /\ (TendMoves \/ TendExited \/ TendKeeps \/ NotDue \/ Woken
                                       \/ Winds))
    /\ WF_svcVars(part = "service" /\ Spent /\ StartFailed)
    /\ WF_svcVars(part = "service" /\ ServiceStarts)
    /\ SF_svcVars(part = "service" /\ StartAgent)
    /\ \A p \in Processes :
          /\ WF_svcVars(part = "service" /\ AgentToldToStop(p))
          /\ WF_svcVars(part = "service" /\ AgentGone(p))
    /\ WF_instVars(part = "installation" /\ AgentStep)

AgentSpec == AgentInit /\ [][AgentNext]_agentVars /\ AgentFairness

---------------------------------------------------------------------------
(* What a session holds to: one pipeline at a time, a restart replaced by  *)
(* what the viewer asks for; no key down that no one will let go of, none  *)
(* under typed text, the pointer where it was put; a rate under the        *)
(* ceiling and a backlog that stays bounded (agent/src/session.rs,         *)
(* input.rs, rate.rs; viewer/src/input.rs).                                *)
SessionSafe ==
    /\ SessTypeOK /\ OnePipeline /\ RestartReplaced
    /\ KbTypeOK /\ Owned /\ LetGo /\ PointerThere /\ TypedPlain
    /\ RateTypeOK /\ UnderCeiling /\ BacklogBounded

(* What keeps an agent on a machine holds to: one agent, in the session    *)
(* that has the console; one way in, open only once it is punched; a       *)
(* configuration that lets someone in; a log that loses nothing and does   *)
(* not grow (agent/src/service.rs, machine.rs, enroll.rs, logfile.rs;      *)
(* transport/src/rendezvous.rs).                                           *)
HostSafe ==
    /\ SvcTypeOK /\ OneAgent /\ StoppedIsQuiet /\ StoppedOnlyAsked
    /\ RegTypeOK /\ OneWayIn /\ PunchedFirst
    /\ InstTypeOK /\ SomeoneGetsIn /\ WholeUnlessOverlapped /\ UsedOnce
    /\ LogTypeOK /\ NothingLostBetween /\ SizeBounded

(* What no step may do: give a frame an id that is not the next, or take a *)
(* token that waits out of the configuration unanswered (agent/src/        *)
(* session.rs, machine.rs).                                                *)
AgentSteps == IdsRunOn /\ TokenWaits

(* What must come in the end, for the part at work: a session whose        *)
(* connection is gone ends with all its threads, and so does its input;    *)
(* the rate comes back to most of the link; a service asked to stop stops; *)
(* what is left of a lost relay ends; a token that waits is used up. And   *)
(* what must come again and again once it can: video that failed is not    *)
(* waited for in vain, the console is served, the agent is online, the     *)
(* backlog is drained with the frame rate restored (SessionEnds,           *)
(* InputEnds, Recovers, StopsWhenAsked, OldRelayEnds, TokenGoes;           *)
(* VideoReturns, ConsoleServed, ComesOnline, Drains of the modules).       *)
AgentLives ==
    /\ (\/ part = "session" /\ SessionEndDue
        \/ part = "keyboard" /\ LeftInputs # {}
        \/ part = "rate" /\ RecoveryDue
        \/ part = "service" /\ StopDue
        \/ part = "registration" /\ LeftRelays # {}
        \/ part = "installation" /\ TokenDue)
       ~> (\/ part = "session" /\ SessionEndDone
           \/ part = "keyboard" /\ LeftInputs = {}
           \/ part = "rate" /\ MostOfLink
           \/ part = "service" /\ StopDone
           \/ part = "registration" /\ LeftRelays = {}
           \/ part = "installation" /\ TokenDone)
    /\ <>[](\/ part = "session" /\ VideoDue
            \/ part = "service" /\ ServiceDue
            \/ part = "registration" /\ reachable
            \/ part = "rate")
       => []<>(\/ part = "session" /\ VideoDone
               \/ part = "service" /\ (Served \/ Spent)
               \/ part = "registration" /\ OnlineDone
               \/ part = "rate" /\ Shallow /\ (FpsDue => FpsDone))
=============================================================================
