---------------------------- MODULE AgentProofs ----------------------------
(***************************************************************************)
(* What holds of the agent's parts for every value of the constants: the   *)
(* service that keeps one agent running, the registration, the             *)
(* installation, the log file, the session and its video, the rate, the    *)
(* keys and the pointer; and, since each part's steps are its own, of      *)
(* AgentSpec, the specification the run Agent checks.                      *)
(***************************************************************************)
EXTENDS MCAgent, FiniteSetTheorems, WellFoundedInduction, TLAPS

\* A set of numbers has a least one.
LEMMA Least == \A T \in SUBSET Nat : T # {} => \E x \in T : \A y \in T : x <= y
PROOF
<1> SUFFICES ASSUME NEW T \in SUBSET Nat, T # {}
             PROVE  \E x \in T : \A y \in T : x <= y
  OBVIOUS
<1>1. PICK x \in T : \A y \in T : <<y, x>> \notin OpToRel(<, Nat)
  BY WFMin, NatLessThanWellFounded, Zenon
<1>2. \A y \in T : ~ (y < x)
  BY <1>1, Zenon DEF OpToRel
<1> QED
  BY <1>2

---------------------------------------------------------------------------
(* The service. *)

Sessions == Consoles \cup {NoSession}
AgentState == [state : {"none", "run", "closing", "ending", "gone"}, session : Sessions,
               by : Nat, told : BOOLEAN]

\* Types of the service, the console and every agent process.
SvcTypes ==
    /\ console \in Sessions /\ seen \in Sessions
    /\ service \in {"running", "stopping", "stopped", "dead"}
    /\ tending \in {"tend", "waits", "start", "sleep", "stopped"} /\ mine \in 0..AgentBound
    /\ pause \in BackoffFirst..BackoffMax /\ due \in 0..BackoffMax
    /\ agents \in [Processes -> AgentState] /\ deaths \in Nat

SvcWhere ==
    /\ tending = "waits" => mine # 0 /\ service \in {"running", "stopping"}
    /\ tending \in {"start", "stopped"} => mine = 0
    /\ service = "stopping" => tending \in {"waits", "stopped"}
    /\ service \in {"stopped", "dead"} => mine = 0

SvcOwn ==
    /\ \A p \in Processes : agents[p].by <= deaths
    /\ mine # 0 => agents[mine].by = deaths
    /\ \A p \in Processes : agents[p].state = "run" /\ agents[p].by = deaths => p = mine
    /\ \A p, q \in Processes :
          agents[p].state = "run" /\ agents[q].state = "run" /\ agents[p].by = agents[q].by
          => p = q

SvcAsked ==
    /\ \A p \in Processes : agents[p].state = "run" /\ EventOf(p) \in raised => agents[p].told
    /\ StoppedOnlyAsked

SvcInv == SvcTypes /\ SvcWhere /\ SvcOwn /\ SvcAsked

LEMMA SvcStart == SvcInit => SvcInv
PROOF
<1> SUFFICES ASSUME SvcInit PROVE SvcInv
  OBVIOUS
<1>1. Nobody \in AgentState /\ Nobody.by = 0 /\ Nobody.state = "none"
  BY DEF Nobody, AgentState, Sessions
<1> QED
  BY <1>1, ServiceAssumption
  DEF SvcInit, SvcInv, SvcTypes, SvcWhere, SvcOwn, SvcAsked, StoppedOnlyAsked, Sessions, Processes

\* A fresh process is one that never ran.
LEMMA FreshProcess ==
    ASSUME SvcTypes, \E p \in Processes : agents[p].state = "none"
    PROVE  Fresh \in Processes /\ agents[Fresh].state = "none"
PROOF
<1> DEFINE Unborn == {p \in Processes : agents[p].state = "none"}
<1>1. Unborn \in SUBSET Nat /\ Unborn # {}
  BY DEF Processes
<1>2. PICK p \in Unborn : \A q \in Unborn : p <= q
  BY <1>1, Least, Zenon
<1>3. /\ p \in Processes /\ agents[p].state = "none"
      /\ \A q \in 1..(p - 1) : agents[q].state # "none"
  BY <1>2, ServiceAssumption DEF Processes
<1> QED
  BY <1>3 DEF Fresh

\* An event raised for the service's own agent is raised for no other that works.
LEMMA RaisedForMine ==
    ASSUME SvcInv, mine # 0, raised' = raised \cup {EventOf(mine)},
           agents' = [agents EXCEPT ![mine].told = TRUE], deaths' = deaths, mine' = mine
    PROVE  agents' \in [Processes -> AgentState] /\ SvcOwn' /\ SvcAsked'
PROOF
<1>1. mine \in Processes
  BY ServiceAssumption DEF SvcInv, SvcTypes, Processes
<1>2. PICK asked : asked = [agents[mine] EXCEPT !.told = TRUE]
  OBVIOUS
<1>3. agents[mine] \in AgentState
  BY <1>1 DEF SvcInv, SvcTypes
<1>4. /\ asked \in AgentState /\ asked.told /\ asked.state = agents[mine].state
      /\ asked.by = agents[mine].by /\ asked.session = agents[mine].session
  BY <1>2, <1>3 DEF AgentState
<1>5. agents' = [agents EXCEPT ![mine] = asked]
  BY <1>2
<1>6. /\ agents' \in [Processes -> AgentState]
      /\ \A p \in Processes : agents'[p] = IF p = mine THEN asked ELSE agents[p]
  BY <1>1, <1>4, <1>5 DEF SvcInv, SvcTypes
<1>7. SvcOwn'
  BY <1>1, <1>4, <1>6 DEF SvcInv, SvcTypes, SvcOwn
<1>8. SvcAsked'
  BY <1>1, <1>4, <1>6 DEF SvcInv, SvcTypes, SvcOwn, SvcAsked, StoppedOnlyAsked, EventOf
<1> QED
  BY <1>6, <1>7, <1>8

LEMMA SvcStep == SvcInv /\ [SvcNext]_svcVars => SvcInv'
PROOF
<1> SUFFICES ASSUME SvcInv, [SvcNext]_svcVars PROVE SvcInv'
  OBVIOUS
<1> USE DEF SvcInv, SvcTypes, SvcWhere, SvcOwn, SvcAsked, StoppedOnlyAsked, Sessions, AgentState,
            Processes, EventOf
<1>1. CASE TendMoves
  <2>1. agents' \in [Processes -> AgentState] /\ SvcOwn' /\ SvcAsked'
    BY <1>1, RaisedForMine DEF TendMoves
  <2> QED
    BY <1>1, <2>1 DEF TendMoves
<1>2. CASE TendExited
  BY <1>2, ServiceAssumption, SMTT(20) DEF TendExited, BackoffFailed, Alive
<1>3. CASE TendKeeps
  BY <1>3, ServiceAssumption, SMTT(20) DEF TendKeeps
<1>4. CASE StopAgent
  BY <1>4, ServiceAssumption, SMTT(20) DEF StopAgent
<1>5. CASE NotDue
  BY <1>5, ServiceAssumption, SMTT(20) DEF NotDue
<1>6. CASE StartFailed
  BY <1>6, ServiceAssumption, SMTT(20) DEF StartFailed, BackoffFailed
<1>7. CASE Woken
  BY <1>7, ServiceAssumption, SMTT(20) DEF Woken
<1>8. CASE ServiceStopped
  BY <1>8, ServiceAssumption, SMTT(20) DEF ServiceStopped
<1>9. CASE ConsoleChanges
  BY <1>9, ServiceAssumption, SMTT(20) DEF ConsoleChanges
<1>10. CASE StopRequested
  BY <1>10, ServiceAssumption, SMTT(20) DEF StopRequested
<1>11. CASE ServiceStarts
  BY <1>11, ServiceAssumption, SMTT(20) DEF ServiceStarts
<1>12. CASE ServiceDies
  BY <1>12, ServiceAssumption, SMTT(20) DEF ServiceDies, Alive
<1>13. CASE StartAgent
  <2> DEFINE new == [state |-> "run", session |-> seen, by |-> deaths, told |-> FALSE]
  <2>1. Fresh \in Processes /\ agents[Fresh].state = "none"
    BY <1>13, FreshProcess DEF StartAgent
  <2>2. new \in AgentState /\ new.state = "run" /\ new.by = deaths /\ new.session = seen
    OBVIOUS
  <2>3. PICK p \in Processes : p = Fresh
    BY <2>1
  <2>4. agents' = [agents EXCEPT ![p] = new] /\ mine' = p
    BY <1>13, <2>3 DEF StartAgent
  <2>5. /\ agents' \in [Processes -> AgentState]
        /\ \A q \in Processes : agents'[q] = IF q = p THEN new ELSE agents[q]
    BY <2>2, <2>4
  <2> HIDE DEF new
  <2> QED
    BY <1>13, <2>2, <2>4, <2>5, ServiceAssumption DEF StartAgent
<1>14. CASE ServiceStops
  <2>1. CASE mine = 0
    BY <1>14, <2>1 DEF ServiceStops
  <2>2. CASE mine # 0
    <3>1. agents' \in [Processes -> AgentState] /\ SvcOwn' /\ SvcAsked'
      BY <1>14, <2>2, RaisedForMine DEF ServiceStops
    <3> QED
      BY <1>14, <2>2, <3>1 DEF ServiceStops
  <2> QED
    BY <2>1, <2>2
<1>15. ASSUME NEW p \in Processes, AgentToldToStop(p) \/ AgentGone(p) \/ AgentExits(p)
      PROVE  SvcInv'
  <2>1. CASE AgentToldToStop(p)
    <3>1. SvcTypes' /\ SvcWhere'
      BY <2>1 DEF AgentToldToStop
    <3>2. SvcOwn'
      BY <2>1 DEF AgentToldToStop
    <3>3. SvcAsked'
      BY <2>1 DEF AgentToldToStop, Signalled
    <3> QED
      BY <3>1, <3>2, <3>3
  <2>2. CASE AgentGone(p)
    BY <2>2, ServiceAssumption, SMTT(20) DEF AgentGone
  <2>3. CASE AgentExits(p)
    BY <2>3, ServiceAssumption, SMTT(20) DEF AgentExits
  <2> QED
    BY <1>15, <2>1, <2>2, <2>3
<1>16. CASE UNCHANGED svcVars
  BY <1>16 DEF svcVars
<1> QED
  BY <1>1, <1>2, <1>3, <1>4, <1>5, <1>6, <1>7, <1>8, <1>9, <1>10, <1>11, <1>12, <1>13, <1>14, <1>15, <1>16 DEF SvcNext, Tend, Winds

\* At most one agent for every service there was: each is known by its service.
LEMMA SvcInvSafe == SvcInv => SvcTypeOK /\ OneAgent /\ StoppedIsQuiet /\ StoppedOnlyAsked
PROOF
<1> SUFFICES ASSUME SvcInv PROVE SvcTypeOK /\ OneAgent /\ StoppedIsQuiet /\ StoppedOnlyAsked
  OBVIOUS
<1>1. SvcTypeOK
  BY DEF SvcInv, SvcTypes, SvcTypeOK, AgentState
<1>2. Cardinality(Own) <= 1
  <2>1. Own \subseteq {mine}
    BY DEF SvcInv, SvcOwn, Own, Working
  <2>2. IsFiniteSet({mine}) /\ Cardinality({mine}) = 1
    BY FS_Singleton
  <2> QED
    BY <2>1, <2>2, FS_Subset, Zenon
<1>3. Cardinality(Working) <= 1 + deaths
  <2> DEFINE ofService == [p \in Working |-> agents[p].by]
  <2>1. ofService \in Injection(Working, 0..deaths)
    BY DEF SvcInv, SvcTypes, SvcOwn, Working, AgentState, Injection, IsInjective
  <2>2. IsFiniteSet(0..deaths) /\ Cardinality(0..deaths) = 1 + deaths
    BY FS_Interval DEF SvcInv, SvcTypes
  <2> HIDE DEF ofService
  <2> QED
    BY <2>1, <2>2, FS_Injection
<1>4. StoppedIsQuiet
  BY ServiceAssumption DEF SvcInv, SvcTypes, SvcWhere, SvcOwn, StoppedIsQuiet, Own, Working, Processes
<1> QED
  BY <1>1, <1>2, <1>3, <1>4 DEF OneAgent, SvcInv, SvcAsked

\* One agent process works at a time but for those that outlived a service that
\* failed, none once the service has stopped, and none stops unasked (service.rs:
\* Supervisor, stop_agent, start_agent).
THEOREM OneAgentWorks == SvcSpec => [](SvcTypeOK /\ OneAgent /\ StoppedIsQuiet /\ StoppedOnlyAsked)
PROOF BY SvcStart, SvcStep, SvcInvSafe, PTL DEF SvcSpec

---------------------------------------------------------------------------
(* The registration. *)

RegTypes ==
    /\ registering \in {"lookup", "lookupWait", "connect", "ask", "serve", "wait"}
    /\ shows \in {"connecting", "online", "unreachable"} /\ dials \in 0..DialBound
    /\ retry \in ReconnectFirst..(IF LookupMax < ReconnectMax THEN ReconnectMax ELSE LookupMax)
    /\ relays \in [Dials -> {"none", "open", "closed"}]
    /\ acceptors \subseteq 1..dials /\ relayed \subseteq Dials

\* The current dial's endpoint is open from the connection until the loop hears
\* of its end, its accept loop from the registration on; no other is open.
RegWays ==
    /\ \A d \in Dials : relays[d] = "open" => d = dials /\ registering \in {"ask", "serve"}
    /\ registering \in {"ask", "serve"} => dials > 0 /\ relays[dials] = "open"
    /\ registering = "serve" <=> shows = "online"
    /\ registering = "ask" => dials \notin acceptors
    /\ registering = "serve" => dials \in acceptors

RegInv == RegTypes /\ RegWays /\ PunchedFirst

LEMMA RegStart == RegInit => RegInv
PROOF BY RegistrationAssumption DEF RegInit, RegInv, RegTypes, RegWays, PunchedFirst, Dials

LEMMA RegPreserved == RegInv /\ [RegNext]_regVars => RegInv'
PROOF
<1> SUFFICES ASSUME RegInv, [RegNext]_regVars PROVE RegInv'
  OBVIOUS
<1> USE RegistrationAssumption DEF RegInv, RegTypes, RegWays, PunchedFirst, Dials, relaying, introduced
<1>1. CASE LookUp
  BY <1>1 DEF LookUp
<1>2. CASE LookUpAgain
  BY <1>2 DEF LookUpAgain, Doubled
<1>3. CASE Dial
  BY <1>3 DEF Dial
<1>4. CASE Registers
  BY <1>4 DEF Registers
<1>5. CASE ConnectionLost \/ StreamEnds \/ Unreached
  <2>1. /\ Ended(retry) \/ Ended(ReconnectFirst)
        /\ registering \in {"connect", "ask", "serve"}
        /\ UNCHANGED <<dials, acceptors, relayed, punched, readied>>
    BY <1>5 DEF ConnectionLost, StreamEnds, Unreached
  <2>2. /\ registering' = "wait" /\ shows' = "unreachable" /\ retry' \in {retry, ReconnectFirst}
        /\ relays' = [d \in Dials |-> IF d = dials /\ relays[d] = "open" THEN "closed"
                                      ELSE relays[d]]
    BY <2>1 DEF Ended
  <2>3. /\ relays' \in [Dials -> {"none", "open", "closed"}]
        /\ \A d \in Dials : relays'[d] # "open"
    BY <2>2
  <2> QED
    BY <2>1, <2>2, <2>3
<1>6. CASE Retry
  BY <1>6 DEF Retry, Doubled
<1>7. CASE Incoming
  BY <1>7 DEF Incoming
<1>8. CASE Introduces \/ ServerGoes \/ ServerComes
  BY <1>8 DEF Introduces, ServerGoes, ServerComes
<1>9. ASSUME NEW d \in Dials, RelayedComes(d) \/ RelayedGoes(d) \/ AcceptEnds(d)
      PROVE  RegInv'
  BY <1>9 DEF RelayedComes, RelayedGoes, AcceptEnds
<1>10. CASE UNCHANGED regVars
  BY <1>10 DEF regVars
<1> QED
  BY <1>1, <1>2, <1>3, <1>4, <1>5, <1>6, <1>7, <1>8, <1>9, <1>10 DEF RegNext, RegStep

LEMMA RegInvSafe == RegInv => RegTypeOK /\ OneWayIn /\ PunchedFirst
PROOF BY RegistrationAssumption DEF RegInv, RegTypes, RegWays, RegTypeOK, OneWayIn, Dials

\* Relayed viewers come in through the endpoint of the connection the agent is
\* registered on and no other, the host shows it online just then, and none is
\* told to come before the way was punched (rendezvous.rs: serve_registration,
\* stay_registered; portable.rs: serve).
THEOREM OneWayAlways == RegSpec => [](RegTypeOK /\ OneWayIn /\ PunchedFirst)
PROOF BY RegStart, RegPreserved, RegInvSafe, PTL DEF RegSpec

---------------------------------------------------------------------------
(* The session and its video. *)

SessTypes ==
    /\ link \in {"open", "closed", "lost"} /\ video \in 0..StreamBound
    /\ at \in {"select", "sender", "join", "start", "again", "over", "gone"}
    /\ after \in {"start", "over", "restart"} /\ started \in 0..StreamBound
    /\ thread \in [Streams -> {"none", "run", "push", "gone"}]
    /\ sender \in [Streams -> {"none", "run", "stop", "done"}]
    /\ queued \in [Streams -> 0..QueueRoom] /\ wait \in RestartFirst..RestartMax
    /\ ids \in [Streams -> Nat] /\ nextFrame \in Nat /\ frames \in Nat

\* A stream is there only while the loop selects or stops it; then it is the
\* last one started, and only its thread and its sender are at work.
SessOne ==
    /\ video # NoVideo => at \in {"select", "sender", "join"}
    /\ at \in {"sender", "join"} => video # NoVideo
    /\ \A n \in Streams : thread[n] \in {"run", "push"} => n = video
    /\ \A n \in Streams : sender[n] \in {"run", "stop"} => n = video /\ at \in {"select", "sender"}
    /\ at = "sender" => after \in {"start", "over"}

\* The number of the next frame is with the stream's sender while it has one
\* that was not asked for it, else with the session.
SessIds ==
    IF video # NoVideo /\ at \in {"select", "sender"} THEN ids[video] = frames ELSE nextFrame = frames

SessInv == SessTypes /\ SessOne /\ SessIds /\ RestartReplaced

LEMMA SessStart == SessInit => SessInv
PROOF BY SessionAssumption
      DEF SessInit, SessInv, SessTypes, SessOne, SessIds, RestartReplaced, Streams, NoVideo

\* What threads and senders do by themselves.
LEMMA SessThreads ==
    ASSUME SessInv, NEW n \in Streams, UNCHANGED ofSession,
           ThreadStep(n) \/ SenderEnds(n) \/ ThreadFails(n) \/ SenderTakes(n)
    PROVE  SessInv'
PROOF
<1> USE SessionAssumption
    DEF SessInv, SessTypes, SessOne, SessIds, RestartReplaced, Streams, NoVideo, ofSession
<1>1. CASE ThreadDismissed(n) \/ ThreadEncodes(n) \/ ThreadFails(n)
  <2>1. SessTypes'
    BY <1>1 DEF ThreadDismissed, ThreadEncodes, ThreadFails, Thread
  <2>2. SessOne'
    BY <1>1 DEF ThreadDismissed, ThreadEncodes, ThreadFails, Thread
  <2>3. SessIds' /\ RestartReplaced'
    BY <1>1 DEF ThreadDismissed, ThreadEncodes, ThreadFails, Thread
  <2> QED
    BY <2>1, <2>2, <2>3
<1>2. CASE ThreadPushes(n)
  <2>1. SessTypes'
    BY <1>2 DEF ThreadPushes, Thread
  <2>2. SessOne'
    BY <1>2 DEF ThreadPushes, Thread
  <2>3. SessIds' /\ RestartReplaced'
    BY <1>2 DEF ThreadPushes, Thread
  <2> QED
    BY <2>1, <2>2, <2>3
<1>3. CASE ThreadUnread(n)
  <2>1. SessTypes'
    BY <1>3 DEF ThreadUnread, Thread
  <2>2. SessOne'
    BY <1>3 DEF ThreadUnread, Thread
  <2>3. SessIds' /\ RestartReplaced'
    BY <1>3 DEF ThreadUnread, Thread
  <2> QED
    BY <2>1, <2>2, <2>3
<1>4. CASE SenderEnds(n)
  <2>1. SessTypes'
    BY <1>4 DEF SenderEnds
  <2>2. SessOne'
    BY <1>4 DEF SenderEnds
  <2>3. SessIds' /\ RestartReplaced'
    BY <1>4 DEF SenderEnds
  <2> QED
    BY <2>1, <2>2, <2>3
<1>5. CASE SenderTakes(n)
  <2>1. SessTypes'
    <3>1. queued' \in [Streams -> 0..QueueRoom]
      BY <1>5 DEF SenderTakes
    <3>2. ids' \in [Streams -> Nat] /\ frames' \in Nat
      BY <1>5 DEF SenderTakes
    <3>3. UNCHANGED <<thread, sender, started, ofSession>>
      BY <1>5 DEF SenderTakes
    <3> QED
      BY <3>1, <3>2, <3>3
  <2>2. SessOne'
    BY <1>5 DEF SenderTakes
  <2>3. SessIds' /\ RestartReplaced'
    BY <1>5 DEF SenderTakes
  <2> QED
    BY <2>1, <2>2, <2>3
<1> QED
  BY <1>1, <1>2, <1>3, <1>4, <1>5 DEF ThreadStep

LEMMA SessStep == SessInv /\ [SessNext]_sessVars => SessInv'
PROOF
<1> SUFFICES ASSUME SessInv, [SessNext]_sessVars PROVE SessInv'
  OBVIOUS
<1>0. ASSUME NEW n \in Streams, UNCHANGED ofSession,
             ThreadStep(n) \/ SenderEnds(n) \/ ThreadFails(n) \/ SenderTakes(n)
      PROVE  SessInv'
  BY <1>0, SessThreads
<1> USE SessionAssumption
    DEF SessInv, SessTypes, SessOne, SessIds, RestartReplaced, Streams, NoVideo, videoVars, Loop
<1>1. CASE SenderAwaited
  BY <1>1 DEF SenderAwaited
<1>2. CASE Joined
  <2>1. SessTypes'
    BY <1>2, SMTT(30) DEF Joined
  <2>2. SessOne' /\ SessIds'
    BY <1>2 DEF Joined
  <2>3. RestartReplaced'
    <3>1. ~restart /\ video' = NoVideo
      BY <1>2 DEF Joined
    <3>2. CASE after = "restart"
      BY <1>2, <3>1, <3>2 DEF Joined
    <3>3. CASE after # "restart"
      BY <1>2, <3>1, <3>3 DEF Joined
    <3> QED
      BY <3>2, <3>3
  <2> QED
    BY <2>1, <2>2, <2>3
<1>3. CASE Starts
  BY <1>3, SMTT(30) DEF Starts
<1>4. CASE StartFails
  <2>1. SessTypes'
    BY <1>4 DEF StartFails
  <2>2. SessOne' /\ SessIds'
    BY <1>4 DEF StartFails
  <2>3. RestartReplaced'
    <3>1. ~restart /\ video' = NoVideo
      BY <1>4 DEF StartFails
    <3>2. CASE at = "again"
      BY <1>4, <3>1, <3>2 DEF StartFails
    <3>3. CASE at # "again"
      BY <1>4, <3>1, <3>3 DEF StartFails
    <3> QED
      BY <3>2, <3>3
  <2> QED
    BY <2>1, <2>2, <2>3
<1>5. CASE HandleStart
  <2>1. SessTypes'
    BY <1>5, SMTT(30) DEF HandleStart, Stopped, StopVideo
  <2>2. SessOne'
    BY <1>5, SMTT(30) DEF HandleStart, Stopped, StopVideo
  <2>3. SessIds' /\ RestartReplaced'
    BY <1>5 DEF HandleStart, Stopped, StopVideo
  <2> QED
    BY <2>1, <2>2, <2>3
<1>6. CASE HandleEnd
  <2>0. /\ at' \in {"over", "sender", "join"} /\ after' \in {after, "over"}
        /\ UNCHANGED <<link, video, wait, nextFrame>>
    BY <1>6 DEF HandleEnd, Stopped, StopVideo
  <2>1. SessTypes'
    BY <1>6, <2>0, SMTT(60) DEF HandleEnd, Stopped, StopVideo
  <2>2. SessOne'
    BY <1>6 DEF HandleEnd, Stopped, StopVideo
  <2>3. SessIds' /\ RestartReplaced'
    BY <1>6 DEF HandleEnd, Stopped, StopVideo
  <2> QED
    BY <2>1, <2>2, <2>3
<1>7. CASE Over
  BY <1>7 DEF Over
<1>8. CASE SenderDone
  BY <1>8 DEF SenderDone
<1>9. CASE RestartDue
  BY <1>9 DEF RestartDue
<1>10. CASE ViewerAsks \/ LinkGoes \/ ReadEnd
  <2>1. SessTypes'
    BY <1>10 DEF ViewerAsks, LinkGoes, ReadEnd
  <2>2. SessOne'
    BY <1>10 DEF ViewerAsks, LinkGoes, ReadEnd
  <2>3. SessIds' /\ RestartReplaced'
    BY <1>10 DEF ViewerAsks, LinkGoes, ReadEnd
  <2> QED
    BY <2>1, <2>2, <2>3
<1>11. CASE UNCHANGED sessVars
  BY <1>11 DEF sessVars
<1> QED
  BY <1>0, <1>1, <1>2, <1>3, <1>4, <1>5, <1>6, <1>7, <1>8, <1>9, <1>10, <1>11
  DEF SessNext, PipelineRuns, SessionStep

LEMMA SessInvSafe == SessInv => SessTypeOK /\ OnePipeline /\ RestartReplaced
PROOF
<1> SUFFICES ASSUME SessInv PROVE SessTypeOK /\ OnePipeline /\ RestartReplaced
  OBVIOUS
<1>1. {n \in Streams : thread[n] \in {"run", "push"}} \subseteq {video}
  BY DEF SessInv, SessOne
<1>2. IsFiniteSet({video}) /\ Cardinality({video}) = 1
  BY FS_Singleton
<1>3. OnePipeline
  BY <1>1, <1>2, FS_Subset, ZenonT(30) DEF OnePipeline
<1> QED
  BY <1>3 DEF SessInv, SessTypes, SessTypeOK

\* One pipeline holds the capturer and the encoder at a time, and a restart is
\* due only while there is no video (session.rs: serve, start_video; Video::stop).
THEOREM OnePipelineAlways == SessSpec => [](SessTypeOK /\ OnePipeline /\ RestartReplaced)
PROOF BY SessStart, SessStep, SessInvSafe, PTL DEF SessSpec

NextIdGiven == frames' = frames + 1 => \E n \in Streams : ids[n] = frames /\ ids'[n] = frames'

LEMMA NextIdStep == SessInv /\ [SessNext]_sessVars => [NextIdGiven]_sessVars
PROOF
<1> SUFFICES ASSUME SessInv, SessNext, frames' = frames + 1
             PROVE  \E n \in Streams : ids[n] = frames /\ ids'[n] = frames'
  BY DEF NextIdGiven
<1>1. frames' # frames
  BY DEF SessInv, SessTypes
<1>2. PICK n \in Streams : SenderTakes(n)
  BY <1>1 DEF SessNext, PipelineRuns, ThreadStep, ThreadDismissed, ThreadEncodes, ThreadPushes,
              ThreadUnread, SenderEnds, ThreadFails, SessionStep, SenderAwaited, Joined, Starts,
              StartFails, HandleStart, HandleEnd, Over, Stopped, StopVideo, SenderDone,
              RestartDue, ViewerAsks, LinkGoes, ReadEnd, videoVars
<1>3. ids[n] = frames /\ ids'[n] = frames'
  BY <1>2 DEF SenderTakes, SessInv, SessTypes, SessOne, SessIds, NoVideo, Streams
<1> QED
  BY <1>3

\* Every frame sent gets the next id, whichever streams came before and however
\* they ended (session.rs: next_frame_id, send_video).
THEOREM FrameIdsRunOn == SessSpec => IdsRunOn
PROOF BY NextIdStep, SessStart, SessStep, PTL DEF SessSpec, IdsRunOn, NextIdGiven

---------------------------------------------------------------------------
(* The rate. *)

Chosen == [kbps : Nat, fps : Nat]

RateTypes ==
    /\ RateTypeOK
    /\ applied \in Chosen /\ capacity \in Capacities /\ demand \in Demands

RateInv == RateTypes /\ UnderCeiling /\ BacklogBounded

LEMMA CeilingTypes ==
    ASSUME NEW top \in Ceilings
    PROVE  /\ top.kbps \in Nat /\ top.fps \in 1..255
           /\ Greater(top.kbps, FloorKbps) \in Nat /\ Greater(top.kbps, FloorKbps) >= FloorKbps
           /\ Greater(top.fps, MinFps) \in MinFps..255
PROOF BY RateAssumption DEF Greater

\* What apply leaves is within a twentieth of the rate, and at the frame rate.
LEMMA ApplyUnder ==
    ASSUME NEW kbps \in Nat, NEW f \in Nat, NEW top \in Ceilings,
           kbps <= Greater(top.kbps, FloorKbps), applied \in Chosen, Apply(kbps, f, top)
    PROVE  /\ applied' \in Chosen
           /\ applied'.kbps * 19 <= Greater(top.kbps, FloorKbps) * 20
           /\ applied'.fps <= Greater(top.fps, MinFps)
PROOF
<1>1. PICK next : next = Quality(kbps, f, top)
  OBVIOUS
<1>2. /\ next \in Chosen /\ next.kbps = kbps /\ next.fps <= Greater(top.fps, MinFps)
  BY <1>1, CeilingTypes, RateAssumption DEF Quality, Clamp, Greater, Lesser, Chosen
<1>3. applied.kbps \in Nat /\ applied.fps \in Nat
  BY DEF Chosen
<1>4. CASE applied' = next
  BY <1>2, <1>4, CeilingTypes
<1>5. CASE /\ applied' = applied /\ next.fps = applied.fps
           /\ ~((Greater(next.kbps, applied.kbps) - Lesser(next.kbps, applied.kbps)) * 20
                  > applied.kbps)
  BY <1>2, <1>3, <1>5, CeilingTypes DEF Greater, Lesser
<1> QED
  BY <1>1, <1>4, <1>5 DEF Apply

\* However fast the encoder and whatever is resent, the backlog stays within
\* the limit of a rate allowed, a frame, and what was resent.
LEMMA BacklogStays ==
    ASSUME RateInv, NEW share \in Demands, NEW last \in 0..FrameMost, NEW again \in Nat,
           backlog' = Lesser(Buffer,
                Greater(0, backlog + SentIn(share, last) + again - capacity \div 2)),
           resent' = IF backlog' <= BacklogLimit(target) THEN 0 ELSE resent + again
    PROVE  /\ backlog' \in 0..Buffer /\ resent' \in Nat
           /\ \E c \in Ceilings :
                 backlog' <= BacklogLimit(Greater(c.kbps, FloorKbps)) + FrameMost + resent'
PROOF
<1> DEFINE half == capacity \div 2
           want == Offered(share)
<1>1. /\ half \in Nat /\ backlog \in Nat /\ target \in Nat /\ ceiling \in Ceilings
      /\ applied.kbps \in Nat /\ share \in {10, 50, 100} /\ resent \in Nat
      /\ FrameMost \in Nat /\ Buffer \in Nat
  BY RateAssumption DEF RateInv, RateTypes, RateTypeOK, Chosen, Demands
<1>2. want \in Nat
  BY <1>1 DEF Offered
<1>3. /\ BacklogLimit(target) \in Nat /\ BacklogLimit(Room) \in Nat
      /\ BacklogLimit(target) <= BacklogLimit(Room)
  BY <1>1, CeilingTypes, RateAssumption
  DEF RateInv, RateTypes, RateTypeOK, BacklogLimit, Room, Greater
<1>4. PICK most \in Ceilings :
         backlog <= BacklogLimit(Greater(most.kbps, FloorKbps)) + FrameMost + resent
  BY DEF RateInv, BacklogBounded
<1>5. BacklogLimit(Greater(most.kbps, FloorKbps)) \in Nat
  BY CeilingTypes, RateAssumption DEF BacklogLimit, Greater
<1>6. SentIn(share, last) = IF BacklogLimit(target) + half - backlog < 0 THEN 0
                            ELSE Lesser(want, BacklogLimit(target) + half - backlog) + last
  BY DEF SentIn
<1> HIDE DEF half, want
<1>7. backlog' = Lesser(Buffer, Greater(0, backlog + SentIn(share, last) + again - half))
  BY DEF half
<1>8. PICK sent \in Nat : /\ sent = SentIn(share, last)
                         /\ \/ sent = 0
                            \/ backlog + sent - half <= BacklogLimit(target) + FrameMost
  BY <1>1, <1>2, <1>3, <1>6 DEF Lesser
<1>9. /\ backlog' \in 0..Buffer
      /\ \/ backlog' <= BacklogLimit(target) + FrameMost + again
         \/ backlog' <= backlog + again
  <2>1. PICK more \in Int : more = backlog + sent + again - half
    BY <1>1, <1>8
  <2>2. PICK some \in Nat : some = Greater(0, more)
    <3>1. Greater(0, more) \in Nat
      BY <2>1 DEF Greater
    <3> QED
      BY <3>1
  <2>3. backlog' = Lesser(Buffer, some)
    <3>1. backlog' = Lesser(Buffer, Greater(0, more))
      BY <1>7, <1>8, <2>1, Zenon
    <3> QED
      BY <2>2, <3>1, Zenon
  <2>4. backlog' \in 0..Buffer /\ backlog' <= some
    BY <1>1, <2>2, <2>3 DEF Lesser
  <2>5. some = 0 \/ some = more
    BY <2>1, <2>2 DEF Greater
  <2>6. more <= BacklogLimit(target) + FrameMost + again \/ more <= backlog + again
    BY <1>1, <1>3, <1>8, <2>1
  <2> QED
    BY <1>1, <1>3, <2>2, <2>4, <2>5, <2>6
<1>10. resent' \in Nat
  BY <1>1
<1>11. CASE backlog' <= BacklogLimit(target)
  BY <1>1, <1>3, <1>9, <1>10, <1>11 DEF Room
<1>12. CASE ~(backlog' <= BacklogLimit(target))
  <2>1. resent' = resent + again
    BY <1>12
  <2>2. CASE backlog' <= BacklogLimit(target) + FrameMost + again
    BY <1>1, <1>3, <1>9, <2>1, <2>2 DEF Room
  <2>3. CASE backlog' <= backlog + again
    BY <1>1, <1>4, <1>5, <1>9, <2>1, <2>3
  <2> QED
    BY <1>9, <2>2, <2>3
<1> QED
  BY <1>9, <1>10, <1>11, <1>12

\* A tick keeps the target between the floor and the ceiling, whatever it found.
LEMMA TickKeeps ==
    ASSUME RateInv, NEW share \in Demands, NEW last \in 0..FrameMost, NEW again \in Nat,
           NEW trouble, Tick(share, last, again, trouble)
    PROVE  /\ ceiling' = ceiling /\ target' \in FloorKbps..Room /\ fps' \in 1..255
           /\ calm' \in 0..RememberOveruse /\ settling' \in 0..Settle /\ primed' = TRUE
           /\ applied' \in Chosen /\ UnderCeiling'
           /\ backlog' \in 0..Buffer /\ resent' \in Nat /\ BacklogBounded'
PROOF
<1>0. /\ target \in FloorKbps..Room /\ fps \in 1..255 /\ calm \in 0..RememberOveruse
      /\ settling \in 0..Settle /\ backlog \in 0..Buffer /\ Buffer \in Nat /\ ceiling \in Ceilings /\ applied \in Chosen
  BY RateAssumption DEF RateInv, RateTypes, RateTypeOK
<1>1. /\ ceiling' = ceiling /\ primed' = TRUE
      /\ backlog' = Lesser(Buffer,
                Greater(0, backlog + SentIn(share, last) + again - capacity \div 2))
      /\ resent' = IF backlog' <= BacklogLimit(target) THEN 0 ELSE resent + again
  BY DEF Tick
<1>2. backlog' \in 0..Buffer /\ resent' \in Nat /\ BacklogBounded'
  BY <1>1, BacklogStays DEF BacklogBounded, BacklogLimit
<1>3. CASE ~primed
  <2>1. UNCHANGED <<target, fps, calm, settling, applied>>
    BY <1>3 DEF Tick
  <2>2. UnderCeiling'
    BY <1>1, <2>1 DEF RateInv, UnderCeiling, Room
  <2> QED
    BY <1>0, <1>1, <1>2, <2>1, <2>2
<1>4. CASE primed
  <2>1. PICK sent, through \in Int :
           /\ through >= FloorKbps
           /\ fps' = AdaptFps(sent)
           /\ Overuse(through) \/ Hold \/ Underuse(sent)
           /\ Apply(target', fps', ceiling)
    <3> DEFINE after_ == Lesser(Buffer,
                    Greater(0, backlog + SentIn(share, last) + again - capacity \div 2))
               rate_ == Greater(2 * (SentIn(share, last) + backlog - after_), FloorKbps)
    <3>1. SentIn(share, last) \in Int /\ capacity \div 2 \in Int
      <4>1. /\ applied.kbps \in Nat /\ share \in Nat /\ capacity \in Nat /\ target \in Nat
            /\ LeastLimit \in Nat /\ last \in Nat
        BY <1>0, RateAssumption DEF RateInv, RateTypes, Chosen, Demands
      <4>2. Offered(share) \in Int /\ BacklogLimit(target) \in Int
        BY <4>1 DEF BacklogLimit, Greater, Offered
      <4> QED
        BY <1>0, <4>1, <4>2 DEF SentIn, Lesser
    <3>2. rate_ \in Int /\ rate_ >= FloorKbps
      BY <3>1, <1>0, RateAssumption DEF Greater, Lesser
    <3>3. (SentIn(share, last) * 200) \div target \in Int
      BY <3>1, <1>0, RateAssumption
    <3>4. /\ fps' = AdaptFps((SentIn(share, last) * 200) \div target)
          /\ Overuse(rate_) \/ Hold \/ Underuse((SentIn(share, last) * 200) \div target)
          /\ Apply(target', fps', ceiling)
      BY <1>4, Zenon DEF Tick
    <3> HIDE DEF rate_
    <3> QED
      BY <3>2, <3>3, <3>4, Zenon
  <2>2. fps' \in 1..255
    BY <1>0, <2>1, CeilingTypes, RateAssumption DEF AdaptFps, Clamp, Lesser, Greater
  <2>3. /\ target' \in FloorKbps..Room /\ calm' \in 0..RememberOveruse /\ settling' \in 0..Settle
    <3>0. Room \in Nat /\ Room >= FloorKbps /\ FloorKbps \in Nat \ {0}
      BY <1>0, CeilingTypes, RateAssumption DEF Room
    <3>1. CASE Overuse(through)
      BY <1>0, <2>1, <3>0, <3>1, RateAssumption DEF Overuse, Lesser, Greater
    <3>2. CASE Hold
      BY <1>0, <3>0, <3>2, RateAssumption DEF Hold, Greater
    <3>3. CASE Underuse(sent)
      <4>1. PICK more \in Nat : /\ more >= target
                                /\ target' = Lesser(more, Room) \/ target' = target
        BY <1>0, <3>0, <3>3 DEF Underuse, Room
      <4> QED
        BY <1>0, <3>0, <3>3, <4>1, RateAssumption DEF Underuse, Lesser, Greater
    <3> QED
      BY <2>1, <3>1, <3>2, <3>3
  <2>4. applied' \in Chosen /\ UnderCeiling'
    <3>1. target' \in Nat /\ target' <= Greater(ceiling.kbps, FloorKbps) /\ fps' \in Nat
      BY <1>0, <2>2, <2>3, CeilingTypes, RateAssumption DEF Room
    <3> QED
      BY <1>0, <1>1, <2>1, <3>1, ApplyUnder DEF UnderCeiling, Room
  <2> QED
    BY <1>1, <1>2, <2>2, <2>3, <2>4
<1> QED
  BY <1>3, <1>4

LEMMA RateStart == RateInit => RateInv
PROOF
<1> SUFFICES ASSUME RateInit PROVE RateInv
  OBVIOUS
<1>1. /\ ceiling \in Ceilings /\ capacity \in Capacities /\ demand \in Demands
      /\ target \in FloorKbps..Room /\ fps = ceiling.fps
  BY CeilingTypes, RateAssumption DEF RateInit, Clamp, Greater, Lesser, Room
<1>2. RateTypeOK
  <2>1. /\ fps \in 1..255 /\ calm \in 0..RememberOveruse /\ settling \in 0..Settle
        /\ backlog \in 0..Buffer /\ resent \in Nat /\ free \in 0..FreeBound
    BY <1>1, CeilingTypes, RateAssumption DEF RateInit
  <2>2. primed \in BOOLEAN
    BY Zenon DEF RateInit
  <2> QED
    BY <1>1, <2>1, <2>2, Zenon DEF RateTypeOK
<1>3. applied \in Chosen /\ UnderCeiling
  <2>1. PICK q : q = Quality(target, fps, ceiling)
    OBVIOUS
  <2>2. q \in Chosen /\ q.kbps = target /\ q.fps <= Greater(ceiling.fps, MinFps)
    BY <1>1, <2>1, CeilingTypes, RateAssumption DEF Quality, Clamp, Greater, Lesser, Chosen, Room
  <2> QED
    BY <1>1, <2>1, <2>2, CeilingTypes, RateAssumption DEF RateInit, UnderCeiling, Room
<1>4. BacklogBounded
  <2>1. backlog = 0 /\ resent = 0 /\ FrameMost \in Nat /\ LeastLimit \in Nat /\ FloorKbps \in Nat
    BY RateAssumption DEF RateInit
  <2> QED
    BY <1>1, <2>1, CeilingTypes DEF BacklogBounded, BacklogLimit, Greater
<1> QED
  BY <1>1, <1>2, <1>3, <1>4 DEF RateInv, RateTypes

LEMMA RateStep == RateInv /\ [RateNext]_rateVars => RateInv'
PROOF
<1> SUFFICES ASSUME RateInv, [RateNext]_rateVars PROVE RateInv'
  OBVIOUS
<1>0. /\ target \in FloorKbps..Room /\ fps \in 1..255 /\ calm \in 0..RememberOveruse
      /\ settling \in 0..Settle /\ backlog \in 0..Buffer /\ resent \in Nat /\ ceiling \in Ceilings /\ applied \in Chosen
      /\ free \in 0..FreeBound /\ primed \in BOOLEAN /\ capacity \in Capacities
      /\ demand \in Demands
  BY DEF RateInv, RateTypes, RateTypeOK
<1>1. ASSUME NEW share \in Demands, NEW last \in 0..FrameMost, NEW again \in Nat, NEW trouble,
             Tick(share, last, again, trouble), free' \in 0..FreeBound,
             capacity' \in Capacities, demand' \in Demands
      PROVE  RateInv'
  <2>1. /\ ceiling' = ceiling /\ target' \in FloorKbps..Room /\ fps' \in 1..255
        /\ calm' \in 0..RememberOveruse /\ settling' \in 0..Settle /\ primed' = TRUE
        /\ applied' \in Chosen /\ UnderCeiling' /\ BacklogBounded'
        /\ backlog' \in 0..Buffer /\ resent' \in Nat
    BY <1>1, TickKeeps
  <2>2. Room' = Room
    BY <2>1 DEF Room
  <2> QED
    BY <1>0, <1>1, <2>1, <2>2 DEF RateInv, RateTypes, RateTypeOK
<1>2. CASE FreeInterval
  <2>0. {0, FrameMost} \subseteq 0..FrameMost /\ {0, RepairMost} \subseteq Nat
    BY RateAssumption
  <2>1. PICK share \in Demands, last \in 0..FrameMost, again \in Nat,
             trouble \in {"overuse", "hold", "underuse"} :
           Tick(share, last, again, trouble) /\ demand' = share
    BY <1>2, <2>0, ZenonT(30) DEF FreeInterval
  <2>2. free' \in 0..FreeBound /\ capacity' \in Capacities
    BY <1>0, <1>2, RateAssumption DEF FreeInterval
  <2> QED
    BY <1>1, <2>1, <2>2
<1>3. CASE SteadyInterval
  <2>1. {0, FrameMost} \subseteq 0..FrameMost
    BY RateAssumption
  <2>2. PICK last \in 0..FrameMost : Tick(demand, last, 0, "underuse")
    BY <1>3, <2>1 DEF SteadyInterval
  <2>3. UNCHANGED <<capacity, demand, free>>
    BY <1>3 DEF SteadyInterval
  <2> QED
    BY <1>0, <1>1, <2>2, <2>3
<1>4. ASSUME NEW top \in Ceilings, SetCeiling(top) PROVE RateInv'
  <2>1. /\ ceiling' = top /\ fps' = Lesser(fps, top.fps) /\ free' = free - 1 /\ free > 0
        /\ target' = Clamp(target, FloorKbps, Greater(top.kbps, FloorKbps))
        /\ Apply(target', fps', top)
        /\ UNCHANGED <<calm, settling, primed, backlog, resent, capacity, demand>>
    BY <1>4 DEF SetCeiling
  <2>2. /\ target' \in FloorKbps..Greater(top.kbps, FloorKbps) /\ fps' \in 1..255
        /\ free' \in 0..FreeBound /\ target' \in Nat
    BY <1>0, <2>1, CeilingTypes, RateAssumption DEF Clamp, Lesser, Greater, Room
  <2>3. /\ applied' \in Chosen
        /\ applied'.kbps * 19 <= Greater(top.kbps, FloorKbps) * 20
        /\ applied'.fps <= Greater(top.fps, MinFps)
    <3>1. target' <= Greater(top.kbps, FloorKbps) /\ fps' \in Nat
      BY <2>2, CeilingTypes
    <3> QED
      BY <1>0, <2>1, <2>2, <3>1, ApplyUnder, Zenon
  <2>4. UnderCeiling' /\ Room' = Greater(top.kbps, FloorKbps)
    BY <2>1, <2>3 DEF UnderCeiling, Room
  <2>5. BacklogBounded'
    BY <2>1 DEF RateInv, BacklogBounded, BacklogLimit
  <2> QED
    BY <1>0, <2>1, <2>2, <2>3, <2>4, <2>5 DEF RateInv, RateTypes, RateTypeOK
<1>5. CASE UNCHANGED rateVars
  BY <1>5 DEF rateVars, controller, RateInv, RateTypes, RateTypeOK, UnderCeiling, BacklogBounded,
              BacklogLimit, Room
<1> QED
  BY <1>2, <1>3, <1>4, <1>5 DEF RateNext

\* The encoder is never asked for more than the viewer's ceiling but for the
\* twentieth that apply leaves alone, and what waits in QUIC's buffer is never
\* more than the limit at which the sender stops taking frames, one frame, and
\* what was resent meanwhile (rate.rs: update, set_ceiling, apply,
\* backlog_limit; session.rs: send_video), for every link, ceiling and floor.
THEOREM RateUnderCeiling == RateSpec => [](RateTypeOK /\ UnderCeiling /\ BacklogBounded)
PROOF
<1>1. RateInv => RateTypeOK /\ UnderCeiling /\ BacklogBounded
  BY DEF RateInv, RateTypes
<1> QED
  BY <1>1, RateStart, RateStep, PTL DEF RateSpec

---------------------------------------------------------------------------
(* The installation. *)

File == {NoFile, Torn} \cup {Holding(c) : c \in Configs}
Saves == {"save", "written", "rename"}

InstTypes ==
    /\ toml \in File /\ partial \in File /\ config \in [Writers -> Configs]
    /\ doing \in [Writers -> {"off", "save", "written", "rename", "now", "chosen", "ask",
                              "forget", "serving"}]
    /\ pending \in 0..tokens /\ tokens \in 0..TokenBound /\ used \in [Tokens -> Nat]
    /\ outages \in Nat /\ crashes \in Nat

\* What each process does and holds.
InstWhere ==
    /\ doing["install"] \in Saves \cup {"off", "now"}
    /\ doing["password"] \in Saves \cup {"off", "chosen"}
    /\ doing["agent"] \in Saves \cup {"off", "ask", "forget", "serving"}
    /\ doing["install"] = "off" => config["install"].token = NoToken
    /\ doing["install"] = "now" => config["install"].token # NoToken
    /\ doing["agent"] \in Saves => config["agent"].token = NoToken
    /\ Middle("agent") => pending # NoToken

\* A configuration that is or may yet be on disk lets someone in.
InstLets ==
    /\ Whole(toml) => LetsIn(toml.holds)
    /\ Whole(partial) => LetsIn(partial.holds)
    /\ \A w \in Writers : doing[w] \in Saves \cup {"now", "chosen"} => LetsIn(config[w])

\* Tokens come from the administrator, and one that was not handed out yet is
\* nowhere and was never counted.
InstFresh ==
    /\ toml.holds.token <= tokens /\ partial.holds.token <= tokens
    /\ \A w \in Writers : config[w].token <= tokens
    /\ \A t \in Tokens : t > tokens => used[t] = 0

\* Without an overlap, a process about to rename finds what it wrote, and one
\* that has read the file finds it as it was.
InstAlone ==
    /\ toml = Torn => overlapped
    /\ \A w \in Writers : doing[w] = "rename" => overlapped \/ partial = Holding(config[w])
    /\ Middle("agent") =>
          overlapped \/ (/\ Whole(toml) /\ toml.holds.token = pending
                         /\ config["install"].token # pending
                         /\ doing["agent"] # "ask" => pending \in answered)
    /\ Middle("password") =>
          overlapped \/ (Whole(toml) /\ toml.holds.token = config["password"].token)

\* Someone may present the token with no more failures.
MayAsk(t) ==
    \/ doing["agent"] = "ask" /\ pending = t
    \/ doing["install"] # "off" /\ config["install"].token = t
    \/ /\ ~Middle("agent") /\ ~Middle("install")
       /\ \/ Whole(toml) /\ toml.holds.token = t
          \/ Middle("password") /\ config["password"].token = t

InstUsed ==
    \A t \in Tokens :
        overlapped \/ (/\ used[t] <= 1 + outages + crashes
                       /\ MayAsk(t) => used[t] <= outages + crashes)

InstInv == InstTypes /\ InstWhere /\ InstLets /\ InstFresh /\ InstAlone /\ InstUsed

LEMMA InstStart == InstInit => InstInv
PROOF
<1> SUFFICES ASSUME InstInit PROVE InstInv
  OBVIOUS
<1> USE InstallationAssumption
    DEF InstTypes, InstWhere, InstLets, InstFresh, InstAlone,
        InstUsed, MayAsk, File, Saves, Writers, Tokens, Configs, NoConfig, NoFile, Torn, Holding,
        LetsIn, Whole, At, Middle, OthersBusy, NoToken, enrolling, history
<1> QED
  BY DEF InstInit, InstInv

\* A token presented is counted once more, or not.
LEMMA AskedCounts ==
    ASSUME InstTypes, NEW token \in Tokens, Asked(token)
    PROVE  /\ used' \in [Tokens -> Nat]
           /\ used'[token] \in {used[token], used[token] + 1}
           /\ \A t \in Tokens \ {token} : used'[t] = used[t]
PROOF BY DEF Asked, InstTypes

\* A configuration without its token lets in whom it did.
LEMMA Tokenless ==
    ASSUME NEW old \in Configs
    PROVE  LET c == [old EXCEPT !.token = NoToken]
           IN  c \in Configs /\ c.token = NoToken /\ (LetsIn(old) => LetsIn(c))
PROOF
<1>1. [old EXCEPT !.token = NoToken] \in Configs
  BY InstallationAssumption DEF Configs, NoToken
<1>2. LET c == [old EXCEPT !.token = NoToken]
      IN  /\ c.token = NoToken /\ c.managed = old.managed /\ c.access = old.access
          /\ c.withGrant = old.withGrant
  BY DEF Configs
<1> QED
  BY <1>1, <1>2 DEF LetsIn

\* Saving, by any process.
LEMMA SavesKeep ==
    ASSUME InstInv, NEW w \in Writers, SaveWrites(w) \/ SaveRenames(w)
    PROVE  InstInv'
PROOF
<1> USE InstallationAssumption
    DEF InstTypes, InstWhere, InstLets, InstFresh, InstAlone,
        InstUsed, MayAsk, File, Saves, Writers, Tokens, Configs, NoConfig, NoFile, Torn, Holding,
        LetsIn, Whole, At, Middle, OthersBusy, NoToken, enrolling, history, AfterSave
<1>1. CASE w = "install" /\ SaveWrites(w)
  <2>1. InstTypes'
    BY <1>1, SMTT(20) DEF InstInv, SaveWrites
  <2>2. InstWhere'
    BY <1>1, SMTT(20) DEF InstInv, SaveWrites
  <2>3. InstLets'
    BY <1>1, SMTT(20) DEF InstInv, SaveWrites
  <2>4. InstFresh'
    BY <1>1, SMTT(20) DEF InstInv, SaveWrites
  <2>5. InstAlone'
    BY <1>1, SMTT(20) DEF InstInv, SaveWrites
  <2>6. InstUsed'
    BY <1>1, SMTT(20) DEF InstInv, SaveWrites
  <2> QED
    BY <2>1, <2>2, <2>3, <2>4, <2>5, <2>6 DEF InstInv
<1>2. CASE w = "password" /\ SaveWrites(w)
  <2>1. InstTypes'
    BY <1>2, SMTT(20) DEF InstInv, SaveWrites
  <2>2. InstWhere'
    BY <1>2, SMTT(20) DEF InstInv, SaveWrites
  <2>3. InstLets'
    BY <1>2, SMTT(20) DEF InstInv, SaveWrites
  <2>4. InstFresh'
    BY <1>2, SMTT(20) DEF InstInv, SaveWrites
  <2>5. InstAlone'
    BY <1>2, SMTT(20) DEF InstInv, SaveWrites
  <2>6. InstUsed'
    BY <1>2, SMTT(20) DEF InstInv, SaveWrites
  <2> QED
    BY <2>1, <2>2, <2>3, <2>4, <2>5, <2>6 DEF InstInv
<1>3. CASE w = "agent" /\ SaveWrites(w)
  <2>1. InstTypes'
    BY <1>3, SMTT(20) DEF InstInv, SaveWrites
  <2>2. InstWhere'
    BY <1>3, SMTT(20) DEF InstInv, SaveWrites
  <2>3. InstLets'
    BY <1>3, SMTT(20) DEF InstInv, SaveWrites
  <2>4. InstFresh'
    BY <1>3, SMTT(20) DEF InstInv, SaveWrites
  <2>5. InstAlone'
    BY <1>3, SMTT(20) DEF InstInv, SaveWrites
  <2>6. InstUsed'
    BY <1>3, SMTT(20) DEF InstInv, SaveWrites
  <2> QED
    BY <2>1, <2>2, <2>3, <2>4, <2>5, <2>6 DEF InstInv
<1>4. CASE w = "install" /\ SaveRenames(w)
  <2>1. InstTypes'
    BY <1>4, SMTT(20) DEF InstInv, SaveRenames
  <2>2. InstWhere'
    BY <1>4, SMTT(20) DEF InstInv, SaveRenames
  <2>3. InstLets'
    BY <1>4, SMTT(20) DEF InstInv, SaveRenames
  <2>4. InstFresh'
    BY <1>4, SMTT(20) DEF InstInv, SaveRenames
  <2>5. InstAlone'
    BY <1>4, SMTT(20) DEF InstInv, SaveRenames
  <2>6. InstUsed'
    BY <1>4, SMTT(60) DEF InstInv, SaveRenames
  <2> QED
    BY <2>1, <2>2, <2>3, <2>4, <2>5, <2>6 DEF InstInv
<1>5. CASE w = "password" /\ SaveRenames(w)
  <2>1. InstTypes'
    BY <1>5, SMTT(20) DEF InstInv, SaveRenames
  <2>2. InstWhere'
    BY <1>5, SMTT(20) DEF InstInv, SaveRenames
  <2>3. InstLets'
    BY <1>5, SMTT(20) DEF InstInv, SaveRenames
  <2>4. InstFresh'
    BY <1>5, SMTT(20) DEF InstInv, SaveRenames
  <2>5. InstAlone'
    BY <1>5, SMTT(20) DEF InstInv, SaveRenames
  <2>6. InstUsed'
    BY <1>5, SMTT(20) DEF InstInv, SaveRenames
  <2> QED
    BY <2>1, <2>2, <2>3, <2>4, <2>5, <2>6 DEF InstInv
<1>6. CASE w = "agent" /\ SaveRenames(w)
  <2>1. InstTypes'
    BY <1>6, SMTT(20) DEF InstInv, SaveRenames
  <2>2. InstWhere'
    BY <1>6, SMTT(20) DEF InstInv, SaveRenames
  <2>3. InstLets'
    BY <1>6, SMTT(20) DEF InstInv, SaveRenames
  <2>4. InstFresh'
    BY <1>6, SMTT(20) DEF InstInv, SaveRenames
  <2>5. InstAlone'
    BY <1>6, SMTT(20) DEF InstInv, SaveRenames
  <2>6. InstUsed'
    BY <1>6, SMTT(60) DEF InstInv, SaveRenames
  <2> QED
    BY <2>1, <2>2, <2>3, <2>4, <2>5, <2>6 DEF InstInv
<1> QED
  BY <1>1, <1>2, <1>3, <1>4, <1>5, <1>6 DEF Writers

\* The installer.
LEMMA ConfigureKeeps == ASSUME InstInv, Configure PROVE InstInv'
PROOF
<1> USE InstallationAssumption
    DEF InstTypes, InstWhere, InstLets, InstFresh, InstAlone,
        InstUsed, MayAsk, File, Saves, Writers, Tokens, Configs, NoConfig, NoFile, Torn, Holding,
        LetsIn, Whole, At, Middle, OthersBusy, NoToken, enrolling, history
<1>1. InstTypes'
  BY SMTT(20) DEF InstInv, Configure
<1>2. InstWhere'
  BY SMTT(20) DEF InstInv, Configure
<1>3. InstLets'
  <2>1. PICK token \in {NoToken} \cup ({tokens + 1} \cap Tokens), access \in BOOLEAN, both \in BOOLEAN :
         /\ token = NoToken => access
         /\ both => access /\ token # NoToken
         /\ config' = [config EXCEPT !["install"] =
                         [managed |-> token # NoToken, access |-> access, withGrant |-> both,
                          token |-> token]]
    BY DEF Configure
  <2>2. PICK managed \in BOOLEAN : managed = (token # NoToken)
    BY Zenon
  <2>a. token \in 0..TokenBound
    BY <2>1 DEF InstInv
  <2>3. PICK new \in Configs : new = [managed |-> managed, access |-> access, withGrant |-> both,
                                     token |-> token]
    BY <2>2, <2>a, <2>1
  <2>4. LetsIn(new)
    BY <2>1, <2>2, <2>3
  <2>5. config' = [config EXCEPT !["install"] = new]
    BY <2>1, <2>2, <2>3
  <2> QED
    BY <2>4, <2>5 DEF InstInv, Configure
<1>4. InstFresh'
  BY SMTT(20) DEF InstInv, Configure
<1>5. InstAlone'
  BY SMTT(20) DEF InstInv, Configure
<1>6. InstUsed'
  BY SMTT(20) DEF InstInv, Configure
<1> QED
  BY <1>1, <1>2, <1>3, <1>4, <1>5, <1>6 DEF InstInv

LEMMA EnrollNowKeeps == ASSUME InstInv, EnrollNow PROVE InstInv'
PROOF
<1> USE InstallationAssumption
    DEF InstTypes, InstWhere, InstLets, InstFresh, InstAlone,
        InstUsed, MayAsk, File, Saves, Writers, Tokens, Configs, NoConfig, NoFile, Torn, Holding,
        LetsIn, Whole, At, Middle, OthersBusy, NoToken, enrolling, history
<1>a. PICK token \in Tokens : token = config["install"].token
  <2>1. config["install"] \in Configs /\ doing["install"] = "now"
    BY DEF InstInv, EnrollNow
  <2> QED
    BY <2>1 DEF InstInv
<1>b. PICK d \in {"save", "off"}, c \in Configs :
         /\ doing["install"] = "now" /\ doing' = [doing EXCEPT !["install"] = d]
         /\ config' = [config EXCEPT !["install"] = c] /\ c.token = NoToken
         /\ d = "save" => LetsIn(c)
         /\ \/ d = "save" /\ answered' = answered \cup {token} /\ outages' = outages
            \/ d = "off" /\ answered' = answered /\ outages' = outages + 1
         /\ UNCHANGED <<toml, partial, pending, overlapped, tokens, crashes>>
  <2>1. config["install"] \in Configs /\ LetsIn(config["install"])
    BY DEF InstInv, EnrollNow
  <2>2. PICK c \in Configs : /\ c = [config["install"] EXCEPT !.token = NoToken]
                             /\ c.token = NoToken /\ LetsIn(c)
    BY <2>1, Tokenless, Zenon
  <2>3. [config EXCEPT !["install"].token = NoToken] = [config EXCEPT !["install"] = c]
    BY <2>2 DEF InstInv
  <2>4. NoConfig \in Configs /\ NoConfig.token = NoToken
    OBVIOUS
  <2> QED
    BY <1>a, <2>2, <2>3, <2>4 DEF EnrollNow
<1>c. /\ used' \in [Tokens -> Nat]
      /\ used'[token] \in {used[token], used[token] + 1}
      /\ \A t \in Tokens \ {token} : used'[t] = used[t]
  <2>1. CASE Asked(token)
    BY <2>1, AskedCounts DEF InstInv
  <2>2. CASE UNCHANGED <<serverSays, used>>
    BY <2>2 DEF InstInv
  <2> QED
    BY <1>a, <2>1, <2>2 DEF EnrollNow
<1>1. InstTypes'
  BY <1>a, <1>b, <1>c, SMTT(20) DEF InstInv
<1>2. InstWhere'
  BY <1>a, <1>b, <1>c, SMTT(20) DEF InstInv
<1>3. InstLets'
  BY <1>a, <1>b, <1>c, SMTT(20) DEF InstInv
<1>4. InstFresh'
  BY <1>a, <1>b, <1>c, SMTT(20) DEF InstInv
<1>5. InstAlone'
  BY <1>a, <1>b, <1>c, SMTT(20) DEF InstInv
<1>6. InstUsed'
  <2> SUFFICES ASSUME NEW t \in Tokens, ~overlapped'
               PROVE  /\ used'[t] <= 1 + outages' + crashes'
                      /\ MayAsk(t)' => used'[t] <= outages' + crashes'
    BY DEF InstUsed
  <2>1. MayAsk(token) /\ ~overlapped
    BY <1>a, <1>b DEF MayAsk
  <2>2. /\ used[t] <= 1 + outages + crashes /\ (MayAsk(t) => used[t] <= outages + crashes)
        /\ used[token] <= outages + crashes
    BY <2>1 DEF InstInv, InstUsed
  <2>3. d = "save" => ~MayAsk(token)'
    BY <1>a, <1>b, <2>1, SMTT(20) DEF InstInv
  <2>4. d = "save" /\ MayAsk(t)' /\ t # token => MayAsk(t)
    BY <1>a, <1>b, SMTT(20) DEF InstInv
  <2>5. /\ used[t] \in Nat /\ used[token] \in Nat /\ outages \in Nat /\ crashes \in Nat
        /\ crashes' = crashes /\ used'[t] \in Nat
    BY <1>b, <1>c DEF InstInv, InstTypes
  <2> HIDE DEF MayAsk, Middle, Whole, LetsIn, Configs
  <2>6. CASE t = token
    <3>1. used'[t] <= used[token] + 1
      BY <1>c, <2>5, <2>6
    <3>2. MayAsk(t)' => outages' = outages + 1
      BY <1>b, <2>3, <2>6
    <3>3. outages' \in {outages, outages + 1}
      BY <1>b
    <3> QED
      BY <2>2, <2>5, <2>6, <3>1, <3>2, <3>3
  <2>7. CASE t # token
    <3>1. used'[t] = used[t]
      BY <1>c, <2>7
    <3>2. MayAsk(t)' => MayAsk(t) \/ outages' = outages + 1
      BY <1>b, <2>4, <2>7
    <3>3. outages' \in {outages, outages + 1}
      BY <1>b
    <3> QED
      BY <2>2, <2>5, <2>7, <3>1, <3>2, <3>3
  <2> QED
    BY <2>6, <2>7
<1> QED
  BY <1>1, <1>2, <1>3, <1>4, <1>5, <1>6 DEF InstInv

\* set_password.
LEMMA LoadKeeps == ASSUME InstInv, LoadForPassword PROVE InstInv'
PROOF
<1> USE InstallationAssumption
    DEF InstTypes, InstWhere, InstLets, InstFresh, InstAlone,
        InstUsed, MayAsk, File, Saves, Writers, Tokens, Configs, NoConfig, NoFile, Torn, Holding,
        LetsIn, Whole, At, Middle, OthersBusy, NoToken, enrolling, history
<1>1. InstTypes'
  BY SMTT(20) DEF InstInv, LoadForPassword
<1>2. InstWhere'
  BY SMTT(20) DEF InstInv, LoadForPassword
<1>3. InstLets'
  BY SMTT(20) DEF InstInv, LoadForPassword
<1>4. InstFresh'
  BY SMTT(20) DEF InstInv, LoadForPassword
<1>5. InstAlone'
  BY SMTT(20) DEF InstInv, LoadForPassword
<1>6. InstUsed'
  <2> SUFFICES ASSUME NEW t \in Tokens, ~overlapped', MayAsk(t)' PROVE MayAsk(t)
    BY SMTT(20) DEF InstInv, InstUsed, LoadForPassword
  <2> QED
    BY SMTT(20) DEF InstInv, LoadForPassword
<1> QED
  BY <1>1, <1>2, <1>3, <1>4, <1>5, <1>6 DEF InstInv

LEMMA SetPasswordKeeps == ASSUME InstInv, SetPassword PROVE InstInv'
PROOF
<1> USE InstallationAssumption
    DEF InstTypes, InstWhere, InstLets, InstFresh, InstAlone,
        InstUsed, MayAsk, File, Saves, Writers, Tokens, Configs, NoConfig, NoFile, Torn, Holding,
        LetsIn, Whole, At, Middle, OthersBusy, NoToken, enrolling, history
<1>a. PICK c \in Configs : /\ doing["password"] = "chosen" /\ doing' = [doing EXCEPT !["password"] = "save"]
                           /\ config' = [config EXCEPT !["password"] = c]
                           /\ LetsIn(c) /\ c.token = config["password"].token
                           /\ UNCHANGED <<toml, partial, overlapped, enrolling, history>>
  <2>1. PICK none \in BOOLEAN, both \in {config["password"].withGrant, TRUE, FALSE} :
           /\ none => config["password"].managed
           /\ both /\ both # config["password"].withGrant => config["password"].managed
           /\ config' = [config EXCEPT !["password"] =
                           [config["password"] EXCEPT !.access = ~none,
                                                      !.withGrant = ~none /\ both]]
    BY DEF SetPassword
  <2>2. PICK old \in Configs : old = config["password"] /\ LetsIn(old)
    BY SMTT(20) DEF InstInv, SetPassword
  <2>3. PICK access \in BOOLEAN, withGrant \in BOOLEAN :
            access = ~none /\ withGrant = (~none /\ both)
    BY <2>2, Zenon
  <2>4. PICK c \in Configs : c = [old EXCEPT !.access = access, !.withGrant = withGrant]
    BY <2>2, <2>3
  <2>5. /\ c.access = access /\ c.withGrant = withGrant /\ c.managed = old.managed
        /\ c.token = old.token
    BY <2>2, <2>3, <2>4
  <2>6. LetsIn(c)
    BY <2>1, <2>2, <2>3, <2>5
  <2>7. config' = [config EXCEPT !["password"] = c]
    BY <2>1, <2>2, <2>3, <2>4
  <2> QED
    BY <2>2, <2>5, <2>6, <2>7 DEF SetPassword
<1>1. InstTypes'
  BY <1>a, SMTT(20) DEF InstInv
<1>2. InstWhere'
  BY <1>a, SMTT(20) DEF InstInv
<1>3. InstLets'
  BY <1>a, SMTT(20) DEF InstInv
<1>4. InstFresh'
  BY <1>a, SMTT(20) DEF InstInv
<1>5. InstAlone'
  BY <1>a, SMTT(20) DEF InstInv
<1>6. InstUsed'
  BY <1>a, SMTT(20) DEF InstInv
<1> QED
  BY <1>1, <1>2, <1>3, <1>4, <1>5, <1>6 DEF InstInv

LEMMA PasswordFailsKeeps == ASSUME InstInv, SetPasswordFails PROVE InstInv'
PROOF
<1> USE InstallationAssumption
    DEF InstTypes, InstWhere, InstLets, InstFresh, InstAlone,
        InstUsed, MayAsk, File, Saves, Writers, Tokens, Configs, NoConfig, NoFile, Torn, Holding,
        LetsIn, Whole, At, Middle, OthersBusy, NoToken, enrolling, history
<1>1. InstTypes'
  BY SMTT(20) DEF InstInv, SetPasswordFails
<1>2. InstWhere'
  BY SMTT(20) DEF InstInv, SetPasswordFails
<1>3. InstLets'
  BY SMTT(20) DEF InstInv, SetPasswordFails
<1>4. InstFresh'
  BY SMTT(20) DEF InstInv, SetPasswordFails
<1>5. InstAlone'
  BY SMTT(20) DEF InstInv, SetPasswordFails
<1>6. InstUsed'
  BY SMTT(20) DEF InstInv, SetPasswordFails
<1> QED
  BY <1>1, <1>2, <1>3, <1>4, <1>5, <1>6 DEF InstInv

\* The agent.
LEMMA AgentStartsKeeps == ASSUME InstInv, AgentStarts PROVE InstInv'
PROOF
<1> USE InstallationAssumption
    DEF InstTypes, InstWhere, InstLets, InstFresh, InstAlone,
        InstUsed, MayAsk, File, Saves, Writers, Tokens, Configs, NoConfig, NoFile, Torn, Holding,
        LetsIn, Whole, At, Middle, OthersBusy, NoToken, enrolling, history
<1>1. InstTypes'
  BY SMTT(20) DEF InstInv, AgentStarts
<1>2. InstWhere'
  BY SMTT(20) DEF InstInv, AgentStarts
<1>3. InstLets'
  BY SMTT(20) DEF InstInv, AgentStarts
<1>4. InstFresh'
  BY SMTT(20) DEF InstInv, AgentStarts
<1>5. InstAlone'
  BY SMTT(20) DEF InstInv, AgentStarts
<1>6. InstUsed'
  BY SMTT(20) DEF InstInv, AgentStarts
<1> QED
  BY <1>1, <1>2, <1>3, <1>4, <1>5, <1>6 DEF InstInv

LEMMA WhenPossibleKeeps == ASSUME InstInv, WhenPossible PROVE InstInv'
PROOF
<1> USE InstallationAssumption
    DEF InstTypes, InstWhere, InstLets, InstFresh, InstAlone,
        InstUsed, MayAsk, File, Saves, Writers, Tokens, Configs, NoConfig, NoFile, Torn, Holding,
        LetsIn, Whole, At, Middle, OthersBusy, NoToken, enrolling, history
<1>a. PICK d \in {"ask", "forget"} :
         /\ doing["agent"] = "ask" /\ doing' = [doing EXCEPT !["agent"] = d]
         /\ \/ d = "forget" /\ answered' = answered \cup {pending} /\ outages' = outages
            \/ d = "ask" /\ answered' = answered /\ outages' = outages + 1
         /\ UNCHANGED <<toml, partial, config, pending, overlapped, tokens, crashes>>
  BY DEF WhenPossible, InstInv
<1>b. pending \in Tokens
  BY <1>a DEF InstInv
<1>c. /\ used' \in [Tokens -> Nat]
      /\ used'[pending] \in {used[pending], used[pending] + 1}
      /\ \A t \in Tokens \ {pending} : used'[t] = used[t]
  <2>1. Asked(pending)
    BY DEF WhenPossible
  <2> QED
    BY <1>b, <2>1, AskedCounts DEF InstInv
<1>1. InstTypes'
  BY <1>a, <1>b, <1>c, SMTT(60) DEF InstInv
<1>2. InstWhere'
  BY <1>a, <1>b, <1>c, SMTT(20) DEF InstInv
<1>3. InstLets'
  BY <1>a, <1>b, <1>c, SMTT(20) DEF InstInv
<1>4. InstFresh'
  BY <1>a, <1>b, <1>c, SMTT(20) DEF InstInv
<1>5. InstAlone'
  BY <1>a, <1>b, <1>c, SMTT(20) DEF InstInv
<1>6. InstUsed'
  <2> SUFFICES ASSUME NEW t \in Tokens, ~overlapped'
               PROVE  /\ used'[t] <= 1 + outages' + crashes'
                      /\ MayAsk(t)' => used'[t] <= outages' + crashes'
    BY DEF InstUsed
  <2>1. MayAsk(pending) /\ ~overlapped
    BY <1>a, <1>b DEF MayAsk
  <2>2. /\ used[t] <= 1 + outages + crashes /\ (MayAsk(t) => used[t] <= outages + crashes)
        /\ used[pending] <= outages + crashes
    BY <1>b, <2>1 DEF InstInv, InstUsed
  <2>3. d = "forget" => ~MayAsk(pending)'
    BY <1>a, <1>b, <2>1, SMTT(20) DEF InstInv
  <2>4. d = "forget" /\ MayAsk(t)' /\ t # pending => MayAsk(t)
    BY <1>a, <1>b, SMTT(20) DEF InstInv
  <2>5. /\ used[t] \in Nat /\ used[pending] \in Nat /\ outages \in Nat /\ crashes \in Nat
        /\ crashes' = crashes /\ used'[t] \in Nat
    BY <1>a, <1>b, <1>c DEF InstInv, InstTypes
  <2> HIDE DEF MayAsk, Middle, Whole, LetsIn, Configs
  <2>6. CASE t = pending
    <3>1. used'[t] <= used[pending] + 1
      BY <1>c, <2>5, <2>6
    <3>2. MayAsk(t)' => outages' = outages + 1
      BY <1>a, <2>3, <2>6
    <3>3. outages' \in {outages, outages + 1}
      BY <1>a
    <3> QED
      BY <2>2, <2>5, <2>6, <3>1, <3>2, <3>3
  <2>7. CASE t # pending
    <3>1. used'[t] = used[t]
      BY <1>c, <2>7
    <3>2. MayAsk(t)' => MayAsk(t) \/ outages' = outages + 1
      BY <1>a, <2>4, <2>7
    <3>3. outages' \in {outages, outages + 1}
      BY <1>a
    <3> QED
      BY <2>2, <2>5, <2>7, <3>1, <3>2, <3>3
  <2> QED
    BY <2>6, <2>7
<1> QED
  BY <1>1, <1>2, <1>3, <1>4, <1>5, <1>6 DEF InstInv

LEMMA ForgetKeeps == ASSUME InstInv, ForgetToken PROVE InstInv'
PROOF
<1> USE InstallationAssumption
    DEF InstTypes, InstWhere, InstLets, InstFresh, InstAlone,
        InstUsed, MayAsk, File, Saves, Writers, Tokens, Configs, NoConfig, NoFile, Torn, Holding,
        LetsIn, Whole, At, Middle, OthersBusy, NoToken, enrolling, history
<1>a. /\ doing["agent"] = "forget"
      /\ UNCHANGED <<toml, partial, overlapped, enrolling, history>>
      /\ \/ /\ doing' = [doing EXCEPT !["agent"] = "serving"] /\ config' = config
         \/ /\ doing' = [doing EXCEPT !["agent"] = "save"]
            /\ \E c \in Configs : /\ config' = [config EXCEPT !["agent"] = c]
                                  /\ LetsIn(c) /\ c.token = NoToken
  <2>1. CASE Whole(toml)
    <3>1. PICK old \in Configs : old = toml.holds /\ LetsIn(old)
      BY <2>1 DEF InstInv
    <3>2. PICK c \in Configs : c = [old EXCEPT !.token = NoToken] /\ LetsIn(c) /\ c.token = NoToken
      BY <3>1, Tokenless, Zenon
    <3> QED
      BY <2>1, <3>1, <3>2 DEF ForgetToken
  <2> QED
    BY <2>1 DEF ForgetToken
<1>1. InstTypes'
  BY <1>a, SMTT(20) DEF InstInv
<1>2. InstWhere'
  BY <1>a, SMTT(20) DEF InstInv
<1>3. InstLets'
  BY <1>a, SMTT(20) DEF InstInv
<1>4. InstFresh'
  BY <1>a, SMTT(20) DEF InstInv
<1>5. InstAlone'
  BY <1>a, SMTT(20) DEF InstInv
<1>6. InstUsed'
  <2> SUFFICES ASSUME NEW t \in Tokens, ~overlapped', MayAsk(t)' PROVE MayAsk(t)
    BY <1>a, SMTT(20) DEF InstInv, InstUsed
  <2>1. ~overlapped /\ toml' = toml /\ pending' = pending
    BY <1>a
  <2>2. Whole(toml) /\ doing' = [doing EXCEPT !["agent"] = "save"]
    BY <2>1, SMTT(20) DEF ForgetToken, InstInv
  <2>3. \E c \in Configs : config' = [config EXCEPT !["agent"] = c]
    BY <1>a, <2>2 DEF InstInv
  <2> QED
    BY <2>1, <2>2, <2>3, SMTT(20) DEF InstInv
<1> QED
  BY <1>1, <1>2, <1>3, <1>4, <1>5, <1>6 DEF InstInv

LEMMA StopsKeeps == ASSUME InstInv, AgentStops PROVE InstInv'
PROOF
<1> USE InstallationAssumption
    DEF InstTypes, InstWhere, InstLets, InstFresh, InstAlone,
        InstUsed, MayAsk, File, Saves, Writers, Tokens, Configs, NoConfig, NoFile, Torn, Holding,
        LetsIn, Whole, At, Middle, OthersBusy, NoToken, enrolling, history
<1>1. InstTypes'
  BY SMTT(20) DEF InstInv, AgentStops
<1>2. InstWhere'
  BY SMTT(20) DEF InstInv, AgentStops
<1>3. InstLets'
  BY SMTT(20) DEF InstInv, AgentStops
<1>4. InstFresh'
  BY SMTT(20) DEF InstInv, AgentStops
<1>5. InstAlone'
  BY SMTT(20) DEF InstInv, AgentStops
<1>6. InstUsed'
  BY SMTT(20) DEF InstInv, AgentStops
<1> QED
  BY <1>1, <1>2, <1>3, <1>4, <1>5, <1>6 DEF InstInv

\* The machine.
LEMMA UninstallKeeps == ASSUME InstInv, Uninstall PROVE InstInv'
PROOF
<1> USE InstallationAssumption
    DEF InstTypes, InstWhere, InstLets, InstFresh, InstAlone,
        InstUsed, MayAsk, File, Saves, Writers, Tokens, Configs, NoConfig, NoFile, Torn, Holding,
        LetsIn, Whole, At, Middle, OthersBusy, NoToken, enrolling, history
<1>1. InstTypes'
  BY SMTT(20) DEF InstInv, Uninstall
<1>2. InstWhere'
  BY SMTT(20) DEF InstInv, Uninstall
<1>3. InstLets'
  BY SMTT(20) DEF InstInv, Uninstall
<1>4. InstFresh'
  BY SMTT(20) DEF InstInv, Uninstall
<1>5. InstAlone'
  BY SMTT(20) DEF InstInv, Uninstall
<1>6. InstUsed'
  <2>1. /\ doing["agent"] = "off" /\ toml' = NoFile /\ used' = used /\ outages' = outages
        /\ crashes' = crashes /\ doing' = doing /\ config' = config /\ pending' = pending
    BY DEF Uninstall
  <2>2. overlapped' = (overlapped \/ OthersBusy("agent"))
    BY DEF Uninstall
  <2>3. CASE overlapped'
    BY <2>3
  <2>4. CASE ~overlapped'
    <3>1. ~overlapped /\ ~Middle("install") /\ ~Middle("password")
      BY <2>2, <2>4
    <3>2. ASSUME NEW t \in Tokens PROVE ~MayAsk(t)'
      BY <2>1, <3>1 DEF InstInv
    <3>3. \A t \in Tokens : used[t] <= 1 + outages + crashes
      BY <3>1 DEF InstInv
    <3> HIDE DEF MayAsk, Middle
    <3> QED
      BY <2>1, <3>2, <3>3
  <2> QED
    BY <2>3, <2>4
<1> QED
  BY <1>1, <1>2, <1>3, <1>4, <1>5, <1>6 DEF InstInv

LEMMA CrashKeeps == ASSUME InstInv, Crash PROVE InstInv'
PROOF
<1> USE InstallationAssumption
    DEF InstTypes, InstWhere, InstLets, InstFresh, InstAlone,
        InstUsed, MayAsk, File, Saves, Writers, Tokens, Configs, NoConfig, NoFile, Torn, Holding,
        LetsIn, Whole, At, Middle, OthersBusy, NoToken, enrolling, history
<1>1. InstTypes'
  BY SMTT(20) DEF InstInv, Crash
<1>2. InstWhere'
  BY SMTT(20) DEF InstInv, Crash
<1>3. InstLets'
  BY SMTT(20) DEF InstInv, Crash
<1>4. InstFresh'
  BY SMTT(20) DEF InstInv, Crash
<1>5. InstAlone'
  BY SMTT(20) DEF InstInv, Crash
<1>6. InstUsed'
  BY SMTT(20) DEF InstInv, Crash
<1> QED
  BY <1>1, <1>2, <1>3, <1>4, <1>5, <1>6 DEF InstInv

LEMMA InstStep == InstInv /\ [InstNext]_instVars => InstInv'
PROOF
<1>1. InstInv /\ UNCHANGED instVars => InstInv'
  BY DEF instVars, InstInv, InstTypes, InstWhere, InstLets, InstFresh, InstAlone, InstUsed, MayAsk,
         Middle, Whole
<1> QED
  BY <1>1, SavesKeep, ConfigureKeeps, EnrollNowKeeps, LoadKeeps, SetPasswordKeeps,
     PasswordFailsKeeps, AgentStartsKeeps, WhenPossibleKeeps, ForgetKeeps, StopsKeeps,
     UninstallKeeps, CrashKeeps, Zenon
  DEF InstNext

LEMMA InstInvSafe ==
    InstInv => InstTypeOK /\ SomeoneGetsIn /\ WholeUnlessOverlapped /\ UsedOnce
PROOF
<1> SUFFICES ASSUME InstInv PROVE InstTypeOK /\ SomeoneGetsIn /\ WholeUnlessOverlapped /\ UsedOnce
  OBVIOUS
<1>1. ASSUME NEW f \in File PROVE f.holds \in Configs
  <2>1. NoConfig \in Configs
    BY InstallationAssumption DEF NoConfig, Configs, NoToken
  <2>2. CASE f \in {NoFile, Torn}
    BY <2>1, <2>2 DEF NoFile, Torn
  <2>3. CASE f \in {Holding(c) : c \in Configs}
    BY <2>3 DEF Holding
  <2> QED
    BY <2>2, <2>3 DEF File
<1>2. InstTypeOK
  <2>1. toml.holds \in Configs /\ partial.holds \in Configs
    BY <1>1 DEF InstInv, InstTypes
  <2>2. pending \in 0..TokenBound
    BY InstallationAssumption DEF InstInv, InstTypes
  <2> QED
    BY <2>1, <2>2 DEF InstInv, InstTypes, InstTypeOK
<1>3. SomeoneGetsIn /\ WholeUnlessOverlapped /\ UsedOnce
  BY DEF InstInv, InstLets, InstAlone, InstUsed, SomeoneGetsIn, WholeUnlessOverlapped, UsedOnce
<1> QED
  BY <1>2, <1>3

\* Whatever is saved, interrupted and overlaps, a configuration on disk lets
\* someone in, only an overlap tears it, and a token is counted once more only
\* for an answer lost or a crash (machine.rs: save; setup.rs: configure,
\* set_password; enroll.rs: now, when_possible).
THEOREM InstallationAlwaysSafe ==
    InstSpec => [](InstTypeOK /\ SomeoneGetsIn /\ WholeUnlessOverlapped /\ UsedOnce)
PROOF BY InstStart, InstStep, InstInvSafe, PTL DEF InstSpec

TokenAnswered ==
    /\ Whole(toml) /\ Whole(toml')
    /\ toml.holds.token # NoToken /\ toml'.holds.token # toml.holds.token
    /\ ~overlapped' /\ doing["install"] # "rename"
    => toml.holds.token \in answered

LEMMA TokenStep == InstInv /\ [InstNext]_instVars => [TokenAnswered]_instVars
PROOF
<1> SUFFICES ASSUME InstInv, InstNext, Whole(toml), Whole(toml'),
                    toml.holds.token # NoToken, toml'.holds.token # toml.holds.token,
                    ~overlapped', doing["install"] # "rename"
             PROVE  toml.holds.token \in answered
  BY DEF TokenAnswered
<1>1. toml' # toml /\ toml' # NoFile
  BY DEF Whole, NoFile
<1>2. PICK w \in Writers : SaveRenames(w)
  <2>1. ~\E w \in Writers : SaveWrites(w)
    BY <1>1 DEF SaveWrites
  <2>2. ~(Configure \/ EnrollNow \/ LoadForPassword \/ SetPassword \/ SetPasswordFails)
    BY <1>1 DEF Configure, EnrollNow, LoadForPassword, SetPassword, SetPasswordFails
  <2>3. ~(AgentStarts \/ WhenPossible \/ ForgetToken \/ AgentStops \/ Uninstall \/ Crash)
    BY <1>1 DEF AgentStarts, WhenPossible, ForgetToken, AgentStops, Uninstall, Crash
  <2> QED
    BY <2>1, <2>2, <2>3 DEF InstNext
<1>3. w # "install" /\ ~overlapped /\ ~OthersBusy(w) /\ doing[w] = "rename"
  <2>1. doing[w] = "rename"
    BY <1>2 DEF SaveRenames, At
  <2>2. overlapped' = (overlapped \/ OthersBusy(w))
    BY <1>2 DEF SaveRenames
  <2> QED
    BY <2>1, <2>2, Zenon
<1>4. partial = Holding(config[w]) /\ toml' = partial
  BY <1>1, <1>2, <1>3, SMTT(20) DEF SaveRenames, InstInv, InstAlone
<1>5. toml'.holds.token = config[w].token
  BY <1>4 DEF Holding
<1>6. Middle(w)
  BY <1>3 DEF Middle
<1> QED
  BY <1>3, <1>5, <1>6, SMTT(20) DEF InstInv, InstWhere, InstAlone, Writers, Saves

\* A token leaves the file only once it was answered for or replaced
\* (machine.rs: forget_token; enroll.rs: when_possible).
THEOREM TokenAlwaysWaits == InstSpec => TokenWaits
PROOF BY TokenStep, InstStart, InstStep, PTL DEF InstSpec, TokenWaits, TokenAnswered

---------------------------------------------------------------------------
(* The log file. *)

LogEvents == [id : Nat, len : Nat]

LogTyped ==
    /\ logNow \in Seq(LogEvents) /\ logBefore \in Seq(LogEvents) /\ logged \in Seq(LogEvents)
    /\ logSize \in Nat /\ written \in 0..logSize /\ events \in Nat
    /\ refusals \in Nat /\ stuck \in 0..refusals
    /\ logSize > 0 => logNow # <<>>

\* The two files are the end of what was written.
Placed(now, before, all) ==
    /\ Len(before) + Len(now) <= Len(all)
    /\ \A i \in 1..Len(now) : now[i] = all[Len(all) - Len(now) + i]
    /\ \A i \in 1..Len(before) : before[i] = all[Len(all) - Len(now) - Len(before) + i]
    /\ before = <<>> => Len(now) = Len(all)

LogOrder == Placed(logNow, logBefore, logged)

\* How far the file's own count may fall behind its length.
LogSizes ==
    /\ logSize <= written + stuck * LogLimit
    /\ logSize <= (stuck + 1) * LogLimit

LogInv == LogTyped /\ LogOrder /\ LogSizes

LEMMA LogOpensKeeps == ASSUME LogInv, NEW known \in BOOLEAN, LogOpens(known) PROVE LogInv'
PROOF
<1>1. LogLimit \in Nat
  BY LogAssumption
<1>2. (stuck + 1) * LogLimit = stuck * LogLimit + LogLimit
  BY <1>1 DEF LogInv, LogTyped
<1>3. (stuck + 2) * LogLimit = stuck * LogLimit + LogLimit + LogLimit
  BY <1>1 DEF LogInv, LogTyped
<1>4. stuck * LogLimit \in Nat
  BY <1>1 DEF LogInv, LogTyped
<1>5. CASE known
  BY <1>1, <1>2, <1>4, <1>5 DEF LogInv, LogTyped, LogOrder, LogSizes, LogOpens
<1>6. CASE ~known
  <2>1. stuck' = stuck + 1 /\ stuck' + 1 = stuck + 2
    BY <1>6 DEF LogOpens, LogInv, LogTyped
  <2>2. stuck' * LogLimit = stuck * LogLimit + LogLimit
    BY <1>2, <2>1
  <2>3. (stuck' + 1) * LogLimit = stuck * LogLimit + LogLimit + LogLimit
    BY <1>3, <2>1
  <2> QED
    BY <1>1, <1>2, <1>4, <1>6, <2>1, <2>2, <2>3 DEF LogInv, LogTyped, LogOrder, LogSizes, LogOpens
<1> QED
  BY <1>5, <1>6

\* Sequences with the same elements are the same.
LEMMA SeqEqual ==
    ASSUME NEW S, NEW s \in Seq(S), NEW t \in Seq(S), Len(s) = Len(t),
           \A i \in 1..Len(t) : s[i] = t[i]
    PROVE  s = t
PROOF OBVIOUS

\* An event appended to the file and to the history alike.
LEMMA LogAppends ==
    ASSUME NEW now \in Seq(LogEvents), NEW before \in Seq(LogEvents), NEW all \in Seq(LogEvents),
           NEW e \in LogEvents, Placed(now, before, all)
    PROVE  /\ Append(now, e) \in Seq(LogEvents) /\ Append(all, e) \in Seq(LogEvents)
           /\ Append(now, e) # <<>>
           /\ Placed(Append(now, e), before, Append(all, e))
PROOF
<1>0. Append(now, e) \in Seq(LogEvents) /\ Append(all, e) \in Seq(LogEvents)
  OBVIOUS
<1>1. PICK n \in Seq(LogEvents) : n = Append(now, e)
  BY <1>0, Zenon
<1>2. PICK a \in Seq(LogEvents) : a = Append(all, e)
  BY <1>0, Zenon
<1>3. /\ Len(n) = Len(now) + 1 /\ n[Len(now) + 1] = e
      /\ \A i \in 1..Len(now) : n[i] = now[i]
  BY <1>1
<1>4. /\ Len(a) = Len(all) + 1 /\ a[Len(all) + 1] = e
      /\ \A i \in 1..Len(all) : a[i] = all[i]
  BY <1>2
<1>5. Len(now) \in Nat /\ Len(before) \in Nat /\ Len(all) \in Nat
  OBVIOUS
<1>6. ASSUME NEW i \in 1..Len(n) PROVE n[i] = a[Len(a) - Len(n) + i]
  <2>1. CASE i = Len(now) + 1
    BY <1>3, <1>4, <1>5, <2>1
  <2>2. CASE i \in 1..Len(now)
    <3>1. Len(a) - Len(n) + i = Len(all) - Len(now) + i /\ Len(all) - Len(now) + i \in 1..Len(all)
      BY <1>3, <1>4, <1>5, <2>2 DEF Placed
    <3> QED
      BY <1>3, <1>4, <2>2, <3>1 DEF Placed
  <2>3. i = Len(now) + 1 \/ i \in 1..Len(now)
    BY <1>3, <1>5
  <2> QED
    BY <2>1, <2>2, <2>3
<1>7. ASSUME NEW i \in 1..Len(before)
      PROVE  before[i] = a[Len(a) - Len(n) - Len(before) + i]
  <2>1. /\ Len(a) - Len(n) - Len(before) + i = Len(all) - Len(now) - Len(before) + i
        /\ Len(all) - Len(now) - Len(before) + i \in 1..Len(all)
    BY <1>3, <1>4, <1>5 DEF Placed
  <2> QED
    BY <1>4, <2>1 DEF Placed
<1>8. Placed(n, before, a)
  BY <1>3, <1>4, <1>5, <1>6, <1>7 DEF Placed
<1>9. n # <<>>
  BY <1>3, <1>5
<1> QED
  BY <1>1, <1>2, <1>8, <1>9, Zenon

LEMMA LogWritesKeeps ==
    ASSUME LogInv, NEW len \in EventLens, NEW renamed \in BOOLEAN, NEW opened \in BOOLEAN,
           LogWrites(len, renamed, opened)
    PROVE  LogInv'
PROOF
<1>1. LogLimit \in Nat /\ len \in 1..LogLimit /\ len \in Nat
  BY LogAssumption
<1>2. PICK lim \in Nat : lim = stuck * LogLimit
  BY <1>1 DEF LogInv, LogTyped
<1>3. (stuck + 1) * LogLimit = lim + LogLimit /\ (stuck + 2) * LogLimit = lim + LogLimit + LogLimit
  BY <1>1, <1>2 DEF LogInv, LogTyped
<1>4. PICK e \in LogEvents : e = [id |-> events + 1, len |-> len]
  <2>1. events + 1 \in Nat
    BY DEF LogInv, LogTyped
  <2> QED
    BY <1>1, <2>1 DEF LogEvents
<1> DEFINE full == written > 0 /\ written + len > LogLimit
\* What the two files are before the event is appended.
<1>5. PICK now \in Seq(LogEvents), before \in Seq(LogEvents), size \in Nat, s \in Nat, w \in Nat :
         /\ logNow' = IF opened THEN Append(now, e) ELSE now
         /\ logBefore' = before /\ logSize' = size + (IF opened THEN len ELSE 0) /\ stuck' = s
         /\ written' = w + (IF opened THEN len ELSE 0)
         /\ s <= refusals' /\ w <= size
         /\ \/ ~full /\ now = logNow /\ before = logBefore /\ size = logSize /\ s = stuck /\ w = written
            \/ full /\ now = <<>> /\ before = logNow /\ size = 0 /\ s = 0 /\ w = 0
            \/ /\ full /\ now = logNow /\ before = logBefore /\ size = logSize /\ s = stuck + 1
               /\ w = 0
  <2>1. /\ refusals \in Nat /\ refusals' \in Nat /\ refusals <= refusals'
        /\ (~renamed => refusals + 1 <= refusals')
    BY DEF LogWrites, LogInv, LogTyped
  <2>2. /\ logNow \in Seq(LogEvents) /\ logBefore \in Seq(LogEvents) /\ logSize \in Nat
        /\ stuck \in Nat /\ stuck <= refusals /\ written \in Nat /\ written <= logSize
    BY DEF LogInv, LogTyped
  <2>3. CASE ~full
    <3>1. /\ logNow' = IF opened THEN Append(logNow, e) ELSE logNow
          /\ logBefore' = logBefore /\ logSize' = logSize + (IF opened THEN len ELSE 0)
          /\ stuck' = stuck /\ written' = written + (IF opened THEN len ELSE 0)
      BY <1>4, <2>3 DEF LogWrites
    <3>2. stuck <= refusals'
      BY <2>1, <2>2
    <3> QED
      BY <2>2, <2>3, <3>1, <3>2, Zenon
  <2>4. CASE full /\ renamed
    <3>1. /\ logNow' = IF opened THEN Append(<<>>, e) ELSE <<>>
          /\ logBefore' = logNow /\ logSize' = 0 + (IF opened THEN len ELSE 0)
          /\ stuck' = 0 /\ written' = 0 + (IF opened THEN len ELSE 0)
      BY <1>4, <2>4 DEF LogWrites, TurnOver
    <3>2. <<>> \in Seq(LogEvents) /\ 0 \in Nat /\ 0 <= 0 /\ 0 <= refusals'
      BY <2>1
    <3> QED
      BY <2>2, <2>4, <3>1, <3>2, Zenon
  <2>5. CASE full /\ ~renamed
    <3>1. /\ logNow' = IF opened THEN Append(logNow, e) ELSE logNow
          /\ logBefore' = logBefore /\ logSize' = logSize + (IF opened THEN len ELSE 0)
          /\ stuck' = stuck + 1 /\ written' = 0 + (IF opened THEN len ELSE 0)
      BY <1>4, <2>5 DEF LogWrites, TurnOver
    <3>2. stuck + 1 \in Nat /\ stuck + 1 <= refusals' /\ 0 \in Nat /\ 0 <= logSize
      BY <2>1, <2>2, <2>5
    <3> QED
      BY <2>2, <2>5, <3>1, <3>2, Zenon
  <2> QED
    BY <2>3, <2>4, <2>5
<1>6. Placed(now, before, logged)
  <2>1. CASE now = logNow /\ before = logBefore
    BY <2>1 DEF LogInv, LogOrder
  <2>2. CASE full /\ now = <<>> /\ before = logNow
    <3>1. logNow # <<>>
      BY <2>2 DEF LogInv, LogTyped
    <3>2. Len(logNow) \in Nat /\ Len(logBefore) \in Nat /\ Len(logged) \in Nat /\ Len(now) = 0
      BY <2>2 DEF LogInv, LogTyped
    <3>3. /\ Len(logNow) <= Len(logged)
          /\ \A i \in 1..Len(logNow) : logNow[i] = logged[Len(logged) - Len(logNow) + i]
      BY <3>2 DEF LogInv, LogOrder, Placed
    <3>4. \A i \in 1..Len(now) : FALSE
      BY <3>2
    <3>5. \A i \in 1..Len(before) :
             Len(logged) - Len(now) - Len(before) + i = Len(logged) - Len(logNow) + i
      BY <2>2, <3>2
    <3> QED
      BY <2>2, <3>1, <3>2, <3>3, <3>4, <3>5 DEF Placed
  <2> QED
    BY <1>5, <2>1, <2>2
<1>7. /\ logNow' \in Seq(LogEvents) /\ logBefore' \in Seq(LogEvents) /\ logged' \in Seq(LogEvents)
      /\ Placed(logNow', logBefore', logged') /\ (logSize' > 0 => logNow' # <<>>)
  <2>0. logged' = IF opened THEN Append(logged, e) ELSE logged
    BY <1>4 DEF LogWrites
  <2>1. logged \in Seq(LogEvents)
    BY DEF LogInv, LogTyped
  <2>2. CASE opened
    <3>1. logNow' = Append(now, e) /\ logBefore' = before /\ logged' = Append(logged, e)
      BY <1>5, <2>0, <2>2
    <3> QED
      BY <1>6, <2>1, <3>1, LogAppends, Zenon
  <2>3. CASE ~opened
    <3>1. logNow' = now /\ logBefore' = before /\ logged' = logged /\ logSize' = size
      BY <1>5, <2>0, <2>3
    <3>2. size > 0 => now # <<>>
      BY <1>5 DEF LogInv, LogTyped
    <3> QED
      BY <1>6, <2>1, <3>1, <3>2, Zenon
  <2> QED
    BY <2>2, <2>3
<1>9. size <= w + s * LogLimit /\ size + len <= (s + 1) * LogLimit
  <2>1. /\ written \in Nat /\ logSize \in Nat /\ stuck \in Nat /\ logSize <= written + lim
        /\ logSize <= lim + LogLimit
    BY <1>2, <1>3 DEF LogInv, LogTyped, LogSizes
  <2>2. CASE ~full /\ s = stuck /\ size = logSize /\ w = written
    BY <1>1, <1>2, <1>3, <2>1, <2>2
  <2>3. CASE s = 0 /\ size = 0 /\ w = 0
    BY <1>1, <2>3
  <2>4. CASE s = stuck + 1 /\ size = logSize /\ w = 0
    <3>1. s * LogLimit = lim + LogLimit /\ (s + 1) * LogLimit = lim + LogLimit + LogLimit
      <4>1. s + 1 = stuck + 2
        BY <2>1, <2>4
      <4> QED
        BY <1>3, <2>4, <4>1
    <3> QED
      BY <1>1, <2>1, <2>4, <3>1
  <2> QED
    BY <1>5, <2>2, <2>3, <2>4
<1>10. /\ logSize' \in Nat /\ written' \in 0..logSize' /\ stuck' \in 0..refusals'
       /\ refusals' \in Nat /\ events' \in Nat
  <2>1. refusals' \in Nat /\ events' \in Nat
    <3>1. refusals \in Nat /\ events \in Nat
      BY Zenon DEF LogInv, LogTyped
    <3>2. /\ refusals' = refusals + (IF renamed THEN 0 ELSE 1) + (IF opened THEN 0 ELSE 1)
          /\ events' = events + 1
      BY Zenon DEF LogWrites
    <3> QED
      BY <3>1, <3>2
  <2> QED
    BY <1>1, <1>5, <2>1
<1>11. /\ logSize' <= written' + stuck' * LogLimit /\ logSize' <= (stuck' + 1) * LogLimit
  <2>1. PICK a \in Nat, b \in Nat : a = s * LogLimit /\ b = (s + 1) * LogLimit
    BY <1>1, <1>5
  <2>2. size <= w + a /\ size + len <= b
    BY <1>9, <2>1
  <2>3. logSize' <= written' + a /\ logSize' <= b
    BY <1>1, <1>5, <2>2
  <2> QED
    BY <1>5, <2>1, <2>3
<1> QED
  BY <1>7, <1>10, <1>11 DEF LogInv, LogTyped, LogOrder, Placed, LogSizes

LEMMA LogStart == LogInit => LogInv
PROOF
<1> SUFFICES ASSUME LogInit PROVE LogInv
  OBVIOUS
<1>1. LogLimit \in Nat
  BY LogAssumption
<1> QED
  BY <1>1 DEF LogInit, LogInv, LogTyped, LogOrder, Placed, LogSizes

LEMMA LogStep == LogInv /\ [LogNext]_logVars => LogInv'
PROOF
<1>1. LogInv /\ UNCHANGED logVars => LogInv'
  BY DEF LogInv, LogTyped, LogOrder, LogSizes, logVars
<1> QED
  BY <1>1, LogOpensKeeps, LogWritesKeeps DEF LogNext

LEMMA LogInvSafe == LogInv => LogTypeOK /\ NothingLostBetween /\ SizeBounded
PROOF
<1> SUFFICES ASSUME LogInv PROVE LogTypeOK /\ NothingLostBetween /\ SizeBounded
  OBVIOUS
<1> DEFINE both == logBefore \o logNow
<1>1. /\ both \in Seq(LogEvents) /\ Len(both) = Len(logBefore) + Len(logNow)
      /\ \A i \in 1..Len(logBefore) : both[i] = logBefore[i]
      /\ \A i \in 1..Len(logNow) : both[Len(logBefore) + i] = logNow[i]
  BY DEF LogInv, LogTyped, LogOrder, Placed
<1>2. Len(logBefore) \in Nat /\ Len(logNow) \in Nat /\ Len(logged) \in Nat
  BY DEF LogInv, LogTyped, LogOrder, Placed
<1> HIDE DEF both
<1>3. ASSUME NEW i \in 1..Len(both) PROVE both[i] = logged[Len(logged) - Len(both) + i]
  <2>1. CASE i \in 1..Len(logBefore)
    <3>1. Len(logged) - Len(both) + i = Len(logged) - Len(logNow) - Len(logBefore) + i
      BY <1>1, <1>2
    <3> QED
      BY <1>1, <2>1, <3>1 DEF LogInv, LogTyped, LogOrder, Placed
  <2>2. CASE i \notin 1..Len(logBefore)
    <3>0. i - Len(logBefore) \in 1..Len(logNow) /\ i = Len(logBefore) + (i - Len(logBefore))
      BY <1>1, <1>2, <2>2
    <3>1. PICK j \in 1..Len(logNow) : i = Len(logBefore) + j
      BY <3>0
    <3>2. Len(logged) - Len(both) + i = Len(logged) - Len(logNow) + j
      BY <1>1, <1>2, <3>1
    <3> QED
      BY <1>1, <3>1, <3>2 DEF LogInv, LogTyped, LogOrder, Placed
  <2> QED
    BY <2>1, <2>2
<1>4. EndsWith(logged, both)
  BY <1>1, <1>3 DEF EndsWith, LogInv, LogTyped, LogOrder, Placed
<1>5. ASSUME logBefore = <<>> PROVE both = logged
  <2>1. Len(both) = Len(logged)
    BY <1>1, <1>2, <1>5 DEF LogInv, LogTyped, LogOrder, Placed
  <2>2. \A i \in 1..Len(logged) : both[i] = logged[i]
    BY <1>2, <1>3, <2>1
  <2>3. logged \in Seq(LogEvents)
    BY DEF LogInv, LogTyped
  <2> QED
    BY <1>1, <2>1, <2>2, <2>3, SeqEqual
<1>6. NothingLostBetween
  BY <1>4, <1>5 DEF NothingLostBetween, both
<1> QED
  BY <1>6 DEF LogInv, LogTyped, LogSizes, LogTypeOK, SizeBounded

\* Whatever renames, lengths and opens are refused and wherever the agent is
\* stopped, the two log files are the last of what was written and nothing
\* else, and do not grow (logfile.rs: turn_over, write, open).
THEOREM LogLosesNothing == LogSpec => [](LogTypeOK /\ NothingLostBetween /\ SizeBounded)
PROOF BY LogStart, LogStep, LogInvSafe, PTL DEF LogSpec

---------------------------------------------------------------------------
(* Keys and pointer. *)

KbKeys == Keys \cup {"Enter"}
Events == {e \in [kind : {"down", "up", "text", "char", "move"}, key : KbKeys \cup {""}, x : 0..Top] :
              e.kind \in {"down", "up"} => e.key \in KbKeys}

DownOf(e, k) == e.kind = "down" /\ e.key = k
UpOf(e, k) == e.kind = "up" /\ e.key = k

\* With `keys` down and the events of s applied, k is up before the i-th.
UpBefore(keys, s, i, k) ==
    /\ k \in keys => \E m \in 1..(i - 1) : UpOf(s[m], k)
    /\ \A j \in 1..(i - 1) : DownOf(s[j], k) => \E m \in (j + 1)..(i - 1) : UpOf(s[m], k)

\* Every text meets all keys up; all but K are up in the end.
PlainTexts(keys, s) ==
    \A i \in 1..Len(s) : s[i].kind = "text" => \A k \in KbKeys : UpBefore(keys, s, i, k)
LeavesOnly(keys, s, K) == \A k \in KbKeys \ K : UpBefore(keys, s, Len(s) + 1, k)

\* The last move in s is to pixel p; there is none.
MovesTo(s, p) ==
    \E i \in 1..Len(s) : /\ s[i].kind = "move" /\ s[i].x = Normalise(p)
                         /\ \A j \in (i + 1)..Len(s) : s[j].kind # "move"
NoMove(s) == \A i \in 1..Len(s) : s[i].kind # "move"

KbTypes ==
    /\ channel \in Seq(Events) /\ taking \in [Links -> Seq(Events)]
    /\ held \in [Links -> SUBSET KbKeys] /\ down \subseteq KbKeys
    /\ kept \subseteq pressed /\ pressed \subseteq Keys /\ IsFiniteSet(kept)
    /\ aim \in {NoAim} \cup 0..(Extent - 1) /\ pointer \in 0..(Desk - 1)
    /\ current \in Links \cup {0} /\ lastLink \in Links \cup {0}
    /\ input \in [Links -> {"none", "run", "gone"}]
    /\ holders \in [Links -> SUBSET {"session", "streams"}]
    /\ did \in 0..EventBound

KbBooleans == focused \in BOOLEAN /\ refused \in BOOLEAN

\* The connected session is the last that began and its thread runs; those yet
\* to come hold nothing.
KbLinks ==
    /\ current # 0 => /\ current = lastLink /\ input[current] = "run"
                      /\ holders[current] = {"session", "streams"}
    /\ \A n \in Links : n > lastLink => held[n] = {} /\ taking[n] = <<>> /\ input[n] = "none"

\* What waits leaves down only what the window keeps, for a session to come and,
\* after what it was sent already, for the one connected.
KbLine ==
    /\ ~focused => kept = {}
    /\ PlainTexts({}, channel) /\ LeavesOnly({}, channel, kept)
    /\ \/ refused
       \/ /\ \A n \in Links : PlainTexts(held[n], taking[n])
          /\ current # 0 => /\ PlainTexts(held[current], taking[current] \o channel)
                            /\ LeavesOnly(held[current], taking[current] \o channel, kept)

KbPointer ==
    /\ lastLink = 0 /\ aim # NoAim => MovesTo(channel, aim)
    /\ lastLink = 1 /\ current = 1 /\ aim # NoAim =>
          \/ refused
          \/ MovesTo(taking[1] \o channel, aim)
          \/ NoMove(taking[1] \o channel) /\ pointer = Place + aim

KbInv == KbTypes /\ KbBooleans /\ KbLinks /\ KbLine /\ KbPointer /\ Owned

\* -- Sequences. --

LEMMA Concat ==
    ASSUME NEW S, NEW s \in Seq(S), NEW t \in Seq(S)
    PROVE  /\ s \o t \in Seq(S) /\ Len(s \o t) = Len(s) + Len(t)
           /\ Len(s) \in Nat /\ Len(t) \in Nat
           /\ \A i \in 1..Len(s) : (s \o t)[i] = s[i]
           /\ \A i \in 1..Len(t) : (s \o t)[Len(s) + i] = t[i]
PROOF OBVIOUS

LEMMA ConcatConcat ==
    ASSUME NEW S, NEW s \in Seq(S), NEW t \in Seq(S), NEW u \in Seq(S)
    PROVE  s \o (t \o u) = (s \o t) \o u
PROOF OBVIOUS

LEMMA EventsAssociate == \A a, b, c \in Seq(Events) : a \o (b \o c) = (a \o b) \o c
PROOF BY ConcatConcat, SMTT(30)

LEMMA ConcatEmpty ==
    ASSUME NEW S, NEW s \in Seq(S)
    PROVE  <<>> \in Seq(S) /\ Len(<<>>) = 0 /\ s \o <<>> = s /\ <<>> \o s = s
PROOF OBVIOUS

LEMMA AppendConcat ==
    ASSUME NEW S, NEW s \in Seq(S), NEW e \in S
    PROVE  /\ Append(s, e) = s \o <<e>> /\ <<e>> \in Seq(S) /\ Len(<<e>>) = 1 /\ <<e>>[1] = e
PROOF OBVIOUS

LEMMA TailOf ==
    ASSUME NEW S, NEW s \in Seq(S), s # <<>>
    PROVE  /\ Head(s) = s[1] /\ Head(s) \in S /\ Tail(s) \in Seq(S) /\ Len(s) \in Nat \ {0}
           /\ Len(Tail(s)) = Len(s) - 1
           /\ \A i \in 1..Len(Tail(s)) : Tail(s)[i] = s[i + 1]
PROOF OBVIOUS

LEMMA TailConcat ==
    ASSUME NEW S, NEW s \in Seq(S), NEW t \in Seq(S), s # <<>>
    PROVE  /\ Tail(s) \o t = Tail(s \o t) /\ s \o t # <<>> /\ Head(s \o t) = Head(s)
PROOF OBVIOUS

LEMMA PrefixOf ==
    ASSUME NEW S, NEW s \in Seq(S), NEW n \in 0..Len(s)
    PROVE  /\ SubSeq(s, 1, n) \in Seq(S) /\ Len(SubSeq(s, 1, n)) = n
           /\ \A i \in 1..n : SubSeq(s, 1, n)[i] = s[i]
PROOF OBVIOUS

\* A set as a sequence has just its elements.
LEMMA SetAsSeq ==
    ASSUME NEW S, IsFiniteSet(S)
    PROVE  /\ SetToSeq(S) \in Seq(S) /\ Len(SetToSeq(S)) = Cardinality(S)
           /\ \A x \in S : \E i \in 1..Cardinality(S) : SetToSeq(S)[i] = x
PROOF
<1>0. Cardinality(S) \in Nat
  BY FS_CardinalityType
<1>1. PICK f \in [1..Cardinality(S) -> S] : IsInjective(f)
  BY FS_CardinalityType, Zenon DEF ExistsBijection, Bijection, Injection
<1>2. SetToSeq(S) \in [1..Cardinality(S) -> S] /\ IsInjective(SetToSeq(S))
  BY <1>1, Zenon DEF SetToSeq
<1>3. PICK g \in [1..Cardinality(S) -> S] : g = SetToSeq(S) /\ IsInjective(g)
  BY <1>2, Zenon
<1>4. g \in Injection(1..Cardinality(S), S)
  BY <1>3, Zenon DEF Injection
<1>5. Cardinality(1..Cardinality(S)) = Cardinality(S)
  BY <1>0, FS_Interval
<1>6. g \in Surjection(1..Cardinality(S), S)
  BY <1>4, <1>5, FS_Injection, Zenon
<1>7. g \in Seq(S) /\ Len(g) = Cardinality(S)
  BY <1>0
<1> QED
  BY <1>3, <1>6, <1>7, Zenon DEF Surjection

\* -- What is down after a sequence of events. --

LEMMA UpSame ==
    ASSUME NEW keys, NEW s, NEW t, NEW i \in Nat, NEW k, \A m \in 1..(i - 1) : s[m] = t[m],
           UpBefore(keys, s, i, k)
    PROVE  UpBefore(keys, t, i, k)
PROOF
<1>1. k \in keys => \E m \in 1..(i - 1) : UpOf(t[m], k)
  BY DEF UpBefore
<1>2. ASSUME NEW j \in 1..(i - 1), DownOf(t[j], k)
      PROVE  \E m \in (j + 1)..(i - 1) : UpOf(t[m], k)
  <2>1. PICK m \in (j + 1)..(i - 1) : UpOf(s[m], k)
    BY <1>2 DEF UpBefore
  <2>2. m \in 1..(i - 1)
    OBVIOUS
  <2> QED
    BY <2>1, <2>2
<1> QED
  BY <1>1, <1>2 DEF UpBefore

\* From `keys` down, s leaves at most K; from there on u.
LEMMA UpConcat ==
    ASSUME NEW keys, NEW K, NEW s \in Seq(Events), NEW u \in Seq(Events), NEW i \in 1..(Len(u) + 1),
           NEW k, k \in K \/ UpBefore(keys, s, Len(s) + 1, k), UpBefore(K, u, i, k)
    PROVE  UpBefore(keys, s \o u, Len(s) + i, k)
PROOF
<1>n. PICK n \in Nat, t \in Seq(Events) : n = Len(s) /\ t = s \o u
  BY Concat, Zenon
<1>0. /\ n \in Nat /\ Len(u) \in Nat
      /\ \A m \in 1..n : t[m] = s[m]
      /\ \A m \in 1..Len(u) : t[n + m] = u[m]
  BY <1>n, Concat
<1>1. ASSUME NEW m \in 1..(i - 1), UpOf(u[m], k)
      PROVE  n + m \in 1..((n + i) - 1) /\ n + m \in (n + 1)..((n + i) - 1) /\ UpOf(t[n + m], k)
  <2>1. m \in 1..Len(u) /\ n + m \in 1..((n + i) - 1) /\ n + m \in (n + 1)..((n + i) - 1)
    BY <1>0
  <2> QED
    BY <1>0, <1>1, <2>1
<1>2. ASSUME NEW j \in (n + 1)..((n + i) - 1), DownOf(t[j], k)
      PROVE  \E m \in (j + 1)..((n + i) - 1) : UpOf(t[m], k)
  <2>1. j - n \in 1..(i - 1) /\ j = n + (j - n) /\ j - n \in 1..Len(u)
    BY <1>0
  <2>2. DownOf(u[j - n], k)
    BY <1>0, <1>2, <2>1
  <2>3. PICK m \in ((j - n) + 1)..(i - 1) : UpOf(u[m], k)
    BY <2>1, <2>2 DEF UpBefore
  <2>4. m \in 1..(i - 1) /\ n + m \in (j + 1)..((n + i) - 1)
    BY <1>0, <2>1, SMTT(30)
  <2> QED
    BY <1>1, <2>3, <2>4
<1>3. ASSUME k \in K PROVE UpBefore(keys, t, n + i, k)
  <2>1. PICK m \in 1..(i - 1) : UpOf(u[m], k)
    BY <1>3 DEF UpBefore
  <2>2. \A j \in 1..n : n + m \in (j + 1)..((n + i) - 1)
    BY <1>0
  <2>3. \A j \in 1..((n + i) - 1) : j \in 1..n \/ j \in (n + 1)..((n + i) - 1)
    BY <1>0
  <2>4. \E l \in 1..((n + i) - 1) : UpOf(t[l], k)
    BY <1>1, <2>1
  <2>5. ASSUME NEW j \in 1..((n + i) - 1), DownOf(t[j], k)
        PROVE  \E l \in (j + 1)..((n + i) - 1) : UpOf(t[l], k)
    <3>1. CASE j \in 1..n
      BY <1>1, <2>1, <2>2, <3>1
    <3>2. CASE j \in (n + 1)..((n + i) - 1)
      BY <1>2, <2>5, <3>2
    <3> QED
      BY <2>3, <3>1, <3>2
  <2> QED
    BY <2>4, <2>5, Zenon DEF UpBefore
<1>4. ASSUME UpBefore(keys, s, n + 1, k) PROVE UpBefore(keys, t, n + i, k)
  <2>1. \A m \in 1..n : m \in 1..((n + i) - 1)
    BY <1>0
  <2>2. k \in keys => \E m \in 1..((n + i) - 1) : UpOf(t[m], k)
    <3>1. k \in keys => \E m \in 1..((n + 1) - 1) : UpOf(s[m], k)
      BY <1>4, Zenon DEF UpBefore
    <3>2. (n + 1) - 1 = n
      BY <1>0
    <3> QED
      BY <1>0, <2>1, <3>1, <3>2
  <2>3. ASSUME NEW j \in 1..n, DownOf(t[j], k)
        PROVE  \E m \in (j + 1)..((n + i) - 1) : UpOf(t[m], k)
    <3>1. j \in 1..((n + 1) - 1) /\ (n + 1) - 1 = n
      BY <1>0
    <3>2. DownOf(s[j], k)
      BY <1>0, <2>3
    <3>3. PICK m \in (j + 1)..n : UpOf(s[m], k)
      BY <1>4, <3>1, <3>2 DEF UpBefore
    <3>4. m \in 1..n /\ m \in (j + 1)..((n + i) - 1)
      BY <1>0
    <3> QED
      BY <1>0, <3>3, <3>4
  <2>4. \A j \in 1..((n + i) - 1) : j \in 1..n \/ j \in (n + 1)..((n + i) - 1)
    BY <1>0
  <2>5. ASSUME NEW j \in 1..((n + i) - 1), DownOf(t[j], k)
        PROVE  \E l \in (j + 1)..((n + i) - 1) : UpOf(t[l], k)
    BY <1>2, <2>3, <2>4, <2>5, Zenon
  <2> QED
    BY <2>2, <2>5, Zenon DEF UpBefore
<1> QED
  BY <1>n, <1>3, <1>4, Zenon

LEMMA LinesJoin ==
    ASSUME NEW keys, NEW K, NEW L, NEW s \in Seq(Events), NEW u \in Seq(Events),
           PlainTexts(keys, s), LeavesOnly(keys, s, K), PlainTexts(K, u), LeavesOnly(K, u, L)
    PROVE  PlainTexts(keys, s \o u) /\ LeavesOnly(keys, s \o u, L)
PROOF
<1>0. /\ Len(s) \in Nat /\ Len(u) \in Nat /\ Len(s \o u) = Len(s) + Len(u)
      /\ \A m \in 1..Len(s) : (s \o u)[m] = s[m]
      /\ \A m \in 1..Len(u) : (s \o u)[Len(s) + m] = u[m]
  BY Concat
<1>1. \A k \in KbKeys : k \in K \/ UpBefore(keys, s, Len(s) + 1, k)
  BY DEF LeavesOnly
<1>2. ASSUME NEW i \in 1..Len(s \o u), (s \o u)[i].kind = "text", NEW k \in KbKeys
      PROVE  UpBefore(keys, s \o u, i, k)
  <2>1. CASE i \in 1..Len(s)
    <3>1. UpBefore(keys, s, i, k)
      BY <1>0, <1>2, <2>1 DEF PlainTexts
    <3>2. \A m \in 1..(i - 1) : s[m] = (s \o u)[m]
      BY <1>0, <2>1
    <3>3. i \in Nat
      BY <2>1
    <3> QED
      BY <3>1, <3>2, <3>3, UpSame, Zenon
  <2>2. CASE i \notin 1..Len(s)
    <3>1. i - Len(s) \in 1..Len(u) /\ i = Len(s) + (i - Len(s)) /\ i - Len(s) \in 1..(Len(u) + 1)
      BY <1>0, <2>2
    <3>2. UpBefore(K, u, i - Len(s), k)
      BY <1>0, <1>2, <3>1 DEF PlainTexts
    <3>3. UpBefore(keys, s \o u, Len(s) + (i - Len(s)), k)
      BY <1>1, <3>1, <3>2, UpConcat
    <3> QED
      BY <3>1, <3>3
  <2> QED
    BY <2>1, <2>2
<1>3. ASSUME NEW k \in KbKeys \ L PROVE UpBefore(keys, s \o u, Len(s \o u) + 1, k)
  <2>1. UpBefore(K, u, Len(u) + 1, k) /\ Len(u) + 1 \in 1..(Len(u) + 1)
    BY <1>0 DEF LeavesOnly
  <2>2. UpBefore(keys, s \o u, Len(s) + (Len(u) + 1), k)
    BY <1>1, <2>1, UpConcat
  <2>3. Len(s) + (Len(u) + 1) = Len(s \o u) + 1
    BY <1>0
  <2> QED
    BY <2>2, <2>3
<1> QED
  BY <1>2, <1>3 DEF PlainTexts, LeavesOnly

\* What is left once the first event was applied.
LEMMA UpTail ==
    ASSUME NEW keys, NEW s \in Seq(Events), s # <<>>, NEW i \in 1..Len(s), NEW k,
           UpBefore(keys, s, i + 1, k)
    PROVE  UpBefore(Held(keys, Head(s)), Tail(s), i, k)
PROOF
<1> DEFINE h == Head(s)
           t == Tail(s)
<1>0. /\ h = s[1] /\ Len(s) \in Nat \ {0} /\ Len(t) = Len(s) - 1
      /\ \A m \in 1..Len(t) : t[m] = s[m + 1]
  BY TailOf
<1> HIDE DEF h, t
<1>1. ASSUME NEW m \in 2..i, UpOf(s[m], k)
      PROVE  m - 1 \in 1..(i - 1) /\ UpOf(t[m - 1], k)
  <2>1. m - 1 \in 1..Len(t) /\ (m - 1) + 1 = m /\ m - 1 \in 1..(i - 1)
    BY <1>0
  <2> QED
    BY <1>0, <1>1, <2>1
<1>2. /\ k \in keys => \E m \in 1..i : UpOf(s[m], k)
      /\ \A j \in 1..i : DownOf(s[j], k) => \E m \in (j + 1)..i : UpOf(s[m], k)
  <2>1. (i + 1) - 1 = i
    OBVIOUS
  <2> QED
    BY <2>1 DEF UpBefore
<1>3. ASSUME k \in Held(keys, h) PROVE \E m \in 1..(i - 1) : UpOf(t[m], k)
  <2>1. CASE DownOf(h, k)
    <3>1. 1 \in 1..i /\ DownOf(s[1], k)
      BY <1>0, <2>1
    <3>2. PICK m \in (1 + 1)..i : UpOf(s[m], k)
      BY <1>2, <3>1
    <3>3. m \in 2..i
      OBVIOUS
    <3> QED
      BY <1>1, <3>2, <3>3
  <2>2. CASE ~DownOf(h, k)
    <3>1. k \in keys /\ ~UpOf(h, k)
      BY <1>3, <2>2 DEF Held, DownOf, UpOf
    <3>2. PICK m \in 1..i : UpOf(s[m], k)
      BY <1>2, <3>1
    <3>3. m # 1
      BY <1>0, <3>1, <3>2
    <3>4. m \in 2..i
      BY <3>3
    <3> QED
      BY <1>1, <3>2, <3>4
  <2> QED
    BY <2>1, <2>2
<1>4. ASSUME NEW j \in 1..(i - 1), DownOf(t[j], k)
      PROVE  \E m \in (j + 1)..(i - 1) : UpOf(t[m], k)
  <2>1. j \in 1..Len(t) /\ j + 1 \in 1..i
    BY <1>0
  <2>2. DownOf(s[j + 1], k)
    BY <1>0, <1>4, <2>1
  <2>3. PICK m \in ((j + 1) + 1)..i : UpOf(s[m], k)
    BY <1>2, <2>1, <2>2
  <2>4. m \in 2..i /\ m - 1 \in (j + 1)..(i - 1)
    OBVIOUS
  <2> QED
    BY <1>1, <2>3, <2>4
<1> QED
  BY <1>3, <1>4 DEF UpBefore, h, t

LEMMA LineTail ==
    ASSUME NEW keys, NEW s \in Seq(Events), s # <<>>, PlainTexts(keys, s)
    PROVE  /\ PlainTexts(Held(keys, Head(s)), Tail(s))
           /\ \A K : LeavesOnly(keys, s, K) => LeavesOnly(Held(keys, Head(s)), Tail(s), K)
PROOF
<1>0. /\ Len(s) \in Nat \ {0} /\ Len(Tail(s)) = Len(s) - 1
      /\ \A m \in 1..Len(Tail(s)) : Tail(s)[m] = s[m + 1]
  BY TailOf
<1>1. ASSUME NEW i \in 1..Len(Tail(s)), Tail(s)[i].kind = "text", NEW k \in KbKeys
      PROVE  UpBefore(Held(keys, Head(s)), Tail(s), i, k)
  <2>1. i + 1 \in 1..Len(s) /\ i \in 1..Len(s)
    BY <1>0
  <2>2. UpBefore(keys, s, i + 1, k)
    BY <1>0, <1>1, <2>1 DEF PlainTexts
  <2> QED
    BY <2>1, <2>2, UpTail
<1>2. ASSUME NEW K, LeavesOnly(keys, s, K), NEW k \in KbKeys \ K
      PROVE  UpBefore(Held(keys, Head(s)), Tail(s), Len(Tail(s)) + 1, k)
  <2>1. Len(s) \in 1..Len(s) /\ UpBefore(keys, s, Len(s) + 1, k) /\ Len(Tail(s)) + 1 = Len(s)
    BY <1>0, <1>2 DEF LeavesOnly
  <2>2. UpBefore(Held(keys, Head(s)), Tail(s), Len(s), k)
    BY <2>1, UpTail
  <2> QED
    BY <2>1, <2>2
<1> QED
  BY <1>1, <1>2 DEF PlainTexts, LeavesOnly

\* -- Coalescing. --

\* c is s without some of its moves, never the last.
Thinned(s, c) ==
    \E f \in [1..Len(c) -> 1..Len(s)] :
        /\ \A i, j \in 1..Len(c) : i < j => f[i] < f[j]
        /\ \A j \in 1..Len(c) : c[j] = s[f[j]]
        /\ \A i \in 1..Len(s) :
              (s[i].kind # "move" \/ \A l \in (i + 1)..Len(s) : s[l].kind # "move")
              => \E j \in 1..Len(c) : f[j] = i

\* The members of a set of numbers in their order.
LEMMA InOrder ==
    ASSUME NEW n \in Nat, NEW left \in SUBSET (1..n)
    PROVE  LET nth(j) == CHOOSE i \in left : Cardinality({m \in left : m <= i}) = j
               size == Cardinality(left)
           IN  /\ size \in Nat
               /\ \A j \in 1..size : nth(j) \in left
               /\ \A j, l \in 1..size : j < l => nth(j) < nth(l)
               /\ \A i \in left : \E j \in 1..size : nth(j) = i
PROOF
<1> DEFINE upTo(i) == {m \in left : m <= i}
           rank == [i \in left |-> Cardinality(upTo(i))]
           size == Cardinality(left)
           nth(j) == CHOOSE i \in left : Cardinality(upTo(i)) = j
<1>0. \A i \in left : i \in Nat
  OBVIOUS
<1>1. IsFiniteSet(left) /\ size \in Nat
  <2>1. IsFiniteSet(1..n)
    BY FS_Interval
  <2> QED
    BY <2>1, FS_Subset, FS_CardinalityType
<1>2. \A i \in left : IsFiniteSet(upTo(i)) /\ Cardinality(upTo(i)) \in 1..size
  <2> SUFFICES ASSUME NEW i \in left PROVE IsFiniteSet(upTo(i)) /\ Cardinality(upTo(i)) \in 1..size
    OBVIOUS
  <2>1. upTo(i) \in SUBSET left /\ i \in upTo(i)
    OBVIOUS
  <2>2. IsFiniteSet(upTo(i)) /\ Cardinality(upTo(i)) <= size
    BY <1>1, <2>1, FS_Subset
  <2>3. Cardinality(upTo(i)) \in Nat
    BY <2>2, FS_CardinalityType
  <2>4. Cardinality(upTo(i)) # 0
    BY <2>1, <2>2, FS_EmptySet
  <2> HIDE DEF upTo, size
  <2> QED
    BY <1>1, <2>2, <2>3, <2>4
<1>3. \A i, j \in left : i < j => Cardinality(upTo(i)) < Cardinality(upTo(j))
  <2> SUFFICES ASSUME NEW i \in left, NEW j \in left, i < j
               PROVE  Cardinality(upTo(i)) < Cardinality(upTo(j))
    OBVIOUS
  <2>0. (\A m \in left : m <= i => m <= j) /\ j <= j /\ ~(j <= i)
    BY <1>0
  <2>1. upTo(i) \in SUBSET upTo(j) /\ j \in upTo(j) /\ j \notin upTo(i)
    BY <2>0, Zenon
  <2>2. /\ Cardinality(upTo(i)) <= Cardinality(upTo(j))
        /\ Cardinality(upTo(j)) = Cardinality(upTo(i)) => upTo(j) = upTo(i)
    BY <1>2, <2>1, FS_Subset, Zenon
  <2>3. Cardinality(upTo(i)) # Cardinality(upTo(j))
    BY <2>1, <2>2
  <2>4. Cardinality(upTo(i)) \in Nat /\ Cardinality(upTo(j)) \in Nat
    BY <1>1, <1>2
  <2> HIDE DEF upTo
  <2> QED
    BY <2>2, <2>3, <2>4
<1> HIDE DEF upTo, size
<1>4. rank \in Injection(left, 1..size)
  <2>1. rank \in [left -> 1..size]
    BY <1>2
  <2>2. ASSUME NEW i \in left, NEW j \in left, rank[i] = rank[j] PROVE i = j
    <3>1. i \in Nat /\ j \in Nat /\ rank[i] \in Nat /\ rank[j] \in Nat
      BY <1>1, <2>1
    <3>2. ~(i < j) /\ ~(j < i)
      BY <1>3, <2>2, <3>1
    <3> QED
      BY <3>1, <3>2
  <2> QED
    BY <2>1, <2>2 DEF Injection, IsInjective
<1>5. rank \in Surjection(left, 1..size)
  <2>1. IsFiniteSet(1..size) /\ Cardinality(1..size) = size
    BY <1>1, FS_Interval
  <2> QED
    BY <1>4, <2>1, FS_Injection, Zenon DEF size
<1>6. \A j \in 1..size : nth(j) \in left /\ Cardinality(upTo(nth(j))) = j
  <2> SUFFICES ASSUME NEW j \in 1..size PROVE nth(j) \in left /\ Cardinality(upTo(nth(j))) = j
    OBVIOUS
  <2>1. \E i \in left : Cardinality(upTo(i)) = j
    BY <1>5 DEF Surjection
  <2> QED
    BY <2>1, Zenon
<1> HIDE DEF nth
<1>7. \A j, l \in 1..size : j < l => nth(j) < nth(l)
  <2> SUFFICES ASSUME NEW j \in 1..size, NEW l \in 1..size, j < l PROVE nth(j) < nth(l)
    OBVIOUS
  <2>1. nth(j) \in left /\ nth(l) \in left /\ nth(j) \in Nat /\ nth(l) \in Nat
    BY <1>0, <1>6
  <2>2. Cardinality(upTo(nth(j))) = j /\ Cardinality(upTo(nth(l))) = l
    BY <1>6
  <2>3. nth(l) < nth(j) => l < j
    BY <1>3, <2>1, <2>2
  <2>4. nth(l) # nth(j)
    BY <1>1, <2>2
  <2> QED
    BY <1>1, <2>1, <2>3, <2>4
<1>8. \A i \in left : \E j \in 1..size : nth(j) = i
  <2> SUFFICES ASSUME NEW i \in left PROVE \E j \in 1..size : nth(j) = i
    OBVIOUS
  <2>1. PICK j \in 1..size : j = Cardinality(upTo(i))
    BY <1>2
  <2>2. nth(j) \in left /\ Cardinality(upTo(nth(j))) = Cardinality(upTo(i))
    BY <1>6, <2>1
  <2>a. Cardinality(upTo(i)) \in Nat
    BY <1>1, <1>2
  <2>3. nth(j) \in Nat /\ i \in Nat /\ Cardinality(upTo(i)) \in Nat
    BY <1>0, <2>2, <2>a, Zenon
  <2>4. ~(nth(j) < i) /\ ~(i < nth(j))
    BY <1>3, <2>2, <2>3
  <2> QED
    BY <2>3, <2>4
<1> QED
  BY <1>1, <1>6, <1>7, <1>8, Zenon DEF nth, upTo, size

LEMMA CoalescedThins ==
    ASSUME NEW b \in Seq(Events)
    PROVE  Coalesced(b) \in Seq(Events) /\ Thinned(b, Coalesced(b))
PROOF
<1> DEFINE left == {i \in 1..Len(b) : ~Superseded(b, i)}
           nth(j) == CHOOSE i \in left : Cardinality({m \in left : m <= i}) = j
           size == Cardinality(left)
<1>1. Len(b) \in Nat /\ left \in SUBSET (1..Len(b)) /\ (\A i \in 1..Len(b) : b[i] \in Events)
  OBVIOUS
<1>2. /\ size \in Nat
      /\ \A j \in 1..size : nth(j) \in left
      /\ \A j, l \in 1..size : j < l => nth(j) < nth(l)
      /\ \A i \in left : \E j \in 1..size : nth(j) = i
  BY <1>1, InOrder, Zenon
<1>3. Coalesced(b) = [j \in 1..size |-> b[nth(j)]]
  BY Zenon DEF Coalesced
<1>a. \A i \in 1..Len(b) :
         (b[i].kind # "move" \/ \A l \in (i + 1)..Len(b) : b[l].kind # "move") => i \in left
  <2> SUFFICES ASSUME NEW i \in 1..Len(b), Superseded(b, i)
               PROVE  b[i].kind = "move" /\ \E l \in (i + 1)..Len(b) : b[l].kind = "move"
    OBVIOUS
  <2>1. i + 1 \in (i + 1)..Len(b)
    BY <1>1 DEF Superseded
  <2> QED
    BY <2>1 DEF Superseded
<1> HIDE DEF nth, size, left
<1>4. PICK c \in Seq(Events) : c = Coalesced(b) /\ Len(c) = size
  <2>1. Coalesced(b) \in [1..size -> Events]
    BY <1>1, <1>2, <1>3
  <2>2. \A c \in [1..size -> Events] : c \in Seq(Events) /\ Len(c) = size
    BY <1>2
  <2> QED
    BY <2>1, <2>2, Zenon
<1>5. \A j \in 1..Len(c) : c[j] = b[nth(j)]
  BY <1>3, <1>4
<1>6. PICK f \in [1..Len(c) -> 1..Len(b)] : \A j \in 1..Len(c) : f[j] = nth(j)
  <2>1. [j \in 1..Len(c) |-> nth(j)] \in [1..Len(c) -> 1..Len(b)]
    BY <1>1, <1>2, <1>4
  <2> QED
    BY <2>1, Zenon
<1>7. /\ \A i, j \in 1..Len(c) : i < j => f[i] < f[j]
      /\ \A j \in 1..Len(c) : c[j] = b[f[j]]
      /\ \A i \in left : \E j \in 1..Len(c) : f[j] = i
  BY <1>2, <1>4, <1>5, <1>6
<1>8. Thinned(b, c)
  BY <1>7, <1>a, Zenon DEF Thinned
<1> QED
  BY <1>4, <1>8

\* And so is anything in front of it with it.
LEMMA ThinnedAfter ==
    ASSUME NEW t \in Seq(Events), NEW s \in Seq(Events), NEW c \in Seq(Events), Thinned(s, c)
    PROVE  Thinned(t \o s, t \o c)
PROOF
<1>1. PICK f \in [1..Len(c) -> 1..Len(s)] :
        /\ \A i, j \in 1..Len(c) : i < j => f[i] < f[j]
        /\ \A j \in 1..Len(c) : c[j] = s[f[j]]
        /\ \A i \in 1..Len(s) :
              (s[i].kind # "move" \/ \A l \in (i + 1)..Len(s) : s[l].kind # "move")
              => \E j \in 1..Len(c) : f[j] = i
  BY DEF Thinned
<1>2. PICK n \in Nat, a \in Seq(Events), b \in Seq(Events) : n = Len(t) /\ a = t \o s /\ b = t \o c
  BY Concat, Zenon
<1>3. /\ Len(s) \in Nat /\ Len(c) \in Nat /\ Len(a) = n + Len(s) /\ Len(b) = n + Len(c)
      /\ \A i \in 1..n : a[i] = t[i] /\ b[i] = t[i]
      /\ \A i \in 1..Len(s) : a[n + i] = s[i]
      /\ \A i \in 1..Len(c) : b[n + i] = c[i]
  BY <1>2, Concat
<1> DEFINE g == [j \in 1..Len(b) |-> IF j <= n THEN j ELSE n + f[j - n]]
<1>4. \A j \in 1..Len(b) : j <= n \/ (j - n \in 1..Len(c) /\ j = n + (j - n))
  BY <1>3
<1>5. ASSUME NEW j \in 1..Len(b)
      PROVE  g[j] \in 1..Len(a) /\ b[j] = a[g[j]] /\ (j <= n => g[j] = j)
                /\ (~(j <= n) => g[j] = n + f[j - n])
  <2>1. CASE j <= n
    BY <1>3, <2>1
  <2>2. CASE ~(j <= n)
    <3>1. j - n \in 1..Len(c) /\ j = n + (j - n)
      BY <1>4, <2>2
    <3>2. g[j] = n + f[j - n] /\ f[j - n] \in 1..Len(s)
      BY <1>1, <2>2, <3>1
    <3>3. b[j] = c[j - n] /\ c[j - n] = s[f[j - n]] /\ a[n + f[j - n]] = s[f[j - n]]
      BY <1>1, <1>3, <3>1, <3>2
    <3>4. n + f[j - n] \in 1..Len(a)
      BY <1>3, <3>2, SMTT(30)
    <3> QED
      BY <2>2, <3>2, <3>3, <3>4
  <2> QED
    BY <2>1, <2>2
<1>6. g \in [1..Len(b) -> 1..Len(a)]
  BY <1>5
<1> HIDE DEF g
<1>7. ASSUME NEW i \in 1..Len(b), NEW j \in 1..Len(b), i < j PROVE g[i] < g[j]
  <2>1. CASE j <= n
    BY <1>3, <1>5, <1>7, <2>1
  <2>2. CASE i <= n /\ ~(j <= n)
    <3>1. f[j - n] \in 1..Len(s)
      BY <1>1, <1>4, <2>2
    <3> QED
      BY <1>3, <1>5, <2>2, <3>1
  <2>3. CASE ~(i <= n) /\ ~(j <= n)
    <3>1. i - n \in 1..Len(c) /\ j - n \in 1..Len(c) /\ i - n < j - n
      BY <1>3, <1>4, <1>7, <2>3
    <3>2. f[i - n] < f[j - n]
      BY <1>1, <3>1
    <3>3. f[i - n] \in 1..Len(s) /\ f[j - n] \in 1..Len(s)
      BY <3>1
    <3> QED
      BY <1>3, <1>5, <2>3, <3>2, <3>3
  <2> QED
    BY <1>3, <1>7, <2>1, <2>2, <2>3
<1>8. ASSUME NEW i \in 1..Len(a),
             a[i].kind # "move" \/ \A l \in (i + 1)..Len(a) : a[l].kind # "move"
      PROVE  \E j \in 1..Len(b) : g[j] = i
  <2>1. CASE i <= n
    <3>1. i \in 1..Len(b)
      BY <1>3, <2>1
    <3> QED
      BY <1>5, <2>1, <3>1
  <2>2. CASE ~(i <= n)
    <3>1. i - n \in 1..Len(s) /\ i = n + (i - n)
      BY <1>3, <2>2
    <3>2. a[i] = s[i - n]
      BY <1>3, <3>1
    <3>3. ASSUME NEW l \in ((i - n) + 1)..Len(s), \A m \in (i + 1)..Len(a) : a[m].kind # "move"
          PROVE  s[l].kind # "move"
      <4>1. n + l \in (i + 1)..Len(a) /\ l \in 1..Len(s)
        BY <1>3, <3>1
      <4> QED
        BY <1>3, <3>3, <4>1
    <3>4. PICK j \in 1..Len(c) : f[j] = i - n
      BY <1>1, <1>8, <3>1, <3>2, <3>3
    <3>5. n + j \in 1..Len(b) /\ ~(n + j <= n) /\ (n + j) - n = j
      BY <1>3
    <3>6. g[n + j] = i
      BY <1>5, <3>1, <3>4, <3>5
    <3> QED
      BY <3>5, <3>6
  <2> QED
    BY <2>1, <2>2
<1>9. Thinned(a, b)
  BY <1>5, <1>6, <1>7, <1>8, Zenon DEF Thinned
<1> QED
  BY <1>2, <1>9

\* What is down is the same without the moves left out, and so is where the
\* last move goes.
LEMMA ThinnedSame ==
    ASSUME NEW s \in Seq(Events), NEW c \in Seq(Events), Thinned(s, c)
    PROVE  /\ \A keys : PlainTexts(keys, s) => PlainTexts(keys, c)
           /\ \A keys, K : LeavesOnly(keys, s, K) => LeavesOnly(keys, c, K)
           /\ \A p : MovesTo(s, p) => MovesTo(c, p)
           /\ NoMove(s) => NoMove(c)
PROOF
<1>1. PICK f \in [1..Len(c) -> 1..Len(s)] :
        /\ \A i, j \in 1..Len(c) : i < j => f[i] < f[j]
        /\ \A j \in 1..Len(c) : c[j] = s[f[j]]
        /\ \A i \in 1..Len(s) :
              (s[i].kind # "move" \/ \A l \in (i + 1)..Len(s) : s[l].kind # "move")
              => \E j \in 1..Len(c) : f[j] = i
  BY DEF Thinned
<1>2. Len(s) \in Nat /\ Len(c) \in Nat
  OBVIOUS
<1>3. \A j \in 1..Len(c) : f[j] \in 1..Len(s) /\ f[j] \in Nat
  BY <1>1, <1>2
<1>4. \A i, j \in 1..Len(c) : f[i] < f[j] => i < j
  <2> SUFFICES ASSUME NEW i \in 1..Len(c), NEW j \in 1..Len(c), f[i] < f[j], ~(i < j) PROVE FALSE
    OBVIOUS
  <2>1. j < i \/ i = j
    BY <1>2
  <2> QED
    BY <1>1, <1>3, <2>1
<1>5. \A k : \A i \in 1..Len(s) : UpOf(s[i], k) => \E j \in 1..Len(c) : f[j] = i /\ UpOf(c[j], k)
  <2> SUFFICES ASSUME NEW k, NEW i \in 1..Len(s), UpOf(s[i], k)
               PROVE  \E j \in 1..Len(c) : f[j] = i /\ UpOf(c[j], k)
    OBVIOUS
  <2>1. s[i].kind # "move"
    BY DEF UpOf
  <2>2. PICK j \in 1..Len(c) : f[j] = i
    BY <1>1, <2>1
  <2>3. c[j] = s[i]
    BY <1>1, <2>2
  <2> QED
    BY <2>2, <2>3
<1>6. ASSUME NEW keys, NEW k, NEW p \in 1..(Len(s) + 1), NEW i \in 1..(Len(c) + 1),
             UpBefore(keys, s, p, k), \A j \in 1..Len(c) : j < i <=> f[j] < p
      PROVE  UpBefore(keys, c, i, k)
  <2>1. \A m \in 1..(p - 1) : m \in 1..Len(s) /\ m < p
    BY <1>2
  <2>2. \A j \in 1..(i - 1) : j \in 1..Len(c) /\ j < i
    BY <1>2
  <2>3. \A j \in 1..Len(c) : j < i => j \in 1..(i - 1)
    BY <1>2
  <2>4. \A j \in 1..(i - 1) : f[j] \in 1..(p - 1)
    BY <1>2, <1>3, <1>6, <2>2
  <2>5. k \in keys => \E m \in 1..(i - 1) : UpOf(c[m], k)
    <3> SUFFICES ASSUME k \in keys PROVE \E m \in 1..(i - 1) : UpOf(c[m], k)
      OBVIOUS
    <3>1. PICK m \in 1..(p - 1) : UpOf(s[m], k)
      BY <1>6 DEF UpBefore
    <3>2. PICK j \in 1..Len(c) : f[j] = m /\ UpOf(c[j], k)
      BY <1>5, <2>1, <3>1
    <3> QED
      BY <1>6, <2>1, <2>3, <3>2
  <2>6. ASSUME NEW j \in 1..(i - 1), DownOf(c[j], k)
        PROVE  \E m \in (j + 1)..(i - 1) : UpOf(c[m], k)
    <3>1. DownOf(s[f[j]], k) /\ f[j] \in 1..(p - 1) /\ j \in 1..Len(c)
      BY <1>1, <2>2, <2>4, <2>6
    <3>2. PICK m \in (f[j] + 1)..(p - 1) : UpOf(s[m], k)
      BY <1>6, <3>1 DEF UpBefore
    <3>3. m \in 1..(p - 1) /\ f[j] < m
      BY <3>1
    <3>4. PICK l \in 1..Len(c) : f[l] = m /\ UpOf(c[l], k)
      BY <1>5, <2>1, <3>2, <3>3
    <3>5. j < l /\ l < i
      BY <1>4, <1>6, <2>1, <3>1, <3>3, <3>4
    <3>6. l \in (j + 1)..(i - 1)
      BY <3>5
    <3> QED
      BY <3>4, <3>6
  <2> QED
    BY <2>5, <2>6 DEF UpBefore
<1>7. ASSUME NEW keys, PlainTexts(keys, s) PROVE PlainTexts(keys, c)
  <2> SUFFICES ASSUME NEW i \in 1..Len(c), c[i].kind = "text", NEW k \in KbKeys
               PROVE  UpBefore(keys, c, i, k)
    BY DEF PlainTexts
  <2>1. f[i] \in 1..Len(s) /\ s[f[i]].kind = "text"
    BY <1>1, <1>3
  <2>2. UpBefore(keys, s, f[i], k)
    BY <1>7, <2>1 DEF PlainTexts
  <2>3. \A j \in 1..Len(c) : j < i <=> f[j] < f[i]
    BY <1>1, <1>4
  <2>4. i \in 1..(Len(c) + 1) /\ f[i] \in 1..(Len(s) + 1)
    BY <1>2, <2>1
  <2> QED
    BY <1>6, <2>2, <2>3, <2>4
<1>8. ASSUME NEW keys, NEW K, LeavesOnly(keys, s, K) PROVE LeavesOnly(keys, c, K)
  <2> SUFFICES ASSUME NEW k \in KbKeys \ K PROVE UpBefore(keys, c, Len(c) + 1, k)
    BY DEF LeavesOnly
  <2>1. UpBefore(keys, s, Len(s) + 1, k)
    BY <1>8 DEF LeavesOnly
  <2>2. \A j \in 1..Len(c) : j < Len(c) + 1 <=> f[j] < Len(s) + 1
    BY <1>2, <1>3
  <2>3. Len(c) + 1 \in 1..(Len(c) + 1) /\ Len(s) + 1 \in 1..(Len(s) + 1)
    BY <1>2
  <2> QED
    BY <1>6, <2>1, <2>2, <2>3
<1>9. ASSUME NEW p, MovesTo(s, p) PROVE MovesTo(c, p)
  <2>1. PICK i \in 1..Len(s) : /\ s[i].kind = "move" /\ s[i].x = Normalise(p)
                               /\ \A j \in (i + 1)..Len(s) : s[j].kind # "move"
    BY <1>9 DEF MovesTo
  <2>2. PICK j \in 1..Len(c) : f[j] = i
    BY <1>1, <2>1
  <2>3. ASSUME NEW l \in (j + 1)..Len(c) PROVE c[l].kind # "move"
    <3>1. l \in 1..Len(c) /\ j < l
      BY <1>2
    <3>2. f[j] < f[l] /\ f[l] \in 1..Len(s)
      BY <1>1, <1>3, <3>1
    <3>3. f[l] \in (i + 1)..Len(s)
      BY <1>2, <2>2, <3>2
    <3> QED
      BY <1>1, <2>1, <3>1, <3>3
  <2>4. c[j].kind = "move" /\ c[j].x = Normalise(p)
    BY <1>1, <2>1, <2>2
  <2> QED
    BY <2>3, <2>4 DEF MovesTo
<1>10. ASSUME NoMove(s) PROVE NoMove(c)
  BY <1>1, <1>3, <1>10 DEF NoMove
<1> QED
  BY <1>7, <1>8, <1>9, <1>10

\* -- Coordinates. --

LEMMA Quotient ==
    ASSUME NEW a \in Nat, NEW d \in Nat \ {0}
    PROVE  a \div d \in Nat /\ d * (a \div d) <= a /\ a < d * (a \div d) + d
PROOF OBVIOUS

LEMMA NormaliseType == ASSUME NEW p \in 0..(Extent - 1) PROVE Normalise(p) \in 0..Top
PROOF
<1>1. CASE Extent = 1
  BY <1>1 DEF Normalise, Top
<1>2. CASE Extent # 1
  <2>1. PICK d \in Nat \ {0} : d = Extent - 1
    BY <1>2, KeyboardAssumption
  <2>2. PICK a \in Nat, q \in Nat : a = p * Top /\ q = a \div d /\ q = Normalise(p)
    <3>1. p * Top \in Nat
      BY KeyboardAssumption DEF Top
    <3>2. Normalise(p) = (p * Top) \div d
      BY <1>2, <2>1 DEF Normalise
    <3>3. (p * Top) \div d \in Nat
      BY <3>1, Quotient
    <3> QED
      BY <3>1, <3>2, <3>3, Zenon
  <2>3. d * q <= a
    BY <2>2, Quotient
  <2>4. a <= d * Top
    BY <2>1, <2>2 DEF Top
  <2>5. d * q <= d * Top
    BY <2>3, <2>4 DEF Top
  <2>6. q <= Top
    BY <2>5 DEF Top
  <2>a. Top \in Nat
    BY DEF Top
  <2>7. q \in 0..Top
    BY <2>6, <2>a
  <2> QED
    BY <2>2, <2>7, Zenon
<1> QED
  BY <1>1, <1>2

LEMMA TopNat == Top \in Nat
PROOF BY DEF Top

LEMMA DenormaliseOf ==
    ASSUME NEW x \in Nat, x <= Top PROVE Denormalise(x) \in 0..(Extent - 1)
PROOF
<1>1. PICK d \in Nat : d = Extent - 1
  BY KeyboardAssumption
<1>2. PICK b \in Nat : b = x * d
  OBVIOUS
<1>3. b <= 65535 * d
  BY <1>2 DEF Top
<1>4. Denormalise(x) = (b + 32767) \div 65535
  BY <1>1, <1>2 DEF Denormalise, Top
<1> QED
  BY <1>1, <1>3, <1>4

LEMMA DenormaliseType == ASSUME NEW x \in 0..Top PROVE Denormalise(x) \in 0..(Extent - 1)
PROOF
<1>1. x \in Nat /\ x <= Top
  BY TopNat
<1> QED
  BY <1>1, DenormaliseOf

\* The pointer comes to the pixel pointed at, whatever the monitor's width.
LEMMA PixelKept == ASSUME NEW p \in 0..(Extent - 1) PROVE Denormalise(Normalise(p)) = p
PROOF
<1>1. CASE Extent = 1
  BY <1>1 DEF Normalise, Denormalise, Top
<1>2. CASE Extent # 1
  <2>1. PICK d \in Nat \ {0} : d = Extent - 1 /\ d <= 32767
    BY <1>2, KeyboardAssumption
  <2>2. PICK a \in Nat, q \in Nat : a = p * Top /\ q = a \div d /\ q = Normalise(p)
    <3>1. p * Top \in Nat
      BY KeyboardAssumption DEF Top
    <3>2. Normalise(p) = (p * Top) \div d
      BY <1>2, <2>1 DEF Normalise
    <3>3. (p * Top) \div d \in Nat
      BY <3>1, Quotient
    <3> QED
      BY <3>1, <3>2, <3>3, Zenon
  <2>3. PICK b \in Nat : b = q * d
    OBVIOUS
  <2>4. b <= 65535 * p /\ 65535 * p < b + d
    <3>0. d * q <= a /\ a < d * q + d
      BY <2>2, Quotient, Zenon
    <3>a. d * q = b
      BY <2>3
    <3>1. d * q <= a /\ a < d * q + d /\ d * q = b
      BY <3>0, <3>a
    <3>2. a = 65535 * p
      BY <2>2 DEF Top
    <3> QED
      BY <3>1, <3>2
  <2>5. Denormalise(q) = (b + 32767) \div 65535
    BY <2>1, <2>3 DEF Denormalise, Top
  <2>6. (b + 32767) \div 65535 = p
    BY <2>1, <2>4
  <2> QED
    BY <2>2, <2>5, <2>6
<1> QED
  BY <1>1, <1>2

\* A point aimed at a pixel's centre is taken for that pixel, whatever the width
\* of the virtual desktop.
LEMMA CentreKept == ASSUME NEW p \in 0..(Desk - 1) PROVE PixelAt(DeskPoint(p)) = p
PROOF
<1>1. PICK w \in Nat \ {0} : w = Desk /\ w <= 32768
  BY KeyboardAssumption
<1>2. PICK a \in Nat : a = 65536 * (2 * p + 1) /\ a = (2 * p + 1) * 65536
  OBVIOUS
<1>3. PICK d \in Nat \ {0} : d = 2 * w
  BY <1>1
<1>4. PICK v \in Nat : v = DeskPoint(p) /\ d * v <= a /\ a < d * v + d
  <2>1. DeskPoint(p) = a \div d
    BY <1>1, <1>2, <1>3 DEF DeskPoint
  <2>2. a \div d \in Nat /\ d * (a \div d) <= a /\ a < d * (a \div d) + d
    BY Quotient
  <2> QED
    BY <2>1, <2>2, Zenon
<1>5. PICK b \in Nat : b = v * w
  OBVIOUS
<1>6. d * v = 2 * b
  BY <1>3, <1>5
<1>7. 2 * b <= 131072 * p + 65536 /\ 131072 * p + 65536 < 2 * b + 65537
  BY <1>1, <1>2, <1>3, <1>4, <1>6
<1>8. b \div 65536 = p
  BY <1>7
<1>9. PixelAt(v) = b \div 65536
  BY <1>1, <1>5 DEF PixelAt
<1> QED
  BY <1>4, <1>8, <1>9

\* A pixel of the monitor is one of the virtual desktop.
LEMMA OnDesk == ASSUME NEW p \in 0..(Extent - 1) PROVE Place + p \in 0..(Desk - 1)
PROOF BY KeyboardAssumption

LEMMA LandsType == ASSUME NEW x \in 0..Top PROVE Lands(x) \in 0..(Desk - 1)
PROOF
<1>1. PICK p \in 0..(Extent - 1) : p = Denormalise(x)
  BY DenormaliseType
<1>2. Place + p \in 0..(Desk - 1) /\ PixelAt(DeskPoint(Place + p)) = Place + p
  BY OnDesk, CentreKept
<1> QED
  BY <1>1, <1>2, Zenon DEF Lands

\* And so the pointer comes to the pixel pointed at.
LEMMA PixelReached == ASSUME NEW p \in 0..(Extent - 1) PROVE Lands(Normalise(p)) = Place + p
PROOF BY PixelKept, OnDesk, CentreKept, Zenon DEF Lands

\* -- What the window sends. --

LEMMA EventTypes ==
    /\ \A k \in KbKeys : Event("down", k) \in Events /\ Event("up", k) \in Events
    /\ \A k : /\ Event("down", k).kind = "down" /\ Event("down", k).key = k
              /\ Event("up", k).kind = "up" /\ Event("up", k).key = k
    /\ Text \in Events /\ Text.kind = "text" /\ "Enter" \in KbKeys
    /\ Char \in Events /\ Char.kind = "char"
PROOF
<1>1. 0 \in 0..Top
  BY DEF Top
<1> QED
  BY <1>1 DEF Event, Text, Char, Events, KbKeys

LEMMA EmptyLine ==
    ASSUME NEW K
    PROVE  /\ <<>> \in Seq(Events) /\ PlainTexts(K, <<>>) /\ LeavesOnly(K, <<>>, K) /\ NoMove(<<>>)
PROOF
<1>1. <<>> \in Seq(Events) /\ Len(<<>>) = 0 /\ (0 + 1) - 1 = 0 /\ (\A i \in 1..0 : FALSE)
  OBVIOUS
<1> QED
  BY <1>1 DEF PlainTexts, LeavesOnly, NoMove, UpBefore

LEMMA SingleLine ==
    ASSUME NEW K, NEW L, NEW e \in Events, e.kind # "text",
           \A k \in KbKeys \ L : (k \in K => UpOf(e, k)) /\ ~DownOf(e, k)
    PROVE  /\ <<e>> \in Seq(Events) /\ PlainTexts(K, <<e>>) /\ LeavesOnly(K, <<e>>, L)
           /\ e.kind # "move" => NoMove(<<e>>)
           /\ \A p : e.kind = "move" /\ e.x = Normalise(p) => MovesTo(<<e>>, p)
PROOF
<1>1. <<e>> \in Seq(Events) /\ Len(<<e>>) = 1 /\ <<e>>[1] = e
  OBVIOUS
<1>2. (\A i \in 1..1 : i = 1) /\ 1 \in 1..1 /\ (1 + 1) - 1 = 1 /\ (\A j \in (1 + 1)..1 : FALSE)
  OBVIOUS
<1>3. PlainTexts(K, <<e>>)
  BY <1>1, <1>2 DEF PlainTexts
<1>4. LeavesOnly(K, <<e>>, L)
  <2> SUFFICES ASSUME NEW k \in KbKeys \ L PROVE UpBefore(K, <<e>>, 1 + 1, k)
    BY <1>1 DEF LeavesOnly
  <2>1. k \in K => \E m \in 1..1 : UpOf(<<e>>[m], k)
    BY <1>1, <1>2
  <2>2. \A j \in 1..1 : ~DownOf(<<e>>[j], k)
    BY <1>1, <1>2
  <2> QED
    BY <1>2, <2>1, <2>2 DEF UpBefore
<1>5. e.kind # "move" => NoMove(<<e>>)
  BY <1>1, <1>2 DEF NoMove
<1>6. \A p : e.kind = "move" /\ e.x = Normalise(p) => MovesTo(<<e>>, p)
  BY <1>1, <1>2 DEF MovesTo
<1> QED
  BY <1>1, <1>3, <1>4, <1>5, <1>6

\* release_held lets go of every key.
LEMMA ReleaseLine ==
    ASSUME NEW K \in SUBSET KbKeys, IsFiniteSet(K)
    PROVE  LET q == SetToSeq({Event("up", k) : k \in K})
           IN  q \in Seq(Events) /\ PlainTexts(K, q) /\ LeavesOnly(K, q, {}) /\ NoMove(q)
PROOF
<1> DEFINE S == {Event("up", k) : k \in K}
<1>1. IsFiniteSet(S)
  <2>1. [k \in K |-> Event("up", k)] \in Surjection(K, S)
    BY DEF Surjection
  <2> QED
    BY <2>1, FS_Surjection
<1>2. S \subseteq Events /\ (\A e \in S : e.kind = "up")
  BY EventTypes
<1>3. PICK q : q = SetToSeq(S)
  OBVIOUS
<1>4. /\ q \in Seq(S) /\ \A x \in S : \E i \in 1..Len(q) : q[i] = x
  BY <1>1, <1>3, SetAsSeq
<1>5. /\ q \in Seq(Events) /\ Len(q) \in Nat
      /\ \A i \in 1..Len(q) : q[i] \in S /\ q[i].kind = "up"
  BY <1>2, <1>4
<1>6. \A k \in K : \E i \in 1..Len(q) : UpOf(q[i], k)
  <2> SUFFICES ASSUME NEW k \in K PROVE \E i \in 1..Len(q) : UpOf(q[i], k)
    OBVIOUS
  <2>1. PICK i \in 1..Len(q) : q[i] = Event("up", k)
    BY <1>4
  <2> QED
    BY <2>1, EventTypes DEF UpOf
<1>7. (Len(q) + 1) - 1 = Len(q)
  BY <1>5
<1>8. LeavesOnly(K, q, {})
  <2> SUFFICES ASSUME NEW k \in KbKeys PROVE UpBefore(K, q, Len(q) + 1, k)
    BY DEF LeavesOnly
  <2>1. \A j \in 1..Len(q) : ~DownOf(q[j], k)
    BY <1>5 DEF DownOf
  <2> QED
    BY <1>6, <1>7, <2>1 DEF UpBefore
<1>9. PlainTexts(K, q) /\ NoMove(q)
  BY <1>5 DEF PlainTexts, NoMove
<1> QED
  BY <1>3, <1>5, <1>8, <1>9

\* Text typed out, with a line break.
LEMMA TextLine ==
    LET u == <<Text>> \o Enter
    IN  u \in Seq(Events) /\ PlainTexts({}, u) /\ LeavesOnly({}, u, {}) /\ NoMove(u)
PROOF
<1>1. PICK d \in Events, e \in Events :
         /\ d = Event("down", "Enter") /\ e = Event("up", "Enter")
         /\ d.kind = "down" /\ d.key = "Enter" /\ e.kind = "up" /\ e.key = "Enter"
  BY EventTypes, Zenon
<1>2. PICK t \in Events : t = Text /\ t.kind = "text"
  BY EventTypes, Zenon
<1>3. PICK v \in Seq(Events) : v = Enter /\ Len(v) = 2 /\ v[1] = d /\ v[2] = e
  <2>1. <<d, e>> \in Seq(Events) /\ Len(<<d, e>>) = 2 /\ <<d, e>>[1] = d /\ <<d, e>>[2] = e
    OBVIOUS
  <2>2. Enter = <<d, e>>
    BY <1>1, Zenon DEF Enter
  <2> QED
    BY <2>1, <2>2, Zenon
<1>a. PICK w \in Seq(Events) : w = <<Text>> /\ Len(w) = 1 /\ w[1] = t
  BY <1>2, AppendConcat, Zenon
<1>b. PICK u \in Seq(Events) : u = <<Text>> \o Enter /\ u = w \o v
  BY <1>3, <1>a, Concat, Zenon
<1>4. /\ Len(u) = 3 /\ u[1] = t /\ u[2] = d /\ u[3] = e
  <2>1. /\ Len(u) = Len(w) + Len(v)
        /\ \A i \in 1..Len(w) : u[i] = w[i]
        /\ \A i \in 1..Len(v) : u[Len(w) + i] = v[i]
    BY <1>3, <1>a, <1>b, Concat
  <2>2. u[1] = w[1] /\ u[1 + 1] = v[1] /\ u[1 + 2] = v[2]
    BY <1>3, <1>a, <2>1
  <2> QED
    BY <1>3, <1>a, <2>1, <2>2
<1>5. \A i \in 1..Len(u) : i = 1 \/ i = 2 \/ i = 3
  BY <1>4
<1>6. PlainTexts({}, u)
  <2>1. \A k : UpBefore({}, u, 1, k)
    BY DEF UpBefore
  <2> QED
    BY <1>1, <1>4, <1>5, <2>1 DEF PlainTexts
<1>7. LeavesOnly({}, u, {})
  <2> SUFFICES ASSUME NEW k \in KbKeys, NEW j \in 1..3, DownOf(u[j], k)
               PROVE  \E m \in (j + 1)..3 : UpOf(u[m], k)
    BY <1>4 DEF LeavesOnly, UpBefore
  <2>1. j = 2 /\ k = "Enter"
    BY <1>1, <1>2, <1>4, <1>5 DEF DownOf
  <2> QED
    BY <1>1, <1>4, <2>1 DEF UpOf
<1>8. NoMove(u)
  BY <1>1, <1>2, <1>4, <1>5 DEF NoMove
<1> QED
  BY <1>b, <1>6, <1>7, <1>8, Zenon

LEMMA MovesConcat ==
    ASSUME NEW s \in Seq(Events), NEW u \in Seq(Events)
    PROVE  /\ \A p : MovesTo(u, p) => MovesTo(s \o u, p)
           /\ NoMove(u) => /\ NoMove(s) => NoMove(s \o u)
                           /\ \A p : MovesTo(s, p) => MovesTo(s \o u, p)
PROOF
<1>1. PICK n \in Nat, t \in Seq(Events) : n = Len(s) /\ t = s \o u
  BY Concat, Zenon
<1>2. /\ Len(u) \in Nat /\ Len(t) = n + Len(u)
      /\ \A m \in 1..n : t[m] = s[m]
      /\ \A m \in 1..Len(u) : t[n + m] = u[m]
  BY <1>1, Concat
<1>3. \A l \in 1..Len(t) : l \in 1..n \/ (l - n \in 1..Len(u) /\ l = n + (l - n))
  BY <1>2
<1>4. ASSUME NEW p, MovesTo(u, p) PROVE MovesTo(t, p)
  <2>1. PICK i \in 1..Len(u) : /\ u[i].kind = "move" /\ u[i].x = Normalise(p)
                               /\ \A j \in (i + 1)..Len(u) : u[j].kind # "move"
    BY <1>4 DEF MovesTo
  <2>2. n + i \in 1..Len(t) /\ t[n + i] = u[i]
    BY <1>2
  <2>3. ASSUME NEW l \in ((n + i) + 1)..Len(t) PROVE t[l].kind # "move"
    <3>1. l - n \in (i + 1)..Len(u) /\ l - n \in 1..Len(u) /\ l = n + (l - n)
      BY <1>2
    <3> QED
      BY <1>2, <2>1, <3>1
  <2> QED
    BY <2>1, <2>2, <2>3 DEF MovesTo
<1>5. ASSUME NoMove(u), NEW l \in 1..Len(t), ~(l \in 1..n) PROVE t[l].kind # "move"
  <2>1. l - n \in 1..Len(u) /\ l = n + (l - n)
    BY <1>3, <1>5
  <2> QED
    BY <1>2, <1>5, <2>1 DEF NoMove
<1>6. ASSUME NoMove(u), NoMove(s) PROVE NoMove(t)
  BY <1>1, <1>2, <1>5, <1>6 DEF NoMove
<1>7. ASSUME NoMove(u), NEW p, MovesTo(s, p) PROVE MovesTo(t, p)
  <2>1. PICK i \in 1..n : /\ s[i].kind = "move" /\ s[i].x = Normalise(p)
                          /\ \A j \in (i + 1)..n : s[j].kind # "move"
    BY <1>1, <1>7 DEF MovesTo
  <2>2. i \in 1..Len(t) /\ t[i] = s[i]
    BY <1>2
  <2>3. ASSUME NEW l \in (i + 1)..Len(t) PROVE t[l].kind # "move"
    <3>1. l \in 1..Len(t) /\ (l \in 1..n => l \in (i + 1)..n)
      BY <1>2
    <3>2. CASE l \in 1..n
      BY <1>2, <2>1, <3>1, <3>2
    <3>3. CASE ~(l \in 1..n)
      BY <1>5, <1>7, <3>1, <3>3
    <3> QED
      BY <3>2, <3>3
  <2> QED
    BY <2>1, <2>2, <2>3 DEF MovesTo
<1> QED
  BY <1>1, <1>4, <1>6, <1>7

\* -- The steps. --

\* What the user does leaves alone.
KbUntouched == UNCHANGED <<hostVars, current, lastLink, taking, holders, input>>

\* What the user does adds events u to the window's channel, which take what
\* the window keeps from `kept` to what it keeps then.
Adds(u) ==
    /\ channel' = channel \o u /\ PlainTexts(kept, u) /\ LeavesOnly(kept, u, kept')
    /\ (NoMove(u) /\ aim' = aim) \/ MovesTo(u, aim')

LEMMA PressesAdds ==
    ASSUME KbTypes, NEW k \in Keys, Presses(k) PROVE \E u \in Seq(Events) : Adds(u)
PROOF
<1>1. PICK e \in Events : e = Event("down", k) /\ e.kind = "down" /\ e.key = k
  BY EventTypes, Zenon DEF KbKeys
<1>2. /\ kept' = kept \cup {k} /\ channel' = Append(channel, e) /\ aim' = aim
  BY <1>1, Zenon DEF Presses
<1>3. \A j \in KbKeys \ kept' : (j \in kept => UpOf(e, j)) /\ ~DownOf(e, j)
  BY <1>1, <1>2 DEF DownOf
<1>4. e.kind # "text" /\ e.kind # "move"
  BY <1>1
<1>5. /\ <<e>> \in Seq(Events) /\ PlainTexts(kept, <<e>>) /\ LeavesOnly(kept, <<e>>, kept')
      /\ NoMove(<<e>>)
  BY <1>1, <1>3, <1>4, SingleLine, Zenon
<1>6. channel' = channel \o <<e>>
  BY <1>1, <1>2, AppendConcat DEF KbTypes
<1> QED
  BY <1>2, <1>5, <1>6, Zenon DEF Adds

LEMMA LetsGoAdds ==
    ASSUME KbTypes, ~focused => kept = {}, NEW k \in Keys, LetsGo(k)
    PROVE  \E u \in Seq(Events) : Adds(u)
PROOF
<1>1. PICK e \in Events : e = Event("up", k) /\ e.kind = "up" /\ e.key = k
  <2>1. k \in KbKeys
    BY Zenon DEF KbKeys
  <2>2. Event("up", k) \in Events /\ Event("up", k).kind = "up" /\ Event("up", k).key = k
    BY <2>1, EventTypes, Zenon
  <2> QED
    BY <2>2, Zenon
<1>2. CASE focused /\ k \in kept
  <2>1. /\ kept' = kept \ {k} /\ channel' = Append(channel, e) /\ aim' = aim
    BY <1>1, <1>2, Zenon DEF LetsGo
  <2>2. \A j \in KbKeys \ kept' : (j \in kept => UpOf(e, j)) /\ ~DownOf(e, j)
    BY <1>1, <2>1 DEF DownOf, UpOf
  <2>3. e.kind # "text" /\ e.kind # "move"
    BY <1>1
  <2>4. /\ <<e>> \in Seq(Events) /\ PlainTexts(kept, <<e>>) /\ LeavesOnly(kept, <<e>>, kept')
        /\ NoMove(<<e>>)
    BY <1>1, <2>2, <2>3, SingleLine, Zenon
  <2>5. channel' = channel \o <<e>>
    BY <1>1, <2>1, AppendConcat DEF KbTypes
  <2> QED
    BY <2>1, <2>4, <2>5, Zenon DEF Adds
<1>3. CASE ~(focused /\ k \in kept)
  <2>1. kept' = kept /\ channel' = channel /\ aim' = aim
    BY <1>3 DEF LetsGo
  <2>2. channel' = channel \o <<>>
    BY <2>1, ConcatEmpty DEF KbTypes
  <2> QED
    BY <2>1, <2>2, EmptyLine, Zenon DEF Adds
<1> QED
  BY <1>2, <1>3

LEMMA KeptFinite == ASSUME KbTypes PROVE kept \in SUBSET KbKeys /\ IsFiniteSet(kept)
PROOF BY DEF KbTypes, KbKeys

LEMMA LosesFocusAdds ==
    ASSUME KbTypes, LosesFocus PROVE \E u \in Seq(Events) : Adds(u)
PROOF
<1>1. PICK q \in Seq(Events) : /\ q = SetToSeq({Event("up", k) : k \in kept})
                               /\ PlainTexts(kept, q) /\ LeavesOnly(kept, q, {}) /\ NoMove(q)
  BY KeptFinite, ReleaseLine, Zenon
<1>2. kept' = {} /\ channel' = channel \o q \o <<>> /\ aim' = aim
  BY <1>1, Zenon DEF LosesFocus, ReleaseHeld
<1>3. channel \o q \in Seq(Events)
  BY <1>1, Concat DEF KbTypes
<1>4. channel' = channel \o q
  BY <1>2, <1>3, ConcatEmpty
<1> QED
  BY <1>1, <1>2, <1>4, Zenon DEF Adds

LEMMA TypesTextAdds ==
    ASSUME KbTypes, TypesText PROVE \E u \in Seq(Events) : Adds(u)
PROOF
<1>1. PICK q \in Seq(Events) : /\ q = SetToSeq({Event("up", k) : k \in kept})
                               /\ PlainTexts(kept, q) /\ LeavesOnly(kept, q, {}) /\ NoMove(q)
  BY KeptFinite, ReleaseLine, Zenon
<1>2. PICK t \in Seq(Events) : /\ t = <<Text>> \o Enter
                               /\ PlainTexts({}, t) /\ LeavesOnly({}, t, {}) /\ NoMove(t)
  BY TextLine, Zenon
<1>3. kept' = {} /\ channel' = channel \o q \o t /\ aim' = aim
  BY <1>1, <1>2, Zenon DEF TypesText, ReleaseHeld
<1>a. channel \in Seq(Events) /\ q \in Seq(Events) /\ t \in Seq(Events)
  BY <1>1, <1>2, Zenon DEF KbTypes
<1>c. channel \o (q \o t) = (channel \o q) \o t
  BY <1>a, EventsAssociate, SMT
<1>4. channel' = channel \o (q \o t) /\ q \o t \in Seq(Events)
  BY <1>3, <1>a, <1>c, Concat, Zenon
<1>5. PlainTexts(kept, q \o t) /\ LeavesOnly(kept, q \o t, {})
  BY <1>1, <1>2, LinesJoin, Zenon
<1>6. NoMove(q \o t)
  BY <1>1, <1>2, MovesConcat, Zenon
<1> QED
  BY <1>3, <1>4, <1>5, <1>6, Zenon DEF Adds

LEMMA TypesCharacterAdds ==
    ASSUME KbTypes, TypesCharacter PROVE \E u \in Seq(Events) : Adds(u)
PROOF
<1>1. PICK e \in Events : e = Char /\ e.kind = "char"
  BY EventTypes, Zenon
<1>2. kept' = kept /\ channel' = Append(channel, e) /\ aim' = aim
  BY <1>1, Zenon DEF TypesCharacter
<1>3. \A j \in KbKeys \ kept' : (j \in kept => UpOf(e, j)) /\ ~DownOf(e, j)
  BY <1>1, <1>2 DEF DownOf
<1>4. e.kind # "text" /\ e.kind # "move"
  BY <1>1
<1>5. /\ <<e>> \in Seq(Events) /\ PlainTexts(kept, <<e>>) /\ LeavesOnly(kept, <<e>>, kept')
      /\ NoMove(<<e>>)
  BY <1>1, <1>3, <1>4, SingleLine, Zenon
<1>6. channel' = channel \o <<e>>
  BY <1>1, <1>2, AppendConcat DEF KbTypes
<1> QED
  BY <1>2, <1>5, <1>6, Zenon DEF Adds

LEMMA Pixels == {Extent - 1, Extent \div 3} \subseteq 0..(Extent - 1)
PROOF BY KeyboardAssumption

LEMMA PointsAtAdds ==
    ASSUME KbTypes, NEW p \in 0..(Extent - 1), PointsAt(p)
    PROVE  \E u \in Seq(Events) : Adds(u)
PROOF
<1>0. PICK e : e = [kind |-> "move", key |-> "", x |-> Normalise(p)]
  OBVIOUS
<1>1. e \in Events /\ e.kind = "move" /\ e.x = Normalise(p)
  BY <1>0, NormaliseType DEF Events
<1>2. kept' = kept /\ channel' = Append(channel, e) /\ aim' = p
  BY <1>0, Zenon DEF PointsAt
<1>3. \A j \in KbKeys \ kept' : (j \in kept => UpOf(e, j)) /\ ~DownOf(e, j)
  BY <1>1, <1>2 DEF DownOf
<1>4. e.kind # "text"
  BY <1>1
<1>5. /\ <<e>> \in Seq(Events) /\ PlainTexts(kept, <<e>>) /\ LeavesOnly(kept, <<e>>, kept')
      /\ MovesTo(<<e>>, p)
  BY <1>1, <1>3, <1>4, SingleLine, Zenon
<1>6. channel' = channel \o <<e>>
  BY <1>1, <1>2, AppendConcat DEF KbTypes
<1> QED
  BY <1>2, <1>5, <1>6, Zenon DEF Adds

LEMMA UserAdds ==
    ASSUME KbTypes, ~focused => kept = {}, User PROVE \E u \in Seq(Events) : Adds(u)
PROOF
<1>1. CASE GetsFocus
  <2>1. channel' = channel \o <<>> /\ kept' = kept /\ aim' = aim
    BY <1>1, ConcatEmpty DEF GetsFocus, KbTypes
  <2> QED
    BY <2>1, EmptyLine, Zenon DEF Adds
<1> QED
  BY <1>1, PressesAdds, LetsGoAdds, LosesFocusAdds, TypesTextAdds,
     TypesCharacterAdds, PointsAtAdds, Pixels, Zenon DEF User

\* The variables' types, but for the channel's.
LEMMA UserTypes ==
    ASSUME KbTypes, KbBooleans, ~focused => kept = {}, User
    PROVE  /\ kept' \subseteq pressed' /\ pressed' \subseteq Keys /\ IsFiniteSet(kept')
           /\ aim' \in {NoAim} \cup 0..(Extent - 1) /\ did' \in 0..EventBound
           /\ focused' \in BOOLEAN /\ (~focused' => kept' = {}) /\ KbUntouched
PROOF
<1>0. KbUntouched
  BY Zenon DEF User, KbUntouched
<1>1. did' \in 0..EventBound
  <2>1. did < EventBound /\ did' = did + 1
    BY Zenon DEF User, Does, Presses, LetsGo, LosesFocus, GetsFocus, TypesText, TypesCharacter, PointsAt
  <2> QED
    BY <2>1, KeyboardAssumption DEF KbTypes
<1>2. aim' \in {NoAim} \cup 0..(Extent - 1)
  BY Pixels DEF User, Presses, LetsGo, LosesFocus, GetsFocus, TypesText, TypesCharacter, PointsAt, KbTypes
<1>3. /\ kept' \subseteq pressed' /\ pressed' \subseteq Keys
      /\ focused' \in BOOLEAN /\ (~focused' => kept' = {})
  BY Zenon DEF User, Presses, LetsGo, LosesFocus, GetsFocus, TypesText, TypesCharacter, PointsAt, KbTypes, ReleaseHeld, KbBooleans
<1>4. kept' \subseteq kept \/ \E k \in Keys : kept' = kept \cup {k}
  BY Zenon DEF User, Presses, LetsGo, LosesFocus, GetsFocus, TypesText, TypesCharacter, PointsAt, ReleaseHeld
<1>5. IsFiniteSet(kept')
  BY <1>4, FS_Subset, FS_AddElement DEF KbTypes
<1> QED
  BY <1>0, <1>1, <1>2, <1>3, <1>5

LEMMA LeavesMore ==
    ASSUME NEW keys, NEW s, NEW K, NEW L, K \subseteq L, LeavesOnly(keys, s, K)
    PROVE  LeavesOnly(keys, s, L)
PROOF BY DEF LeavesOnly

LEMMA PlainPrefix ==
    ASSUME NEW keys, NEW s \in Seq(Events), NEW t \in Seq(Events), Len(t) <= Len(s),
           \A i \in 1..Len(t) : t[i] = s[i], PlainTexts(keys, s)
    PROVE  PlainTexts(keys, t)
PROOF
<1>1. Len(s) \in Nat /\ Len(t) \in Nat
  OBVIOUS
<1> SUFFICES ASSUME NEW i \in 1..Len(t), t[i].kind = "text", NEW k \in KbKeys
             PROVE  UpBefore(keys, t, i, k)
  BY DEF PlainTexts
<1>2. i \in 1..Len(s) /\ i \in Nat /\ (\A m \in 1..(i - 1) : m \in 1..Len(t))
  BY <1>1
<1>3. UpBefore(keys, s, i, k)
  BY <1>2 DEF PlainTexts
<1>4. \A m \in 1..(i - 1) : s[m] = t[m]
  BY <1>2
<1> QED
  BY <1>2, <1>3, <1>4, UpSame, Zenon

LEMMA KbStart == KbInit => KbInv
PROOF
<1> SUFFICES ASSUME KbInit PROVE KbInv
  OBVIOUS
<1> USE DEF KbInit
<1>1. KbTypes
  <2>1. IsFiniteSet({}) /\ <<>> \in Seq(Events)
    BY FS_EmptySet
  <2> QED
    BY <2>1, KeyboardAssumption DEF KbTypes
<1>2. KbBooleans
  BY Zenon DEF KbBooleans
<1>3. KbLinks
  BY DEF KbLinks
<1>4. KbLine
  BY EmptyLine DEF KbLine
<1>5. KbPointer
  BY DEF KbPointer
<1>6. Owned
  BY DEF Owned
<1> QED
  BY <1>1, <1>2, <1>3, <1>4, <1>5, <1>6 DEF KbInv

\* The line to the connected session, in the words of the lemmas.
LEMMA KbStreams ==
    ASSUME KbTypes
    PROVE  /\ channel \in Seq(Events)
           /\ \A n \in Links : taking[n] \in Seq(Events) /\ taking[n] \o channel \in Seq(Events)
           /\ 0 \notin Links
PROOF
<1>1. channel \in Seq(Events) /\ (\A n \in Links : taking[n] \in Seq(Events))
  BY DEF KbTypes
<1> QED
  BY <1>1, Concat, KeyboardAssumption

LEMMA UserKeeps == ASSUME KbInv, User PROVE KbInv'
PROOF
<1>0. KbTypes /\ KbBooleans /\ KbLinks /\ KbLine /\ KbPointer /\ Owned /\ (~focused => kept = {})
  BY DEF KbInv, KbLine
<1>1. PICK u \in Seq(Events) : Adds(u)
  BY <1>0, UserAdds, Zenon
<1>2. /\ kept' \subseteq pressed' /\ pressed' \subseteq Keys /\ IsFiniteSet(kept')
      /\ aim' \in {NoAim} \cup 0..(Extent - 1) /\ did' \in 0..EventBound
      /\ focused' \in BOOLEAN /\ (~focused' => kept' = {})
  BY <1>0, UserTypes, Zenon
<1>3. /\ held' = held /\ down' = down /\ pointer' = pointer /\ refused' = refused
      /\ current' = current /\ lastLink' = lastLink
      /\ taking' = taking /\ holders' = holders /\ input' = input
  BY <1>0, UserTypes DEF KbUntouched, hostVars
<1>4. /\ channel' = channel \o u /\ PlainTexts(kept, u) /\ LeavesOnly(kept, u, kept')
      /\ (NoMove(u) /\ aim' = aim) \/ MovesTo(u, aim')
  BY <1>1, Zenon DEF Adds
<1>5. channel' \in Seq(Events)
  BY <1>0, <1>1, <1>4, KbStreams, Concat
<1>6. KbTypes'
  BY <1>0, <1>2, <1>3, <1>5 DEF KbTypes
<1>7. KbBooleans'
  BY <1>0, <1>2, <1>3, Zenon DEF KbBooleans
<1>8. KbLinks' /\ Owned'
  BY <1>0, <1>3 DEF KbLinks, Owned
<1>9. KbLine'
  <2>1. PlainTexts({}, channel') /\ LeavesOnly({}, channel', kept')
    BY <1>0, <1>1, <1>4, KbStreams, LinesJoin, Zenon DEF KbLine
  <2>2. ASSUME ~refused, current # 0
        PROVE  /\ PlainTexts(held[current], taking[current] \o channel')
               /\ LeavesOnly(held[current], taking[current] \o channel', kept')
    <3>1. PICK s \in Seq(Events), t \in Seq(Events) : t = taking[current] /\ s = t \o channel
      BY <1>0, <2>2, KbStreams, Zenon DEF KbTypes
    <3>2. PlainTexts(held[current], s) /\ LeavesOnly(held[current], s, kept)
      BY <1>0, <2>2, <3>1, Zenon DEF KbLine
    <3>3. PlainTexts(held[current], s \o u) /\ LeavesOnly(held[current], s \o u, kept')
      BY <1>1, <1>4, <3>1, <3>2, LinesJoin, Zenon
    <3>4. s \o u = t \o channel'
      <4>0. channel \in Seq(Events)
        BY <1>0, KbStreams
      <4>1. t \o (channel \o u) = (t \o channel) \o u
        <5>2. t \in Seq(Events) /\ channel \in Seq(Events) /\ u \in Seq(Events)
          BY <1>1, <3>1, <4>0, Zenon
        <5> QED
          BY <5>2, EventsAssociate, SMT
      <4> QED
        BY <1>4, <3>1, <4>1, Zenon
    <3> QED
      BY <3>1, <3>3, <3>4, Zenon
  <2> QED
    BY <1>0, <1>2, <1>3, <2>1, <2>2 DEF KbLine
<1>10. KbPointer'
  <2>1. ASSUME NEW s \in Seq(Events)
        PROVE  /\ MovesTo(s, aim) => MovesTo(s \o u, aim')
               /\ NoMove(s) => (NoMove(s \o u) /\ aim' = aim) \/ MovesTo(s \o u, aim')
               /\ aim' # aim => MovesTo(s \o u, aim')
    BY <1>1, <1>4, <2>1, MovesConcat, Zenon
  <2>2. ASSUME lastLink = 0, aim' # NoAim PROVE MovesTo(channel', aim')
    BY <1>0, <1>4, <2>1, <2>2, KbStreams, Zenon DEF KbPointer
  <2>3. ASSUME lastLink = 1, current = 1, aim' # NoAim, ~refused
        PROVE  MovesTo(taking[1] \o channel', aim') \/ (NoMove(taking[1] \o channel') /\ pointer = Place + aim')
    <3>0. 1 \in Links
      BY <1>0, <2>3 DEF KbTypes
    <3>1. PICK s \in Seq(Events), t \in Seq(Events) : t = taking[1] /\ s = t \o channel
      BY <1>0, <3>0, KbStreams, Zenon
    <3>2. s \o u = t \o channel'
      <4>0. channel \in Seq(Events)
        BY <1>0, KbStreams
      <4>1. t \o (channel \o u) = (t \o channel) \o u
        <5>2. t \in Seq(Events) /\ channel \in Seq(Events) /\ u \in Seq(Events)
          BY <1>1, <3>1, <4>0, Zenon
        <5> QED
          BY <5>2, EventsAssociate, SMT
      <4> QED
        BY <1>4, <3>1, <4>1, Zenon
    <3>3. aim # NoAim => MovesTo(s, aim) \/ (NoMove(s) /\ pointer = Place + aim)
      BY <1>0, <2>3, <3>1, Zenon DEF KbPointer
    <3>4. MovesTo(s \o u, aim') \/ (NoMove(s \o u) /\ pointer = Place + aim')
      BY <2>1, <2>3, <3>1, <3>3, Zenon
    <3> QED
      BY <3>1, <3>2, <3>4, Zenon
  <2> QED
    BY <1>3, <2>2, <2>3, Zenon DEF KbPointer
<1> QED
  BY <1>6, <1>7, <1>8, <1>9, <1>10 DEF KbInv

LEMMA BeginsKeeps == ASSUME KbInv, NEW n \in Links, Begins(n) PROVE KbInv'
PROOF
<1>0. KbTypes /\ KbBooleans /\ KbLinks /\ KbLine /\ KbPointer /\ Owned
  BY DEF KbInv
<1>1. /\ pressed' = pressed /\ focused' = focused /\ kept' = kept /\ channel' = channel /\ aim' = aim
      /\ did' = did /\ held' = held /\ down' = down /\ pointer' = pointer /\ refused' = refused
      /\ taking' = taking
  BY DEF Begins, userVars, hostVars
<1>2. current' = n /\ lastLink' = n /\ n = lastLink + 1 /\ current = 0
  BY DEF Begins
<1>3. n \in Nat \ {0} /\ lastLink \in Nat /\ (\A m \in Links : m \in Nat \ {0})
  BY <1>0, KeyboardAssumption DEF KbTypes
<1>4. held[n] = {} /\ taking[n] = <<>> /\ input[n] = "none"
  BY <1>0, <1>2, <1>3 DEF KbLinks
<1>5. KbTypes'
  BY <1>0, <1>1, <1>2 DEF KbTypes, Begins
<1>6. KbBooleans'
  BY <1>0, <1>1, Zenon DEF KbBooleans
<1>7. KbLinks'
  BY <1>0, <1>1, <1>2, <1>3 DEF KbLinks, KbTypes, Begins
<1>8. taking[n] \o channel = channel
  BY <1>0, <1>4, KbStreams, ConcatEmpty
<1>9. KbLine'
  BY <1>0, <1>1, <1>2, <1>4, <1>8 DEF KbLine
<1>10. KbPointer'
  <2>1. n # 0 /\ (n = 1 => lastLink = 0)
    BY <1>2, <1>3
  <2> QED
    BY <1>0, <1>1, <1>2, <1>8, <2>1 DEF KbPointer
<1>11. Owned'
  <2>1. \A m \in Links : /\ input[m] = "run" => input'[m] = "run"
                         /\ input[m] = "gone" => input'[m] = "gone"
    BY <1>0, <1>4 DEF Begins, KbTypes
  <2> QED
    BY <1>0, <1>1, <2>1 DEF Owned
<1> QED
  BY <1>5, <1>6, <1>7, <1>9, <1>10, <1>11 DEF KbInv

LEMMA SendInputKeeps == ASSUME KbInv, NEW n \in Links, SendInput(n) PROVE KbInv'
PROOF
<1>0. KbTypes /\ KbBooleans /\ KbLinks /\ KbLine /\ KbPointer /\ Owned
  BY DEF KbInv
<1>1. /\ pressed' = pressed /\ focused' = focused /\ kept' = kept /\ aim' = aim /\ did' = did
      /\ held' = held /\ down' = down /\ pointer' = pointer /\ refused' = refused
      /\ current' = current /\ lastLink' = lastLink /\ holders' = holders /\ input' = input
      /\ channel' = <<>> /\ current = n
  BY DEF SendInput, hostVars
<1>2. PICK t \in Seq(Events), c \in Seq(Events) : t = taking[n] /\ c = Coalesced(channel)
  BY <1>0, KbStreams, CoalescedThins, Zenon
<1>3. Thinned(t \o channel, t \o c)
  BY <1>0, <1>2, KbStreams, CoalescedThins, ThinnedAfter
<1>4. taking' = [taking EXCEPT ![n] = t \o c] /\ t \o c \in Seq(Events) /\ t \o channel \in Seq(Events)
  BY <1>0, <1>2, KbStreams, Concat DEF SendInput
<1>5. /\ taking'[n] = t \o c /\ (\A m \in Links \ {n} : taking'[m] = taking[m])
      /\ taking' \in [Links -> Seq(Events)]
  BY <1>0, <1>4 DEF KbTypes
<1>6. taking'[n] \o channel' = t \o c
  BY <1>1, <1>4, <1>5, ConcatEmpty
<1>7. KbTypes'
  BY <1>0, <1>1, <1>5, EmptyLine DEF KbTypes
<1>8. KbBooleans'
  BY <1>0, <1>1, Zenon DEF KbBooleans
<1>9. KbLinks'
  <2>1. n = lastLink /\ n \in Nat \ {0}
    BY <1>0, <1>1, KbStreams, KeyboardAssumption DEF KbLinks
  <2>2. \A m \in Links : m > lastLink => m # n
    BY <2>1, KeyboardAssumption
  <2> QED
    BY <1>0, <1>1, <1>5, <2>2 DEF KbLinks
<1>10. KbLine'
  <2>1. PlainTexts({}, channel') /\ LeavesOnly({}, channel', kept')
    <3>1. PlainTexts({}, <<>>) /\ LeavesOnly({}, <<>>, {})
      BY EmptyLine
    <3> QED
      BY <1>1, <3>1, LeavesMore
  <2>2. ASSUME ~refused
        PROVE  PlainTexts(held[n], t \o c) /\ LeavesOnly(held[n], t \o c, kept)
    <3>1. PlainTexts(held[n], t \o channel) /\ LeavesOnly(held[n], t \o channel, kept)
      BY <1>0, <1>1, <1>2, <2>2, KbStreams, Zenon DEF KbLine
    <3> QED
      BY <1>3, <1>4, <3>1, ThinnedSame, Zenon
  <2>3. ~refused => \A m \in Links : PlainTexts(held[m], taking'[m])
    BY <1>0, <1>5, <2>2 DEF KbLine
  <2> QED
    BY <1>0, <1>1, <1>6, <2>1, <2>2, <2>3 DEF KbLine
<1>11. KbPointer'
  <2>1. lastLink # 0
    BY <1>0, <1>1, KbStreams DEF KbLinks
  <2>2. ASSUME n = 1, aim # NoAim, ~refused
        PROVE  MovesTo(t \o c, aim) \/ (NoMove(t \o c) /\ pointer = Place + aim)
    <3>1. MovesTo(t \o channel, aim) \/ (NoMove(t \o channel) /\ pointer = Place + aim)
      BY <1>0, <1>1, <1>2, <2>2, KbStreams DEF KbPointer, KbLinks
    <3> QED
      BY <1>3, <1>4, <3>1, ThinnedSame, Zenon
  <2> QED
    BY <1>1, <1>6, <2>1, <2>2 DEF KbPointer
<1>12. Owned'
  BY <1>0, <1>1 DEF Owned
<1> QED
  BY <1>7, <1>8, <1>9, <1>10, <1>11, <1>12 DEF KbInv

LEMMA DropsKeeps == ASSUME KbInv, NEW n \in Links, Drops(n) PROVE KbInv'
PROOF
<1>0. KbTypes /\ KbBooleans /\ KbLinks /\ KbLine /\ KbPointer /\ Owned
  BY DEF KbInv
<1>1. /\ pressed' = pressed /\ focused' = focused /\ kept' = kept /\ did' = did
      /\ held' = held /\ down' = down /\ pointer' = pointer /\ refused' = refused
      /\ current' = 0 /\ lastLink' = lastLink /\ holders' = holders /\ input' = input
      /\ current = n
  BY DEF Drops, hostVars
<1>2. KbBooleans' /\ Owned'
  BY <1>0, <1>1, Zenon DEF KbBooleans, Owned
<1>3. lastLink # 0 /\ n = lastLink
  BY <1>0, <1>1, KbStreams DEF KbLinks
<1>4. KbPointer'
  BY <1>1, <1>3 DEF KbPointer
<1>5. CASE UNCHANGED <<channel, taking, aim>>
  <2>1. KbTypes'
    BY <1>0, <1>1, <1>5 DEF KbTypes
  <2>2. KbLinks' /\ KbLine'
    BY <1>0, <1>1, <1>5 DEF KbLinks, KbLine
  <2> QED
    BY <1>2, <1>4, <2>1, <2>2 DEF KbInv
<1>6. ASSUME NEW read \in 0..(Len(Coalesced(channel)) - 1),
             taking' = [taking EXCEPT ![n] = @ \o SubSeq(Coalesced(channel), 1, read)],
             channel' = <<>>, aim' = NoAim
      PROVE  KbInv'
  <2>1. PICK t \in Seq(Events), c \in Seq(Events) : t = taking[n] /\ c = Coalesced(channel)
    BY <1>0, KbStreams, CoalescedThins, Zenon
  <2>2. Len(c) \in Nat /\ read \in 0..Len(c)
    BY <1>6, <2>1
  <2>3. PICK p \in Seq(Events) : /\ p = SubSeq(c, 1, read) /\ Len(p) = read
                                 /\ \A i \in 1..read : p[i] = c[i]
    <3>1. /\ SubSeq(c, 1, read) \in Seq(Events) /\ Len(SubSeq(c, 1, read)) = read
          /\ \A i \in 1..read : SubSeq(c, 1, read)[i] = c[i]
      BY <2>1, <2>2, PrefixOf
    <3> QED
      BY <3>1, Zenon
  <2>4. /\ taking' = [taking EXCEPT ![n] = t \o p]
        /\ t \o p \in Seq(Events) /\ t \o c \in Seq(Events) /\ t \o channel \in Seq(Events)
    BY <1>0, <1>6, <2>1, <2>3, KbStreams, Concat
  <2>5. /\ taking'[n] = t \o p /\ (\A m \in Links \ {n} : taking'[m] = taking[m])
        /\ taking' \in [Links -> Seq(Events)]
    BY <1>0, <2>4 DEF KbTypes
  <2>6. KbTypes'
    BY <1>0, <1>1, <1>6, <2>5, EmptyLine DEF KbTypes
  <2>7. KbLinks'
    <3>1. \A m \in Links : m > lastLink => m # n
      BY <1>3, KeyboardAssumption
    <3> QED
      BY <1>0, <1>1, <2>5, <3>1 DEF KbLinks
  <2>8. PlainTexts({}, channel') /\ LeavesOnly({}, channel', kept')
    <3>1. PlainTexts({}, <<>>) /\ LeavesOnly({}, <<>>, {})
      BY EmptyLine
    <3> QED
      BY <1>1, <1>6, <3>1, LeavesMore
  <2>9. ASSUME ~refused PROVE PlainTexts(held[n], t \o p)
    <3>1. PlainTexts(held[n], t \o channel)
      BY <1>0, <1>1, <2>1, <2>9, KbStreams, Zenon DEF KbLine
    <3>2. Thinned(t \o channel, t \o c)
      BY <1>0, <2>1, KbStreams, CoalescedThins, ThinnedAfter
    <3>3. PlainTexts(held[n], t \o c)
      BY <2>4, <3>1, <3>2, ThinnedSame, Zenon
    <3>4. PICK a \in Seq(Events), b \in Seq(Events) : a = t \o c /\ b = t \o p
      BY <2>4, Zenon
    <3>5. /\ Len(a) = Len(t) + Len(c) /\ Len(b) = Len(t) + read /\ Len(t) \in Nat
          /\ \A i \in 1..Len(t) : a[i] = t[i] /\ b[i] = t[i]
          /\ \A i \in 1..Len(c) : a[Len(t) + i] = c[i]
          /\ \A i \in 1..read : b[Len(t) + i] = p[i]
      <4>1. /\ Len(a) = Len(t) + Len(c) /\ Len(t) \in Nat
            /\ \A i \in 1..Len(t) : a[i] = t[i]
            /\ \A i \in 1..Len(c) : a[Len(t) + i] = c[i]
        BY <2>1, <3>4, Concat
      <4>2. /\ Len(b) = Len(t) + Len(p)
            /\ \A i \in 1..Len(t) : b[i] = t[i]
            /\ \A i \in 1..Len(p) : b[Len(t) + i] = p[i]
        <5>1. t \in Seq(Events) /\ p \in Seq(Events) /\ b = t \o p
          BY <2>1, <2>3, <3>4, Zenon
        <5> QED
          BY <5>1, Concat
      <4> QED
        BY <2>3, <4>1, <4>2, Zenon
    <3>6. ASSUME NEW i \in 1..Len(b) PROVE b[i] = a[i]
      <4>1. CASE i \in 1..Len(t)
        BY <3>5, <4>1
      <4>2. CASE ~(i \in 1..Len(t))
        <5>1. i - Len(t) \in 1..read /\ i - Len(t) \in 1..Len(c) /\ i = Len(t) + (i - Len(t))
          BY <2>2, <3>5, <4>2
        <5>2. PICK k \in 1..read : k \in 1..Len(c) /\ i = Len(t) + k
          BY <5>1, Zenon
        <5> QED
          BY <2>3, <3>5, <5>2, Zenon
      <4> QED
        BY <4>1, <4>2
    <3>7. Len(b) <= Len(a)
      BY <2>2, <3>5
    <3> QED
      BY <3>3, <3>4, <3>6, <3>7, PlainPrefix, Zenon
  <2>10. KbLine'
    BY <1>0, <1>1, <2>5, <2>8, <2>9 DEF KbLine
  <2> QED
    BY <1>2, <1>4, <2>6, <2>7, <2>10 DEF KbInv
<1> QED
  BY <1>5, <1>6 DEF Drops

LEMMA HolderGoesKeeps ==
    ASSUME KbInv, NEW n \in Links, NEW who \in {"session", "streams"}, HolderGoes(n, who)
    PROVE  KbInv'
PROOF
<1>0. KbTypes /\ KbBooleans /\ KbLinks /\ KbLine /\ KbPointer /\ Owned
  BY DEF KbInv
<1>1. /\ pressed' = pressed /\ focused' = focused /\ kept' = kept /\ channel' = channel /\ aim' = aim
      /\ did' = did /\ held' = held /\ down' = down /\ pointer' = pointer /\ refused' = refused
      /\ current' = current /\ lastLink' = lastLink /\ taking' = taking /\ input' = input
      /\ current # n
  BY DEF HolderGoes, userVars, hostVars
<1>2. KbTypes'
  BY <1>0, <1>1 DEF KbTypes, HolderGoes
<1>3. KbLinks'
  BY <1>0, <1>1 DEF KbLinks, KbTypes, HolderGoes
<1>4. KbBooleans' /\ KbLine' /\ KbPointer' /\ Owned'
  BY <1>0, <1>1, Zenon DEF KbBooleans, KbLine, KbPointer, Owned
<1> QED
  BY <1>2, <1>3, <1>4 DEF KbInv

LEMMA HeldTypes ==
    ASSUME NEW e \in Events
    PROVE  /\ \A keys : Held(keys, e) \subseteq keys \cup KbKeys
           /\ \A keys, K, x : x \in Held(keys, e) /\ (x \in keys => x \in K) => x \in Held(K, e)
PROOF BY DEF Held, Events

LEMMA InjectKeeps == ASSUME KbInv, NEW n \in Links, Inject(n) PROVE KbInv'
PROOF
<1>0. KbTypes /\ KbBooleans /\ KbLinks /\ KbLine /\ KbPointer /\ Owned
  BY DEF KbInv
<1>1. /\ pressed' = pressed /\ focused' = focused /\ kept' = kept /\ channel' = channel /\ aim' = aim
      /\ did' = did /\ current' = current /\ lastLink' = lastLink /\ holders' = holders /\ input' = input
      /\ input[n] = "run" /\ taking[n] # <<>>
  BY DEF Inject, userVars
<1>2. PICK t \in Seq(Events) : t = taking[n] /\ t # <<>>
  BY <1>0, <1>1, KbStreams, Zenon
<1>3. PICK e \in Events, r \in Seq(Events) : e = Head(t) /\ r = Tail(t)
  BY <1>2, TailOf, Zenon
<1>4. /\ taking' = [taking EXCEPT ![n] = r] /\ taking' \in [Links -> Seq(Events)]
      /\ taking'[n] = r /\ (\A m \in Links \ {n} : taking'[m] = taking[m])
  BY <1>0, <1>2, <1>3 DEF Inject, KbTypes
<1>5. n <= lastLink /\ n \in Nat \ {0} /\ lastLink \in Nat
  BY <1>0, <1>1, KeyboardAssumption DEF KbLinks, KbTypes
<1>6. \A m \in Links : m > lastLink => m # n
  BY <1>5, KeyboardAssumption
<1>7. CASE UNCHANGED <<down, held, pointer>> /\ refused'
  <2>1. KbTypes' /\ KbLinks'
    BY <1>0, <1>1, <1>4, <1>6, <1>7 DEF KbTypes, KbLinks
  <2>2. KbBooleans'
    BY <1>0, <1>1, <1>7, Zenon DEF KbBooleans, Inject
  <2>3. KbLine' /\ KbPointer'
    BY <1>0, <1>1, <1>5, <1>7 DEF KbLine, KbPointer
  <2>4. Owned'
    BY <1>0, <1>1, <1>7 DEF Owned
  <2> QED
    BY <2>1, <2>2, <2>3, <2>4 DEF KbInv
<1>8. ASSUME down' = Held(down, e), held' = [held EXCEPT ![n] = Held(@, e)],
             pointer' = IF e.kind = "move" THEN Lands(e.x) ELSE pointer,
             refused' = refused
      PROVE  KbInv'
  <2>1. /\ held'[n] = Held(held[n], e) /\ (\A m \in Links \ {n} : held'[m] = held[m])
        /\ held' \in [Links -> SUBSET KbKeys] /\ down' \subseteq KbKeys
    BY <1>0, <1>3, <1>8, HeldTypes DEF KbTypes
  <2>2. pointer' \in 0..(Desk - 1)
    <3>1. e.x \in 0..Top
      BY <1>3 DEF Events
    <3> QED
      BY <1>0, <1>8, <3>1, LandsType DEF KbTypes
  <2>3. KbTypes'
    BY <1>0, <1>1, <1>4, <2>1, <2>2 DEF KbTypes
  <2>4. KbLinks'
    BY <1>0, <1>1, <1>4, <1>6, <2>1 DEF KbLinks
  <2>5. KbBooleans'
    BY <1>0, <1>1, <1>8, Zenon DEF KbBooleans
  <2>6. KbLine'
    <3>1. ~refused => PlainTexts(held'[n], r)
      BY <1>0, <1>2, <1>3, <2>1, LineTail, Zenon DEF KbLine
    <3>2. ~refused => \A m \in Links : PlainTexts(held'[m], taking'[m])
      BY <1>0, <1>4, <2>1, <3>1 DEF KbLine
    <3>3. ASSUME ~refused, current # 0
          PROVE  /\ PlainTexts(held'[current], taking'[current] \o channel)
                 /\ LeavesOnly(held'[current], taking'[current] \o channel, kept)
      <4>1. /\ PlainTexts(held[current], taking[current] \o channel)
            /\ LeavesOnly(held[current], taking[current] \o channel, kept) /\ current \in Links
        BY <1>0, <3>3 DEF KbLine, KbTypes
      <4>2. CASE current # n
        BY <1>4, <2>1, <4>1, <4>2
      <4>3. CASE current = n
        <5>1. PICK s \in Seq(Events) : s = t \o channel
          BY <1>0, <1>2, KbStreams, Zenon
        <5>2. s # <<>> /\ Head(s) = e /\ Tail(s) = r \o channel
          BY <1>0, <1>2, <1>3, <5>1, KbStreams, TailConcat
        <5>3. PlainTexts(held[n], s) /\ LeavesOnly(held[n], s, kept)
          BY <1>2, <4>1, <4>3, <5>1, Zenon
        <5>4. PlainTexts(Held(held[n], e), Tail(s)) /\ LeavesOnly(Held(held[n], e), Tail(s), kept)
          BY <5>1, <5>2, <5>3, LineTail, Zenon
        <5> QED
          BY <1>4, <2>1, <4>3, <5>2, <5>4, Zenon
      <4> QED
        BY <4>2, <4>3
    <3> QED
      BY <1>0, <1>1, <1>8, <3>2, <3>3 DEF KbLine
  <2>7. KbPointer'
    <3>1. lastLink # 0
      BY <1>5
    <3>2. ASSUME lastLink = 1, current = 1, aim # NoAim, ~refused
          PROVE  MovesTo(taking'[1] \o channel, aim) \/ (NoMove(taking'[1] \o channel) /\ pointer' = Place + aim)
      <4>0. n = 1
        BY <1>5, <3>2
      <4>1. PICK s \in Seq(Events) : s = t \o channel
        BY <1>0, <1>2, KbStreams, Zenon
      <4>2. s # <<>> /\ Head(s) = e /\ Tail(s) = r \o channel
        BY <1>0, <1>2, <1>3, <4>1, KbStreams, TailConcat
      <4>3. MovesTo(s, aim) \/ (NoMove(s) /\ pointer = Place + aim)
        BY <1>0, <1>2, <3>2, <4>0, <4>1, Zenon DEF KbPointer
      <4>4. PICK v \in Seq(Events) : v = Tail(s) /\ Len(v) = Len(s) - 1 /\ (\A i \in 1..Len(v) : v[i] = s[i + 1])
                                     /\ s[1] = e /\ Len(s) \in Nat \ {0}
        BY <4>1, <4>2, TailOf, Zenon
      <4>5. ASSUME NoMove(s) PROVE NoMove(v) /\ e.kind # "move"
        <5>1. (\A i \in 1..Len(v) : i + 1 \in 1..Len(s)) /\ 1 \in 1..Len(s)
          BY <4>4
        <5> QED
          BY <4>4, <4>5, <5>1 DEF NoMove
      <4>6. ASSUME NEW i \in 1..Len(s), s[i].kind = "move", s[i].x = Normalise(aim),
                   \A j \in (i + 1)..Len(s) : s[j].kind # "move"
            PROVE  MovesTo(v, aim) \/ (NoMove(v) /\ pointer' = Place + aim)
        <5>1. CASE i = 1
          <6>1. \A j \in 1..Len(v) : j + 1 \in (i + 1)..Len(s)
            BY <4>4, <5>1
          <6>2. NoMove(v)
            BY <4>4, <4>6, <6>1 DEF NoMove
          <6>3. aim \in 0..(Extent - 1)
            BY <1>0, <3>2 DEF KbTypes
          <6>4. pointer' = Lands(Normalise(aim))
            BY <1>8, <4>4, <4>6, <5>1
          <6> QED
            BY <6>2, <6>3, <6>4, PixelReached
        <5>2. CASE i # 1
          <6>1. i - 1 \in 1..Len(v) /\ (i - 1) + 1 = i
            BY <4>4, <5>2
          <6>2. \A j \in ((i - 1) + 1)..Len(v) : j \in 1..Len(v) /\ j + 1 \in (i + 1)..Len(s)
            BY <4>4
          <6>3. v[i - 1] = s[i]
            BY <4>4, <6>1
          <6>4. \A j \in ((i - 1) + 1)..Len(v) : v[j].kind # "move"
            BY <4>4, <4>6, <6>2
          <6>5. MovesTo(v, aim)
            BY <4>6, <6>1, <6>3, <6>4, Zenon DEF MovesTo
          <6> QED
            BY <6>5
        <5> QED
          BY <5>1, <5>2
      <4>7. MovesTo(v, aim) \/ (NoMove(v) /\ pointer' = Place + aim)
        <5>1. CASE MovesTo(s, aim)
          BY <4>6, <5>1, Zenon DEF MovesTo
        <5>2. CASE NoMove(s) /\ pointer = Place + aim
          BY <1>8, <4>5, <5>2
        <5> QED
          BY <4>3, <5>1, <5>2
      <4> QED
        BY <1>4, <4>0, <4>2, <4>4, <4>7, Zenon
    <3> QED
      BY <1>1, <1>8, <3>1, <3>2 DEF KbPointer
  <2>8. Owned'
    <3>1. CASE refused /\ \E m \in Links : input[m] = "gone"
      BY <1>1, <1>8, <3>1 DEF Owned
    <3>2. CASE down \subseteq UNION {held[m] : m \in {l \in Links : input[l] = "run"}}
      <4>1. ASSUME NEW x \in down' PROVE \E m \in Links : input'[m] = "run" /\ x \in held'[m]
        <5>1. CASE x \in down
          <6>1. PICK m \in Links : input[m] = "run" /\ x \in held[m]
            BY <3>2, <5>1
          <6>2. CASE m = n
            BY <1>1, <1>3, <1>8, <2>1, <4>1, <6>1, <6>2, HeldTypes
          <6>3. CASE m # n
            BY <1>1, <2>1, <6>1, <6>3
          <6> QED
            BY <6>2, <6>3
        <5>2. CASE x \notin down
          BY <1>1, <1>3, <1>8, <2>1, <4>1, <5>2, HeldTypes
        <5> QED
          BY <5>1, <5>2
      <4> QED
        BY <4>1 DEF Owned
    <3> QED
      BY <1>0, <3>1, <3>2 DEF Owned
  <2> QED
    BY <2>3, <2>4, <2>5, <2>6, <2>7, <2>8 DEF KbInv
<1> QED
  BY <1>2, <1>3, <1>7, <1>8 DEF Inject

LEMMA ReleaseAllKeeps == ASSUME KbInv, NEW n \in Links, ReleaseAll(n) PROVE KbInv'
PROOF
<1>0. KbTypes /\ KbBooleans /\ KbLinks /\ KbLine /\ KbPointer /\ Owned
  BY DEF KbInv
<1>1. /\ pressed' = pressed /\ focused' = focused /\ kept' = kept /\ channel' = channel /\ aim' = aim
      /\ did' = did /\ current' = current /\ lastLink' = lastLink /\ holders' = holders
      /\ taking' = taking /\ pointer' = pointer
      /\ input[n] = "run" /\ holders[n] = {} /\ taking[n] = <<>>
      /\ held' = [held EXCEPT ![n] = {}] /\ input' = [input EXCEPT ![n] = "gone"]
  BY DEF ReleaseAll, userVars
<1>2. /\ held'[n] = {} /\ (\A m \in Links \ {n} : held'[m] = held[m] /\ input'[m] = input[m])
      /\ input'[n] = "gone" /\ held' \in [Links -> SUBSET KbKeys]
      /\ input' \in [Links -> {"none", "run", "gone"}]
  BY <1>0, <1>1 DEF KbTypes
<1>3. current # n
  BY <1>0, <1>1, KbStreams DEF KbLinks
<1>4. (down' = down \ held[n] /\ refused' = refused) \/ (down' = down /\ refused' = TRUE)
  BY DEF ReleaseAll
<1>5. KbTypes'
  BY <1>0, <1>1, <1>2, <1>4 DEF KbTypes
<1>6. KbBooleans'
  BY <1>0, <1>1, <1>4, Zenon DEF KbBooleans
<1>7. KbLinks'
  <2>0. n \in Nat \ {0} /\ lastLink \in Nat
    BY <1>0, KeyboardAssumption DEF KbTypes
  <2>a. ~(n > lastLink)
    BY <1>0, <1>1 DEF KbLinks
  <2>1. n <= lastLink
    BY <2>0, <2>a
  <2>2. \A m \in Links : m > lastLink => m # n
    BY <2>0, <2>1, KeyboardAssumption
  <2>3. current # 0 => current \in Links
    BY <1>0 DEF KbTypes
  <2> QED
    BY <1>0, <1>1, <1>2, <1>3, <2>2, <2>3 DEF KbLinks
<1>8. refused => refused'
  BY <1>4
<1>9. KbLine'
  <2>1. PlainTexts(held'[n], taking[n])
    BY <1>1, EmptyLine
  <2>2. current # 0 => held'[current] = held[current]
    BY <1>0, <1>2, <1>3 DEF KbTypes
  <2>3. ~refused => \A m \in Links : PlainTexts(held'[m], taking[m])
    BY <1>0, <1>2, <2>1 DEF KbLine
  <2> QED
    BY <1>0, <1>1, <1>8, <2>2, <2>3 DEF KbLine
<1>10. KbPointer'
  BY <1>0, <1>1, <1>8 DEF KbPointer
<1>11. Owned'
  <2>1. CASE refused'
    BY <1>2, <2>1 DEF Owned
  <2>2. CASE ~refused'
    <3>1. down \subseteq UNION {held[m] : m \in {l \in Links : input[l] = "run"}} /\ down' = down \ held[n]
      BY <1>0, <1>4, <1>8, <2>2 DEF Owned
    <3>2. ASSUME NEW x \in down' PROVE \E m \in Links : input'[m] = "run" /\ x \in held'[m]
      <4>1. PICK m \in Links : input[m] = "run" /\ x \in held[m]
        BY <3>1, <3>2
      <4>2. m # n
        BY <3>1, <3>2, <4>1
      <4> QED
        BY <1>2, <4>1, <4>2
    <3> QED
      BY <3>2 DEF Owned
  <2> QED
    BY <2>1, <2>2
<1> QED
  BY <1>5, <1>6, <1>7, <1>9, <1>10, <1>11 DEF KbInv

LEMMA KbStep == ASSUME KbInv, [KbNext]_kbVars PROVE KbInv'
PROOF
<1>1. CASE UNCHANGED kbVars
  <2>1. /\ pressed' = pressed /\ focused' = focused /\ kept' = kept /\ channel' = channel /\ aim' = aim
        /\ did' = did /\ held' = held /\ down' = down /\ pointer' = pointer /\ refused' = refused
        /\ current' = current /\ lastLink' = lastLink /\ taking' = taking /\ holders' = holders
        /\ input' = input
    BY <1>1 DEF kbVars, userVars, hostVars
  <2> QED
    BY <2>1, Zenon DEF KbInv, KbTypes, KbBooleans, KbLinks, KbLine, KbPointer, Owned
<1> QED
  BY <1>1, UserKeeps, BeginsKeeps, SendInputKeeps, DropsKeeps, InjectKeeps, ReleaseAllKeeps,
     HolderGoesKeeps, Zenon DEF KbNext

LEMMA KbInvSafe == KbInv => KbTypeOK /\ Owned /\ LetGo /\ PointerThere /\ TypedPlain
PROOF
<1> SUFFICES ASSUME KbInv PROVE KbTypeOK /\ Owned /\ LetGo /\ PointerThere /\ TypedPlain
  OBVIOUS
<1>0. KbTypes /\ KbBooleans /\ KbLinks /\ KbLine /\ KbPointer /\ Owned
  BY DEF KbInv
<1>1. KbTypeOK
  <2>1. /\ pressed \subseteq Keys /\ kept \subseteq Keys /\ did \in 0..EventBound
        /\ aim \in {NoAim} \cup 0..(Extent - 1) /\ pointer \in 0..(Desk - 1)
        /\ current \in Links \cup {0} /\ lastLink \in Links \cup {0}
        /\ input \in [Links -> {"none", "run", "gone"}]
        /\ down \subseteq Keys \cup {"Enter"} /\ \A n \in Links : held[n] \subseteq Keys \cup {"Enter"}
    BY <1>0 DEF KbTypes, KbKeys
  <2> QED
    BY <1>0, <2>1, Zenon DEF KbTypeOK, KbBooleans
<1>2. ASSUME NEW n \in Links, ~refused, \A m \in Links \ {n} : input[m] # "run"
      PROVE  down \subseteq held[n]
  BY <1>0, <1>2 DEF Owned
<1>3. \A keys, s, k : UpBefore(keys, s, 1, k) => k \notin keys
  BY DEF UpBefore
<1>4. ASSUME Settled PROVE current \in Links /\ down \subseteq held[current] /\ taking[current] \o channel = <<>>
  <2>1. current \in Links /\ ~refused /\ (\A m \in Links \ {current} : input[m] # "run")
    BY <1>0, <1>4 DEF Settled, KbTypes, Old
  <2>2. <<>> \o <<>> = <<>>
    OBVIOUS
  <2> QED
    BY <1>2, <1>4, <2>1, <2>2 DEF Settled
<1>5. LetGo
  <2> SUFFICES ASSUME Settled PROVE down \subseteq kept /\ kept \subseteq pressed /\ (~focused => down = {})
    BY DEF LetGo
  <2>1. LeavesOnly(held[current], <<>>, kept)
    BY <1>0, <1>4 DEF KbLine, Settled
  <2>2. Len(<<>>) + 1 = 1
    OBVIOUS
  <2>3. \A k \in KbKeys \ kept : k \notin held[current]
    BY <1>3, <2>1, <2>2 DEF LeavesOnly
  <2>4. held[current] \subseteq KbKeys /\ kept \subseteq pressed
    BY <1>0, <1>4 DEF KbTypes
  <2> QED
    BY <1>0, <1>4, <2>3, <2>4 DEF KbLine
<1>6. PointerThere
  <2> SUFFICES ASSUME Settled, lastLink = 1, aim # NoAim PROVE pointer = Place + aim
    BY DEF PointerThere
  <2>1. current = 1 /\ ~refused
    BY <1>0 DEF Settled, KbLinks
  <2>2. ~MovesTo(<<>>, aim)
    BY DEF MovesTo
  <2> QED
    BY <1>0, <1>4, <2>1, <2>2 DEF KbPointer
<1>7. TypedPlain
  <2> SUFFICES ASSUME NEW n \in Links, input[n] = "run", taking[n] # <<>>, Head(taking[n]).kind = "text",
                      ~refused, ~\E m \in Links \ {n} : input[m] = "run"
               PROVE  down = {}
    BY DEF TypedPlain
  <2>1. PICK s \in Seq(Events) : s = taking[n] /\ s # <<>> /\ Head(s) = s[1] /\ Len(s) \in Nat \ {0}
    BY <1>0, KbStreams, TailOf, Zenon
  <2>2. 1 \in 1..Len(s) /\ PlainTexts(held[n], s) /\ s[1].kind = "text"
    BY <1>0, <2>1 DEF KbLine
  <2>3. \A k \in KbKeys : k \notin held[n]
    BY <1>3, <2>2 DEF PlainTexts
  <2> QED
    BY <1>0, <1>2, <2>3 DEF KbTypes
<1> QED
  BY <1>0, <1>1, <1>5, <1>6, <1>7

\* A key down on the host is held by an input thread that will let go of it,
\* once what was sent is applied only what the user holds is down, text typed
\* out meets no key held down, and the pointer is on the pixel pointed at.
THEOREM KeysAlwaysLetGo == KbSpec => [](KbTypeOK /\ Owned /\ LetGo /\ PointerThere /\ TypedPlain)
PROOF
<1>1. KbInv /\ [KbNext]_kbVars => KbInv'
  BY KbStep
<1> QED
  BY <1>1, KbStart, KbInvSafe, PTL DEF KbSpec

---------------------------------------------------------------------------
(* The agent. *)

LEMMA PartsStart ==
    AgentInit => SessInit /\ KbInit /\ RateInit /\ RegInit /\ SvcInit /\ InstInit /\ LogInit
PROOF BY DEF AgentInit

\* A step of the agent is a step of each part, or leaves it as it is.
LEMMA PartsStep ==
    [AgentNext]_agentVars =>
        /\ [SessNext]_sessVars /\ [KbNext]_kbVars /\ [RateNext]_rateVars /\ [RegNext]_regVars
        /\ [SvcNext]_svcVars /\ [InstNext]_instVars /\ [LogNext]_logVars
PROOF
<1>1. UNCHANGED agentVars =>
        /\ UNCHANGED sessVars /\ UNCHANGED kbVars /\ UNCHANGED rateVars /\ UNCHANGED regVars
        /\ UNCHANGED svcVars /\ UNCHANGED instVars /\ UNCHANGED logVars
  BY DEF agentVars
<1> QED
  BY <1>1, Zenon DEF AgentNext, Others

\* A session runs one pipeline, no key stays down that no one lets go of, the
\* pointer is where it was put and the rate under its ceiling (session.rs,
\* input.rs, held.rs, rate.rs).
THEOREM AgentSessionSafe == AgentSpec => []SessionSafe
PROOF
<1> DEFINE Inv == SessInv /\ KbInv /\ RateInv
<1>1. AgentInit => Inv
  BY PartsStart, SessStart, KbStart, RateStart
<1>2. Inv /\ [AgentNext]_agentVars => Inv'
  BY PartsStep, SessStep, KbStep, RateStep
<1>3. Inv => SessionSafe
  BY SessInvSafe, KbInvSafe DEF SessionSafe, RateInv, RateTypes
<1> QED
  BY <1>1, <1>2, <1>3, PTL DEF AgentSpec

\* One agent in the session of the console, one way in, a configuration that
\* lets someone in and a log that loses nothing (service.rs, rendezvous.rs,
\* machine.rs, enroll.rs, logfile.rs).
THEOREM AgentHostSafe == AgentSpec => []HostSafe
PROOF
<1> DEFINE Inv == SvcInv /\ RegInv /\ InstInv /\ LogInv
<1>1. AgentInit => Inv
  BY PartsStart, SvcStart, RegStart, InstStart, LogStart
<1>2. Inv /\ [AgentNext]_agentVars => Inv'
  BY PartsStep, SvcStep, RegPreserved, InstStep, LogStep
<1>3. Inv => HostSafe
  BY SvcInvSafe, RegInvSafe, InstInvSafe, LogInvSafe DEF HostSafe
<1> QED
  BY <1>1, <1>2, <1>3, PTL DEF AgentSpec

\* No step gives a frame an id that is not the next or takes a token that waits
\* out of the configuration unanswered (session.rs: next_frame_id; machine.rs:
\* forget_token).
THEOREM AgentStepsRight == AgentSpec => AgentSteps
PROOF
<1> DEFINE Inv == SessInv /\ InstInv
<1>1. AgentInit => Inv
  BY PartsStart, SessStart, InstStart
<1>2. Inv /\ [AgentNext]_agentVars => Inv'
  BY PartsStep, SessStep, InstStep
<1>3. Inv /\ [AgentNext]_agentVars => [NextIdGiven]_sessVars /\ [TokenAnswered]_instVars
  BY PartsStep, NextIdStep, TokenStep
<1> QED
  BY <1>1, <1>2, <1>3, PTL DEF AgentSpec, AgentSteps, IdsRunOn, TokenWaits, NextIdGiven, TokenAnswered

=============================================================================
