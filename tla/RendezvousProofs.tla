-------------------------- MODULE RendezvousProofs --------------------------
(***************************************************************************)
(* Proofs about the registry, for any keys, IDs, connections and viewers.   *)
(***************************************************************************)
EXTENDS Rendezvous, TLAPS

\* What TypeOK says of the agents' tasks and the registry.
AgentTypeOK ==
    /\ agents \in [Ids -> Registration \cup {None}]
    /\ \A i \in Ids : agents[i] # None => IdOfConn(agents[i].conn) = i
    /\ latest \in [Ids -> Conns \cup {None}]
    /\ phase \in [Conns -> Phases] /\ alive \subseteq Conns
    /\ looked \in [Conns -> BOOLEAN]
    /\ displaced \in [Conns -> Conns \cup {None}]
    /\ \A c \in Conns : displaced[c] # None => KeyOf[displaced[c]] # KeyOf[c]

DeviceTypeOK == /\ devices \subseteq managed /\ managed \subseteq Keys
                /\ enrolling \subseteq managed

ViewerTypeOK == /\ step \in [Viewers -> Steps]
                /\ found \in [Viewers -> Conns \cup {None}]
                /\ incoming \subseteq Viewers /\ readied \subseteq Viewers

\* A registration is none's absence, and a connection's key gives an ID.
LEMMA Constants ==
    /\ None \notin Conns /\ None \notin Registration
    /\ \A c \in Conns : IdOfConn(c) \in Ids
PROOF BY NoneAssumption, IdsAssumption DEF IdOfConn, Registration

-----------------------------------------------------------------------------
(* Types *)

\* A step of an agent's task, whichever it is, keeps the registry's types.
LEMMA AgentTypes ==
    ASSUME AgentTypeOK, NEW c \in Conns, Agent(c)
    PROVE  AgentTypeOK'
PROOF
<1> USE Constants DEF AgentTypeOK, Phases, Move
<1>1. CASE Register(c)
  BY <1>1 DEF Register
<1>2. CASE Lost(c)
  BY <1>2 DEF Lost
<1>3. CASE Look(c)
  BY <1>3 DEF Look
<1>4. CASE Claim(c)
  <2> DEFINE i == IdOfConn(c)
             entry == [conn |-> c, enrolled |-> looked[c]]
  <2>1. entry \in Registration /\ entry.conn = c /\ i \in Ids
    BY DEF Registration
  <2>2. /\ agents' = [agents EXCEPT ![i] = entry]
        /\ latest' = [latest EXCEPT ![i] = c]
        /\ phase' = [phase EXCEPT ![c] = "claimed"]
        /\ UNCHANGED <<alive, looked>>
    BY <1>4 DEF Claim
  <2>3. /\ displaced' \in [Conns -> Conns \cup {None}]
        /\ \A d \in Conns : displaced'[d] # None => KeyOf[displaced'[d]] # KeyOf[d]
    <3>1. CASE ClaimOf(agents[i], c) = "Displace"
      <4>1. agents[i] \in Registration /\ KeyOf[agents[i].conn] # KeyOf[c]
        BY <3>1, <2>1 DEF ClaimOf
      <4>2. agents[i].conn \in Conns
        BY <4>1 DEF Registration
      <4>3. displaced' = [displaced EXCEPT ![c] = agents[i].conn]
        BY <1>4, <3>1 DEF Claim
      <4> QED
        BY <4>1, <4>2, <4>3
    <3>2. CASE ClaimOf(agents[i], c) # "Displace"
      BY <1>4, <3>2 DEF Claim
    <3> QED
      BY <3>1, <3>2
  <2> HIDE DEF entry, i
  <2>4. /\ agents' \in [Ids -> Registration \cup {None}]
        /\ \A j \in Ids : agents'[j] # None => IdOfConn(agents'[j].conn) = j
    BY <2>1, <2>2 DEF i, IdOfConn
  <2> QED
    BY <2>1, <2>2, <2>3, <2>4
<1>5. CASE Refuse(c)
  BY <1>5 DEF Refuse
<1>6. CASE CloseStranger(c)
  BY <1>6 DEF CloseStranger
<1>7. CASE Tell(c)
  BY <1>7 DEF Tell
<1>8. CASE TellFails(c)
  BY <1>8 DEF TellFails
<1>9. CASE Leave(c)
  BY <1>9 DEF Leave
<1>10. CASE Remove(c)
  BY <1>10 DEF Remove
<1> QED
  BY <1>1, <1>2, <1>3, <1>4, <1>5, <1>6, <1>7, <1>8, <1>9, <1>10
  DEF Agent, RegisterStep

\* Enrolling and deleting devices changes at most a registration's flag.
LEMMA DeviceTypes ==
    ASSUME AgentTypeOK, DeviceTypeOK, NEW k \in Keys, Device(k)
    PROVE  AgentTypeOK' /\ DeviceTypeOK'
PROOF
<1> USE Constants DEF AgentTypeOK, DeviceTypeOK
<1>1. CASE Enroll(k)
  BY <1>1 DEF Enroll, agentVars
<1>2. CASE DeleteDevice(k)
  BY <1>2 DEF DeleteDevice, agentVars
<1>3. CASE Manage(k)
  <2> DEFINE i == IdOf[k]
  <2>1. i \in Ids
    BY IdsAssumption
  <2>2. CASE agents[i] # None /\ KeyOf[agents[i].conn] = k
    <3> DEFINE entry == [agents[i] EXCEPT !.enrolled = TRUE]
    <3>1. agents[i] \in Registration
      BY <2>1, <2>2
    <3>2. entry \in Registration /\ entry.conn = agents[i].conn
      BY <3>1 DEF Registration
    <3>3. agents' = [agents EXCEPT ![i] = entry]
      BY <1>3, <2>2, Zenon DEF Manage
    <3> HIDE DEF entry
    <3>4. /\ agents' \in [Ids -> Registration \cup {None}]
          /\ \A j \in Ids : agents'[j] # None => IdOfConn(agents'[j].conn) = j
      BY <2>1, <2>2, <3>2, <3>3
    <3> QED
      BY <1>3, <3>4 DEF Manage
  <2>3. CASE ~(agents[i] # None /\ KeyOf[agents[i].conn] = k)
    BY <1>3, <2>1, <2>3 DEF Manage
  <2> QED
    BY <2>2, <2>3
<1> QED
  BY <1>1, <1>2, <1>3 DEF Device

\* A viewer's step keeps what is known of viewers.
LEMMA ViewerTypes ==
    ASSUME AgentTypeOK, ViewerTypeOK, NEW v \in Viewers, Viewer(v)
    PROVE  ViewerTypeOK'
PROOF
<1> USE Constants DEF ViewerTypeOK, Steps, Advance
<1>1. ASSUME NEW token \in BOOLEAN, Find(v, token)
      PROVE  ViewerTypeOK'
  <2>1. agents[IdWanted[v]].conn \in Conns
    <3>1. IdWanted[v] \in Ids /\ agents[IdWanted[v]] # None
      BY <1>1, ViewersAssumption, Zenon DEF Find, Reachable
    <3>2. agents \in [Ids -> Registration \cup {None}]
      BY DEF AgentTypeOK
    <3>3. agents[IdWanted[v]] \in Registration
      BY <3>1, <3>2
    <3> QED
      BY <3>3 DEF Registration
  <2> QED
    BY <1>1, <2>1 DEF Find
<1>2. CASE NotFound(v)
  BY <1>2 DEF NotFound
<1>3. CASE IntroduceStep(v)
  BY <1>3 DEF IntroduceStep, Announce, AnnounceFails, AnswerTimeout, Relay
<1>4. ASSUME NEW ready \in BOOLEAN, Answer(v, ready)
      PROVE  ViewerTypeOK'
  BY <1>4 DEF Answer
<1>5. CASE RelayEnds(v)
  BY <1>5 DEF RelayEnds
<1> QED
  BY <1>1, <1>2, <1>3, <1>4, <1>5 DEF Viewer

\* Which variables the three kinds of steps leave alone.
LEMMA AgentFrame ==
    ASSUME NEW c \in Conns, Agent(c) PROVE UNCHANGED <<deviceVars, viewerVars>>
PROOF BY DEF Agent, RegisterStep, Register, Lost, Look, Claim, Refuse,
             CloseStranger, Tell, TellFails, Leave, Remove

\* Devices come and go without moving anybody's task.
LEMMA DeviceFrame ==
    ASSUME NEW k \in Keys, Device(k)
    PROVE  UNCHANGED <<phase, alive, looked, displaced, latest, viewerVars>>
PROOF BY DEF Device, Enroll, Manage, DeleteDevice, agentVars

\* Viewers read the registry, and change nothing in it.
LEMMA ViewerFrame ==
    ASSUME NEW v \in Viewers, Viewer(v) PROVE UNCHANGED <<agentVars, deviceVars>>
PROOF BY DEF Viewer, Find, NotFound, IntroduceStep, Announce, AnnounceFails,
             AnswerTimeout, Relay, Answer, RelayEnds

\* Every step keeps the types.
LEMMA TypeStep ==
    ASSUME TypeOK, [Next]_vars PROVE TypeOK'
PROOF
<1> USE DEF AgentTypeOK, DeviceTypeOK, ViewerTypeOK
<1>1. AgentTypeOK /\ DeviceTypeOK /\ ViewerTypeOK
  BY DEF TypeOK
<1>2. SUFFICES AgentTypeOK' /\ DeviceTypeOK' /\ ViewerTypeOK'
  BY DEF TypeOK
<1> HIDE DEF AgentTypeOK, DeviceTypeOK, ViewerTypeOK
<1>3. ASSUME NEW c \in Conns, Agent(c)
      PROVE  AgentTypeOK' /\ DeviceTypeOK' /\ ViewerTypeOK'
  BY <1>1, <1>3, AgentTypes, AgentFrame
  DEF DeviceTypeOK, ViewerTypeOK, deviceVars, viewerVars
<1>4. ASSUME NEW k \in Keys, Device(k)
      PROVE  AgentTypeOK' /\ DeviceTypeOK' /\ ViewerTypeOK'
  BY <1>1, <1>4, DeviceTypes, DeviceFrame DEF ViewerTypeOK, viewerVars
<1>5. ASSUME NEW v \in Viewers, Viewer(v)
      PROVE  AgentTypeOK' /\ DeviceTypeOK' /\ ViewerTypeOK'
  BY <1>1, <1>5, ViewerTypes, ViewerFrame
  DEF AgentTypeOK, DeviceTypeOK, agentVars, deviceVars
<1>6. CASE UNCHANGED vars
  BY <1>1, <1>6 DEF AgentTypeOK, DeviceTypeOK, ViewerTypeOK, vars, agentVars,
                    deviceVars, viewerVars
<1> QED
  BY <1>3, <1>4, <1>5, <1>6 DEF Next

\* The registry's types hold always, and every entry is under the ID its own
\* key gives (register, Registry).
THEOREM TypeCorrect == Spec => []TypeOK
PROOF
<1>1. Init => TypeOK
  BY DEF Init, TypeOK, Phases, Steps
<1> QED
  BY <1>1, TypeStep, PTL DEF Spec

-----------------------------------------------------------------------------
(* Who has an ID *)

\* What one step can do to the registry: an agent claims its ID, removes its own
\* entry, or a device is marked as managed under its own key.
LEMMA RegistryStep ==
    ASSUME TypeOK, [Next]_vars
    PROVE  \/ UNCHANGED <<agents, latest, phase>>
           \/ \E c \in Conns : Claim(c) \/ Remove(c)
           \/ \E c \in Conns : /\ UNCHANGED <<agents, latest>>
                               /\ \/ Move(c, "away", "looking")
                                  \/ Move(c, "looking", "claiming")
                                  \/ Move(c, "claiming", "refused")
                                  \/ Move(c, "claimed", "telling")
                                  \/ Move(c, "telling", "serving")
                                  \/ Move(c, "telling", "untold")
                                  \/ Move(c, "serving", "removing")
           \/ /\ UNCHANGED <<latest, phase>>
              /\ \E k \in Keys : Manage(k)
PROOF
<1>1. ASSUME NEW c \in Conns, Agent(c), ~Claim(c), ~Remove(c)
      PROVE  \/ UNCHANGED <<agents, latest, phase>>
             \/ /\ UNCHANGED <<agents, latest>>
                /\ \/ Move(c, "away", "looking")
                   \/ Move(c, "looking", "claiming")
                   \/ Move(c, "claiming", "refused")
                   \/ Move(c, "claimed", "telling")
                   \/ Move(c, "telling", "serving")
                   \/ Move(c, "telling", "untold")
                   \/ Move(c, "serving", "removing")
  BY <1>1, Zenon DEF Agent, RegisterStep, Register, Lost, Look, Refuse, CloseStranger,
              Tell, TellFails, Leave
<1>2. ASSUME NEW k \in Keys, Device(k), ~Manage(k)
      PROVE  UNCHANGED <<agents, latest, phase>>
  BY <1>2 DEF Device, Enroll, DeleteDevice, agentVars
<1>3. ASSUME NEW k \in Keys, Manage(k)
      PROVE  UNCHANGED <<latest, phase>>
  BY <1>3 DEF Manage
<1>4. ASSUME NEW v \in Viewers, Viewer(v)
      PROVE  UNCHANGED <<agents, latest, phase>>
  BY <1>4, ViewerFrame DEF agentVars
<1>5. CASE UNCHANGED vars
  BY <1>5 DEF vars, agentVars
<1>6. CASE \E c \in Conns : Agent(c)
  BY <1>1, <1>6
<1>7. CASE \E k \in Keys : Device(k)
  BY <1>2, <1>3, <1>7
<1>8. CASE \E v \in Viewers : Viewer(v)
  BY <1>4, <1>8
<1> QED
  BY <1>5, <1>6, <1>7, <1>8 DEF Next

\* Marking a device as managed leaves every ID with the connection it had.
LEMMA ManageKeepsConns ==
    ASSUME TypeOK, NEW k \in Keys, Manage(k), NEW i \in Ids
    PROVE  /\ agents'[i] = None <=> agents[i] = None
           /\ agents[i] # None => agents'[i].conn = agents[i].conn
PROOF
<1>1. agents \in [Ids -> Registration \cup {None}] /\ IdOf[k] \in Ids
  BY IdsAssumption DEF TypeOK
<1>2. CASE i = IdOf[k] /\ agents[i] # None /\ KeyOf[agents[i].conn] = k
  <2>1. agents'[i] = [agents[i] EXCEPT !.enrolled = TRUE]
    BY <1>1, <1>2, Zenon DEF Manage
  <2>2. agents[i] \in Registration
    BY <1>1, <1>2
  <2> QED
    BY <2>1, <2>2, Constants DEF Registration
<1>3. CASE ~(i = IdOf[k] /\ agents[i] # None /\ KeyOf[agents[i].conn] = k)
  BY <1>1, <1>3 DEF Manage
<1> QED
  BY <1>2, <1>3

\* Only connections whose key gives an ID ever claim it.
LatestOwn == \A i \in Ids : latest[i] # None => IdOfConn(latest[i]) = i

\* Every step leaves an ID with the last to claim it, until that one removes it.
LEMMA LatestStep ==
    ASSUME TypeOK, LatestOwn, LatestStaysRegistered, [Next]_vars
    PROVE  LatestOwn' /\ LatestStaysRegistered'
PROOF
<1> USE DEF LatestOwn, LatestStaysRegistered
<1>1. /\ agents \in [Ids -> Registration \cup {None}]
      /\ latest \in [Ids -> Conns \cup {None}]
      /\ phase \in [Conns -> Phases]
  BY DEF TypeOK
<1>2. CASE UNCHANGED <<agents, latest, phase>>
  BY <1>2 DEF IdOfConn
<1>3. ASSUME NEW c \in Conns, Claim(c)
      PROVE  LatestOwn' /\ LatestStaysRegistered'
  <2> DEFINE i == IdOfConn(c)
             entry == [conn |-> c, enrolled |-> looked[c]]
  <2>1. entry \in Registration /\ entry.conn = c /\ i \in Ids
    BY Constants DEF Registration, TypeOK
  <2>2. /\ agents' = [agents EXCEPT ![i] = entry]
        /\ latest' = [latest EXCEPT ![i] = c]
        /\ phase' = [phase EXCEPT ![c] = "claimed"]
    BY <1>3 DEF Claim, Move
  <2> HIDE DEF entry
  <2>3. LatestOwn'
    BY <1>1, <2>1, <2>2 DEF IdOfConn
  <2>4. LatestStaysRegistered'
    BY <1>1, <2>1, <2>2, Constants
  <2> QED
    BY <2>3, <2>4
<1>4. ASSUME NEW c \in Conns, Remove(c)
      PROVE  LatestOwn' /\ LatestStaysRegistered'
  BY <1>1, <1>4, Constants DEF Remove, Move, IdOfConn
<1>5. ASSUME NEW c \in Conns, UNCHANGED <<agents, latest>>,
             NEW from, NEW to, Move(c, from, to),
             to \in {"claimed", "telling", "serving"}
                => from \in {"claimed", "telling", "serving"}
      PROVE  LatestOwn' /\ LatestStaysRegistered'
  BY <1>1, <1>5 DEF Move, IdOfConn
<1>6. ASSUME NEW k \in Keys, Manage(k), UNCHANGED <<latest, phase>>
      PROVE  LatestOwn' /\ LatestStaysRegistered'
  BY <1>6, ManageKeepsConns DEF IdOfConn
<1> QED
  BY <1>2, <1>3, <1>4, <1>5, <1>6, RegistryStep

\* Agent.registration: whoever claimed an ID last has it while its task runs; a
\* stale connection going away does not remove it (register, remove).
THEOREM LatestAlwaysRegistered == Spec => []LatestStaysRegistered
PROOF
<1>1. Init => LatestOwn /\ LatestStaysRegistered
  BY DEF Init, LatestOwn, LatestStaysRegistered
<1> QED
  BY <1>1, LatestStep, TypeCorrect, PTL DEF Spec

\* Every step keeps the entries of tasks that are over out of the registry.
LEMMA RemovedStep ==
    ASSUME TypeOK, ServedAreRemoved, [Next]_vars
    PROVE  ServedAreRemoved'
PROOF
<1> USE DEF ServedAreRemoved, EntryOf
<1>1. /\ agents \in [Ids -> Registration \cup {None}]
      /\ phase \in [Conns -> Phases]
      /\ \A c \in Conns : IdOfConn(c) \in Ids
  BY Constants DEF TypeOK
<1>2. CASE UNCHANGED <<agents, latest, phase>>
  BY <1>2 DEF IdOfConn
<1>3. ASSUME NEW c \in Conns, Claim(c)
      PROVE  ServedAreRemoved'
  <2> DEFINE entry == [conn |-> c, enrolled |-> looked[c]]
  <2>1. entry.conn = c
    OBVIOUS
  <2>2. /\ agents' = [agents EXCEPT ![IdOfConn(c)] = entry]
        /\ phase' = [phase EXCEPT ![c] = "claimed"]
    BY <1>3 DEF Claim, Move
  <2> HIDE DEF entry
  <2> QED
    BY <1>1, <2>1, <2>2 DEF IdOfConn
<1>4. ASSUME NEW c \in Conns, Remove(c)
      PROVE  ServedAreRemoved'
  BY <1>1, <1>4 DEF Remove, Move, IdOfConn
<1>5. ASSUME NEW c \in Conns, UNCHANGED <<agents, latest>>,
             NEW from, NEW to, Move(c, from, to), to # "gone"
      PROVE  ServedAreRemoved'
  BY <1>1, <1>5 DEF Move, IdOfConn
<1>6. ASSUME NEW k \in Keys, Manage(k), UNCHANGED <<latest, phase>>
      PROVE  ServedAreRemoved'
  BY <1>1, <1>6, ManageKeepsConns DEF IdOfConn
<1> QED
  BY <1>2, <1>3, <1>4, <1>5, <1>6, RegistryStep

\* An agent that was served is out of the registry when its task is over
\* (handle, remove).
THEOREM ServedAlwaysRemoved == Spec => []ServedAreRemoved
PROOF
<1>1. Init => ServedAreRemoved
  BY DEF Init, ServedAreRemoved
<1> QED
  BY <1>1, RemovedStep, TypeCorrect, PTL DEF Spec

-----------------------------------------------------------------------------
(* Managed devices *)

\* The flag of an entry, and what a task read from the database, are never more
\* than the database held at some time.
FlagsTrue ==
    /\ \A i \in Ids : agents[i] # None /\ agents[i].enrolled
                      => KeyOf[agents[i].conn] \in managed
    /\ \A c \in Conns : looked[c] => KeyOf[c] \in managed

\* Every step keeps the flags true, and refuses a managed device only for one.
LEMMA ManagedStep ==
    ASSUME TypeOK, FlagsTrue, ManagedOutranks, [Next]_vars
    PROVE  FlagsTrue' /\ ManagedOutranks'
PROOF
<1>1. /\ agents \in [Ids -> Registration \cup {None}]
      /\ \A i \in Ids : agents[i] # None => IdOfConn(agents[i].conn) = i
      /\ looked \in [Conns -> BOOLEAN]
      /\ phase \in [Conns -> Phases]
      /\ devices \subseteq managed /\ enrolling \subseteq managed
  BY DEF TypeOK
<1>2. ASSUME NEW c \in Conns, Agent(c)
      PROVE  FlagsTrue' /\ ManagedOutranks'
  <2>1. UNCHANGED managed
    BY <1>2, AgentFrame DEF deviceVars
  <2>2. CASE Look(c)
    BY <1>1, <2>1, <2>2 DEF Look, Move, FlagsTrue, ManagedOutranks, IdOfConn
  <2>3. CASE Claim(c)
    <3> DEFINE i == IdOfConn(c)
               entry == [conn |-> c, enrolled |-> looked[c]]
    <3>1. entry.conn = c /\ entry.enrolled = looked[c] /\ i \in Ids
      BY Constants
    <3>2. /\ agents' = [agents EXCEPT ![i] = entry] /\ UNCHANGED looked
          /\ phase' = [phase EXCEPT ![c] = "claimed"]
      BY <2>3 DEF Claim, Move
    <3> HIDE DEF entry, i
    <3> QED
      BY <1>1, <2>1, <3>1, <3>2 DEF FlagsTrue, ManagedOutranks, IdOfConn
  <2>4. CASE Refuse(c)
    <3> DEFINE holder == agents[IdOfConn(c)]
    <3>1. /\ UNCHANGED <<agents, looked>>
          /\ phase' = [phase EXCEPT ![c] = "refused"]
      BY <2>4 DEF Refuse, Move
    <3>2. FlagsTrue'
      BY <2>1, <3>1 DEF FlagsTrue
    <3>3. ASSUME looked[c]
          PROVE  \E k \in managed \ {KeyOf[c]} : IdOf[k] = IdOfConn(c)
      <4>1. /\ IdOfConn(c) \in Ids /\ holder # None
            /\ KeyOf[holder.conn] # KeyOf[c] /\ holder.enrolled
        BY <1>1, <2>4, <3>3, Constants DEF Refuse, ClaimOf, Registration
      <4>2. KeyOf[holder.conn] \in managed /\ IdOfConn(holder.conn) = IdOfConn(c)
        BY <1>1, <4>1 DEF FlagsTrue
      <4> QED
        BY <4>1, <4>2 DEF IdOfConn
    <3> QED
      BY <1>1, <2>1, <3>1, <3>2, <3>3 DEF ManagedOutranks, IdOfConn
  <2>5. CASE Remove(c)
    BY <1>1, <2>1, <2>5, Constants
    DEF Remove, Move, FlagsTrue, ManagedOutranks, IdOfConn
  <2>6. CASE Register(c) \/ CloseStranger(c) \/ Tell(c) \/ TellFails(c) \/ Leave(c)
    BY <1>1, <2>1, <2>6 DEF Register, CloseStranger, Tell, TellFails, Leave, Move,
                            FlagsTrue, ManagedOutranks, IdOfConn
  <2>7. CASE Lost(c)
    BY <2>1, <2>7 DEF Lost, FlagsTrue, ManagedOutranks, IdOfConn
  <2> QED
    BY <1>2, <2>2, <2>3, <2>4, <2>5, <2>6, <2>7 DEF Agent, RegisterStep
<1>3. ASSUME NEW k \in Keys, Device(k)
      PROVE  FlagsTrue' /\ ManagedOutranks'
  <2>1. managed \subseteq managed' /\ UNCHANGED <<looked, phase>>
    BY <1>3, DeviceFrame DEF Device, Enroll, Manage, DeleteDevice
  <2>2. ManagedOutranks'
    BY <2>1 DEF ManagedOutranks, IdOfConn
  <2>3. CASE Manage(k)
    <3>1. ASSUME NEW i \in Ids, agents'[i] # None, agents'[i].enrolled
          PROVE  KeyOf[agents'[i].conn] \in managed'
      <4>1. agents[i] # None /\ agents'[i].conn = agents[i].conn
        BY <2>3, <3>1, ManageKeepsConns
      <4>2. CASE KeyOf[agents[i].conn] = k
        BY <1>1, <2>1, <2>3, <4>1, <4>2 DEF Manage
      <4>3. CASE KeyOf[agents[i].conn] # k
        <5>1. agents'[i] = agents[i]
          BY <1>1, <2>3, <4>3, Zenon DEF Manage
        <5> QED
          BY <2>1, <3>1, <4>1, <5>1 DEF FlagsTrue
      <4> QED
        BY <4>2, <4>3
    <3> QED
      BY <2>1, <2>2, <3>1 DEF FlagsTrue
  <2>4. CASE Enroll(k) \/ DeleteDevice(k)
    BY <2>1, <2>2, <2>4 DEF Enroll, DeleteDevice, FlagsTrue, agentVars
  <2> QED
    BY <1>3, <2>3, <2>4 DEF Device
<1>4. ASSUME NEW v \in Viewers, Viewer(v)
      PROVE  FlagsTrue' /\ ManagedOutranks'
  BY <1>4, ViewerFrame DEF FlagsTrue, ManagedOutranks, IdOfConn, agentVars, deviceVars
<1>5. CASE UNCHANGED vars
  BY <1>5 DEF FlagsTrue, ManagedOutranks, IdOfConn, vars, agentVars, deviceVars
<1> QED
  BY <1>2, <1>3, <1>4, <1>5 DEF Next

\* A managed device is refused its ID only for another key that is or was
\* managed, however enrollments, deletions and registrations interleave (claim,
\* enroll).
THEOREM ManagedAlwaysOutranks == Spec => []ManagedOutranks
PROOF
<1>1. Init => FlagsTrue /\ ManagedOutranks
  BY DEF Init, FlagsTrue, ManagedOutranks
<1> QED
  BY <1>1, ManagedStep, TypeCorrect, PTL DEF Spec

-----------------------------------------------------------------------------
(* Who is relayed *)

\* Every step keeps viewers whose agent is not ready from the relay.
LEMMA ReadyStep ==
    ASSUME TypeOK, OnlyOnceReady, [Next]_vars
    PROVE  OnlyOnceReady'
PROOF
<1>1. step \in [Viewers -> Steps] /\ readied \subseteq Viewers
  BY DEF TypeOK
<1>2. ASSUME NEW c \in Conns, Agent(c)
      PROVE  OnlyOnceReady'
  BY <1>2, AgentFrame DEF OnlyOnceReady, viewerVars
<1>3. ASSUME NEW k \in Keys, Device(k)
      PROVE  OnlyOnceReady'
  BY <1>3, DeviceFrame DEF OnlyOnceReady, viewerVars
<1>4. ASSUME NEW v \in Viewers, Viewer(v)
      PROVE  OnlyOnceReady'
  <2>1. ASSUME NEW token \in BOOLEAN, Find(v, token)
        PROVE  OnlyOnceReady'
    BY <1>1, <2>1 DEF Find, Advance, OnlyOnceReady
  <2>2. CASE NotFound(v) \/ IntroduceStep(v) \/ RelayEnds(v)
    BY <1>1, <2>2 DEF NotFound, IntroduceStep, Announce, AnnounceFails, AnswerTimeout,
                      Relay, RelayEnds, Advance, OnlyOnceReady
  <2>3. ASSUME NEW ready \in BOOLEAN, Answer(v, ready)
        PROVE  OnlyOnceReady'
    BY <1>1, <2>3 DEF Answer, OnlyOnceReady
  <2> QED
    BY <1>4, <2>1, <2>2, <2>3 DEF Viewer
<1>5. CASE UNCHANGED vars
  BY <1>5 DEF OnlyOnceReady, vars, viewerVars
<1> QED
  BY <1>2, <1>3, <1>4, <1>5 DEF Next

\* The relay is no open proxy: a viewer is relayed only once the agent it was
\* introduced to has said it is ready, whatever answers come late, time out or
\* are of an agent that came back (introduce, serve_agent, relay).
THEOREM RelayedOnlyOnceReady == Spec => []OnlyOnceReady
PROOF
<1>1. Init => OnlyOnceReady
  BY DEF Init, OnlyOnceReady
<1> QED
  BY <1>1, ReadyStep, TypeCorrect, PTL DEF Spec

=============================================================================
