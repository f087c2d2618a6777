---------------------------- MODULE ViewerProofs ----------------------------
(***************************************************************************)
(* What holds of the parts at a viewer and of the screen it is shown, for  *)
(* every value of the constants: the session that comes back, the          *)
(* introductions, the clipboards, the viewer in a browser, the presenter   *)
(* and the pipeline that captures and encodes; and, since each part's      *)
(* steps are its own, of ViewerSpec, the specification the run Viewer      *)
(* checks.                                                                 *)
(***************************************************************************)
EXTENDS MCViewer, FiniteSetTheorems, SequenceTheorems, TLAPS

LEMMA TailIs ==
    ASSUME NEW S, NEW q \in Seq(S), q # <<>>
    PROVE  /\ q[1] \in S /\ Head(q) = q[1]
           /\ \E n \in Nat : /\ Len(q) = n + 1 /\ DOMAIN q = 1 .. n + 1
                             /\ Tail(q) \in Seq(S) /\ Len(Tail(q)) = n /\ DOMAIN Tail(q) = 1 .. n
                             /\ \A i \in 1 .. n : Tail(q)[i] = q[i + 1]
PROOF
<1> DEFINE n == Len(Tail(q))
<1>1. /\ n \in Nat /\ Len(q) = n + 1 /\ Tail(q) \in Seq(S) /\ DOMAIN Tail(q) = 1 .. n
      /\ DOMAIN q = 1 .. n + 1 /\ Head(q) = q[1] /\ \A i \in 1 .. n : Tail(q)[i] = q[i + 1]
  BY HeadTailProperties, LenProperties
<1>2. q[1] \in S
  BY HeadTailProperties
<1> QED
  BY <1>1, <1>2, Zenon

LEMMA AppendIs ==
    ASSUME NEW S, NEW q \in Seq(S), NEW m \in S
    PROVE  \E n \in Nat : /\ Len(q) = n /\ DOMAIN q = 1 .. n
                          /\ Append(q, m) \in Seq(S) /\ Len(Append(q, m)) = n + 1
                          /\ DOMAIN Append(q, m) = 1 .. n + 1 /\ Append(q, m)[n + 1] = m
                          /\ \A i \in 1 .. n : Append(q, m)[i] = q[i]
PROOF
<1> DEFINE n == Len(q) r == Append(q, m)
<1>1. /\ n \in Nat /\ DOMAIN q = 1 .. n /\ r \in Seq(S) /\ Len(r) = n + 1
      /\ DOMAIN r = 1 .. n + 1 /\ r[n + 1] = m /\ \A i \in 1 .. n : r[i] = q[i]
  BY AppendProperties, LenProperties
<1> QED
  BY <1>1, Zenon

\* A sequence whose elements are changed one by one.
LEMMA EachIs ==
    ASSUME NEW S, NEW q \in Seq(S), NEW f, f = [i \in DOMAIN q |-> f[i]], \A i \in DOMAIN q : f[i] \in S
    PROVE  f \in Seq(S) /\ Len(f) = Len(q) /\ DOMAIN f = DOMAIN q
PROOF
<1> DEFINE n == Len(q)
<1>1. n \in Nat /\ DOMAIN q = 1 .. n
  BY LenProperties
<1> HIDE DEF n
<1>2. f \in [1 .. n -> S]
  BY <1>1
<1>3. f \in Seq(S)
  BY <1>1, <1>2, SeqDef
<1>4. Len(f) = n
  BY <1>1, <1>2, <1>3, LenProperties
<1> QED
  BY <1>1, <1>2, <1>3, <1>4 DEF n

---------------------------------------------------------------------------
(* The session that comes back. *)

VsTypes ==
    /\ phase \in Talking \cup {"connect", "waiting", "over"}
    /\ conn \in {"none", "open", "lost", "normal", "goingAway", "local"} \cup Decisions
    /\ established \in BOOLEAN /\ away \in 0 .. NotAway /\ backoff \in 1 .. ComeBackMax
    /\ shown \in {"live", "comingBack", "over"}
    /\ holder \in {"free", "ours", "stale", "another"}

\* A viewer between two attempts has no connection left to be judged.
VsBetween == phase \in {"connect", "waiting"} => conn = "none"

VsInv == VsTypes /\ VsBetween /\ LinkTruth

LEMMA VsStart == VsInit => VsInv
PROOF
<1> SUFFICES ASSUME VsInit
             PROVE  VsInv
  OBVIOUS
<1>1. NotAway \in 0 .. NotAway /\ ComeBackFirst \in 1 .. ComeBackMax
  BY ComeBackAssumption DEF NotAway
<1> QED
  BY <1>1 DEF VsInit, VsInv, VsTypes, VsBetween, LinkTruth

\* What run does when an attempt is over, to everything but the connection.
LEMMA AttemptJudged ==
    ASSUME VsInv, NEW outcome, NEW arrived_ \in BOOLEAN, AttemptEnds(outcome, arrived_)
    PROVE  /\ phase' \in {"over", "waiting"} /\ established' \in BOOLEAN
           /\ away' \in 0 .. NotAway /\ backoff' \in 1 .. ComeBackMax
           /\ phase' = "over" => shown' = "over"
           /\ phase' = "waiting" => shown' = "comingBack"
           /\ outcome = "refusal" => phase' = "over"
PROOF
<1> USE ComeBackAssumption DEF VsInv, VsTypes, NotAway
<1> DEFINE since_ == IF arrived_ \/ away = NotAway THEN 0 ELSE away
           over == \/ outcome = "ok" \/ outcome = "refusal" \/ ~established'
                   \/ since_ >= ComeBackFor
<1>1. since_ \in Nat
  OBVIOUS
<1>2. /\ established' \in BOOLEAN
      /\ over => phase' = "over" /\ shown' = "over" /\ UNCHANGED <<away, backoff>>
      /\ ~over => /\ phase' = "waiting" /\ shown' = "comingBack" /\ away' = since_
                  /\ backoff' = IF arrived_ THEN ComeBackFirst ELSE backoff
  BY DEF AttemptEnds
<1>3. ~over => since_ \in 0 .. NotAway
  BY <1>1
<1> HIDE DEF since_
<1> QED
  BY <1>2, <1>3

LEMMA VsStep == VsInv /\ [VsNext]_vsVars => VsInv'
PROOF
<1> SUFFICES ASSUME VsInv, [VsNext]_vsVars
             PROVE  VsInv'
  OBVIOUS
<1> USE DEF VsInv, VsTypes, VsBetween, LinkTruth, Talking
<1>1. CASE UNCHANGED vsVars
  BY <1>1 DEF vsVars, Decisions, NotAway
<1>2. CASE Connects
  BY <1>2 DEF Connects, NotAway
<1>3. CASE ConnectFails
  <2>1. AttemptEnds("again", FALSE)
    BY <1>3 DEF ConnectFails
  <2> QED
    BY <1>3, <2>1, AttemptJudged DEF ConnectFails
<1>4. CASE Claims
  BY <1>4 DEF Claims, Decisions, NotAway
<1>5. CASE Admitted
  BY <1>5 DEF Admitted, NotAway
<1>6. CASE Listed
  BY <1>6, ComeBackAssumption DEF Listed, NotAway
<1>7. CASE Notices
  <2>1. AttemptEnds(Judge(conn), phase = "live")
    BY <1>7 DEF Notices
  <2>2. (phase = "live") \in BOOLEAN
    OBVIOUS
  <2> HIDE DEF VsInv
  <2>3. /\ phase' \in {"over", "waiting"} /\ established' \in BOOLEAN
        /\ away' \in 0 .. NotAway /\ backoff' \in 1 .. ComeBackMax
        /\ phase' = "over" => shown' = "over"
        /\ phase' = "waiting" => shown' = "comingBack"
    BY <2>1, <2>2, AttemptJudged
  <2> USE DEF VsInv
  <2> QED
    BY <1>7, <2>3 DEF Notices
<1>8. CASE TriesAgain
  BY <1>8, ComeBackAssumption DEF TriesAgain, NotAway
<1>9. CASE WrongKey
  <2>1. AttemptEnds("refusal", FALSE)
    BY <1>9 DEF WrongKey
  <2> QED
    BY <1>9, <2>1, AttemptJudged DEF WrongKey
<1>10. CASE Unfit
  <2>1. AttemptEnds("refusal", FALSE)
    BY <1>10 DEF Unfit
  <2> QED
    BY <1>10, <2>1, AttemptJudged DEF Unfit
<1>11. CASE LocalError
  <2>1. AttemptEnds("again", TRUE)
    BY <1>11 DEF LocalError
  <2> QED
    BY <1>11, <2>1, AttemptJudged DEF LocalError
<1>12. CASE Leaves
  BY <1>12 DEF Leaves, Decisions, NotAway
<1>13. CASE WindowGivesUp \/ WindowCloses
  BY <1>13 DEF WindowGivesUp, WindowCloses, Decisions, NotAway
<1>14. CASE AgentCloses
  BY <1>14 DEF AgentCloses, Decisions, NotAway
<1>15. CASE ClosedHere \/ LinkLost
  BY <1>15 DEF ClosedHere, LinkLost, NotAway
<1>16. CASE StaleEnds \/ AgentBack \/ AnotherViewer
  BY <1>16 DEF StaleEnds, AgentBack, AnotherViewer, Decisions, NotAway
<1>17. CASE AgentGoes
  BY <1>17 DEF AgentGoes, Decisions, NotAway
<1> QED
  BY <1>1, <1>2, <1>3, <1>4, <1>5, <1>6, <1>7, <1>8, <1>9, <1>10, <1>11, <1>12, <1>13, <1>14,
     <1>15, <1>16, <1>17 DEF VsNext, GoesOn

FinalIfDecided == (conn \in Decisions /\ conn' # conn) => phase' = "over"

LEMMA FinalStep == VsInv /\ [VsNext]_vsVars => [FinalIfDecided]_vsVars
PROOF
<1> SUFFICES ASSUME VsInv, VsNext, conn \in Decisions, conn' # conn
             PROVE  phase' = "over"
  BY DEF FinalIfDecided
<1> USE DEF Decisions
<1>1. conn # "open" /\ conn # "none"
  OBVIOUS
<1>2. CASE Notices
  <2>1. AttemptEnds("refusal", phase = "live")
    BY <1>2 DEF Notices, Judge
  <2>2. (phase = "live") \in BOOLEAN
    OBVIOUS
  <2> QED
    BY <2>1, <2>2, AttemptJudged
<1>3. CASE Connects
  BY <1>1, <1>3 DEF VsInv, VsBetween, Connects
<1>4. CASE Leaves \/ WindowGivesUp
  BY <1>4 DEF Leaves, WindowGivesUp
<1>5. CASE AgentGoes
  BY <1>1, <1>5 DEF AgentGoes
<1> QED
  BY <1>1, <1>2, <1>3, <1>4, <1>5 DEF VsNext, GoesOn, ConnectFails, Claims, Admitted, Listed,
     TriesAgain, WrongKey, Unfit, LocalError, WindowCloses, AgentCloses, ClosedHere, LinkLost,
     StaleEnds, AgentBack, AnotherViewer

LEMMA VsInvSafe == VsInv => VsTypeOK /\ LinkTruth
PROOF BY DEF VsInv, VsTypes, VsTypeOK

\* The window never shows a picture as live that the viewer knows is not, however
\* often the connection is lost and found (direct.rs: run, session, talk).
THEOREM LinkShownTrue == VsSpec => [](VsTypeOK /\ LinkTruth)
PROOF BY VsStart, VsStep, VsInvSafe, PTL DEF VsSpec

\* A decision of the agent or its person ends the viewer, whenever it comes
\* (direct.rs: ended, explain, run).
THEOREM DecisionsAreFinal == VsSpec => DecisionsFinal
PROOF
<1>1. VsSpec => [][FinalIfDecided]_vsVars
  BY VsStart, VsStep, FinalStep, PTL DEF VsSpec
<1> QED
  BY <1>1 DEF DecisionsFinal, FinalIfDecided

---------------------------------------------------------------------------
(* The introductions. *)

IntroTypes ==
    /\ IntroTypeOK /\ introducer \in {"open", "closed"}
    /\ direct \in Addresses \cup {"going", "failed"}
    /\ ready \in BOOLEAN /\ relayFailed \in BOOLEAN /\ graceOver \in BOOLEAN

\* Until a connection is taken the introducer is open, and every way is still
\* tried, was made or ran out of time, as the race and prefer_direct have it.
IntroTrying ==
    /\ stage \in {"ask", "connecting"} => introducer = "open" /\ slot \notin Paths
    /\ stage = "ask" => ~relayFailed /\ \A p \in Paths : attempt[p] = "none"
    /\ stage = "connecting" =>
          /\ relayFailed => attempt[RelayPath] = "lost"
          /\ direct = "going" => \A a \in Addresses : attempt[a] \in {"trying", "lost"}
          /\ direct = "failed" => \A a \in Addresses : attempt[a] \in {"none", "lost"}

\* The slot is a path's only while the connection chosen is served on it.
IntroSlot ==
    slot \in Paths => /\ stage \in {"session", "over"}
                      /\ slot = chosen /\ reached[slot] = "serving"

IntroInv == IntroTypes /\ IntroTrying /\ IntroSlot /\ CarrierThere /\ UsesWhatWorks

LEMMA NotAnAddress ==
    /\ RelayPath \notin Addresses /\ "going" \notin Addresses /\ "failed" \notin Addresses
    /\ Nowhere \notin Paths /\ Vacant \notin Paths /\ Other \notin Paths
PROOF BY AddressAssumption DEF RelayPath, Nowhere, Vacant, Other, Paths

LEMMA IntroStart == IntroInit => IntroInv
PROOF
<1> SUFFICES ASSUME IntroInit
             PROVE  IntroInv
  OBVIOUS
<1>1. IntroTypes
  BY DEF IntroInit, IntroTypes, IntroTypeOK, Nowhere, Vacant, Other
<1>2. IntroTrying /\ IntroSlot
  BY NotAnAddress DEF IntroInit, IntroTrying, IntroSlot
<1> QED
  BY <1>1, <1>2 DEF IntroInit, IntroInv, CarrierThere, UsesWhatWorks

LEMMA ClosedTypes ==
    ASSUME IntroTypes, NEW ps
    PROVE  CloseAt(ps) \in [Paths -> {"none", "trying", "made", "closed", "lost"}]
PROOF BY DEF IntroTypes, IntroTypeOK, CloseAt

LEMMA IntroStep == IntroInv /\ [IntroNext]_introVars => IntroInv'
PROOF
<1> SUFFICES ASSUME IntroInv, [IntroNext]_introVars
             PROVE  IntroInv'
  OBVIOUS
<1> USE NotAnAddress DEF IntroInv, IntroTypes, IntroTypeOK, IntroTrying, IntroSlot,
        CarrierThere, UsesWhatWorks, ofAgent, choosing
<1>0. RelayPath \in Paths /\ Addresses \subseteq Paths /\ Paths = Addresses \cup {RelayPath}
  BY DEF Paths
<1>1. CASE UNCHANGED introVars
  BY <1>1 DEF introVars
<1>2. CASE AskServer
  BY <1>0, <1>2 DEF AskServer
<1>3. CASE TakeDirect
  <2>1. attempt' \in [Paths -> {"none", "trying", "made", "closed", "lost"}]
    BY <1>3, ClosedTypes DEF TakeDirect
  <2> QED
    BY <1>0, <1>3, <2>1 DEF TakeDirect
<1>4. CASE TakeRelayed
  <2>1. attempt' \in [Paths -> {"none", "trying", "made", "closed", "lost"}]
    BY <1>4, ClosedTypes DEF TakeRelayed
  <2> QED
    BY <1>0, <1>4, <2>1 DEF TakeRelayed
<1>5. CASE RelayTimedOut
  BY <1>0, <1>5 DEF RelayTimedOut
<1>6. CASE GraceEnds
  BY <1>6 DEF GraceEnds
<1>7. CASE AllFailed
  BY <1>0, <1>7 DEF AllFailed
<1>8. ASSUME NEW a \in Addresses, DirectTimedOut(a)
      PROVE  IntroInv'
  BY <1>0, <1>8 DEF DirectTimedOut
<1>9. CASE IntroducerClosed
  BY <1>9 DEF IntroducerClosed
<1>10. ASSUME NEW p \in Paths, NotUsed(p)
       PROVE  IntroInv'
  BY <1>10 DEF NotUsed
<1>11. ASSUME NEW p \in Paths, ServeEnds(p)
       PROVE  IntroInv'
  BY <1>11 DEF ServeEnds
<1>12. CASE RelayMade
  BY <1>0, <1>12 DEF RelayMade
<1>13. CASE OpensControl \/ SessionOver
  <2>1. attempt' \in [Paths -> {"none", "trying", "made", "closed", "lost"}]
    BY <1>13, ClosedTypes DEF OpensControl, SessionOver
  <2> QED
    BY <1>13, <2>1 DEF OpensControl, SessionOver
<1>14. CASE OtherViewer
  BY <1>14 DEF OtherViewer
<1>15. ASSUME NEW a \in Addresses, DirectMade(a)
       PROVE  IntroInv'
  <2>1. attempt' \in [Paths -> {"none", "trying", "made", "closed", "lost"}]
    BY <1>0, <1>15, ClosedTypes DEF DirectMade
  <2>2. attempt'[RelayPath] = attempt[RelayPath]
    BY <1>0, <1>15 DEF DirectMade, CloseAt
  <2> QED
    BY <1>0, <1>15, <2>1, <2>2 DEF DirectMade
<1>16. ASSUME NEW p \in Paths, ReachesAgent(p)
       PROVE  IntroInv'
  BY <1>16 DEF ReachesAgent
<1>17. ASSUME NEW p \in Paths, AcceptControl(p)
       PROVE  IntroInv'
  BY <1>17 DEF AcceptControl
<1> QED
  BY <1>1, <1>2, <1>3, <1>4, <1>5, <1>6, <1>7, <1>8, <1>9, <1>10, <1>11, <1>12, <1>13, <1>14,
     <1>15, <1>16, <1>17 DEF IntroNext, Progresses, Cleans

BusyIfOther == told' = "busy" /\ told # "busy" => slot = Other

LEMMA BusyStep == IntroInv /\ [IntroNext]_introVars => [BusyIfOther]_introVars
PROOF
<1> SUFFICES ASSUME IntroInv, IntroNext, told' = "busy", told # "busy"
             PROVE  slot = Other
  BY DEF BusyIfOther
<1>1. PICK p \in Paths : AcceptControl(p)
  BY DEF IntroNext, Progresses, Cleans, AskServer, TakeDirect, TakeRelayed, RelayTimedOut,
     GraceEnds, AllFailed, DirectTimedOut, IntroducerClosed, NotUsed, ServeEnds, RelayMade,
     OpensControl, SessionOver, OtherViewer, DirectMade, ReachesAgent, ofAgent, choosing
<1>2. reached[p] = "waiting" /\ chosen = p /\ slot # Vacant
  BY <1>1 DEF AcceptControl
<1> QED
  BY <1>2 DEF IntroInv, IntroTypes, IntroTypeOK, IntroSlot

LEMMA IntroInvSafe == IntroInv => IntroTypeOK /\ CarrierThere /\ UsesWhatWorks
PROOF BY DEF IntroInv, IntroTypes

\* A relayed session keeps what carries it, and introductions fail only once
\* every way has run out of time (transport/src/rendezvous.rs: introduce, race,
\* prefer_direct).
THEOREM IntroducedWell == IntroSpec => [](IntroTypeOK /\ CarrierThere /\ UsesWhatWorks)
PROOF BY IntroStart, IntroStep, IntroInvSafe, PTL DEF IntroSpec

\* A viewer hears that the device is busy only for another viewer, never for a
\* connection of its own that lost the race (agent/src/main.rs: accept_viewers).
THEOREM NeverSelfBusy == IntroSpec => NoSelfBusy
PROOF
<1>1. IntroSpec => [][BusyIfOther]_introVars
  BY IntroStart, IntroStep, BusyStep, PTL DEF IntroSpec
<1> QED
  BY <1>1 DEF NoSelfBusy, BusyIfOther

---------------------------------------------------------------------------
(* The clipboards. *)

\* What goes from one side to the other.
Texts == {"a", "b", "crlf", "lf"}

ClipTypes ==
    /\ ClipTypeOK
    /\ made \in [Sides -> BOOLEAN] /\ unset \in [Sides -> BOOLEAN]
    /\ seq \in [Sides -> Nat] /\ seenSeq \in [Sides -> Nat] /\ now \in [Sides -> Nat]
    /\ lastText \in [Sides -> Texts \cup {None}] /\ pasted \in [Sides -> Texts \cup {None}]
    /\ ahead \in [Sides -> Seq(Texts)] /\ clean \in BOOLEAN

\* A side that has something to set has a text, one that reads saw a change.
ClipBusy ==
    \A s \in Sides : /\ doing[s] \in {"received", "set"} => pasted[s] \in Texts
                     /\ doing[s] = "read" => seenSeq[s] < now[s]

\* What ClipboardSync put there is what it remembers, once it has looked at the
\* number after its own write.
OwnKnown(s) ==
    ~made[s] /\ ~unset[s] =>
        \/ holdsText[s] = "image"
        \/ doing[s] = "set" /\ holdsText[s] = ToCrlf(pasted[s])
        \/ doing[s] # "set" /\ (lastText[s] = "crlf" \/ ToLf(holdsText[s]) = lastText[s])
ClipOwn == \A s \in Sides : OwnKnown(s)

\* Where a text copied at s is, on its way to t: not noticed yet, the last of what
\* goes to t, taken off it, being set, or there.
OnItsWay(s, t, c) ==
    \/ seq[s] # seenSeq[s] /\ c # lastText[s]
    \/ /\ c = lastText[s]
       /\ \/ ahead[t] # <<>> /\ ahead[t][Len(ahead[t])] = c
          \/ ahead[t] = <<>> /\ doing[t] = "received" /\ pasted[t] = c
          \/ ahead[t] = <<>> /\ doing[t] = "set" /\ pasted[t] = c /\ holdsText[t] = c
          \/ /\ ahead[t] = <<>> /\ doing[t] \notin {"received", "set"}
             /\ holdsText[t] = c /\ lastText[t] = c

\* The last copy was made at s and nothing crosses it: t has no news of its own.
CleanFrom(s, t) ==
    /\ holdsText[s] \in {"a", "b"} /\ ahead[s] = <<>> /\ doing[s] \in {"wait", "poll", "read"}
    /\ doing[t] # "set" => \/ seq[t] = seenSeq[t]
                           \/ ToLf(holdsText[t]) \in {lastText[t], "image", "long"}
    /\ OnItsWay(s, t, holdsText[s])

ClipClean == clean => \E s, t \in Sides : s # t /\ CleanFrom(s, t)

ClipInv == ClipTypes /\ ClipBusy /\ ClipOwn /\ ClipClean

LEMMA TheOther ==
    ASSUME NEW s \in Sides, NEW t \in Sides, s # t
    PROVE  OtherSide(s) = t /\ OtherSide(t) = s /\ Sides = {s, t}
PROOF
<1>1. PICK u \in Sides, v \in Sides : u # v /\ Sides = {u, v}
  BY ClipAssumption
<1>2. Sides = {s, t}
  BY <1>1
<1>3. \A x \in Sides : x # s => x = t
  BY <1>2
<1>4. \A x \in Sides : x # t => x = s
  BY <1>2
<1>5. OtherSide(s) = t
  BY <1>3, Zenon DEF OtherSide
<1>6. OtherSide(t) = s
  BY <1>4, Zenon DEF OtherSide
<1> QED
  BY <1>2, <1>5, <1>6

LEMMA OtherIs ==
    ASSUME NEW s \in Sides
    PROVE  OtherSide(s) \in Sides /\ OtherSide(s) # s
PROOF
<1>1. PICK t \in Sides : t # s
  BY ClipAssumption
<1> QED
  BY <1>1, TheOther

LEMMA ClipStart == ClipInit => ClipInv
PROOF
<1> SUFFICES ASSUME ClipInit
             PROVE  ClipInv
  OBVIOUS
<1>1. "image" \in Contents /\ <<>> \in Seq(Texts)
  BY DEF Contents
<1>2. /\ holdsText \in [Sides -> Contents] /\ ahead \in [Sides -> Seq(Texts)]
      /\ doing \in [Sides -> {"wait", "received", "set", "poll", "read"}]
  BY <1>1 DEF ClipInit
<1>3. \A s \in Sides : seenSeq[s] \in 1 .. seq[s] /\ now[s] \in 0 .. seq[s]
  <2>1. \A s \in Sides : seenSeq[s] = 1 /\ seq[s] = 1 /\ now[s] = 0
    BY Zenon DEF ClipInit
  <2>2. 1 \in 1 .. 1 /\ 0 \in 0 .. 1
    OBVIOUS
  <2> QED
    BY <2>1, <2>2, Zenon
<1>4. /\ seq \in [Sides -> Nat] /\ seenSeq \in [Sides -> Nat] /\ now \in [Sides -> Nat]
      /\ made \in [Sides -> BOOLEAN] /\ unset \in [Sides -> BOOLEAN] /\ clean \in BOOLEAN
      /\ lastText \in [Sides -> Texts \cup {None}] /\ pasted \in [Sides -> Texts \cup {None}]
  BY DEF ClipInit
<1>5. ClipTypes
  BY <1>2, <1>3, <1>4 DEF ClipTypes, ClipTypeOK
<1> QED
  BY <1>5 DEF ClipInit, ClipInv, ClipBusy, ClipOwn, OwnKnown, ClipClean

\* Taking the first of what waits, and adding to it.
LEMMA Queues ==
    ASSUME NEW q \in Seq(Texts)
    PROVE  /\ \A x \in Texts : /\ Append(q, x) \in Seq(Texts) /\ Append(q, x) # <<>>
                               /\ Len(Append(q, x)) = Len(q) + 1
                               /\ Append(q, x)[Len(Append(q, x))] = x
           /\ q # <<>> => /\ Head(q) \in Texts /\ Tail(q) \in Seq(Texts)
                          /\ Tail(q) = <<>> => Head(q) = q[Len(q)]
                          /\ Tail(q) # <<>> => Tail(q)[Len(Tail(q))] = q[Len(q)]
PROOF
<1>1. ASSUME NEW x \in Texts
      PROVE  /\ Append(q, x) \in Seq(Texts) /\ Append(q, x) # <<>>
             /\ Len(Append(q, x)) = Len(q) + 1
             /\ Append(q, x)[Len(Append(q, x))] = x
  OBVIOUS
<1>2. ASSUME q # <<>>
      PROVE  /\ Head(q) \in Texts /\ Tail(q) \in Seq(Texts)
             /\ Tail(q) = <<>> => Head(q) = q[Len(q)]
             /\ Tail(q) # <<>> => Tail(q)[Len(Tail(q))] = q[Len(q)]
  <2>1. Head(q) = q[1] /\ q[1] \in Texts /\ Len(q) \in Nat \ {0}
    BY <1>2
  <2>2. /\ Tail(q) \in Seq(Texts) /\ Len(Tail(q)) = Len(q) - 1
        /\ \A i \in 1 .. Len(q) - 1 : Tail(q)[i] = q[i + 1]
    BY <1>2
  <2> DEFINE n == Len(q)
  <2>3. CASE n = 1
    <3>1. Tail(q) = <<>>
      <4>1. Len(Tail(q)) = 1 - 1
        BY <2>2, <2>3, Zenon
      <4>2. Len(Tail(q)) \notin Nat \ {0}
        BY <4>1
      <4> QED
        BY <2>2, <4>2, EmptySeq, Zenon
    <3> QED
      BY <2>1, <2>2, <2>3, <3>1, Zenon
  <2>4. CASE n # 1
    <3> HIDE DEF n
    <3>1. n \in Nat \ {0}
      BY <2>1 DEF n
    <3>2. n - 1 \in 1 .. n - 1 /\ (n - 1) + 1 = n /\ n - 1 # 0
      BY <2>4, <3>1
    <3>3. Tail(q)[n - 1] = q[n] /\ Len(Tail(q)) = n - 1
      BY <2>2, <3>2, Zenon DEF n
    <3>4. Tail(q) # <<>>
      BY <3>2, <3>3
    <3> QED
      BY <2>1, <2>2, <3>3, <3>4, Zenon DEF n
  <2> QED
    BY <2>3, <2>4
<1> QED
  BY <1>1, <1>2

LEMMA Converted ==
    /\ \A x \in Texts : /\ ToCrlf(x) \in Contents
                        /\ ToLf(ToCrlf(x)) = x \/ x = "crlf"
    /\ \A x \in Contents : ToLf(x) \in Texts \cup {"image", "long"}
    /\ \A x \in {"a", "b"} : ToLf(x) = x /\ ToCrlf(x) = x
    /\ ToLf("image") = "image"
PROOF BY DEF Texts, ToLf, ToCrlf, Contents

LEMMA ClipTypesStep == ClipInv /\ [ClipNext]_clipVars => ClipTypes' /\ ClipBusy'
PROOF
<1> SUFFICES ASSUME ClipTypes, ClipBusy, [ClipNext]_clipVars
             PROVE  ClipTypes' /\ ClipBusy'
  BY DEF ClipInv
<1> USE DEF ClipTypes, ClipTypeOK, ClipBusy
<1>1. CASE UNCHANGED clipVars
  BY <1>1 DEF clipVars
<1>2. ASSUME NEW s \in Sides, Receives(s)
      PROVE  ClipTypes' /\ ClipBusy'
  <2>1. Head(ahead[s]) \in Texts /\ Tail(ahead[s]) \in Seq(Texts)
    BY <1>2, Queues DEF Receives
  <2>2. /\ doing' = [doing EXCEPT ![s] = "received"]
        /\ pasted' = [pasted EXCEPT ![s] = Head(ahead[s])]
        /\ ahead' = [ahead EXCEPT ![s] = Tail(ahead[s])]
        /\ UNCHANGED <<holdsText, made, unset, seq, seenSeq, lastText, now, copies, clean, slips>>
    BY <1>2 DEF Receives, Taken
  <2> QED
    BY <2>1, <2>2
<1>3. ASSUME NEW s \in Sides, Sets(s)
      PROVE  ClipTypes' /\ ClipBusy'
  <2>1. ToCrlf(pasted[s]) \in Contents
    BY <1>3, Converted DEF Sets
  <2> QED
    BY <1>3, <2>1 DEF Sets
<1>4. ASSUME NEW s \in Sides, SetFails(s)
      PROVE  ClipTypes' /\ ClipBusy'
  <2>1. "image" \in Contents
    BY DEF Contents
  <2>2. /\ holdsText' \in [Sides -> Contents] /\ made' \in [Sides -> BOOLEAN]
        /\ seq' \in [Sides -> Nat] /\ \A x \in Sides : seq'[x] >= seq[x]
    <3>1. CASE UNCHANGED <<holdsText, made, seq>>
      BY <3>1
    <3>2. CASE /\ holdsText' = [holdsText EXCEPT ![s] = "image"]
               /\ made' = [made EXCEPT ![s] = FALSE]
               /\ seq' = [seq EXCEPT ![s] = seq[s] + 1]
      BY <2>1, <3>2
    <3> QED
      BY <1>4, <3>1, <3>2 DEF SetFails
  <2>3. /\ lastText' = [lastText EXCEPT ![s] = pasted[s]]
        /\ pasted' = [pasted EXCEPT ![s] = None] /\ doing' = [doing EXCEPT ![s] = "poll"]
        /\ clean' = FALSE /\ unset' = [unset EXCEPT ![s] = TRUE]
        /\ UNCHANGED <<seenSeq, now, ahead>>
    BY <1>4 DEF SetFails
  <2>4. \A x \in Sides : seenSeq'[x] \in 1 .. seq'[x] /\ now'[x] \in 0 .. seq'[x]
    BY <2>2, <2>3
  <2>5. ClipTypes'
    BY <2>2, <2>3, <2>4
  <2>6. ClipBusy'
    BY <2>3
  <2> QED
    BY <2>5, <2>6
<1>5. ASSUME NEW s \in Sides, SeesOwnWrite(s)
      PROVE  ClipTypes' /\ ClipBusy'
  BY <1>5 DEF SeesOwnWrite
<1>6. ASSUME NEW s \in Sides, Polls(s)
      PROVE  ClipTypes' /\ ClipBusy'
  BY <1>6 DEF Polls
<1>7. ASSUME NEW s \in Sides, Reads(s)
      PROVE  ClipTypes' /\ ClipBusy'
  <2> DEFINE text == ToLf(holdsText[s])
             o == OtherSide(s)
  <2>1. /\ doing[s] = "read" /\ doing' = [doing EXCEPT ![s] = "wait"]
        /\ seenSeq' = [seenSeq EXCEPT ![s] = now[s]] /\ now' = [now EXCEPT ![s] = 0]
        /\ UNCHANGED <<holdsText, made, unset, seq, pasted, copies, clean, slips>>
    BY <1>7 DEF Reads
  <2>2. /\ lastText' \in [Sides -> Texts \cup {None}]
        /\ ahead' \in [Sides -> Seq(Texts)]
    <3>1. CASE text \in {"image", "long", lastText[s]}
      BY <1>7, <3>1 DEF Reads
    <3>2. CASE text \notin {"image", "long", lastText[s]}
      <4>1. text \in Texts
        BY <3>2, Converted
      <4>2. o \in Sides /\ ahead[o] \in Seq(Texts)
        BY OtherIs
      <4>3. Append(ahead[o], text) \in Seq(Texts)
        BY <4>1, <4>2, Queues
      <4>4. /\ lastText' = [lastText EXCEPT ![s] = text]
            /\ ahead' = [ahead EXCEPT ![o] = Append(ahead[o], text)]
        BY <1>7, <3>2 DEF Reads, Sent
      <4> HIDE DEF text, o
      <4> QED
        BY <4>1, <4>2, <4>3, <4>4
    <3> QED
      BY <3>1, <3>2
  <2>3. /\ \A x \in Sides : seenSeq'[x] \in 1 .. seq'[x] /\ now'[x] \in 0 .. seq'[x]
        /\ seenSeq' \in [Sides -> Nat] /\ now' \in [Sides -> Nat]
        /\ doing' \in [Sides -> {"wait", "received", "set", "poll", "read"}]
    BY <2>1
  <2>4. ClipTypes'
    BY <2>1, <2>2, <2>3
  <2>5. ClipBusy'
    BY <2>1
  <2> QED
    BY <2>4, <2>5
<1>8. ASSUME NEW s \in Sides, ReadFails(s)
      PROVE  ClipTypes' /\ ClipBusy'
  BY <1>8 DEF ReadFails
<1>9. ASSUME NEW s \in Sides, Rewrites(s)
      PROVE  ClipTypes' /\ ClipBusy'
  <2>1. clean' \in BOOLEAN
    BY <1>9 DEF Rewrites
  <2> QED
    BY <1>9, <2>1 DEF Rewrites
<1>10. ASSUME NEW s \in Sides, NEW content \in Copyable, Copies(s, content)
       PROVE  ClipTypes' /\ ClipBusy'
  <2>1. content \in Contents
    BY ClipAssumption DEF Contents
  <2>2. clean' \in BOOLEAN
    BY <1>10 DEF Copies
  <2>3. /\ holdsText' = [holdsText EXCEPT ![s] = content]
        /\ made' = [made EXCEPT ![s] = TRUE]
        /\ seq' = [seq EXCEPT ![s] = seq[s] + 1]
        /\ UNCHANGED <<unset, seenSeq, lastText, doing, now, pasted, ahead, slips>>
    BY <1>10 DEF Copies
  <2> QED
    BY <2>1, <2>2, <2>3
<1> QED
  BY <1>1, <1>2, <1>3, <1>4, <1>5, <1>6, <1>7, <1>8, <1>9, <1>10 DEF ClipNext, Runs

LEMMA ClipOwnStep == ClipInv /\ [ClipNext]_clipVars => ClipOwn'
PROOF
<1> SUFFICES ASSUME ClipTypes, ClipBusy, ClipOwn, [ClipNext]_clipVars, NEW x \in Sides
             PROVE  OwnKnown(x)'
  BY DEF ClipInv, ClipOwn
<1>0. OwnKnown(x)
  BY DEF ClipOwn
<1> USE DEF OwnKnown, ClipTypes, ClipTypeOK
<1>1. CASE UNCHANGED clipVars
  BY <1>0, <1>1 DEF clipVars
<1>2. ASSUME NEW s \in Sides, Receives(s)
      PROVE  OwnKnown(x)'
  BY <1>0, <1>2 DEF Receives
<1>3. ASSUME NEW s \in Sides, Sets(s)
      PROVE  OwnKnown(x)'
  BY <1>0, <1>3 DEF Sets
<1>4. ASSUME NEW s \in Sides, SetFails(s)
      PROVE  OwnKnown(x)'
  BY <1>0, <1>4 DEF SetFails
<1>5. ASSUME NEW s \in Sides, SeesOwnWrite(s)
      PROVE  OwnKnown(x)'
  <2>1. pasted[s] \in Texts
    BY <1>5 DEF ClipBusy, SeesOwnWrite
  <2>2. ToLf(ToCrlf(pasted[s])) = pasted[s] \/ pasted[s] = "crlf"
    BY <2>1, Converted
  <2> QED
    BY <1>0, <1>5, <2>2 DEF SeesOwnWrite
<1>6. ASSUME NEW s \in Sides, Polls(s)
      PROVE  OwnKnown(x)'
  BY <1>0, <1>6 DEF Polls
<1>7. ASSUME NEW s \in Sides, Reads(s)
      PROVE  OwnKnown(x)'
  BY <1>0, <1>7 DEF Reads
<1>8. ASSUME NEW s \in Sides, ReadFails(s)
      PROVE  OwnKnown(x)'
  BY <1>0, <1>8 DEF ReadFails
<1>9. ASSUME NEW s \in Sides, Rewrites(s)
      PROVE  OwnKnown(x)'
  BY <1>0, <1>9 DEF Rewrites
<1>10. ASSUME NEW s \in Sides, NEW content \in Copyable, Copies(s, content)
       PROVE  OwnKnown(x)'
  BY <1>0, <1>10 DEF Copies
<1> QED
  BY <1>1, <1>2, <1>3, <1>4, <1>5, <1>6, <1>7, <1>8, <1>9, <1>10 DEF ClipNext, Runs

\* What the side that copied last does: it notices the change and sends it.
LEMMA SourceGoesOn ==
    ASSUME ClipTypes, ClipBusy, NEW s \in Sides, NEW t \in Sides, s # t, CleanFrom(s, t),
           \/ Runs(s) \/ ReadFails(s) \/ Rewrites(s)
    PROVE  CleanFrom(s, t)'
PROOF
<1> USE DEF ClipTypes, ClipTypeOK, CleanFrom, OnItsWay
<1>0. ToLf(holdsText[s]) = holdsText[s] /\ holdsText[s] \in Texts
  BY Converted DEF Texts
<1>1. CASE Receives(s) \/ Sets(s) \/ SeesOwnWrite(s)
  BY <1>1 DEF Receives, Sets, SeesOwnWrite
<1>2. CASE Polls(s)
  BY <1>2 DEF Polls
<1>3. CASE Reads(s)
  <2>0. seenSeq[s] < now[s] /\ doing[s] = "read"
    BY <1>3 DEF ClipBusy, Reads
  <2>1. CASE lastText[s] = holdsText[s]
    BY <1>0, <1>3, <2>1 DEF Reads
  <2>2. CASE lastText[s] # holdsText[s]
    <3>1. ToLf(holdsText[s]) \notin {"image", "long", lastText[s]}
      BY <1>0, <2>2
    <3>2. /\ lastText' = [lastText EXCEPT ![s] = holdsText[s]]
          /\ ahead' = [ahead EXCEPT ![t] = Append(ahead[t], holdsText[s])]
      BY <1>0, <1>3, <3>1, TheOther DEF Reads, Sent
    <3>3. /\ ahead'[t] # <<>> /\ ahead'[t][Len(ahead'[t])] = holdsText[s]
          /\ ahead'[s] = <<>> /\ lastText'[s] = holdsText[s] /\ lastText'[t] = lastText[t]
      BY <1>0, <3>2, Queues
    <3>4. /\ doing' = [doing EXCEPT ![s] = "wait"] /\ seenSeq'[t] = seenSeq[t]
          /\ UNCHANGED <<holdsText, seq>>
      BY <1>3 DEF Reads
    <3> QED
      BY <3>3, <3>4
  <2> QED
    BY <2>1, <2>2
<1>4. CASE ReadFails(s)
  BY <1>4 DEF ReadFails
<1>5. CASE Rewrites(s)
  BY <1>5 DEF Rewrites
<1> QED
  BY <1>1, <1>2, <1>3, <1>4, <1>5 DEF Runs

\* What the other side does: it takes what comes and has nothing to send.
LEMMA TargetGoesOn ==
    ASSUME ClipTypes, ClipBusy, NEW s \in Sides, NEW t \in Sides, s # t, CleanFrom(s, t),
           \/ Runs(t) \/ ReadFails(t) \/ (clean' /\ Rewrites(t))
    PROVE  CleanFrom(s, t)'
PROOF
<1> USE DEF ClipTypes, ClipTypeOK, CleanFrom, OnItsWay
<1>0. ToLf(holdsText[s]) = holdsText[s] /\ ToCrlf(holdsText[s]) = holdsText[s]
  BY Converted
<1>1. CASE Receives(t)
  <2>1. /\ doing[t] = "wait" /\ doing' = [doing EXCEPT ![t] = "received"]
        /\ pasted' = [pasted EXCEPT ![t] = Head(ahead[t])]
        /\ ahead[t] # <<>> /\ ahead' = [ahead EXCEPT ![t] = Tail(ahead[t])]
        /\ UNCHANGED <<holdsText, seq, seenSeq, lastText>>
    BY <1>1 DEF Receives, Taken
  <2>2. /\ Tail(ahead[t]) = <<>> => Head(ahead[t]) = ahead[t][Len(ahead[t])]
        /\ Tail(ahead[t]) # <<>> =>
              Tail(ahead[t])[Len(Tail(ahead[t]))] = ahead[t][Len(ahead[t])]
    BY <2>1, Queues
  <2>3. ahead'[t] = Tail(ahead[t]) /\ pasted'[t] = Head(ahead[t]) /\ doing'[t] = "received"
    BY <2>1
  <2>4. ahead'[s] = <<>> /\ doing'[s] = doing[s]
    BY <2>1
  <2>5. OnItsWay(s, t, holdsText[s])'
    <3>1. CASE seq[s] # seenSeq[s] /\ holdsText[s] # lastText[s]
      BY <2>1, <3>1
    <3>2. CASE holdsText[s] = lastText[s] /\ ahead[t][Len(ahead[t])] = holdsText[s]
      BY <2>1, <2>2, <2>3, <3>2, Zenon
    <3> QED
      BY <2>1, <3>1, <3>2
  <2> QED
    BY <2>1, <2>3, <2>4, <2>5
<1>2. CASE Sets(t)
  BY <1>0, <1>2 DEF Sets
<1>3. CASE SeesOwnWrite(t)
  BY <1>3 DEF SeesOwnWrite
<1>4. CASE Polls(t)
  BY <1>4 DEF Polls
<1>5. CASE Reads(t)
  <2>0. seenSeq[t] < now[t] /\ doing[t] = "read"
    BY <1>5 DEF ClipBusy, Reads
  <2>1. seq[t] # seenSeq[t]
    BY <2>0
  <2>2. ToLf(holdsText[t]) \in {"image", "long", lastText[t]}
    BY <2>0, <2>1
  <2> QED
    BY <1>5, <2>2 DEF Reads
<1>6. CASE ReadFails(t)
  BY <1>6 DEF ReadFails
<1>7. CASE clean' /\ Rewrites(t)
  BY <1>7 DEF Rewrites
<1> QED
  BY <1>1, <1>2, <1>3, <1>4, <1>5, <1>6, <1>7 DEF Runs

LEMMA ClipCleanStep == ClipInv /\ [ClipNext]_clipVars => ClipClean'
PROOF
<1> SUFFICES ASSUME ClipTypes, ClipBusy, ClipClean, [ClipNext]_clipVars, clean'
             PROVE  \E s, t \in Sides : s # t /\ CleanFrom(s, t)'
  BY DEF ClipInv, ClipClean
<1>1. CASE UNCHANGED clipVars
  <2>1. PICK s \in Sides, t \in Sides : s # t /\ CleanFrom(s, t)
    BY <1>1 DEF clipVars, ClipClean
  <2>2. CleanFrom(s, t)'
    BY <1>1, <2>1 DEF clipVars, CleanFrom, OnItsWay
  <2> QED
    BY <2>1, <2>2
<1>2. ASSUME NEW x \in Sides, Runs(x) \/ ReadFails(x) \/ Rewrites(x)
      PROVE  \E s, t \in Sides : s # t /\ CleanFrom(s, t)'
  <2>1. clean
    BY <1>2 DEF Runs, Receives, Sets, SeesOwnWrite, Polls, Reads, ReadFails, Rewrites, ClipTypes
  <2>2. PICK s \in Sides, t \in Sides : s # t /\ CleanFrom(s, t)
    BY <2>1 DEF ClipClean
  <2>3. x = s \/ x = t
    BY <2>2, TheOther
  <2>4. CleanFrom(s, t)'
    BY <1>2, <2>2, <2>3, SourceGoesOn, TargetGoesOn
  <2> QED
    BY <2>2, <2>4
<1>3. ASSUME NEW s \in Sides, SetFails(s)
      PROVE  FALSE
  BY <1>3 DEF SetFails
<1>4. ASSUME NEW s \in Sides, NEW content \in Copyable, Copies(s, content)
      PROVE  \E u, t \in Sides : u # t /\ CleanFrom(u, t)'
  <2>1. PICK t \in Sides : t # s /\ t = OtherSide(s)
    BY OtherIs
  <2>2. /\ content \in {"a", "b"} /\ content # lastText[s]
        /\ doing[s] \notin {"received", "set"}
        /\ ahead[s] = <<>> /\ seq[t] = seenSeq[t] /\ doing[t] # "set"
    BY <1>4, <2>1 DEF Copies
  <2>3. /\ holdsText' = [holdsText EXCEPT ![s] = content]
        /\ seq' = [seq EXCEPT ![s] = seq[s] + 1]
        /\ UNCHANGED <<seenSeq, lastText, doing, pasted, ahead>>
    BY <1>4 DEF Copies
  <2>4. seq'[s] # seenSeq'[s] /\ seq'[t] = seq[t] /\ holdsText'[s] = content
    BY <2>1, <2>3 DEF ClipTypes, ClipTypeOK
  <2>5. doing[s] \in {"wait", "poll", "read"}
    BY <2>2 DEF ClipTypes, ClipTypeOK
  <2>6. CleanFrom(s, t)'
    BY <2>2, <2>3, <2>4, <2>5 DEF CleanFrom, OnItsWay
  <2> QED
    BY <2>1, <2>6
<1> QED
  BY <1>1, <1>2, <1>3, <1>4 DEF ClipNext

LEMMA ClipStep == ClipInv /\ [ClipNext]_clipVars => ClipInv'
PROOF BY ClipTypesStep, ClipOwnStep, ClipCleanStep DEF ClipInv

LEMMA ClipInvSafe == ClipInv => ClipTypeOK /\ InStep
PROOF
<1> SUFFICES ASSUME ClipInv, clean, Quiet, NEW s \in Sides, NEW t \in Sides
             PROVE  holdsText[s] = holdsText[t]
  BY DEF ClipInv, ClipTypes, InStep
<1>1. PICK u \in Sides, v \in Sides : u # v /\ CleanFrom(u, v)
  BY DEF ClipInv, ClipClean
<1>2. holdsText[u] = holdsText[v]
  BY <1>1 DEF Quiet, CleanFrom, OnItsWay
<1> QED
  BY <1>1, <1>2, TheOther

EchoOnlyIf ==
    \A s \in Sides :
        (doing[s] = "read" /\ doing'[s] = "wait" /\ Len(ahead'[OtherSide(s)]) > Len(ahead[OtherSide(s)]))
           => made[s] \/ unset[s] \/ lastText[s] = "crlf"

LEMMA EchoStep == ClipInv /\ [ClipNext]_clipVars => [EchoOnlyIf]_clipVars
PROOF
<1> SUFFICES ASSUME ClipInv, ClipNext, NEW s \in Sides, doing[s] = "read", doing'[s] = "wait",
                    Len(ahead'[OtherSide(s)]) > Len(ahead[OtherSide(s)]),
                    ~made[s], ~unset[s], lastText[s] # "crlf"
             PROVE  FALSE
  BY DEF EchoOnlyIf
<1> DEFINE n == Len(ahead[OtherSide(s)])
<1>0. n \in Nat /\ doing \in [Sides -> {"wait", "received", "set", "poll", "read"}]
  BY OtherIs DEF ClipInv, ClipTypes, ClipTypeOK
<1>1. PICK x \in Sides : \/ Runs(x) \/ SetFails(x) \/ ReadFails(x) \/ Rewrites(x)
                         \/ \E content \in Copyable : Copies(x, content)
  BY DEF ClipNext
<1>2. Reads(x) /\ x = s
  <2>1. doing'[s] # doing[s] /\ ahead' # ahead
    BY <1>0
  <2> QED
    BY <1>0, <1>1, <2>1 DEF Runs, Receives, Sets, SeesOwnWrite, Polls, Reads, SetFails, ReadFails,
       Rewrites, Copies
<1>3. ToLf(holdsText[s]) \notin {"image", "long", lastText[s]}
  BY <1>0, <1>2 DEF Reads
<1>4. OwnKnown(s)
  BY DEF ClipInv, ClipOwn
<1> QED
  BY <1>3, <1>4, Converted DEF OwnKnown

\* A copy that nothing crosses is on both sides once they are at rest, whatever
\* was copied, read or not read before it (clipboard/src/lib.rs: run).
THEOREM ClipboardsInStep == ClipSpec => [](ClipTypeOK /\ InStep)
PROOF BY ClipStart, ClipStep, ClipInvSafe, PTL DEF ClipSpec

\* What was just pasted does not go straight back (clipboard/src/lib.rs: last).
THEOREM NothingEchoed == ClipSpec => NoEcho
PROOF
<1>1. ClipSpec => [][EchoOnlyIf]_clipVars
  BY ClipStart, ClipStep, EchoStep, PTL DEF ClipSpec
<1> QED
  BY <1>1 DEF NoEcho, EchoOnlyIf

---------------------------------------------------------------------------
(* The browser's viewer. *)

InputMessages == {"kind", "down", "up", "text", "char"}
SessionState ==
    [conn : {"none", "connecting", "up"}, auth : BOOLEAN,
     proving : {"none", "started", "proven"}, established : BOOLEAN]

WebTypes ==
    /\ page \in {"asking", "reaching", "session", "waiting", "over"}
    /\ returning \in BOOLEAN /\ gone \in 0 .. BackFor /\ pauses \in 1 .. BackMax
    /\ grant \in 0 .. GrantBound /\ password \in {"none", "right", "wrong"}
    /\ session \in SessionState /\ since \in 0 .. KeyframeEvery
    /\ presented \in [1 .. GrantBound -> Nat]

InputTypes ==
    /\ holds \in BOOLEAN /\ out \in Seq(InputMessages) /\ Len(out) <= OutBound + 2
    /\ opened \in BOOLEAN /\ remote \in [kind : BOOLEAN, down : BOOLEAN, sense : BOOLEAN]

\* No grant is presented before the page has it, nor before the session it is for
\* asked for it, nor twice.
WebGrant ==
    /\ \A g \in 1 .. GrantBound : presented[g] <= 1 /\ (g > grant => presented[g] = 0)
    /\ page = "reaching" \/ (page = "session" /\ session.auth) =>
          grant # 0 /\ presented[grant] = 0

\* Messages of the control stream.
One(a) == <<[is |-> a]>>
Two(a, b) == <<[is |-> a], [is |-> b]>>
Three(a, b, c) == <<[is |-> a], [is |-> b], [is |-> c]>>
Presents(g) == <<[is |-> "Present", grant |-> g]>>
PresentsStarts(g) == <<[is |-> "Present", grant |-> g], [is |-> "AuthStart"]>>

UpShape ==
    \/ up = <<>> \/ up = One("Hello") \/ up = One("AuthStart") \/ up = One("AuthProve")
    \/ \E g \in 1 .. GrantBound : up = Presents(g)
    \/ required = "both" /\ \E g \in 1 .. GrantBound : up = PresentsStarts(g)

DownShape ==
    \/ down = <<>> \/ down = Two("Hello", "AuthRequired") \/ down = One("AuthRequired")
    \/ down = One("AuthAnswer")
    \/ down = One("MonitorList") \/ down = Two("AwaitingApproval", "MonitorList")
    \/ down = Two("AuthProved", "MonitorList")
    \/ down = Three("AuthProved", "AwaitingApproval", "MonitorList")

\* The two ends take turns: one of them has something to read.
WebTalk ==
    /\ UpShape /\ DownShape
    /\ up = <<>> \/ down = <<>>
    /\ page # "session" \/ session.conn # "up" => up = <<>> /\ down = <<>>

\* What the input stream may hold, where k is whether its kind was read, o whether
\* it is open and d whether the key is down at the device.
InputOK(q, k, o, d) ==
    /\ k => o
    /\ o /\ q = <<>> => k
    /\ ~k /\ q # <<>> => q[1] = "kind"
    /\ \A i \in DOMAIN q : q[i] = "kind" => i = 1 /\ ~k
    /\ \A i \in DOMAIN q : q[i] = "text" => ~DownAfter(q, d, i - 1)

WebInput ==
    /\ InputTypes /\ InputOK(out, remote.kind, opened, remote.down) /\ KeysFollow
    /\ page # "session" \/ session.conn # "up" =>
          ~remote.down /\ \A i \in DOMAIN out : out[i] # "down"

WebInv == WebTypes /\ WebGrant /\ WebTalk /\ WebInput

LEMMA WebStart == WebInit => WebInv
PROOF
<1> SUFFICES ASSUME WebInit
             PROVE  WebInv
  OBVIOUS
<1>1. WebTypes
  <2>1. 0 \in 0 .. BackFor /\ 1 \in 1 .. BackMax /\ 0 \in 0 .. GrantBound
        /\ KeyframeEvery \in 0 .. KeyframeEvery
    BY WebAssumption
  <2>2. NoSession \in SessionState
    BY DEF NoSession, SessionState
  <2>3. presented \in [1 .. GrantBound -> Nat]
    BY DEF WebInit
  <2> QED
    BY <2>1, <2>2, <2>3 DEF WebInit, WebTypes, NoGrant
<1>2. WebGrant
  BY DEF WebInit, WebGrant
<1>3. WebTalk
  BY DEF WebInit, WebTalk, UpShape, DownShape
<1>4. WebInput
  <2>1. out = <<>> /\ remote = [kind |-> FALSE, down |-> FALSE, sense |-> TRUE]
        /\ holds = FALSE /\ opened = FALSE
    BY DEF WebInit, Unread
  <2>2. InputTypes
    <3>1. <<>> \in Seq(InputMessages) /\ Len(<<>>) = 0 /\ 0 <= OutBound + 2
      BY WebAssumption
    <3> QED
      BY <2>1, <3>1 DEF InputTypes
  <2>3. \A i \in DOMAIN out : FALSE
    BY <2>1
  <2>4. ~DownAfter(out, remote.down, Len(out))
    BY <2>1, <2>3 DEF DownAfter
  <2> QED
    BY <2>1, <2>2, <2>3, <2>4 DEF WebInput, InputOK, KeysFollow
<1> QED
  BY <1>1, <1>2, <1>3, <1>4 DEF WebInv

LEMMA NoMessages == NoSession \in SessionState /\ NewSession \in SessionState
PROOF BY DEF NoSession, NewSession, SessionState

\* A turn that does not go on drops everything the session had.
LEMMA ClosedIs ==
    ASSUME WebTypes, NEW b \in BOOLEAN, Closed(b)
    PROVE  /\ Drops /\ page' \in {"waiting", "over"} /\ returning' \in BOOLEAN
           /\ gone' \in 0 .. BackFor /\ pauses' \in 1 .. BackMax
PROOF
<1>1. 0 \in 0 .. BackFor /\ 1 \in 1 .. BackMax
  BY WebAssumption
<1> QED
  BY <1>1 DEF Closed, WebTypes

LEMMA ThrowsIs ==
    ASSUME WebTypes, Throws
    PROVE  /\ page' \in {"waiting", "over"} /\ returning' \in BOOLEAN
           /\ gone' = gone /\ pauses' \in 1 .. BackMax
PROOF
<1>1. \A n \in 1 .. BackMax : (IF 2 * n < BackMax THEN 2 * n ELSE BackMax) \in 1 .. BackMax
  BY WebAssumption
<1>2. /\ page' \in {"waiting", "over"}
      /\ pauses' \in {pauses, IF 2 * pauses < BackMax THEN 2 * pauses ELSE BackMax}
      /\ returning' = (returning /\ page' # "over") /\ gone' = gone
  BY DEF Throws
<1> QED
  BY <1>1, <1>2 DEF WebTypes

\* A control message is one of: the first question, answered, kept for a password
\* or refused; one out of turn; the two of the exchange; and the rest.
LEMMA ControlCases ==
    ASSUME WebTypes, ControlMessage
    PROVE  /\ page = "session" /\ session.conn = "up" /\ down # <<>> /\ UNCHANGED <<required, byes>>
           /\ \/ /\ Closed(FALSE) /\ UNCHANGED <<grant, password, presented>>
              \/ /\ Drops /\ page' \in {"reaching", "over"} /\ session.auth
                 /\ password' \in {password, "right", "wrong"}
                 /\ UNCHANGED <<returning, gone, pauses, grant, presented>>
              \/ /\ Head(down).is = "AuthRequired" /\ session.auth
                 /\ session' = [session EXCEPT !.auth = FALSE,
                           !.proving = IF required = "both" THEN "started" ELSE "none"]
                 /\ presented' = [presented EXCEPT ![grant] = @ + 1]
                 /\ up' = up \o Presents(grant)
                             \o IF required = "both" THEN One("AuthStart") ELSE <<>>
                 /\ down' = Tail(down)
                 /\ UNCHANGED <<page, stageOf, pageVars, keyVars, inputVars>>
              \/ /\ Head(down).is = "AuthAnswer"
                 /\ session' = [session EXCEPT !.proving = "proven"]
                 /\ up' = Append(up, [is |-> "AuthProve"]) /\ down' = Tail(down)
                 /\ UNCHANGED <<page, stageOf, presented, pageVars, keyVars, inputVars>>
              \/ /\ \/ Head(down).is = "AuthProved" /\ session' = [session EXCEPT !.proving = "none"]
                    \/ /\ Head(down).is \in {"Hello", "AwaitingApproval", "MonitorList"}
                       /\ session' = [session EXCEPT !.established = @ \/ Head(down).is = "MonitorList"]
                 /\ down' = Tail(down)
                 /\ UNCHANGED <<page, up, stageOf, presented, pageVars, keyVars, inputVars>>
PROOF
<1> DEFINE m == Head(down).is
<1>1. CASE m = "AuthRequired" /\ AskedFor
  <2>1. CASE ~session.auth \/ required = "password"
    BY <1>1, <2>1, Zenon DEF AskedFor, ControlMessage
  <2>2. CASE ~(~session.auth \/ required = "password") /\ required = "both" /\ password = "none"
    <3>1. /\ Drops /\ session.auth
          /\ \/ page' = "reaching" /\ password' \in {"right", "wrong"}
             \/ page' = "over" /\ UNCHANGED password
          /\ UNCHANGED <<returning, gone, pauses, grant, presented>>
      BY <1>1, <2>2, Zenon DEF AskedFor
    <3>2. page' \in {"reaching", "over"} /\ password' \in {password, "right", "wrong"}
      BY <3>1
    <3> QED
      BY <3>1, <3>2, Zenon DEF ControlMessage
  <2>3. CASE ~(~session.auth \/ required = "password") /\ ~(required = "both" /\ password = "none")
    BY <1>1, <2>3, Zenon DEF AskedFor, ControlMessage, Presents, One
  <2> QED
    BY <2>1, <2>2, <2>3
<1>2. CASE Closed(FALSE) /\ UNCHANGED <<grant, password, presented>>
  BY <1>2, Zenon DEF ControlMessage
<1>3. CASE m = "AuthAnswer" /\ Proves
  BY <1>3, Zenon DEF ControlMessage, Proves
<1>4. CASE m = "AuthProved" /\ ChecksAgent
  BY <1>4, Zenon DEF ControlMessage, ChecksAgent
<1>5. CASE /\ m \in {"Hello", "AwaitingApproval", "MonitorList"}
           /\ session' = [session EXCEPT !.established = @ \/ m = "MonitorList"]
           /\ down' = Tail(down)
           /\ UNCHANGED <<page, up, stageOf, presented>> /\ UNCHANGED pageVars
           /\ UNCHANGED <<keyVars, inputVars>>
  BY <1>5, Zenon DEF ControlMessage
<1> QED
  BY <1>1, <1>2, <1>3, <1>4, <1>5, Zenon DEF ControlMessage

\* What the agent makes of what it reads: it goes on, or ends the session.
AgentGoesOn ==
    /\ up' = Tail(up) /\ UNCHANGED <<page, session, pageVars, keyVars, inputVars>>
    /\ \/ Head(up).is = "Hello" /\ down' = Two("Hello", "AuthRequired")
       \/ Head(up).is = "Present" /\ required = "both" /\ UNCHANGED down
       \/ /\ Head(up).is = "Present" /\ required # "both"
          /\ \/ down' = down \o One("MonitorList")
             \/ down' = down \o Two("AwaitingApproval", "MonitorList")
       \/ Head(up).is = "AuthStart" /\ down' = Append(down, [is |-> "AuthAnswer"])
       \/ /\ Head(up).is = "AuthProve"
          /\ \/ down' = down \o Two("AuthProved", "MonitorList")
             \/ down' = down \o Three("AuthProved", "AwaitingApproval", "MonitorList")

LEMMA AgentCases ==
    ASSUME AgentReads
    PROVE  /\ page = "session" /\ up # <<>> /\ UNCHANGED <<required, presented, byes>>
           /\ AgentGoesOn \/ (Closed(FALSE) /\ UNCHANGED <<grant, password>>)
PROOF
<1> DEFINE m == Head(up)
           on == up' = Tail(up) /\ UNCHANGED <<page, session>> /\ UNCHANGED pageVars
                 /\ UNCHANGED <<keyVars, inputVars>>
<1>1. CASE Closed(FALSE) /\ UNCHANGED <<grant, password>>
  BY <1>1, Zenon DEF AgentReads
<1>2. CASE m.is = "Hello" /\ on /\ down' = Two("Hello", "AuthRequired")
  BY <1>2, Zenon DEF AgentReads, AgentGoesOn
<1>3. CASE /\ m.is = "Present" /\ on
           /\ IF required = "both" THEN UNCHANGED down
              ELSE \/ down' = down \o One("MonitorList")
                   \/ down' = down \o Two("AwaitingApproval", "MonitorList")
  BY <1>3, Zenon DEF AgentReads, AgentGoesOn
<1>4. CASE m.is = "AuthStart" /\ on /\ down' = Append(down, [is |-> "AuthAnswer"])
  BY <1>4, Zenon DEF AgentReads, AgentGoesOn
<1>5. CASE /\ m.is = "AuthProve" /\ on
           /\ \/ down' = down \o Two("AuthProved", "MonitorList")
              \/ down' = down \o Three("AuthProved", "AwaitingApproval", "MonitorList")
  BY <1>5, Zenon DEF AgentReads, AgentGoesOn
<1> QED
  BY <1>1, <1>2, <1>3, <1>4, <1>5, Zenon DEF AgentReads, One, Two, Three

LEMMA WebTypesStep == WebInv /\ [WebNext]_webVars => WebTypes' /\ WebGrant'
PROOF
<1> SUFFICES ASSUME WebTypes, WebGrant, [WebNext]_webVars
             PROVE  WebTypes' /\ WebGrant'
  BY DEF WebInv
<1>0. /\ 0 \in 0 .. KeyframeEvery /\ KeyframeEvery \in 0 .. KeyframeEvery
      /\ GrantBound \in Nat /\ \A n \in 0 .. KeyframeEvery : n < KeyframeEvery => n + 1 \in 0 .. KeyframeEvery
  BY WebAssumption
\* What is so of every turn that ends a session, and of every thrown error.
<1>a. ASSUME Drops, page' \in {"waiting", "over"}, returning' \in BOOLEAN,
             gone' \in 0 .. BackFor, pauses' \in 1 .. BackMax,
             grant' = grant, presented' = presented, password' \in {"none", "right", "wrong"}
      PROVE  WebTypes' /\ WebGrant'
  BY <1>0, <1>a, NoMessages DEF WebTypes, WebGrant, Drops
<1>b. ASSUME Throws, UNCHANGED <<grant, password, session, presented, since>>
      PROVE  WebTypes' /\ WebGrant'
  BY <1>b, ThrowsIs DEF WebTypes, WebGrant
<1>1. CASE UNCHANGED webVars
  BY <1>1 DEF webVars, WebTypes, WebGrant
<1>2. CASE GetsGrant
  <2>1. CASE grant < GrantBound
    <3>1. /\ grant' = grant + 1 /\ page' = "reaching"
          /\ UNCHANGED <<returning, gone, pauses, password, session, since, presented>>
      BY <1>2, <2>1 DEF GetsGrant, wireVars, keyVars
    <3>2. grant + 1 \in 1 .. GrantBound /\ grant + 1 > grant /\ grant + 1 # 0
      BY <1>0, <2>1 DEF WebTypes
    <3>3. grant' \in 0 .. GrantBound /\ \A g \in 1 .. GrantBound : g > grant' => g > grant
      BY <3>1, <3>2 DEF WebTypes
    <3>4. presented[grant + 1] = 0
      BY <3>2 DEF WebGrant
    <3>5. WebTypes'
      BY <3>1, <3>3 DEF WebTypes
    <3>6. WebGrant'
      BY <3>1, <3>2, <3>3, <3>4 DEF WebGrant
    <3> QED
      BY <3>5, <3>6
  <2>2. CASE ~(grant < GrantBound)
    BY <1>2, <1>b, <2>2 DEF GetsGrant, wireVars, keyVars
  <2> QED
    BY <2>1, <2>2
<1>3. CASE NoAccess \/ NotReached
  BY <1>3, <1>b DEF NoAccess, NotReached, wireVars, keyVars
<1>4. CASE Reaches
  BY <1>0, <1>4, NoMessages DEF Reaches, NewSession, wireVars, WebTypes, WebGrant
<1>5. CASE Waited
  <2>1. gone' \in 0 .. BackFor
    BY <1>5, WebAssumption DEF Waited, WebTypes
  <2> QED
    BY <1>5, <2>1 DEF Waited, wireVars, keyVars, WebTypes, WebGrant
<1>6. CASE Connected
  <2>1. session' \in SessionState /\ session'.auth = session.auth
    BY <1>6 DEF Connected, WebTypes, SessionState
  <2> QED
    BY <1>6, <2>1 DEF Connected, pageVars, keyVars, WebTypes, WebGrant
<1>7. CASE ControlMessage
  <2>1. CASE Closed(FALSE) /\ UNCHANGED <<grant, password, presented>>
    BY <1>a, <2>1, ClosedIs DEF WebTypes
  <2>2. CASE /\ Drops /\ page' \in {"reaching", "over"} /\ session.auth /\ page = "session"
             /\ password' \in {password, "right", "wrong"}
             /\ UNCHANGED <<returning, gone, pauses, grant, presented>>
    BY <1>0, <2>2, NoMessages DEF WebTypes, WebGrant, Drops
  <2>3. CASE /\ session.auth /\ page = "session"
             /\ session' = [session EXCEPT !.auth = FALSE,
                           !.proving = IF required = "both" THEN "started" ELSE "none"]
             /\ presented' = [presented EXCEPT ![grant] = presented[grant] + 1]
             /\ UNCHANGED <<page, pageVars, keyVars>>
    <3>1. grant # 0 /\ presented[grant] = 0 /\ grant \in 1 .. GrantBound
      BY <2>3 DEF WebGrant, WebTypes
    <3>2. session' \in SessionState /\ ~session'.auth
      BY <2>3 DEF WebTypes, SessionState
    <3>3. /\ presented' \in [1 .. GrantBound -> Nat] /\ presented'[grant] = 1
          /\ \A g \in 1 .. GrantBound : g # grant => presented'[g] = presented[g]
      BY <2>3, <3>1 DEF WebTypes
    <3>4. WebTypes'
      BY <2>3, <3>2, <3>3 DEF WebTypes, pageVars, keyVars
    <3>5. \A g \in 1 .. GrantBound : presented'[g] <= 1 /\ (g > grant => presented'[g] = 0)
      <4> TAKE g \in 1 .. GrantBound
      <4>1. CASE g = grant
        BY <3>3, <4>1 DEF WebTypes
      <4>2. CASE g # grant
        BY <3>3, <4>2 DEF WebGrant
      <4> QED
        BY <4>1, <4>2
    <3> QED
      BY <2>3, <3>2, <3>4, <3>5 DEF WebGrant, pageVars
  <2>4. CASE /\ \/ session' = [session EXCEPT !.proving = "proven"]
                \/ session' = [session EXCEPT !.proving = "none"]
                \/ session' = [session EXCEPT !.established = @ \/ Head(down).is = "MonitorList"]
             /\ UNCHANGED <<page, presented, pageVars, keyVars>>
    <3>1. session' \in SessionState /\ session'.auth = session.auth
      BY <2>4 DEF WebTypes, SessionState
    <3> QED
      BY <2>4, <3>1 DEF WebTypes, WebGrant, pageVars, keyVars
  <2> QED
    BY <1>7, <2>1, <2>2, <2>3, <2>4, ControlCases
<1>8. CASE NeedsKeyframe \/ WebTick
  <2>1. since' \in 0 .. KeyframeEvery
    BY <1>0, <1>8 DEF NeedsKeyframe, WebTick, Drive, WebTypes
  <2> QED
    BY <1>8, <2>1 DEF NeedsKeyframe, WebTick, pageVars, wireVars, WebTypes, WebGrant
<1>9. CASE SessionLost \/ SessionEnded
  BY <1>9, <1>a, ClosedIs DEF SessionLost, SessionEnded, WebTypes
<1>10. CASE LeavesPage
  BY <1>10, <1>a DEF LeavesPage, WebTypes
<1>11. CASE AgentReads
  <2>1. CASE AgentGoesOn
    BY <1>11, <2>1, AgentCases DEF AgentGoesOn, pageVars, keyVars, WebTypes, WebGrant
  <2>2. CASE Closed(FALSE) /\ UNCHANGED <<grant, password>>
    BY <1>11, <1>a, <2>2, AgentCases, ClosedIs DEF WebTypes
  <2> QED
    BY <1>11, <2>1, <2>2, AgentCases
<1>12. ASSUME NEW b \in BOOLEAN, WebKey(b) \/ WebReleaseAll(b) \/ WebCharacter
       PROVE  WebTypes' /\ WebGrant'
  BY <1>12 DEF WebKey, WebReleaseAll, WebCharacter, pageVars, wireVars, keyVars, WebTypes, WebGrant
<1>13. CASE StreamOpens \/ AgentReadsInput
  BY <1>13 DEF StreamOpens, AgentReadsInput, pageVars, wireVars, keyVars, WebTypes, WebGrant
<1> QED
  BY <1>1, <1>2, <1>3, <1>4, <1>5, <1>6, <1>7, <1>8, <1>9, <1>10, <1>11, <1>12, <1>13 DEF WebNext

\* Two elements, one after the other.
LEMMA PairIs == ASSUME NEW x, NEW y PROVE <<x>> \o <<y>> = <<x, y>>
PROOF
<1> DEFINE S == {x, y} s == <<x>> t == <<y>> u == <<x, y>>
<1>1. s \in Seq(S) /\ t \in Seq(S) /\ Len(s) = 1 /\ Len(t) = 1 /\ s[1] = x /\ t[1] = y
  OBVIOUS
<1>2. u \in Seq(S) /\ Len(u) = 2 /\ u[1] = x /\ u[2] = y
  OBVIOUS
<1> HIDE DEF s, t, S, u
<1>3. s \o t \in Seq(S) /\ Len(s \o t) = 2 /\ (s \o t)[1] = x /\ (s \o t)[2] = y
  BY <1>1, ConcatProperties
<1>4. \A i \in 1 .. 2 : (s \o t)[i] = u[i]
  BY <1>2, <1>3
<1>5. s \o t = u
  BY <1>2, <1>3, <1>4, SeqEqual
<1> QED
  BY <1>5 DEF s, t, u

\* What is first and what is left of a few messages.
LEMMA OneIs ==
    ASSUME NEW a
    PROVE  One(a) # <<>> /\ Head(One(a)).is = a /\ Tail(One(a)) = <<>> /\ Len(One(a)) = 1
PROOF BY DEF One

LEMMA TwoIs ==
    ASSUME NEW a, NEW b
    PROVE  Two(a, b) # <<>> /\ Head(Two(a, b)).is = a /\ Tail(Two(a, b)) = One(b) /\ Len(Two(a, b)) = 2
PROOF BY DEF One, Two

LEMMA ThreeIs ==
    ASSUME NEW a, NEW b, NEW c
    PROVE  /\ Three(a, b, c) # <<>> /\ Head(Three(a, b, c)).is = a
           /\ Tail(Three(a, b, c)) = Two(b, c) /\ Len(Three(a, b, c)) = 3
PROOF BY DEF Two, Three

LEMMA PresentsIs ==
    ASSUME NEW g
    PROVE  /\ Head(Presents(g)).is = "Present" /\ Tail(Presents(g)) = <<>> /\ Len(Presents(g)) = 1
           /\ Head(PresentsStarts(g)).is = "Present"
           /\ Tail(PresentsStarts(g)) = One("AuthStart") /\ Len(PresentsStarts(g)) = 2
PROOF
<1>1. Head(Presents(g)).is = "Present" /\ Tail(Presents(g)) = <<>> /\ Len(Presents(g)) = 1
  BY DEF Presents
<1>2. /\ Head(PresentsStarts(g)).is = "Present"
      /\ Tail(PresentsStarts(g)) = One("AuthStart") /\ Len(PresentsStarts(g)) = 2
  BY DEF PresentsStarts, One
<1> QED
  BY <1>1, <1>2, Zenon

\* What is added where nothing was.
LEMMA ShapesAdded ==
    /\ \A a : <<>> \o One(a) = One(a) /\ Append(<<>>, [is |-> a]) = One(a)
    /\ \A a, b : <<>> \o Two(a, b) = Two(a, b)
    /\ \A a, b, c : <<>> \o Three(a, b, c) = Three(a, b, c)
    /\ \A g : /\ <<>> \o Presents(g) \o One("AuthStart") = PresentsStarts(g)
              /\ <<>> \o Presents(g) \o <<>> = Presents(g)
PROOF
<1>1. \A a : <<>> \o One(a) = One(a) /\ Append(<<>>, [is |-> a]) = One(a)
  BY DEF One
<1>2. \A a, b : <<>> \o Two(a, b) = Two(a, b)
  BY DEF Two
<1>3. \A a, b, c : <<>> \o Three(a, b, c) = Three(a, b, c)
  BY DEF Three
<1>4. ASSUME NEW g
      PROVE  <<>> \o Presents(g) \o One("AuthStart") = PresentsStarts(g)
  <2>1. <<>> \o Presents(g) = Presents(g)
    BY DEF Presents
  <2>3. Presents(g) \o One("AuthStart") = PresentsStarts(g)
    BY PairIs, Zenon DEF Presents, PresentsStarts, One
  <2> QED
    BY <2>1, <2>3, Zenon
<1>5. \A g : <<>> \o Presents(g) \o <<>> = Presents(g)
  BY DEF Presents
<1> QED
  BY <1>1, <1>2, <1>3, <1>4, <1>5, Zenon

\* What the agent may have to read, and what the page may.
LEMMA UpRead ==
    ASSUME UpShape
    PROVE  \/ up = <<>> /\ Len(up) = 0
           \/ up = One("Hello") /\ Head(up).is = "Hello" /\ Tail(up) = <<>> /\ Len(up) = 1
           \/ Head(up).is = "AuthStart" /\ Tail(up) = <<>> /\ Len(up) = 1
           \/ Head(up).is = "AuthProve" /\ Tail(up) = <<>> /\ Len(up) = 1
           \/ Head(up).is = "Present" /\ Tail(up) = <<>> /\ Len(up) = 1
           \/ /\ Head(up).is = "Present" /\ Tail(up) = One("AuthStart") /\ Len(up) = 2
              /\ required = "both"
PROOF
<1>1. CASE up = <<>>
  BY <1>1
<1>2. CASE up = One("Hello") \/ up = One("AuthStart") \/ up = One("AuthProve")
  BY <1>2, OneIs, Zenon
<1>3. ASSUME NEW g \in 1 .. GrantBound, up = Presents(g)
      PROVE  Head(up).is = "Present" /\ Tail(up) = <<>> /\ Len(up) = 1
  BY <1>3, PresentsIs, Zenon
<1>4. ASSUME NEW g \in 1 .. GrantBound, up = PresentsStarts(g)
      PROVE  Head(up).is = "Present" /\ Tail(up) = One("AuthStart") /\ Len(up) = 2
  BY <1>4, PresentsIs, Zenon
<1> QED
  BY <1>1, <1>2, <1>3, <1>4, Zenon DEF UpShape

LEMMA DownRead ==
    ASSUME DownShape
    PROVE  \/ down = <<>> /\ Len(down) = 0
           \/ Head(down).is = "Hello" /\ Tail(down) = One("AuthRequired") /\ Len(down) = 2
           \/ Head(down).is = "AuthRequired" /\ Tail(down) = <<>> /\ Len(down) = 1
           \/ Head(down).is = "AuthAnswer" /\ Tail(down) = <<>> /\ Len(down) = 1
           \/ Head(down).is = "MonitorList" /\ Tail(down) = <<>> /\ Len(down) = 1
           \/ /\ Head(down).is = "AwaitingApproval" /\ Tail(down) = One("MonitorList")
              /\ Len(down) = 2
           \/ Head(down).is = "AuthProved" /\ Tail(down) = One("MonitorList") /\ Len(down) = 2
           \/ /\ Head(down).is = "AuthProved" /\ Len(down) = 3
              /\ Tail(down) = Two("AwaitingApproval", "MonitorList")
PROOF
<1>1. CASE down = <<>>
  BY <1>1
<1>2. CASE down = Two("Hello", "AuthRequired")
  <2>1. /\ Head(Two("Hello", "AuthRequired")).is = "Hello"
        /\ Tail(Two("Hello", "AuthRequired")) = One("AuthRequired") /\ Len(Two("Hello", "AuthRequired")) = 2
    BY TwoIs, Zenon
  <2> QED
    BY <1>2, <2>1, Zenon
<1>3. CASE down = One("AuthRequired") \/ down = One("AuthAnswer") \/ down = One("MonitorList")
  BY <1>3, OneIs, Zenon
<1>4. CASE down = Two("AwaitingApproval", "MonitorList")
  <2>1. /\ Head(Two("AwaitingApproval", "MonitorList")).is = "AwaitingApproval"
        /\ Tail(Two("AwaitingApproval", "MonitorList")) = One("MonitorList") /\ Len(Two("AwaitingApproval", "MonitorList")) = 2
    BY TwoIs, Zenon
  <2> QED
    BY <1>4, <2>1, Zenon
<1>5. CASE down = Two("AuthProved", "MonitorList")
  <2>1. /\ Head(Two("AuthProved", "MonitorList")).is = "AuthProved"
        /\ Tail(Two("AuthProved", "MonitorList")) = One("MonitorList") /\ Len(Two("AuthProved", "MonitorList")) = 2
    BY TwoIs, Zenon
  <2> QED
    BY <1>5, <2>1, Zenon
<1>6. CASE down = Three("AuthProved", "AwaitingApproval", "MonitorList")
  <2> DEFINE d == Three("AuthProved", "AwaitingApproval", "MonitorList")
  <2>1. Head(d).is = "AuthProved" /\ Tail(d) = Two("AwaitingApproval", "MonitorList") /\ Len(d) = 3
    BY ThreeIs, Zenon
  <2> QED
    BY <1>6, <2>1, Zenon
<1> QED
  BY <1>1, <1>2, <1>3, <1>4, <1>5, <1>6, Zenon DEF DownShape

LEMMA WebTalkStep == WebInv /\ [WebNext]_webVars => WebTalk'
PROOF
<1> SUFFICES ASSUME WebTypes, WebGrant, WebTalk, [WebNext]_webVars
             PROVE  WebTalk'
  BY DEF WebInv
\* Nothing is said, or everything is dropped.
<1>a. ASSUME UNCHANGED <<up, down>>, required' = required,
             page' # "session" \/ session'.conn # "up" => page # "session" \/ session.conn # "up"
      PROVE  WebTalk'
  BY <1>a, Zenon DEF WebTalk, UpShape, DownShape
<1>b. ASSUME Drops
      PROVE  WebTalk'
  BY <1>b DEF Drops, WebTalk, UpShape, DownShape
<1>1. CASE UNCHANGED webVars
  BY <1>1, <1>a DEF webVars
<1>2. CASE GetsGrant \/ NoAccess \/ NotReached \/ Waited
  BY <1>2, <1>a DEF GetsGrant, NoAccess, NotReached, Waited, wireVars
<1>4. CASE Reaches
  BY <1>4, <1>a DEF Reaches, NewSession, wireVars
<1>6. CASE Connected
  <2>1. up' = One("Hello") /\ down' = <<>> /\ page' = "session" /\ session'.conn = "up"
    BY <1>6 DEF Connected, WebTalk, One, WebTypes, SessionState
  <2> QED
    BY <2>1 DEF WebTalk, UpShape, DownShape
<1>7. CASE ControlMessage
  <2>0. page = "session" /\ session.conn = "up" /\ down # <<>> /\ required' = required
    BY <1>7, ControlCases
  <2>1. up = <<>>
    BY <2>0 DEF WebTalk
  <2>2. CASE Drops
    BY <1>b, <2>2
  <2>3. CASE /\ Head(down).is = "AuthRequired"
             /\ session' = [session EXCEPT !.auth = FALSE,
                           !.proving = IF required = "both" THEN "started" ELSE "none"]
             /\ up' = up \o Presents(grant) \o IF required = "both" THEN One("AuthStart") ELSE <<>>
             /\ down' = Tail(down) /\ UNCHANGED page /\ session.auth
    <3>2. down' = <<>>
      BY <2>0, <2>3, DownRead DEF WebTalk
    <3>3. session'.conn = "up" /\ page' = "session"
      BY <2>0, <2>3 DEF WebTypes, SessionState
    <3>4. grant \in 1 .. GrantBound
      BY <2>0, <2>3 DEF WebTypes, WebGrant
    <3>5. IF required = "both" THEN up' = PresentsStarts(grant) ELSE up' = Presents(grant)
      BY <2>1, <2>3, ShapesAdded, Zenon
    <3> QED
      BY <2>0, <3>2, <3>3, <3>4, <3>5, Zenon DEF WebTalk, UpShape, DownShape
  <2>4. CASE /\ Head(down).is = "AuthAnswer" /\ session' = [session EXCEPT !.proving = "proven"]
             /\ up' = Append(up, [is |-> "AuthProve"]) /\ down' = Tail(down) /\ UNCHANGED page
    <3>1. down' = <<>>
      BY <2>0, <2>4, DownRead DEF WebTalk
    <3>2. down' = <<>> /\ up' = One("AuthProve")
      BY <2>1, <2>4, <3>1, ShapesAdded, Zenon
    <3>3. session'.conn = "up" /\ page' = "session"
      BY <2>0, <2>4 DEF WebTypes, SessionState
    <3> QED
      BY <3>2, <3>3, Zenon DEF WebTalk, UpShape, DownShape
  <2>5. CASE /\ \/ Head(down).is = "AuthProved" /\ session' = [session EXCEPT !.proving = "none"]
                \/ /\ Head(down).is \in {"Hello", "AwaitingApproval", "MonitorList"}
                   /\ session' = [session EXCEPT !.established = @ \/ Head(down).is = "MonitorList"]
             /\ down' = Tail(down) /\ UNCHANGED <<page, up>>
    <3>0. \/ down' = <<>> \/ down' = One("AuthRequired") \/ down' = One("MonitorList")
          \/ down' = Two("AwaitingApproval", "MonitorList")
      BY <2>0, <2>5, DownRead DEF WebTalk
    <3>1. DownShape'
      BY <3>0, Zenon DEF DownShape
    <3>2. session'.conn = "up" /\ page' = "session"
      BY <2>0, <2>5 DEF WebTypes, SessionState
    <3>3. up' = <<>>
      BY <2>1, <2>5
    <3> QED
      BY <3>1, <3>2, <3>3, Zenon DEF WebTalk, UpShape
  <2>6. CASE Closed(FALSE)
    BY <2>2, <2>6 DEF Closed
  <2> QED
    BY <1>7, <2>2, <2>3, <2>4, <2>5, <2>6, ControlCases, Zenon
<1>8. CASE NeedsKeyframe \/ WebTick
  BY <1>8, <1>a DEF NeedsKeyframe, WebTick, wireVars
<1>9. CASE SessionLost \/ SessionEnded
  BY <1>9, <1>b DEF SessionLost, SessionEnded, Closed
<1>10. CASE LeavesPage
  BY <1>10, <1>b DEF LeavesPage
<1>11. CASE AgentReads
  <2>0. page = "session" /\ up # <<>> /\ required' = required
    BY <1>11, AgentCases
  <2>1. down = <<>> /\ session.conn = "up"
    BY <2>0 DEF WebTalk
  <2>2. CASE Closed(FALSE)
    BY <1>b, <2>2 DEF Closed
  <2>3. CASE AgentGoesOn
    <3>0. page' = "session" /\ session'.conn = "up" /\ up' = Tail(up)
      BY <2>0, <2>1, <2>3 DEF AgentGoesOn
    <3>1. CASE Head(up).is = "Hello" /\ down' = Two("Hello", "AuthRequired")
      <4>2. up' = <<>>
        BY <2>0, <3>0, <3>1, UpRead DEF WebTalk
      <4> QED
        BY <3>0, <3>1, <4>2, Zenon DEF WebTalk, UpShape, DownShape
    <3>2. CASE Head(up).is = "Present" /\ required = "both" /\ UNCHANGED down
      <4>1. up' = <<>> \/ up' = One("AuthStart")
        BY <2>0, <3>0, <3>2, UpRead DEF WebTalk
      <4> QED
        BY <2>1, <3>0, <3>2, <4>1, Zenon DEF WebTalk, UpShape, DownShape
    <3>3. CASE /\ Head(up).is = "Present" /\ required # "both"
               /\ \/ down' = down \o One("MonitorList")
                  \/ down' = down \o Two("AwaitingApproval", "MonitorList")
      <4>1. up' = <<>>
        BY <2>0, <3>0, <3>3, UpRead DEF WebTalk
      <4>2. down' = One("MonitorList") \/ down' = Two("AwaitingApproval", "MonitorList")
        BY <2>1, <3>3, ShapesAdded, Zenon
      <4> QED
        BY <3>0, <4>1, <4>2, Zenon DEF WebTalk, UpShape, DownShape
    <3>4. CASE Head(up).is = "AuthStart" /\ down' = Append(down, [is |-> "AuthAnswer"])
      <4>1. up' = <<>>
        BY <2>0, <3>0, <3>4, UpRead DEF WebTalk
      <4>2. down' = One("AuthAnswer")
        BY <2>1, <3>4, ShapesAdded, Zenon
      <4> QED
        BY <3>0, <4>1, <4>2, Zenon DEF WebTalk, UpShape, DownShape
    <3>5. CASE /\ Head(up).is = "AuthProve"
               /\ \/ down' = down \o Two("AuthProved", "MonitorList")
                  \/ down' = down \o Three("AuthProved", "AwaitingApproval", "MonitorList")
      <4>1. up' = <<>>
        BY <2>0, <3>0, <3>5, UpRead DEF WebTalk
      <4>2. \/ down' = Two("AuthProved", "MonitorList")
            \/ down' = Three("AuthProved", "AwaitingApproval", "MonitorList")
        BY <2>1, <3>5, ShapesAdded, Zenon
      <4> QED
        BY <3>0, <4>1, <4>2, Zenon DEF WebTalk, UpShape, DownShape
    <3> QED
      BY <2>3, <3>1, <3>2, <3>3, <3>4, <3>5, Zenon DEF AgentGoesOn
  <2> QED
    BY <1>11, <2>2, <2>3, AgentCases
<1>12. ASSUME NEW b \in BOOLEAN, WebKey(b) \/ WebReleaseAll(b) \/ WebCharacter
       PROVE  WebTalk'
  BY <1>12, <1>a DEF WebKey, WebReleaseAll, WebCharacter, wireVars
<1>13. CASE StreamOpens \/ AgentReadsInput
  BY <1>13, <1>a DEF StreamOpens, AgentReadsInput, wireVars
<1> QED
  BY <1>1, <1>2, <1>4, <1>6, <1>7, <1>8, <1>9, <1>10, <1>11, <1>12, <1>13 DEF WebNext

LEMMA TalkBounded == WebTalk => Len(up) <= 2 /\ Len(down) <= 3
PROOF
<1> SUFFICES ASSUME WebTalk
             PROVE  Len(up) <= 2 /\ Len(down) <= 3
  OBVIOUS
<1>0. 0 <= 2 /\ 1 <= 2 /\ 2 <= 2 /\ 0 <= 3 /\ 1 <= 3 /\ 2 <= 3 /\ 3 <= 3
  OBVIOUS
<1>1. Len(up) = 0 \/ Len(up) = 1 \/ Len(up) = 2
  BY UpRead, Zenon DEF WebTalk
<1>2. Len(down) = 0 \/ Len(down) = 1 \/ Len(down) = 2 \/ Len(down) = 3
  BY DownRead, Zenon DEF WebTalk
<1> QED
  BY <1>0, <1>1, <1>2, Zenon

\* The key once one more message is behind, and once the first has been read.
LEMMA DownLonger ==
    ASSUME NEW q, NEW r, NEW n \in Nat, NEW d \in BOOLEAN, NEW m,
           DOMAIN q = 1 .. n, DOMAIN r = 1 .. n + 1, r[n + 1] = m,
           \A i \in 1 .. n : r[i] = q[i]
    PROVE  /\ \A k \in 0 .. n : DownAfter(r, d, k) <=> DownAfter(q, d, k)
           /\ DownAfter(r, d, n + 1) <=> m = "down" \/ (m # "up" /\ DownAfter(q, d, n))
PROOF
<1>1. ASSUME NEW k \in 0 .. n
      PROVE  DownAfter(r, d, k) <=> DownAfter(q, d, k)
  <2>1. \A i \in 1 .. n + 1 : i <= k => i \in 1 .. n
    OBVIOUS
  <2>2. \A i \in 1 .. n : i \in 1 .. n + 1
    OBVIOUS
  <2> QED
    BY <2>1, <2>2, Zenon DEF DownAfter
<1>2. \A i \in 1 .. n + 1 : i <= n + 1 /\ (i = n + 1 \/ (i \in 1 .. n /\ i <= n /\ i < n + 1))
  OBVIOUS
<1>3. \A i \in 1 .. n : i \in 1 .. n + 1 /\ i <= n /\ i < n + 1
  OBVIOUS
<1>3a. n + 1 \in 1 .. n + 1
  OBVIOUS
<1>4. CASE m = "down"
  <2>1. n + 1 \in DOMAIN r /\ n + 1 <= n + 1 /\ \A j \in DOMAIN r : ~(n + 1 < j)
    BY <1>2
  <2> QED
    BY <1>4, <2>1 DEF DownAfter
<1>5. CASE m = "up"
  <2>1. ~DownAfter(r, d, n + 1)
    <3>1. n + 1 \in DOMAIN r /\ r[n + 1] = "up" /\ n + 1 <= n + 1
      BY <1>3a, <1>2, <1>5
    <3>2. ASSUME NEW i \in DOMAIN r, r[i] = "down", \A j \in DOMAIN r : i < j /\ j <= n + 1 => r[j] # "up"
          PROVE  FALSE
      <4>1. i # n + 1 /\ i < n + 1
        BY <1>2, <3>1, <3>2
      <4> QED
        BY <3>1, <3>2, <4>1
    <3> QED
      BY <3>1, <3>2, Zenon DEF DownAfter
  <2> QED
    BY <1>1, <1>5, <2>1, Zenon
<1>6. CASE m # "up" /\ m # "down"
  <2>1. ASSUME DownAfter(q, d, n)
        PROVE  DownAfter(r, d, n + 1)
    <3>1. ASSUME NEW i \in DOMAIN q, q[i] = "down", \A j \in DOMAIN q : i < j /\ j <= n => q[j] # "up"
          PROVE  DownAfter(r, d, n + 1)
      <4>1. i \in DOMAIN r /\ i <= n + 1 /\ r[i] = "down"
        BY <1>2, <1>3, <3>1
      <4>2. \A j \in DOMAIN r : i < j /\ j <= n + 1 => r[j] # "up"
        BY <1>2, <1>6, <3>1
      <4> QED
        BY <4>1, <4>2, Zenon DEF DownAfter
    <3>2. ASSUME d, \A j \in DOMAIN q : j <= n => q[j] # "up"
          PROVE  DownAfter(r, d, n + 1)
      <4>1. \A j \in DOMAIN r : j <= n + 1 => r[j] # "up"
        BY <1>2, <1>6, <3>2
      <4> QED
        BY <3>2, <4>1, Zenon DEF DownAfter
    <3> QED
      BY <2>1, <3>1, <3>2, Zenon DEF DownAfter
  <2>2. ASSUME DownAfter(r, d, n + 1)
        PROVE  DownAfter(q, d, n)
    <3>1. ASSUME NEW i \in DOMAIN r, r[i] = "down",
                 \A j \in DOMAIN r : i < j /\ j <= n + 1 => r[j] # "up"
          PROVE  DownAfter(q, d, n)
      <4>1. i \in DOMAIN q /\ i <= n /\ q[i] = "down"
        BY <1>2, <1>6, <3>1
      <4>2. \A j \in DOMAIN q : i < j /\ j <= n => q[j] # "up"
        BY <1>2, <1>3, <3>1
      <4> QED
        BY <4>1, <4>2, Zenon DEF DownAfter
    <3>2. ASSUME d, \A j \in DOMAIN r : j <= n + 1 => r[j] # "up"
          PROVE  DownAfter(q, d, n)
      <4>1. \A j \in DOMAIN q : j <= n => q[j] # "up"
        BY <1>2, <1>3, <3>2
      <4> QED
        BY <3>2, <4>1, Zenon DEF DownAfter
    <3> QED
      BY <2>2, <3>1, <3>2, Zenon DEF DownAfter
  <2> QED
    BY <1>1, <1>6, <2>1, <2>2, Zenon
<1> QED
  BY <1>1, <1>4, <1>5, <1>6

LEMMA DownShorter ==
    ASSUME NEW q, NEW r, NEW n \in Nat, NEW d \in BOOLEAN, NEW e \in BOOLEAN,
           DOMAIN q = 1 .. n + 1, DOMAIN r = 1 .. n, \A i \in 1 .. n : r[i] = q[i + 1],
           e <=> q[1] = "down" \/ (q[1] # "up" /\ d)
    PROVE  \A k \in 0 .. n : DownAfter(r, e, k) <=> DownAfter(q, d, k + 1)
PROOF
<1> TAKE k \in 0 .. n
<1>1. \A i \in 1 .. n + 1 : i = 1 \/ (i - 1 \in 1 .. n /\ (i - 1) + 1 = i /\ 1 < i)
  OBVIOUS
<1>2. \A i \in 1 .. n : i + 1 \in 1 .. n + 1 /\ i + 1 # 1 /\ (i + 1) - 1 = i /\ 1 < i + 1
  OBVIOUS
<1>3. 1 \in 1 .. n + 1 /\ 1 <= k + 1
  OBVIOUS
<1>4. ASSUME DownAfter(r, e, k)
      PROVE  DownAfter(q, d, k + 1)
  <2>1. ASSUME NEW i \in 1 .. n, i <= k, r[i] = "down", \A j \in 1 .. n : i < j /\ j <= k => r[j] # "up"
        PROVE  DownAfter(q, d, k + 1)
    <3>1. i + 1 \in DOMAIN q /\ i + 1 <= k + 1 /\ q[i + 1] = "down"
      BY <1>2, <2>1
    <3>2. \A j \in DOMAIN q : i + 1 < j /\ j <= k + 1 => q[j] # "up"
      <4> TAKE j \in DOMAIN q
      <4> HAVE i + 1 < j /\ j <= k + 1
      <4>1. j - 1 \in 1 .. n /\ i < j - 1 /\ j - 1 <= k /\ (j - 1) + 1 = j
        OBVIOUS
      <4>2. r[j - 1] # "up" /\ r[j - 1] = q[(j - 1) + 1]
        BY <2>1, <4>1
      <4> QED
        BY <4>1, <4>2
    <3> QED
      BY <3>1, <3>2, Zenon DEF DownAfter
  <2>2. ASSUME e, \A j \in 1 .. n : j <= k => r[j] # "up"
        PROVE  DownAfter(q, d, k + 1)
    <3>1. \A j \in DOMAIN q : 1 < j /\ j <= k + 1 => q[j] # "up"
      <4> TAKE j \in DOMAIN q
      <4> HAVE 1 < j /\ j <= k + 1
      <4>1. j - 1 \in 1 .. n /\ j - 1 <= k /\ (j - 1) + 1 = j
        OBVIOUS
      <4>2. r[j - 1] # "up" /\ r[j - 1] = q[(j - 1) + 1]
        BY <2>2, <4>1
      <4> QED
        BY <4>1, <4>2
    <3>2. CASE q[1] = "down"
      BY <1>3, <3>1, <3>2, Zenon DEF DownAfter
    <3>3. CASE q[1] # "up" /\ d
      <4>1. \A j \in DOMAIN q : j <= k + 1 => q[j] # "up"
        BY <1>1, <3>1, <3>3
      <4> QED
        BY <3>3, <4>1, Zenon DEF DownAfter
    <3> QED
      BY <2>2, <3>2, <3>3
  <2> QED
    BY <1>4, <2>1, <2>2, Zenon DEF DownAfter
<1>5. ASSUME DownAfter(q, d, k + 1)
      PROVE  DownAfter(r, e, k)
  <2>0. ASSUME NEW a \in 1 .. n + 1, \A j \in DOMAIN q : a < j /\ j <= k + 1 => q[j] # "up"
        PROVE  \A j \in 1 .. n : a - 1 < j /\ j <= k => r[j] # "up"
    <3> TAKE j \in 1 .. n
    <3> HAVE a - 1 < j /\ j <= k
    <3>1. j + 1 \in 1 .. n + 1 /\ a < j + 1 /\ j + 1 <= k + 1
      OBVIOUS
    <3> QED
      BY <2>0, <3>1
  <2>1. ASSUME NEW i \in 1 .. n + 1, i <= k + 1, q[i] = "down",
               \A j \in DOMAIN q : i < j /\ j <= k + 1 => q[j] # "up"
        PROVE  DownAfter(r, e, k)
    <3>1. \A j \in 1 .. n : i - 1 < j /\ j <= k => r[j] # "up"
      BY <2>0, <2>1
    <3>2. CASE i = 1
      <4>1. e /\ \A j \in DOMAIN r : j <= k => r[j] # "up"
        BY <2>1, <3>1, <3>2
      <4> QED
        BY <4>1, Zenon DEF DownAfter
    <3>3. CASE i # 1
      <4>1. i - 1 \in 1 .. n /\ i - 1 <= k /\ r[i - 1] = "down"
        BY <1>1, <2>1, <3>3
      <4> QED
        BY <3>1, <4>1, Zenon DEF DownAfter
    <3> QED
      BY <3>2, <3>3
  <2>2. ASSUME d, \A j \in DOMAIN q : j <= k + 1 => q[j] # "up"
        PROVE  DownAfter(r, e, k)
    <3>1. e
      BY <1>3, <2>2
    <3>2. \A j \in DOMAIN r : j <= k => r[j] # "up"
      <4>1. \A j \in 1 .. n : 1 - 1 < j /\ j <= k => r[j] # "up"
        BY <1>3, <2>0, <2>2
      <4> QED
        BY <4>1
    <3> QED
      BY <3>1, <3>2, Zenon DEF DownAfter
  <2> QED
    BY <1>5, <2>1, <2>2, Zenon DEF DownAfter
<1> QED
  BY <1>4, <1>5

\* One more message behind the others.
LEMMA PushOne ==
    ASSUME NEW q \in Seq(InputMessages), NEW k \in BOOLEAN, NEW o \in BOOLEAN, NEW d \in BOOLEAN,
           NEW m \in {"down", "up", "text", "char"}, InputOK(q, k, o, d), q = <<>> => k,
           m = "text" => ~DownAfter(q, d, Len(q))
    PROVE  /\ Append(q, m) \in Seq(InputMessages) /\ Append(q, m) # <<>>
           /\ Len(Append(q, m)) = Len(q) + 1
           /\ InputOK(Append(q, m), k, o, d)
           /\ DownAfter(Append(q, m), d, Len(Append(q, m)))
                 <=> m = "down" \/ (m # "up" /\ DownAfter(q, d, Len(q)))
           /\ m # "down" => ((\A i \in DOMAIN q : q[i] # "down") =>
                                \A i \in DOMAIN Append(q, m) : Append(q, m)[i] # "down")
PROOF
<1> DEFINE n == Len(q) r == Append(q, m)
<1>1. /\ n \in Nat /\ DOMAIN q = 1 .. n
      /\ r \in Seq(InputMessages) /\ r # <<>> /\ Len(r) = n + 1
      /\ DOMAIN r = 1 .. n + 1 /\ r[n + 1] = m /\ \A i \in 1 .. n : r[i] = q[i]
  <2>1. m \in InputMessages
    BY DEF InputMessages
  <2> QED
    BY <2>1, AppendProperties, LenProperties
<1>2. q = <<>> <=> n = 0
  BY EmptySeq
<1> HIDE DEF n, r
<1>3. /\ \A j \in 0 .. n : DownAfter(r, d, j) <=> DownAfter(q, d, j)
      /\ DownAfter(r, d, n + 1) <=> m = "down" \/ (m # "up" /\ DownAfter(q, d, n))
  BY <1>1, DownLonger
<1>4. \A i \in 1 .. n + 1 : i = n + 1 \/ i \in 1 .. n
  BY <1>1
<1>5. InputOK(r, k, o, d)
  <2>1. ~k => r[1] = "kind"
    <3>1. ~k => n # 0 /\ q[1] = "kind"
      BY <1>2 DEF InputOK
    <3> QED
      BY <1>1, <3>1
  <2>2. \A i \in DOMAIN r : r[i] = "kind" => i = 1 /\ ~k
    BY <1>1, <1>4 DEF InputOK
  <2>3. ASSUME NEW i \in DOMAIN r, r[i] = "text"
        PROVE  ~DownAfter(r, d, i - 1)
    <3>1. i - 1 \in 0 .. n
      BY <1>1
    <3>2. CASE i \in 1 .. n
      <4>1. ~DownAfter(q, d, i - 1)
        BY <1>1, <2>3, <3>2 DEF InputOK
      <4> QED
        BY <1>3, <3>1, <4>1, Zenon
    <3>3. CASE i = n + 1
      <4>1. m = "text" /\ i - 1 = n
        BY <1>1, <2>3, <3>3
      <4>2. ~DownAfter(q, d, n)
        BY <4>1 DEF n
      <4> QED
        BY <1>3, <3>1, <4>1, <4>2, Zenon
    <3> QED
      BY <1>1, <1>4, <3>2, <3>3, Zenon
  <2>4. k => o
    BY DEF InputOK
  <2> QED
    BY <1>1, <2>1, <2>2, <2>3, <2>4, Zenon DEF InputOK
<1>6. m # "down" => ((\A i \in DOMAIN q : q[i] # "down") => \A i \in DOMAIN r : r[i] # "down")
  BY <1>1, <1>4
<1> QED
  BY <1>1, <1>3, <1>5, <1>6, Zenon DEF n, r

\* What a push adds to: the stream's kind, where nothing of it was.
PushBase == IF out = <<>> /\ ~opened THEN <<"kind">> ELSE out

LEMMA PushBaseIs ==
    ASSUME WebInput, Len(out) < OutBound
    PROVE  /\ PushBase \in Seq(InputMessages) /\ Len(PushBase) \in Nat /\ Len(PushBase) <= OutBound
           /\ InputOK(PushBase, remote.kind, opened, remote.down)
           /\ PushBase = <<>> => remote.kind
           /\ DownAfter(PushBase, remote.down, Len(PushBase))
                 <=> DownAfter(out, remote.down, Len(out))
           /\ (\A i \in DOMAIN out : out[i] # "down") => \A i \in DOMAIN PushBase : PushBase[i] # "down"
PROOF
<1>0. out \in Seq(InputMessages) /\ remote.kind \in BOOLEAN /\ remote.down \in BOOLEAN
      /\ opened \in BOOLEAN
  BY DEF WebInput, InputTypes
<1>1. CASE out = <<>> /\ ~opened
  <2> DEFINE q == <<"kind">>
  <2>1. q \in Seq(InputMessages) /\ Len(q) = 1 /\ DOMAIN q = 1 .. 1 /\ q[1] = "kind" /\ q # <<>>
    BY DEF InputMessages
  <2>2. ~remote.kind
    BY <1>0, <1>1 DEF WebInput, InputOK
  <2>3. Len(out) = 0 /\ \A i \in DOMAIN out : FALSE
    BY <1>1
  <2>4. 1 <= OutBound
    BY <2>3, WebAssumption
  <2> HIDE DEF q
  <2>5. \A i \in DOMAIN q : i = 1 /\ q[i] = "kind"
    BY <2>1
  <2>6. InputOK(q, remote.kind, opened, remote.down)
    BY <1>1, <2>1, <2>2, <2>5, Zenon DEF InputOK
  <2>7. DownAfter(q, remote.down, 1) <=> remote.down
    BY <2>5, Zenon DEF DownAfter
  <2>8. DownAfter(out, remote.down, 0) <=> remote.down
    BY <2>3, Zenon DEF DownAfter
  <2>9. PushBase = q
    BY <1>1 DEF PushBase, q
  <2>10. 1 \in Nat /\ \A i \in DOMAIN q : q[i] # "down"
    BY <2>5
  <2> QED
    BY <2>1, <2>3, <2>4, <2>6, <2>7, <2>8, <2>9, <2>10, Zenon
<1>2. CASE ~(out = <<>> /\ ~opened)
  <2>1. PushBase = out
    BY <1>2 DEF PushBase
  <2>2. Len(out) \in Nat /\ Len(out) <= OutBound
    <3> DEFINE n == Len(out)
    <3>1. n \in Nat /\ n < OutBound
      BY <1>0
    <3> HIDE DEF n
    <3>2. n <= OutBound
      BY <3>1, WebAssumption
    <3> QED
      BY <3>1, <3>2 DEF n
  <2>3. out = <<>> => remote.kind
    BY <1>2, <1>0 DEF WebInput, InputOK
  <2> QED
    BY <1>0, <2>1, <2>2, <2>3, Zenon DEF WebInput
<1> QED
  BY <1>1, <1>2

\* The agent reads the first message.
LEMMA ReadOne ==
    ASSUME WebInput, AgentReadsInput
    PROVE  /\ out' \in Seq(InputMessages) /\ Len(out') <= OutBound + 2
           /\ remote' \in [kind : BOOLEAN, down : BOOLEAN, sense : BOOLEAN] /\ remote'.kind
           /\ InputOK(out', TRUE, TRUE, remote'.down) /\ remote'.sense
           /\ DownAfter(out', remote'.down, Len(out')) <=> DownAfter(out, remote.down, Len(out))
           /\ ~remote.down /\ (\A i \in DOMAIN out : out[i] # "down") =>
                 ~remote'.down /\ \A i \in DOMAIN out' : out'[i] # "down"
PROOF
<1> DEFINE d == remote.down k == remote.kind e == remote'.down r == out' h == Head(out)
           n == Len(out')
<1>0. out \in Seq(InputMessages) /\ k \in BOOLEAN /\ d \in BOOLEAN /\ remote.sense
      /\ out # <<>> /\ r = Tail(out) /\ opened /\ Len(out) <= OutBound + 2
  BY DEF WebInput, InputTypes, KeysFollow, AgentReadsInput
<1>1. /\ n \in Nat /\ Len(out) = n + 1 /\ r \in Seq(InputMessages) /\ DOMAIN r = 1 .. n
      /\ DOMAIN out = 1 .. n + 1 /\ h = out[1] /\ \A i \in 1 .. n : r[i] = out[i + 1]
  BY <1>0, HeadTailProperties, LenProperties
<1>2. n <= OutBound + 2
  <2> HIDE DEF n
  <2>1. n \in Nat /\ n + 1 <= OutBound + 2
    BY <1>0, <1>1
  <2> QED
    BY <2>1, WebAssumption
<1>3. /\ remote'.kind = TRUE
      /\ e = (CASE h = "down" -> TRUE [] h = "up" -> FALSE [] OTHER -> d)
      /\ remote'.sense = (remote.sense /\ (k <=> h # "kind") /\ (h = "text" => ~d))
  BY DEF AgentReadsInput
<1>3a. /\ remote'.kind /\ e = (h = "down" \/ (h # "up" /\ d))
       /\ remote'.sense = (remote.sense /\ (k <=> h # "kind") /\ (h = "text" => ~d))
       /\ e \in BOOLEAN
  BY <1>0, <1>3
<1>4. remote' \in [kind : BOOLEAN, down : BOOLEAN, sense : BOOLEAN]
  <2>1. remote' = [kind |-> TRUE, down |-> e, sense |-> remote'.sense]
    BY DEF AgentReadsInput
  <2> QED
    BY <1>3a, <2>1
<1>5. 1 \in DOMAIN out /\ \A i \in 1 .. n : i + 1 \in DOMAIN out /\ i + 1 # 1 /\ (i + 1) - 1 = i /\ i - 1 \in 0 .. n
  BY <1>1
<1>6. remote'.sense
  <2>1. k <=> h # "kind"
    BY <1>0, <1>1, <1>5 DEF WebInput, InputOK
  <2>2. h = "text" => ~DownAfter(out, d, 0)
    BY <1>1, <1>5 DEF WebInput, InputOK
  <2>3. d => DownAfter(out, d, 0)
    <3>1. \A j \in DOMAIN out : ~(j <= 0)
      BY <1>1
    <3> QED
      BY <3>1, Zenon DEF DownAfter
  <2> QED
    BY <1>0, <1>3a, <2>1, <2>2, <2>3
<1>7. \A j \in 0 .. n : DownAfter(r, e, j) <=> DownAfter(out, d, j + 1)
  <2> HIDE DEF n, r, e, d, h
  <2>1. e <=> out[1] = "down" \/ (out[1] # "up" /\ d)
    BY <1>1, <1>3a
  <2>2. n \in Nat /\ d \in BOOLEAN /\ e \in BOOLEAN /\ DOMAIN out = 1 .. n + 1 /\ DOMAIN r = 1 .. n
        /\ \A i \in 1 .. n : r[i] = out[i + 1]
    BY <1>0, <1>1, <1>3a, Zenon
  <2> QED
    BY <2>1, <2>2, DownShorter, SMTT(30)
<1>8. InputOK(r, TRUE, TRUE, e)
  <2>1. \A i \in DOMAIN r : r[i] # "kind"
    BY <1>1, <1>5 DEF WebInput, InputOK
  <2>2. ASSUME NEW i \in DOMAIN r, r[i] = "text"
        PROVE  ~DownAfter(r, e, i - 1)
    <3>1. out[i + 1] = "text" /\ i + 1 \in DOMAIN out /\ (i + 1) - 1 = i /\ i - 1 \in 0 .. n
      BY <1>1, <1>5, <2>2
    <3>2. ~DownAfter(out, d, i)
      BY <3>1, Zenon DEF WebInput, InputOK
    <3>3. (i - 1) + 1 = i
      BY <1>1, <2>2
    <3> QED
      BY <1>7, <3>1, <3>2, <3>3
  <2> QED
    BY <2>1, <2>2, Zenon DEF InputOK
<1>9. DownAfter(r, e, n) <=> DownAfter(out, d, Len(out))
  <2>1. n \in 0 .. n
    BY <1>1
  <2> QED
    BY <1>1, <1>7, <2>1, Zenon
<1>10. ~d /\ (\A i \in DOMAIN out : out[i] # "down") => ~e /\ \A i \in DOMAIN r : r[i] # "down"
  BY <1>1, <1>3a, <1>5
<1> QED
  BY <1>1, <1>2, <1>3a, <1>4, <1>6, <1>8, <1>9, <1>10, Zenon

LEMMA WebInputStep == WebInv /\ [WebNext]_webVars => WebInput'
PROOF
<1> SUFFICES ASSUME WebTypes, WebInput, [WebNext]_webVars
             PROVE  WebInput'
  BY DEF WebInv
<1>0. /\ holds \in BOOLEAN /\ out \in Seq(InputMessages) /\ opened \in BOOLEAN
      /\ remote \in [kind : BOOLEAN, down : BOOLEAN, sense : BOOLEAN]
      /\ remote.kind \in BOOLEAN /\ remote.down \in BOOLEAN
      /\ InputOK(out, remote.kind, opened, remote.down)
      /\ remote.sense /\ (DownAfter(out, remote.down, Len(out)) => holds)
  BY DEF WebInput, InputTypes, KeysFollow
\* The stream is left alone, or dropped with its session.
<1>a. ASSUME UNCHANGED inputVars,
             page' # "session" \/ session'.conn # "up" => page # "session" \/ session.conn # "up"
      PROVE  WebInput'
  <2>1. /\ UNCHANGED <<holds, out, opened, remote>>
    BY <1>a DEF inputVars
  <2>2. InputTypes' /\ KeysFollow' /\ InputOK(out, remote.kind, opened, remote.down)'
    BY <2>1 DEF WebInput, InputTypes, KeysFollow, InputOK, DownAfter
  <2>3. page' # "session" \/ session'.conn # "up" =>
          ~remote'.down /\ \A i \in DOMAIN out' : out'[i] # "down"
    BY <1>a, <2>1, Zenon DEF WebInput
  <2> QED
    BY <2>2, <2>3, Zenon DEF WebInput
<1>b. ASSUME Drops
      PROVE  WebInput'
  <2>1. out' = <<>> /\ remote' = [kind |-> FALSE, down |-> FALSE, sense |-> TRUE]
        /\ holds' = FALSE /\ opened' = FALSE
    BY <1>b DEF Drops, Unread
  <2>2. InputTypes'
    <3>1. <<>> \in Seq(InputMessages) /\ Len(<<>>) = 0 /\ 0 <= OutBound + 2
      BY WebAssumption
    <3> QED
      BY <2>1, <3>1 DEF InputTypes
  <2>3. \A i \in DOMAIN out' : FALSE
    BY <2>1
  <2>4. ~DownAfter(out', remote'.down, Len(out'))
    BY <2>1, <2>3 DEF DownAfter
  <2> QED
    BY <2>1, <2>2, <2>3, <2>4 DEF WebInput, InputOK, KeysFollow
\* What an input of the person adds.
<1>c. ASSUME page = "session", UNCHANGED <<page, session, opened, remote>>, holds' \in BOOLEAN,
             out' \in Seq(InputMessages), Len(out') <= OutBound + 2,
             InputOK(out', remote.kind, opened, remote.down),
             DownAfter(out', remote.down, Len(out')) => holds',
             session.conn # "up" => ((\A i \in DOMAIN out : out[i] # "down") =>
                                       \A i \in DOMAIN out' : out'[i] # "down")
      PROVE  WebInput'
  <2>1. InputTypes'
    BY <1>0, <1>c DEF InputTypes
  <2>2. InputOK(out', remote'.kind, opened', remote'.down) /\ KeysFollow'
    BY <1>0, <1>c, Zenon DEF KeysFollow
  <2>3. page' # "session" \/ session'.conn # "up" =>
          ~remote'.down /\ \A i \in DOMAIN out' : out'[i] # "down"
    BY <1>c, Zenon DEF WebInput
  <2> QED
    BY <2>1, <2>2, <2>3, Zenon DEF WebInput
<1>1. CASE UNCHANGED webVars
  BY <1>1, <1>a DEF webVars, inputVars
<1>2. CASE GetsGrant \/ NoAccess \/ NotReached \/ Waited
  BY <1>2, <1>a DEF GetsGrant, NoAccess, NotReached, Waited, inputVars
<1>4. CASE Reaches
  BY <1>4, <1>a DEF Reaches, inputVars
<1>6. CASE Connected
  <2>1. session.conn = "connecting" /\ UNCHANGED inputVars
    BY <1>6 DEF Connected, inputVars
  <2> QED
    BY <1>a, <2>1
<1>7. CASE ControlMessage
  <2>1. CASE Drops
    BY <1>b, <2>1
  <2>2. CASE ~Drops
    <3>1. UNCHANGED inputVars /\ page' = page /\ page = "session" /\ session.conn = "up"
      BY <1>7, <2>2, ControlCases DEF Closed, inputVars
    <3>2. session'.conn = "up"
      BY <1>7, <2>2, <3>1, ControlCases DEF Closed, WebTypes, SessionState
    <3> QED
      BY <1>a, <3>1, <3>2
  <2> QED
    BY <2>1, <2>2
<1>8. CASE NeedsKeyframe \/ WebTick
  BY <1>8, <1>a DEF NeedsKeyframe, WebTick, inputVars
<1>9. CASE SessionLost \/ SessionEnded
  BY <1>9, <1>b DEF SessionLost, SessionEnded, Closed
<1>10. CASE LeavesPage
  BY <1>10, <1>b DEF LeavesPage
<1>11. CASE AgentReads
  BY <1>11, <1>a, <1>b, AgentCases DEF AgentGoesOn, Closed, inputVars
<1> DEFINE d == remote.down k == remote.kind q == PushBase
<1>d. ASSUME Len(out) < OutBound
      PROVE  /\ q \in Seq(InputMessages) /\ Len(q) \in Nat /\ Len(q) <= OutBound
             /\ InputOK(q, k, opened, d) /\ (q = <<>> => k)
             /\ DownAfter(q, d, Len(q)) <=> DownAfter(out, d, Len(out))
             /\ (\A i \in DOMAIN out : out[i] # "down") => \A i \in DOMAIN q : q[i] # "down"
  BY <1>d, PushBaseIs, Zenon
<1>e. \A l \in Nat : l <= OutBound => l + 1 <= OutBound + 2 /\ l + 1 + 1 <= OutBound + 2
  BY WebAssumption
<1>f. \A m \in InputMessages : Append(q, m) = q \o <<m>> \/ ~(Len(out) < OutBound)
  BY <1>d, AppendIsConcat
<1>12. ASSUME NEW b \in BOOLEAN, WebKey(b)
       PROVE  WebInput'
  <2>0. /\ page = "session" /\ Len(out) < OutBound /\ holds' = b
        /\ UNCHANGED <<page, session, opened, remote>>
        /\ out' = IF session.conn = "up" /\ (b \/ holds)
                  THEN Pushed(<<IF b THEN "down" ELSE "up">>) ELSE out
    BY <1>12 DEF WebKey
  <2>1. CASE session.conn = "up" /\ (b \/ holds)
    <3> DEFINE m == IF b THEN "down" ELSE "up"
    <3>1. m \in {"down", "up", "text", "char"} /\ m \in InputMessages /\ m # "text"
          /\ (m = "down" <=> b) /\ (m = "up" <=> ~b)
      BY DEF InputMessages
    <3> HIDE DEF m
    <3>2. Pushed(<<m>>) = q \o <<m>>
      <4>1. <<m>> # <<>>
        OBVIOUS
      <4> QED
        BY <4>1, Zenon DEF Pushed, PushBase
    <3>3. out' = Append(q, m)
      <4>1. out' = Pushed(<<m>>)
        BY <2>0, <2>1 DEF m
      <4> QED
        BY <1>f, <2>0, <3>1, <3>2, <4>1, Zenon
    <3> HIDE DEF q
    <3>3a. /\ q \in Seq(InputMessages) /\ InputOK(q, k, opened, d) /\ (q = <<>> => k)
      BY <1>d, <2>0
    <3>3b. /\ Append(q, m) \in Seq(InputMessages) /\ Len(Append(q, m)) = Len(q) + 1
           /\ InputOK(Append(q, m), k, opened, d)
           /\ DownAfter(Append(q, m), d, Len(Append(q, m))) => m = "down" \/ m # "up"
      BY <1>0, <3>1, <3>3a, PushOne
    <3>4. /\ out' \in Seq(InputMessages) /\ Len(out') = Len(q) + 1
          /\ InputOK(out', k, opened, d)
          /\ DownAfter(out', d, Len(out')) => m = "down" \/ m # "up"
      BY <3>3, <3>3b, Zenon
    <3>5. Len(out') <= OutBound + 2
      BY <1>d, <1>e, <2>0, <3>4, Zenon
    <3>6. DownAfter(out', d, Len(out')) => b
      BY <3>1, <3>4, Zenon
    <3> QED
      BY <1>c, <2>0, <2>1, <3>4, <3>5, <3>6, Zenon
  <2>2. CASE ~(session.conn = "up" /\ (b \/ holds))
    <3>1. out' = out
      BY <2>0, <2>2
    <3>2. ~DownAfter(out, d, Len(out)) \/ b
      <4>1. CASE session.conn # "up"
        <5>1. ~d /\ \A i \in DOMAIN out : out[i] # "down"
          BY <4>1 DEF WebInput
        <5> QED
          BY <5>1, Zenon DEF DownAfter
      <4>2. CASE ~b /\ ~holds
        BY <1>0, <4>2
      <4> QED
        BY <2>2, <4>1, <4>2
    <3>3. Len(out) <= OutBound + 2
      BY DEF WebInput, InputTypes
    <3>4. holds' \in BOOLEAN /\ (DownAfter(out', d, Len(out')) => holds')
      BY <2>0, <3>1, <3>2, Zenon
    <3>5. out' \in Seq(InputMessages) /\ Len(out') <= OutBound + 2 /\ InputOK(out', k, opened, d)
          /\ ((\A i \in DOMAIN out : out[i] # "down") => \A i \in DOMAIN out' : out'[i] # "down")
      BY <1>0, <3>1, <3>3, Zenon
    <3> QED
      BY <1>c, <2>0, <3>4, <3>5, Zenon
  <2> QED
    BY <2>1, <2>2
<1>13. ASSUME NEW b \in BOOLEAN, WebReleaseAll(b)
       PROVE  WebInput'
  <2> DEFINE t == IF b /\ session.conn = "up" THEN <<"text">> ELSE <<>>
  <2>0. /\ page = "session" /\ Len(out) < OutBound /\ holds' = FALSE
        /\ UNCHANGED <<page, session, opened, remote>>
        /\ out' = Pushed((IF holds THEN <<"up">> ELSE <<>>) \o t)
    BY <1>13 DEF WebReleaseAll, Releases
  <2> HIDE DEF q
  <2>1. /\ q \in Seq(InputMessages) /\ Len(q) \in Nat /\ Len(q) <= OutBound
        /\ InputOK(q, k, opened, d) /\ (q = <<>> => k)
        /\ DownAfter(q, d, Len(q)) => holds
        /\ (\A i \in DOMAIN out : out[i] # "down") => \A i \in DOMAIN q : q[i] # "down"
    BY <1>0, <1>d, <2>0, Zenon
  <2>2. "up" \in InputMessages /\ "text" \in InputMessages
        /\ "up" \in {"down", "up", "text", "char"} /\ "text" \in {"down", "up", "text", "char"}
    BY DEF InputMessages
  <2> DEFINE u == Append(q, "up")
  <2>3. /\ u \in Seq(InputMessages) /\ u # <<>> /\ Len(u) = Len(q) + 1
        /\ InputOK(u, k, opened, d) /\ ~DownAfter(u, d, Len(u))
        /\ (\A i \in DOMAIN q : q[i] # "down") => \A i \in DOMAIN u : u[i] # "down"
    BY <1>0, <2>1, <2>2, PushOne
  <2>4. /\ Append(u, "text") \in Seq(InputMessages) /\ Len(Append(u, "text")) = Len(q) + 1 + 1
        /\ InputOK(Append(u, "text"), k, opened, d)
        /\ ~DownAfter(Append(u, "text"), d, Len(Append(u, "text")))
    <3> HIDE DEF u
    <3> QED
      BY <1>0, <2>2, <2>3, PushOne
  <2>5. ASSUME ~holds
        PROVE  /\ Append(q, "text") \in Seq(InputMessages) /\ Len(Append(q, "text")) = Len(q) + 1
               /\ InputOK(Append(q, "text"), k, opened, d)
               /\ ~DownAfter(Append(q, "text"), d, Len(Append(q, "text")))
    BY <1>0, <2>1, <2>2, <2>5, PushOne
  <2>6. Len(q) + 1 <= OutBound + 2 /\ Len(q) + 1 + 1 <= OutBound + 2
    BY <1>e, <2>1, Zenon
  <2>7. CASE holds /\ ~(b /\ session.conn = "up")
    <3>1. out' = u
      <4>1. t = <<>> /\ <<"up">> \o <<>> = <<"up">> /\ <<"up">> # <<>>
        BY <2>7
      <4>2. out' = q \o <<"up">>
        BY <2>0, <2>7, <4>1, Zenon DEF Pushed, PushBase, q
      <4> QED
        BY <1>f, <2>0, <2>2, <4>2, Zenon DEF q
    <3> HIDE DEF u
    <3>2. Len(out') <= OutBound + 2 /\ out' \in Seq(InputMessages) /\ InputOK(out', k, opened, d)
          /\ (DownAfter(out', d, Len(out')) => holds')
      BY <2>0, <2>3, <2>6, <3>1, Zenon
    <3>3. (\A i \in DOMAIN out : out[i] # "down") => \A i \in DOMAIN out' : out'[i] # "down"
      BY <2>1, <2>3, <3>1, Zenon
    <3> QED
      BY <1>c, <2>0, <3>2, <3>3
  <2>8. CASE holds /\ b /\ session.conn = "up"
    <3>1. out' = Append(u, "text")
      <4>1. t = <<"text">> /\ <<"up">> \o <<"text">> = <<"up", "text">> /\ <<"up", "text">> # <<>>
        BY <2>8, PairIs
      <4>2. out' = q \o <<"up", "text">>
        BY <2>0, <2>8, <4>1, Zenon DEF Pushed, PushBase, q
      <4>3. (q \o <<"up">>) \o <<"text">> = q \o (<<"up">> \o <<"text">>)
        <5>1. <<"up">> \in Seq(InputMessages) /\ <<"text">> \in Seq(InputMessages)
          BY <2>2
        <5> QED
          BY <2>1, <5>1, ConcatAssociative
      <4>4. u = q \o <<"up">>
        BY <1>f, <2>0, <2>2, Zenon DEF q
      <4>5. Append(u, "text") = u \o <<"text">>
        <5> HIDE DEF u
        <5> QED
          BY <2>2, <2>3, AppendIsConcat, Zenon
      <4> QED
        BY <4>1, <4>2, <4>3, <4>4, <4>5, Zenon
    <3> QED
      BY <1>c, <2>0, <2>4, <2>6, <2>8, <3>1, Zenon
  <2>9. CASE ~holds /\ b /\ session.conn = "up"
    <3>1. out' = Append(q, "text")
      <4>1. t = <<"text">> /\ <<>> \o <<"text">> = <<"text">> /\ <<"text">> # <<>>
        BY <2>9
      <4>2. out' = q \o <<"text">>
        BY <2>0, <2>9, <4>1, Zenon DEF Pushed, PushBase, q
      <4> QED
        BY <1>f, <2>0, <2>2, <4>2, Zenon DEF q
    <3> QED
      BY <1>c, <2>0, <2>5, <2>6, <2>9, <3>1, Zenon
  <2>10. CASE ~holds /\ ~(b /\ session.conn = "up")
    <3>1. out' = out
      <4>1. t = <<>> /\ <<>> \o <<>> = <<>>
        BY <2>10
      <4> QED
        BY <2>0, <2>10, <4>1, Zenon DEF Pushed
    <3>2. Len(out) <= OutBound + 2 /\ ~DownAfter(out, d, Len(out))
      BY <1>0, <2>10 DEF WebInput, InputTypes
    <3> QED
      BY <1>0, <1>c, <2>0, <3>1, <3>2, Zenon
  <2> QED
    BY <1>0, <2>7, <2>8, <2>9, <2>10, Zenon
<1>16. CASE WebCharacter
  <2>0. /\ page = "session" /\ Len(out) < OutBound
        /\ UNCHANGED <<page, session, opened, remote, holds>>
        /\ out' = IF session.conn = "up" THEN Pushed(<<"char">>) ELSE out
    BY <1>16 DEF WebCharacter
  <2>1. CASE session.conn = "up"
    <3>1. "char" \in InputMessages /\ "char" \in {"down", "up", "text", "char"}
          /\ "char" # "text" /\ "char" # "down" /\ "char" # "up"
      BY DEF InputMessages
    <3>2. Pushed(<<"char">>) = q \o <<"char">>
      <4>1. <<"char">> # <<>>
        OBVIOUS
      <4> QED
        BY <4>1, Zenon DEF Pushed, PushBase
    <3>3. out' = Append(q, "char")
      BY <1>f, <2>0, <2>1, <3>1, <3>2, Zenon
    <3> HIDE DEF q
    <3>4. /\ q \in Seq(InputMessages) /\ InputOK(q, k, opened, d) /\ (q = <<>> => k)
          /\ DownAfter(q, d, Len(q)) => holds
      BY <1>0, <1>d, <2>0, Zenon
    <3>5. /\ Append(q, "char") \in Seq(InputMessages) /\ Len(Append(q, "char")) = Len(q) + 1
          /\ InputOK(Append(q, "char"), k, opened, d)
          /\ DownAfter(Append(q, "char"), d, Len(Append(q, "char"))) => holds
      BY <1>0, <3>1, <3>4, PushOne
    <3>6. Len(out') <= OutBound + 2
      BY <1>d, <1>e, <2>0, <3>3, <3>5, Zenon
    <3> QED
      BY <1>0, <1>c, <2>0, <2>1, <3>3, <3>5, <3>6, Zenon
  <2>2. CASE session.conn # "up"
    <3>1. UNCHANGED inputVars
      BY <2>0, <2>2 DEF inputVars
    <3> QED
      BY <1>a, <2>0, <3>1
  <2> QED
    BY <2>1, <2>2
<1>14. CASE StreamOpens
  <2>1. /\ page = "session" /\ session.conn = "up" /\ out # <<>> /\ opened' = TRUE
        /\ UNCHANGED <<page, session, holds, out, remote>>
    BY <1>14 DEF StreamOpens
  <2>2. InputOK(out, k, TRUE, d)
    BY <1>0, <2>1, Zenon DEF InputOK
  <2>3. InputTypes' /\ KeysFollow'
    BY <1>0, <2>1 DEF WebInput, InputTypes, KeysFollow, DownAfter
  <2> QED
    BY <2>1, <2>2, <2>3, Zenon DEF WebInput
<1>15. CASE AgentReadsInput
  <2>1. UNCHANGED <<page, session, holds, opened>> /\ opened /\ page = "session" /\ opened' = TRUE
    BY <1>0, <1>15 DEF AgentReadsInput
  <2>2. InputTypes'
    BY <1>0, <1>15, <2>1, ReadOne DEF InputTypes
  <2>3. KeysFollow'
    BY <1>0, <1>15, <2>1, ReadOne, Zenon DEF KeysFollow
  <2>4. InputOK(out', remote'.kind, opened', remote'.down)
    <3>1. remote'.kind = TRUE
      BY <1>15, ReadOne
    <3> QED
      BY <1>15, <2>1, <3>1, ReadOne, Zenon
  <2>5. page' # "session" \/ session'.conn # "up" =>
          ~remote'.down /\ \A i \in DOMAIN out' : out'[i] # "down"
    BY <1>15, <2>1, ReadOne, Zenon DEF WebInput
  <2> QED
    BY <2>2, <2>3, <2>4, <2>5, Zenon DEF WebInput
<1> QED
  BY <1>1, <1>2, <1>4, <1>6, <1>7, <1>8, <1>9, <1>10, <1>11, <1>12, <1>13, <1>14, <1>15, <1>16
  DEF WebNext

LEMMA WebStep == WebInv /\ [WebNext]_webVars => WebInv'
PROOF BY WebTypesStep, WebTalkStep, WebInputStep, Zenon DEF WebInv

LEMMA WebInvSafe == WebInv => WebTypeOK /\ GrantUnspent /\ KeysFollow
PROOF
<1> SUFFICES ASSUME WebInv
             PROVE  WebTypeOK /\ GrantUnspent /\ KeysFollow
  OBVIOUS
<1>1. Len(up) <= 2 /\ Len(down) <= 3
  BY TalkBounded DEF WebInv
<1>2. Len(out) <= OutBound + 2 /\ KeysFollow
  BY DEF WebInv, WebInput, InputTypes
<1>3. session.conn \in {"none", "connecting", "up"}
  BY DEF WebInv, WebTypes, SessionState
<1>4. GrantUnspent
  BY DEF WebInv, WebGrant, GrantUnspent
<1> QED
  BY <1>1, <1>2, <1>3, <1>4, Zenon DEF WebInv, WebTypes, WebTypeOK

\* The page never presents a grant twice, and what it lets go of is let go of at the
\* device, and no text of type_text meets a key held, though characters sent by
\* themselves may: for any number of grants, sessions lost and keys pressed.
THEOREM PageKeepsFaith == WebSpec => [](WebTypeOK /\ GrantUnspent /\ KeysFollow)
PROOF BY WebStart, WebStep, WebInvSafe, PTL DEF WebSpec

---------------------------------------------------------------------------
(* The presenter. *)

SlotNumbers == 0 .. (Slots - 1)
Frames == [value : Nat, slot : SlotNumbers, ring : RingNumbers, pic : Nat]
Works == [slot : SlotNumbers, ring : RingNumbers, pic : Nat, fresh : BOOLEAN]

PresTypes ==
    /\ arrived \in [pic : Nat, size : {1, 2}]
    /\ decoding \in [pic : Nat, next : Nat \ {0}, ring : RingNumbers, size : {1, 2},
                     asked : {0, 2}, slots : [SlotNumbers -> Nat]]
    /\ rings \in Seq({2})
    /\ posted \in Seq([type : {"Frame", "Grow"}, frame : Frames])
    /\ window \in [ring : RingNumbers, latest : Frames, shown : Frames]
    /\ writes \in Seq([frame : Frames, after : Nat])
    /\ draws \in Seq([wait : Nat, sample : Works, done : Nat])
    /\ fences \in [decode : Nat, render : Nat]
    /\ busy \in [write : Works, sample : Works]
    /\ slotPic \in [RingNumbers -> [SlotNumbers -> Nat]]

\* How far the ring has got: the window is asked for a bigger one at most once, and
\* makes it before the decode thread has it.
Asking ==
    /\ decoding.ring = 0 /\ window.ring = 0 /\ rings = <<>> /\ decoding.size = 1
    /\ (decoding.asked = 2) <=> \E i \in DOMAIN posted : posted[i].type = "Grow"
    /\ \A i, j \in DOMAIN posted : posted[i].type = "Grow" /\ posted[j].type = "Grow" => i = j
Made ==
    /\ decoding.ring = 0 /\ window.ring = 1 /\ rings = <<2>>
    /\ \A i \in DOMAIN posted : posted[i].type # "Grow"
FramesTaken ==
    /\ decoding.ring = 1 /\ window.ring = 1 /\ rings = <<>> /\ decoding.size = 2
    /\ \A i \in DOMAIN posted : posted[i].type # "Grow"
Grown == Asking \/ Made \/ FramesTaken

\* The decode queue was given every value up to the newest, in order, and none of
\* it has to wait.
Counted ==
    /\ decoding.next = fences.decode + Len(writes) + 1
    /\ decoding.next <= decoding.pic + 1 /\ decoding.pic <= arrived.pic /\ arrived.pic <= PicBound
    /\ fences.render < decoding.next
    /\ \A i \in DOMAIN writes :
          /\ writes[i].frame.value = fences.decode + i
          /\ fences.render >= writes[i].after

\* A frame that waits to be drawn is in its slot, or is being written there; no
\* later one is written there as well, and the decode thread knows of it.
KeptAt(f, next, ring, slots, decode, render, ws, pics) ==
    /\ render < f.value /\ f.value < next /\ f.slot = SlotOf(f.value)
    /\ f.ring <= ring
    /\ f.ring = ring => f.value <= slots[f.slot]
    /\ \A i \in DOMAIN ws :
          f.value < ws[i].frame.value => ws[i].frame.ring # f.ring \/ ws[i].frame.slot # f.slot
    /\ \/ f.value <= decode /\ pics[f.ring][f.slot] = f.pic
       \/ decode < f.value /\ \E i \in DOMAIN ws : ws[i].frame = f
FrameKept(f) == KeptAt(f, decoding.next, decoding.ring, decoding.slots, fences.decode, fences.render,
                  writes, slotPic)

Sampled(c) == [value |-> c.done, slot |-> c.sample.slot, ring |-> c.sample.ring, pic |-> c.sample.pic]

\* Everything on its way to the screen, oldest first: what the render queue was
\* given, the newest frame the window has, what was posted to it.
Drawing ==
    /\ \A i \in DOMAIN draws :
          /\ draws[i].done # 0 => fences.render < draws[i].done /\ draws[i].done < decoding.next
          /\ draws[i].sample.fresh => draws[i].wait = draws[i].done /\ FrameKept(Sampled(draws[i]))
    /\ \A i, j \in DOMAIN draws : i < j /\ draws[j].done # 0 => draws[i].done < draws[j].done
Waiting ==
    /\ window.latest # NoFrame =>
          /\ FrameKept(window.latest) /\ \A i \in DOMAIN draws : draws[i].done < window.latest.value
    /\ window.latest.value = 0 => window.latest = NoFrame
Posted ==
    /\ \A i \in DOMAIN posted : posted[i].type = "Frame" =>
          /\ FrameKept(posted[i].frame) /\ window.latest.value < posted[i].frame.value
          /\ \A j \in DOMAIN draws : draws[j].done < posted[i].frame.value
    /\ \A i, j \in DOMAIN posted :
          i < j /\ posted[i].type = "Frame" /\ posted[j].type = "Frame" =>
             posted[i].frame.value < posted[j].frame.value

\* What the two GPU queues work on is the first of what they were given.
Working ==
    /\ busy.write # NoWork =>
          /\ writes # <<>>
          /\ busy.write.ring = writes[1].frame.ring /\ busy.write.slot = writes[1].frame.slot
    /\ busy.sample # NoWork =>
          /\ draws # <<>> /\ busy.sample = draws[1].sample /\ draws[1].wait <= fences.decode

PresInv == PresTypes /\ Grown /\ Counted /\ Drawing /\ Waiting /\ Posted /\ Working

LEMMA SlotsAre == 0 \in SlotNumbers /\ \A n \in Nat \ {0} : SlotOf(n) \in SlotNumbers
PROOF
<1>1. \A n \in Nat : n % Slots \in 0 .. (Slots - 1)
  BY PresAssumption
<1>2. \A n \in Nat \ {0} : n - 1 \in Nat
  OBVIOUS
<1>3. 0 \in SlotNumbers
  BY PresAssumption DEF SlotNumbers
<1> QED
  BY <1>1, <1>2, <1>3, Zenon DEF SlotNumbers, SlotOf

LEMMA NothingYet == NoFrame \in Frames /\ NoWork \in Works
PROOF BY SlotsAre DEF NoFrame, NoWork, Frames, Works, RingNumbers

\* A frame stays kept when the decode thread moves to a bigger ring, ...
LEMMA KeptSwitch ==
    ASSUME NEW f \in Frames, NEW next \in Nat, NEW ring \in Nat, NEW slots, NEW decode \in Nat,
           NEW render \in Nat, NEW ws, NEW pics, NEW slots2, NEW ring2 \in Nat, ring < ring2,
           KeptAt(f, next, ring, slots, decode, render, ws, pics)
    PROVE  KeptAt(f, next, ring2, slots2, decode, render, ws, pics)
PROOF
<1>1. f.ring <= ring2 /\ f.ring # ring2
  BY DEF KeptAt, Frames, RingNumbers
<1> QED
  BY <1>1, Zenon DEF KeptAt

\* ... when it writes another, to a slot the renderer gave back or of a bigger ring, ...
LEMMA KeptShow ==
    ASSUME NEW f \in Frames, NEW next \in Nat, NEW ring \in Nat, NEW slots \in [SlotNumbers -> Nat],
           NEW decode \in Nat, NEW render \in Nat, NEW ws, NEW n \in Nat, DOMAIN ws = 1 .. n,
           NEW pics, NEW s \in SlotNumbers, slots[s] <= render,
           NEW ws2, DOMAIN ws2 = 1 .. n + 1, \A i \in 1 .. n : ws2[i] = ws[i],
           ws2[n + 1].frame.value = next, ws2[n + 1].frame.ring = ring, ws2[n + 1].frame.slot = s,
           KeptAt(f, next, ring, slots, decode, render, ws, pics)
    PROVE  KeptAt(f, next + 1, ring, [slots EXCEPT ![s] = next], decode, render, ws2, pics)
PROOF
<1>1. f.value \in Nat /\ f.slot \in SlotNumbers /\ f.value < next /\ f.value < next + 1
  BY DEF KeptAt, Frames
<1>2. f.ring = ring => f.slot # s
  BY <1>1 DEF KeptAt
<1>3. f.ring = ring => f.value <= [slots EXCEPT ![s] = next][f.slot]
  BY <1>1, <1>2 DEF KeptAt
<1>4. \A i \in 1 .. n + 1 : i \in 1 .. n \/ i = n + 1
  OBVIOUS
<1>5. \A i \in DOMAIN ws2 :
         f.value < ws2[i].frame.value => ws2[i].frame.ring # f.ring \/ ws2[i].frame.slot # f.slot
  BY <1>2, <1>4, Zenon DEF KeptAt
<1>6. \A i \in 1 .. n : i \in 1 .. n + 1
  OBVIOUS
<1>7. (\E i \in DOMAIN ws : ws[i].frame = f) => \E i \in DOMAIN ws2 : ws2[i].frame = f
  BY <1>6, Zenon
<1> QED
  BY <1>1, <1>3, <1>5, <1>7, Zenon DEF KeptAt

\* ... when the first of the writes is done, ...
LEMMA KeptWritten ==
    ASSUME NEW f \in Frames, NEW next \in Nat, NEW ring \in Nat, NEW slots, NEW decode \in Nat,
           NEW render \in Nat, NEW ws, NEW n \in Nat, DOMAIN ws = 1 .. n + 1,
           NEW pics \in [RingNumbers -> [SlotNumbers -> Nat]], NEW ws2, DOMAIN ws2 = 1 .. n,
           \A i \in 1 .. n : ws2[i] = ws[i + 1], ws[1].frame \in Frames,
           \A i \in 1 .. n + 1 : ws[i].frame.value = decode + i,
           KeptAt(f, next, ring, slots, decode, render, ws, pics)
    PROVE  KeptAt(f, next, ring, slots, decode + 1, render, ws2,
                  [pics EXCEPT ![ws[1].frame.ring] =
                       [pics[ws[1].frame.ring] EXCEPT ![ws[1].frame.slot] = ws[1].frame.pic]])
PROOF
<1> DEFINE g == ws[1].frame
           pics2 == [pics EXCEPT ![g.ring] = [pics[g.ring] EXCEPT ![g.slot] = g.pic]]
<1>1. 1 \in 1 .. n + 1 /\ g.value = decode + 1 /\ g.ring \in RingNumbers /\ g.slot \in SlotNumbers
  BY SMTT(30) DEF Frames
<1>2. f.value \in Nat /\ f.ring \in RingNumbers /\ f.slot \in SlotNumbers
  BY DEF Frames
<1>3. \A i \in 1 .. n : i + 1 \in 1 .. n + 1
  OBVIOUS
<1> HIDE DEF g
<1>4. /\ f.ring # g.ring \/ f.slot # g.slot => pics2[f.ring][f.slot] = pics[f.ring][f.slot]
      /\ f.ring = g.ring /\ f.slot = g.slot => pics2[f.ring][f.slot] = g.pic
  BY <1>1, <1>2
<1> HIDE DEF pics2
<1>5. \A i \in DOMAIN ws2 :
         f.value < ws2[i].frame.value => ws2[i].frame.ring # f.ring \/ ws2[i].frame.slot # f.slot
  BY <1>3, ZenonT(60) DEF KeptAt
<1>7. ASSUME NEW i \in 1 .. n + 1, ws[i].frame = f
      PROVE  \/ f.value <= decode + 1 /\ pics2[f.ring][f.slot] = f.pic
             \/ decode + 1 < f.value /\ \E j \in DOMAIN ws2 : ws2[j].frame = f
  <2>1. f.value = decode + i
    BY <1>7
  <2>2. CASE i = 1
    <3>1. g = f /\ f.value <= decode + 1
      BY <1>7, <2>1, <2>2 DEF g
    <3> QED
      BY <1>4, <3>1
  <2>3. CASE i # 1
    <3>1. i - 1 \in 1 .. n /\ (i - 1) + 1 = i /\ decode + 1 < f.value
      BY <2>1, <2>3
    <3>2. ws2[i - 1].frame = f
      BY <1>7, <3>1
    <3> QED
      BY <3>1, <3>2
  <2> QED
    BY <2>2, <2>3
<1>8. \/ f.value <= decode + 1 /\ pics2[f.ring][f.slot] = f.pic
      \/ decode + 1 < f.value /\ \E j \in DOMAIN ws2 : ws2[j].frame = f
  <2>1. CASE f.value <= decode /\ pics[f.ring][f.slot] = f.pic
    <3>1. f.value <= decode + 1 /\ f.value < g.value
      BY <1>1, <1>2, <2>1
    <3>2. f.ring # g.ring \/ f.slot # g.slot
      BY <1>1, <3>1, Zenon DEF KeptAt, g
    <3> QED
      BY <1>4, <2>1, <3>1, <3>2
  <2> QED
    BY <1>7, <2>1, Zenon DEF KeptAt
<1> QED
  BY <1>5, <1>8, Zenon DEF KeptAt, g, pics2

\* ... and when the renderer is done with an earlier one.
LEMMA KeptDrawn ==
    ASSUME NEW f, NEW next, NEW ring, NEW slots, NEW decode,
           NEW render, NEW ws, NEW pics, NEW render2, render2 < f.value,
           KeptAt(f, next, ring, slots, decode, render, ws, pics)
    PROVE  KeptAt(f, next, ring, slots, decode, render2, ws, pics)
PROOF BY Zenon DEF KeptAt

DecodeState == [pic : Nat, next : Nat \ {0}, ring : RingNumbers, size : {1, 2},
                asked : {0, 2}, slots : [SlotNumbers -> Nat]]
Writes == [frame : Frames, after : Nat]
Events == [type : {"Frame", "Grow"}, frame : Frames]
Commands == [wait : Nat, sample : Works, done : Nat]

LEMMA PresElements ==
    ASSUME PresTypes
    PROVE  /\ decoding \in DecodeState /\ fences.decode \in Nat /\ fences.render \in Nat
           /\ writes \in Seq(Writes) /\ posted \in Seq(Events) /\ draws \in Seq(Commands)
           /\ Len(writes) \in Nat /\ DOMAIN writes = 1 .. Len(writes)
           /\ DOMAIN posted = 1 .. Len(posted) /\ DOMAIN draws = 1 .. Len(draws)
           /\ \A i \in DOMAIN writes : writes[i] \in Writes
           /\ \A i \in DOMAIN posted : posted[i] \in Events
           /\ \A i \in DOMAIN draws : draws[i] \in Commands
           /\ window.latest \in Frames /\ window.latest.value \in Nat
PROOF
<1>1. writes \in Seq(Writes) /\ posted \in Seq(Events) /\ draws \in Seq(Commands)
  BY Zenon DEF PresTypes, Writes, Events, Commands
<1>2. /\ decoding \in DecodeState /\ fences.decode \in Nat /\ fences.render \in Nat
      /\ window.latest \in Frames /\ window.latest.value \in Nat
  BY DEF PresTypes, DecodeState, Frames
<1>3. /\ Len(writes) \in Nat /\ DOMAIN writes = 1 .. Len(writes)
      /\ DOMAIN posted = 1 .. Len(posted) /\ DOMAIN draws = 1 .. Len(draws)
  BY <1>1, LenProperties
<1>4. /\ \A i \in DOMAIN writes : writes[i] \in Writes
      /\ \A i \in DOMAIN posted : posted[i] \in Events
      /\ \A i \in DOMAIN draws : draws[i] \in Commands
  BY <1>1, <1>3, ElementOfSeq
<1> QED
  BY <1>1, <1>2, <1>3, <1>4, Zenon

LEMMA PresStart == PresInit => PresInv
PROOF
<1> SUFFICES ASSUME PresInit
             PROVE  PresInv
  OBVIOUS
<1>0. /\ rings = <<>> /\ posted = <<>> /\ writes = <<>> /\ draws = <<>>
      /\ \A i \in DOMAIN <<>> : FALSE /\ Len(<<>>) = 0
  BY DEF PresInit
<1>1. PresTypes
  <2>1. 0 \in RingNumbers /\ 1 \in RingNumbers
    BY DEF RingNumbers
  <2>2. [s \in SlotNumbers |-> 0] \in [SlotNumbers -> Nat]
    OBVIOUS
  <2>3. slotPic \in [RingNumbers -> [SlotNumbers -> Nat]]
    BY <2>2 DEF PresInit, SlotNumbers
  <2>4. /\ arrived \in [pic : Nat, size : {1, 2}]
        /\ window \in [ring : RingNumbers, latest : Frames, shown : Frames]
        /\ fences \in [decode : Nat, render : Nat] /\ busy \in [write : Works, sample : Works]
    BY <2>1, NothingYet DEF PresInit
  <2>5. decoding = [pic |-> 0, next |-> 1, ring |-> 0, size |-> 1, asked |-> 0,
                    slots |-> [s \in SlotNumbers |-> 0]]
    BY DEF PresInit, SlotNumbers
  <2>6. decoding \in DecodeState
    BY <2>1, <2>2, <2>5 DEF DecodeState
  <2>7. /\ rings \in Seq({2}) /\ posted \in Seq(Events)
        /\ writes \in Seq(Writes) /\ draws \in Seq(Commands)
    BY <1>0
  <2> QED
    BY <2>3, <2>4, <2>6, <2>7, Zenon DEF PresTypes, DecodeState, Events, Writes, Commands
<1>2. Grown
  BY <1>0 DEF PresInit, Grown, Asking
<1>3. Counted
  BY <1>0, PresAssumption DEF PresInit, Counted
<1>4. Drawing /\ Posted
  BY <1>0, Zenon DEF Drawing, Posted
<1>5. Waiting /\ Working
  BY DEF PresInit, Waiting, Working, NoFrame
<1> QED
  BY <1>1, <1>2, <1>3, <1>4, <1>5, Zenon DEF PresInv

\* The decode thread's side once it took a ring that came.
LEMMA SwitchedIs ==
    ASSUME PresInv
    PROVE  /\ Switched \in DecodeState /\ Switched.next = decoding.next /\ Switched.pic = decoding.pic
           /\ (IF rings = <<>> THEN rings ELSE Tail(rings)) = <<>>
           /\ \/ rings = <<>> /\ Switched = decoding
              \/ /\ Made /\ Switched.ring = 1 /\ Switched.size = 2 /\ Switched.asked = 0
                 /\ decoding.ring = 0
           /\ \A f \in Frames : FrameKept(f) =>
                 KeptAt(f, Switched.next, Switched.ring, Switched.slots, fences.decode,
                        fences.render, writes, slotPic)
PROOF
<1>0. decoding \in DecodeState /\ fences.decode \in Nat /\ fences.render \in Nat
  BY PresElements DEF PresInv
<1>1. CASE rings = <<>>
  <2>1. Switched = decoding
    BY <1>1 DEF Switched
  <2> QED
    BY <1>0, <1>1, <2>1, Zenon DEF FrameKept
<1>2. CASE rings # <<>>
  <2>1. Made /\ rings = <<2>> /\ decoding.ring = 0
    BY <1>2 DEF PresInv, Grown, Asking, Made, FramesTaken
  <2>2. Head(rings) = 2 /\ Tail(rings) = <<>>
    BY <2>1
  <2>3. Switched = [decoding EXCEPT !.ring = 1, !.size = 2, !.asked = 0,
                                    !.slots = [s \in SlotNumbers |-> 0]]
    BY <1>2, <2>1, <2>2 DEF Switched, SlotNumbers
  <2>4. [s \in SlotNumbers |-> 0] \in [SlotNumbers -> Nat]
    OBVIOUS
  <2>5. /\ Switched \in DecodeState /\ Switched.next = decoding.next /\ Switched.pic = decoding.pic
        /\ Switched.ring = 1 /\ Switched.size = 2 /\ Switched.asked = 0
    BY <1>0, <2>3, <2>4 DEF DecodeState, RingNumbers
  <2>6. \A f \in Frames : FrameKept(f) =>
           KeptAt(f, Switched.next, Switched.ring, Switched.slots, fences.decode,
                  fences.render, writes, slotPic)
    <3>1. decoding.next \in Nat /\ 0 < 1 /\ 0 \in Nat /\ 1 \in Nat
      BY <1>0 DEF DecodeState
    <3> QED
      BY <1>0, <2>1, <2>5, <3>1, KeptSwitch DEF FrameKept
  <2> QED
    BY <1>2, <2>1, <2>2, <2>5, <2>6, Zenon
<1> QED
  BY <1>1, <1>2

\* What is on its way stays so while it is not touched and every frame is still kept.
LEMMA OnTheWay ==
    ASSUME PresTypes, Drawing, Waiting, Posted, PresTypes',
           UNCHANGED <<draws, window>>, fences'.render = fences.render,
           decoding.next <= decoding'.next,
           \A f \in Frames : FrameKept(f) =>
              KeptAt(f, decoding'.next, decoding'.ring, decoding'.slots, fences'.decode,
                     fences'.render, writes', slotPic')
    PROVE  /\ Drawing' /\ Waiting'
           /\ posted' = posted => Posted'
PROOF
<1>0. /\ \A i \in DOMAIN draws : draws[i] \in Commands /\ Sampled(draws[i]) \in Frames
      /\ \A i \in DOMAIN posted : posted[i].frame \in Frames
      /\ window.latest \in Frames
      /\ decoding.next \in Nat /\ decoding'.next \in Nat
  BY PresElements DEF Commands, Sampled, Frames, Works, Events, PresTypes
<1>1. ASSUME NEW f \in Frames, FrameKept(f)
      PROVE  KeptAt(f, decoding.next, decoding.ring, decoding.slots, fences.decode,
                    fences.render, writes, slotPic)'
  BY <1>1, Zenon
<1>2. Drawing'
  <2>1. ASSUME NEW i \in DOMAIN draws
        PROVE  /\ draws[i].done # 0 => fences'.render < draws[i].done /\ draws[i].done < decoding'.next
               /\ draws[i].sample.fresh => draws[i].wait = draws[i].done /\ FrameKept(Sampled(draws[i]))'
    <3>1. draws[i].done # 0 => fences'.render < draws[i].done /\ draws[i].done < decoding'.next
      BY <1>0, <2>1 DEF Drawing, Commands
    <3>2. draws[i].sample.fresh => FrameKept(Sampled(draws[i]))'
      BY <1>0, <1>1, Zenon DEF Drawing, FrameKept, Sampled
    <3> QED
      BY <3>1, <3>2, Zenon DEF Drawing
  <2> QED
    BY <2>1, Zenon DEF Drawing
<1>3. Waiting'
  BY <1>0, <1>1, Zenon DEF Waiting, FrameKept
<1>4. posted' = posted => Posted'
  BY <1>0, <1>1, Zenon DEF Posted, FrameKept
<1> QED
  BY <1>2, <1>3, <1>4

\* A step that leaves alone all that PresInv speaks of but the pictures that arrive.
LEMMA ArrivesStep == PresInv /\ Arrives => PresInv'
PROOF
<1> SUFFICES ASSUME PresInv, Arrives
             PROVE  PresInv'
  OBVIOUS
<1>1. /\ UNCHANGED <<decoding, writes, rings, posted, window, draws, fences, busy, slotPic>>
      /\ arrived' \in [pic : Nat, size : {1, 2}] /\ arrived.pic <= arrived'.pic /\ arrived'.pic <= PicBound
  BY PresAssumption DEF Arrives, gpuVars, PresInv, PresTypes
<1>2. PresTypes'
  BY <1>1, Zenon DEF PresInv, PresTypes
<1>3. Grown'
  BY <1>1, Zenon DEF PresInv, Grown, Asking, Made, FramesTaken
<1>4. Counted'
  <2>1. decoding.pic <= arrived'.pic
    BY <1>1 DEF PresInv, PresTypes, Counted
  <2> QED
    BY <1>1, <2>1, Zenon DEF PresInv, Counted
<1>5. Drawing' /\ Waiting' /\ Posted' /\ Working'
  BY <1>1, Zenon DEF PresInv, Drawing, Waiting, Posted, Working, FrameKept, Sampled
<1> QED
  BY <1>2, <1>3, <1>4, <1>5, Zenon DEF PresInv

\* The decode thread decodes and shows nothing.
LEMMA DecodeHides ==
    ASSUME PresInv, Decode(Switched) \/ Decode([Switched EXCEPT !.asked = 2]),
           UNCHANGED <<writes, handed>>,
           \/ UNCHANGED posted
           \/ posted' = Append(posted, [type |-> "Grow", frame |-> NoFrame])
    PROVE  /\ PresTypes' /\ Counted' /\ Drawing' /\ Waiting' /\ Posted' /\ Working'
           /\ rings' = <<>> /\ decoding'.ring = Switched.ring /\ decoding'.size = Switched.size
           /\ UNCHANGED window
PROOF
<1> DEFINE side == Switched
<1>0. /\ side \in DecodeState /\ side.next = decoding.next /\ side.pic = decoding.pic
      /\ (IF rings = <<>> THEN rings ELSE Tail(rings)) = <<>>
      /\ \A f \in Frames : FrameKept(f) =>
            KeptAt(f, side.next, side.ring, side.slots, fences.decode, fences.render, writes, slotPic)
  BY SwitchedIs
<1>1. /\ UNCHANGED <<arrived, window, draws, fences, busy, slotPic>> /\ rings' = <<>>
      /\ decoding.pic < arrived.pic
      /\ \/ decoding' = [side EXCEPT !.pic = arrived.pic]
         \/ decoding' = [[side EXCEPT !.asked = 2] EXCEPT !.pic = arrived.pic]
  BY <1>0, Zenon DEF Decode, gpuVars
<1> HIDE DEF side
<1>2. arrived.pic \in Nat
  BY DEF PresInv, PresTypes
<1>3. /\ decoding' \in DecodeState /\ decoding'.next = side.next /\ decoding'.ring = side.ring
      /\ decoding'.slots = side.slots /\ decoding'.pic = arrived.pic /\ decoding'.size = side.size
  BY <1>0, <1>1, <1>2 DEF DecodeState
<1>4. posted \in Seq(Events) /\ [type |-> "Grow", frame |-> NoFrame] \in Events
  BY PresElements, NothingYet DEF PresInv, Events
<1>5. posted' \in Seq(Events)
  BY <1>4, AppendProperties
<1>6. PresTypes'
  <2>1. rings' \in Seq({2})
    BY <1>1
  <2> QED
    BY <1>1, <1>3, <1>5, <2>1, Zenon DEF PresInv, PresTypes, DecodeState, Events
<1>7. Counted'
  <2>1. decoding'.next <= decoding'.pic + 1 /\ decoding'.pic <= arrived'.pic /\ arrived'.pic <= PicBound
    BY <1>0, <1>1, <1>2, <1>3, PresAssumption, SMTT(30) DEF PresInv, PresTypes, Counted
  <2> QED
    BY <1>0, <1>1, <1>3, <2>1, Zenon DEF PresInv, Counted
<1>8. \A f \in Frames : FrameKept(f) =>
         KeptAt(f, decoding'.next, decoding'.ring, decoding'.slots, fences'.decode,
                fences'.render, writes', slotPic')
  BY <1>0, <1>1, <1>3, Zenon
<1>9. decoding.next <= decoding'.next
  BY <1>0, <1>3 DEF DecodeState
<1>10. Drawing' /\ Waiting' /\ (posted' = posted => Posted')
  BY <1>1, <1>6, <1>8, <1>9, OnTheWay, Zenon DEF PresInv
<1>11. Posted'
  <2>1. CASE posted' = Append(posted, [type |-> "Grow", frame |-> NoFrame])
    <3> DEFINE e == [type |-> "Grow", frame |-> NoFrame]
    <3>1. e \in Events /\ e.type # "Frame" /\ posted' = Append(posted, e)
      BY <1>4, <2>1
    <3> HIDE DEF e
    <3>2. PICK n \in Nat : /\ DOMAIN posted = 1 .. n /\ DOMAIN posted' = 1 .. n + 1
                           /\ posted'[n + 1] = e /\ \A i \in 1 .. n : posted'[i] = posted[i]
      BY <1>4, <3>1, AppendIs, SMTT(60)
    <3>3. \A i \in DOMAIN posted' : posted'[i].type = "Frame" => i \in DOMAIN posted /\ posted'[i] = posted[i]
      BY <3>1, <3>2
    <3>4. \A i \in DOMAIN posted : posted[i].frame \in Frames
      BY PresElements DEF PresInv, Events
    <3>5. \A i \in DOMAIN posted : posted[i].type = "Frame" =>
            KeptAt(posted[i].frame, decoding'.next, decoding'.ring, decoding'.slots, fences'.decode,
                   fences'.render, writes', slotPic')
      BY <1>8, <3>4, Zenon DEF PresInv, Posted
    <3>6. \A i \in DOMAIN posted' : posted'[i].type = "Frame" =>
            /\ KeptAt(posted'[i].frame, decoding'.next, decoding'.ring, decoding'.slots, fences'.decode,
                      fences'.render, writes', slotPic')
            /\ window.latest.value < posted'[i].frame.value
            /\ \A j \in DOMAIN draws : draws[j].done < posted'[i].frame.value
      BY <3>3, <3>5, Zenon DEF PresInv, Posted
    <3>7. \A i, j \in DOMAIN posted' :
            i < j /\ posted'[i].type = "Frame" /\ posted'[j].type = "Frame" =>
               posted'[i].frame.value < posted'[j].frame.value
      BY <3>3, Zenon DEF PresInv, Posted
    <3> QED
      BY <1>1, <3>6, <3>7, Zenon DEF Posted, FrameKept
  <2> QED
    BY <1>10, <2>1
<1>12. Working'
  BY <1>1, Zenon DEF PresInv, Working
<1> QED
  BY <1>1, <1>3, <1>6, <1>7, <1>10, <1>11, <1>12, Zenon DEF side

LEMMA DecodeSkipsStep == PresInv /\ DecodeSkips => PresInv'
PROOF
<1> SUFFICES ASSUME PresInv, DecodeSkips
             PROVE  PresInv'
  OBVIOUS
<1>0. Decode(Switched) /\ UNCHANGED <<posted, writes, handed>>
  BY Zenon DEF DecodeSkips
<1>1. /\ PresTypes' /\ Counted' /\ Drawing' /\ Waiting' /\ Posted' /\ Working'
      /\ rings' = <<>> /\ decoding'.ring = Switched.ring /\ decoding'.size = Switched.size
      /\ UNCHANGED window
  BY <1>0, DecodeHides, Zenon
<1>2. Switched \in DecodeState /\ decoding'.asked = Switched.asked
  BY <1>0, SwitchedIs DEF Decode, DecodeState
<1>3. Grown'
  <2>1. CASE rings = <<>> /\ Switched = decoding
    <3>1. decoding'.ring = decoding.ring /\ decoding'.size = decoding.size /\ decoding'.asked = decoding.asked
      BY <1>1, <1>2, <2>1
    <3>2. Asking \/ FramesTaken
      BY <2>1 DEF PresInv, Grown, Made
    <3> QED
      BY <1>0, <1>1, <3>1, <3>2, Zenon DEF Grown, Asking, FramesTaken
  <2>2. CASE Made /\ Switched.ring = 1 /\ Switched.size = 2
    <3>1. decoding'.ring = 1 /\ decoding'.size = 2 /\ window'.ring = 1 /\ rings' = <<>>
      BY <1>1, <2>2 DEF Made
    <3> QED
      BY <1>0, <2>2, <3>1, Zenon DEF Grown, Made, FramesTaken
  <2> QED
    BY <2>1, <2>2, SwitchedIs
<1> QED
  BY <1>1, <1>3, Zenon DEF PresInv

LEMMA DecodeGrowStep == PresInv /\ DecodeGrow => PresInv'
PROOF
<1> SUFFICES ASSUME PresInv, DecodeGrow
             PROVE  PresInv'
  OBVIOUS
<1>a. /\ arrived.size > Switched.size /\ Decode([Switched EXCEPT !.asked = arrived.size])
      /\ posted' = IF Switched.asked = arrived.size THEN posted
                   ELSE Append(posted, [type |-> "Grow", frame |-> NoFrame])
      /\ UNCHANGED <<writes, handed>>
  BY Zenon DEF DecodeGrow
<1>b. arrived.size = 2 /\ Switched.size = 1 /\ Switched \in DecodeState
  BY <1>a, SwitchedIs DEF DecodeState, PresInv, PresTypes
<1>c. rings = <<>> /\ Switched = decoding
  BY <1>b, SwitchedIs
<1>0. /\ Decode([Switched EXCEPT !.asked = 2])
      /\ posted' = IF decoding.asked = 2 THEN posted
                   ELSE Append(posted, [type |-> "Grow", frame |-> NoFrame])
  BY <1>a, <1>b, <1>c
<1>1. /\ PresTypes' /\ Counted' /\ Drawing' /\ Waiting' /\ Posted' /\ Working'
      /\ rings' = <<>> /\ decoding'.ring = Switched.ring /\ decoding'.size = Switched.size
      /\ UNCHANGED window
  BY <1>0, <1>a, DecodeHides, Zenon
<1>2. Asking
  BY <1>b, <1>c DEF PresInv, Grown, Made, FramesTaken
<1>3. decoding'.asked = 2 /\ decoding'.ring = 0 /\ decoding'.size = 1 /\ window'.ring = 0 /\ rings' = <<>>
  <2>1. decoding' = [[decoding EXCEPT !.asked = 2] EXCEPT !.pic = arrived.pic]
    BY <1>0, <1>c DEF Decode
  <2>2. decoding'.asked = 2
    BY <1>b, <1>c, <2>1 DEF DecodeState
  <2> QED
    BY <1>1, <1>2, <1>c, <2>2 DEF Asking
<1>4. Grown'
  <2>1. CASE decoding.asked = 2
    BY <1>0, <1>2, <1>3, <2>1, Zenon DEF Grown, Asking
  <2>2. CASE decoding.asked # 2
    <3> DEFINE e == [type |-> "Grow", frame |-> NoFrame]
    <3>1. e \in Events /\ e.type = "Grow" /\ posted' = Append(posted, e)
      BY <1>0, <2>2, NothingYet DEF Events
    <3>0. posted \in Seq(Events)
      BY PresElements DEF PresInv
    <3> HIDE DEF e
    <3>2. PICK n \in Nat : /\ DOMAIN posted = 1 .. n /\ DOMAIN posted' = 1 .. n + 1
                           /\ posted'[n + 1] = e /\ \A i \in 1 .. n : posted'[i] = posted[i]
      BY <3>0, <3>1, AppendIs, SMTT(60)
    <3>3. \A i \in DOMAIN posted : posted[i].type # "Grow"
      BY <1>2, <2>2 DEF Asking
    <3>4. \A i \in 1 .. n + 1 : i = n + 1 \/ i \in 1 .. n
      OBVIOUS
    <3>5. \A i \in DOMAIN posted' : posted'[i].type = "Grow" => i = n + 1
      BY <3>2, <3>3, <3>4, Zenon
    <3>6. n + 1 \in DOMAIN posted' /\ posted'[n + 1].type = "Grow"
      BY <3>1, <3>2
    <3> QED
      BY <1>3, <3>5, <3>6, Zenon DEF Grown, Asking
  <2> QED
    BY <2>1, <2>2
<1> QED
  BY <1>1, <1>4, Zenon DEF PresInv

LEMMA DecodeShowsStep == PresInv /\ DecodeShows => PresInv'
PROOF
<1> SUFFICES ASSUME PresInv, DecodeShows
             PROVE  PresInv'
  OBVIOUS
<1> DEFINE side == Switched
           s == SlotOf(side.next)
           f == [value |-> side.next, slot |-> s, ring |-> side.ring, pic |-> arrived.pic]
           w == [frame |-> f, after |-> side.slots[s]]
           e == [type |-> "Frame", frame |-> f]
<1>0. /\ side \in DecodeState /\ side.next = decoding.next /\ side.pic = decoding.pic
      /\ (IF rings = <<>> THEN rings ELSE Tail(rings)) = <<>>
      /\ \A g \in Frames : FrameKept(g) =>
            KeptAt(g, side.next, side.ring, side.slots, fences.decode, fences.render, writes, slotPic)
  BY SwitchedIs
<1>1. /\ UNCHANGED <<arrived, window, draws, fences, busy, slotPic>> /\ rings' = <<>>
      /\ decoding.pic < arrived.pic /\ ~(fences.render < side.slots[s])
      /\ decoding' = [[side EXCEPT !.next = @ + 1, !.slots = [@ EXCEPT ![s] = side.next]]
                         EXCEPT !.pic = arrived.pic]
      /\ writes' = Append(writes, w) /\ posted' = Append(posted, e)
  BY <1>0, Zenon DEF DecodeShows, Decode, gpuVars, SlotHeld
<1>2. arrived.pic \in Nat /\ fences.render \in Nat /\ fences.decode \in Nat
  BY PresElements DEF PresInv, PresTypes
<1>2a. writes \in Seq(Writes) /\ posted \in Seq(Events)
      /\ slotPic \in [RingNumbers -> [SlotNumbers -> Nat]]
  BY PresElements DEF PresInv, PresTypes
<1> HIDE DEF side
<1>3. /\ side.next \in Nat \ {0} /\ s \in SlotNumbers /\ side.slots[s] \in Nat
      /\ side.ring \in RingNumbers /\ side.slots \in [SlotNumbers -> Nat]
  <2>1. side.next \in Nat \ {0} /\ side.ring \in RingNumbers /\ side.slots \in [SlotNumbers -> Nat]
    BY <1>0 DEF DecodeState
  <2>2. s \in SlotNumbers
    BY <2>1, SlotsAre
  <2> HIDE DEF s
  <2> QED
    BY <2>1, <2>2
<1>4. side.slots[s] <= fences.render
  <2> HIDE DEF s
  <2> QED
    BY <1>1, <1>2, <1>3
<1>5. f \in Frames /\ w \in Writes /\ e \in Events /\ w.frame = f /\ e.frame = f /\ e.type = "Frame"
      /\ w.after = side.slots[s] /\ f.value = side.next /\ f.slot = s /\ f.ring = side.ring
      /\ f.pic = arrived.pic /\ f.slot = SlotOf(f.value)
  <2>1. f \in Frames /\ f.value = side.next /\ f.slot = s /\ f.ring = side.ring /\ f.pic = arrived.pic
        /\ f.slot = SlotOf(f.value)
    <3> HIDE DEF s
    <3> QED
      BY <1>2, <1>3 DEF Frames, s
  <2>2. w \in Writes /\ w.frame = f /\ w.after = side.slots[s] /\ e \in Events /\ e.frame = f /\ e.type = "Frame"
    <3> HIDE DEF s, f
    <3> QED
      BY <1>3, <2>1 DEF Writes, Events
  <2> QED
    BY <2>1, <2>2, Zenon
<1> HIDE DEF w, e, f
<1>6. /\ decoding' \in DecodeState /\ decoding'.next = side.next + 1 /\ decoding'.ring = side.ring
      /\ decoding'.slots = [side.slots EXCEPT ![s] = side.next] /\ decoding'.pic = arrived.pic
      /\ decoding'.size = side.size /\ decoding'.asked = side.asked
  <2> HIDE DEF s
  <2>1. [side.slots EXCEPT ![s] = side.next] \in [SlotNumbers -> Nat] /\ side.next + 1 \in Nat \ {0}
    BY <1>3
  <2> QED
    BY <1>0, <1>1, <1>2, <2>1 DEF DecodeState
<1> HIDE DEF s
<1>7. PICK n \in Nat : /\ Len(writes) = n /\ DOMAIN writes = 1 .. n
                       /\ writes' \in Seq(Writes) /\ Len(writes') = n + 1
                       /\ DOMAIN writes' = 1 .. n + 1 /\ writes'[n + 1] = w
                       /\ \A i \in 1 .. n : writes'[i] = writes[i]
  BY <1>1, <1>2a, <1>5, AppendIs, SMTT(60)
<1>7a. e \in Events /\ posted' = Append(posted, e)
  BY <1>1, <1>5
<1>8. PICK m \in Nat : /\ Len(posted) = m /\ DOMAIN posted = 1 .. m
                       /\ posted' \in Seq(Events) /\ Len(posted') = m + 1
                       /\ DOMAIN posted' = 1 .. m + 1 /\ posted'[m + 1] = e
                       /\ \A i \in 1 .. m : posted'[i] = posted[i]
  BY <1>2a, <1>7a, AppendIs, SMTT(60)
<1>9. PresTypes'
  <2>1. rings' \in Seq({2})
    BY <1>1
  <2> QED
    BY <1>1, <1>6, <1>7, <1>8, <2>1, Zenon DEF PresInv, PresTypes, DecodeState, Events, Writes
<1>10. side.next = fences.decode + n + 1 /\ fences.render < side.next
  BY <1>0, <1>7, Zenon DEF PresInv, Counted
<1>11. Counted'
  <2>1. /\ decoding'.next = fences'.decode + (n + 1) + 1
        /\ decoding'.next <= decoding'.pic + 1 /\ decoding'.pic <= arrived'.pic /\ arrived'.pic <= PicBound
        /\ fences'.render < decoding'.next
    <3>1. /\ side.next <= decoding.pic + 1 /\ decoding.pic \in Nat /\ arrived.pic <= PicBound
          /\ decoding.pic < arrived.pic /\ arrived' = arrived /\ fences' = fences
      BY <1>0, <1>1 DEF PresInv, PresTypes, Counted
    <3>2. /\ side.next + 1 = fences.decode + (n + 1) + 1 /\ side.next + 1 <= arrived.pic + 1
          /\ fences.render < side.next + 1 /\ arrived.pic <= arrived.pic
      BY <1>2, <1>3, <1>10, <3>1
    <3> QED
      BY <1>6, <3>1, <3>2
  <2>2. ASSUME NEW i \in DOMAIN writes'
        PROVE  writes'[i].frame.value = fences.decode + i /\ fences.render >= writes'[i].after
    <3>1. CASE i \in 1 .. n
      <4>1. writes'[i] = writes[i] /\ i \in DOMAIN writes
        BY <1>7, <3>1
      <4> QED
        BY <4>1, Zenon DEF PresInv, Counted
    <3>2. CASE i = n + 1
      <4>1. writes'[i].frame.value = side.next /\ writes'[i].after = side.slots[s]
        BY <1>5, <1>7, <3>2, Zenon
      <4>2. side.next = fences.decode + (n + 1)
        BY <1>2, <1>10
      <4>3. fences.render >= side.slots[s]
        BY <1>2, <1>3, <1>4
      <4> QED
        BY <3>2, <4>1, <4>2, <4>3, Zenon
    <3>3. i \in 1 .. n \/ i = n + 1
      BY <1>7
    <3> QED
      BY <3>1, <3>2, <3>3
  <2> QED
    BY <1>1, <1>7, <2>1, <2>2, Zenon DEF Counted
<1>12. \A g \in Frames : FrameKept(g) =>
          KeptAt(g, decoding'.next, decoding'.ring, decoding'.slots, fences'.decode,
                 fences'.render, writes', slotPic')
  <2> SUFFICES ASSUME NEW g \in Frames, FrameKept(g)
               PROVE  KeptAt(g, side.next + 1, side.ring, [side.slots EXCEPT ![s] = side.next],
                             fences.decode, fences.render, writes', slotPic)
    BY <1>1, <1>6, Zenon
  <2>1. KeptAt(g, side.next, side.ring, side.slots, fences.decode, fences.render, writes, slotPic)
    BY <1>0
  <2>2. side.ring \in Nat /\ side.next \in Nat
    BY <1>3 DEF RingNumbers
  <2>3. /\ writes'[n + 1].frame.value = side.next /\ writes'[n + 1].frame.ring = side.ring
        /\ writes'[n + 1].frame.slot = s
    BY <1>5, <1>7, Zenon
  <2> QED
    <3>1. /\ DOMAIN writes = 1 .. n /\ DOMAIN writes' = 1 .. n + 1
          /\ \A i \in 1 .. n : writes'[i] = writes[i]
      BY <1>7
    <3>2. /\ fences.decode \in Nat /\ fences.render \in Nat /\ n \in Nat /\ g \in Frames
          /\ s \in SlotNumbers /\ side.slots \in [SlotNumbers -> Nat] /\ side.slots[s] <= fences.render
      BY <1>2, <1>3, <1>4
    <3> QED
      BY <2>1, <2>2, <2>3, <3>1, <3>2, KeptShow, ZenonT(90)
<1>13. KeptAt(f, decoding'.next, decoding'.ring, decoding'.slots, fences'.decode,
              fences'.render, writes', slotPic')
  <2>1. fences.render < f.value /\ f.value < side.next + 1 /\ f.slot = SlotOf(f.value)
        /\ f.ring <= side.ring /\ f.value <= [side.slots EXCEPT ![s] = side.next][f.slot]
    BY <1>2, <1>3, <1>5, <1>10 DEF RingNumbers
  <2>2. ASSUME NEW i \in DOMAIN writes'
        PROVE  ~(f.value < writes'[i].frame.value)
    <3>1. writes'[i].frame.value = fences.decode + i /\ i \in 1 .. n + 1
      BY <1>1, <1>7, <1>11, Zenon DEF Counted
    <3> QED
      BY <1>2, <1>5, <1>10, <3>1
  <2>3. fences.decode < f.value
    BY <1>2, <1>5, <1>10
  <2>4. \E i \in DOMAIN writes' : writes'[i].frame = f
    <3>1. n + 1 \in 1 .. n + 1
      OBVIOUS
    <3> QED
      BY <1>5, <1>7, <3>1, Zenon
  <2> QED
    BY <1>1, <1>6, <2>1, <2>2, <2>3, <2>4, Zenon DEF KeptAt
<1>14. decoding.next <= decoding'.next
  BY <1>0, <1>3, <1>6
<1>15. Drawing' /\ Waiting'
  BY <1>1, <1>9, <1>12, <1>14, OnTheWay, Zenon DEF PresInv
<1>16. /\ window.latest.value < f.value /\ \A j \in DOMAIN draws : draws[j].done < f.value
       /\ \A i \in DOMAIN posted : posted[i].type = "Frame" => posted[i].frame.value < f.value
  <2>1. window.latest.value < f.value
    <3>1. CASE window.latest = NoFrame
      BY <1>3, <1>5, <3>1 DEF NoFrame
    <3>2. CASE window.latest # NoFrame
      BY <1>0, <1>5, <3>2 DEF PresInv, Waiting, FrameKept, KeptAt
    <3> QED
      BY <3>1, <3>2
  <2>2. ASSUME NEW j \in DOMAIN draws
        PROVE  draws[j].done < f.value
    <3>1. CASE draws[j].done = 0
      BY <1>3, <1>5, <3>1
    <3>2. CASE draws[j].done # 0
      BY <1>0, <1>5, <3>2 DEF PresInv, Drawing
    <3> QED
      BY <3>1, <3>2
  <2>3. ASSUME NEW i \in DOMAIN posted, posted[i].type = "Frame"
        PROVE  posted[i].frame.value < f.value
    BY <1>0, <1>5, <2>3, Zenon DEF PresInv, Posted, FrameKept, KeptAt
  <2> QED
    BY <2>1, <2>2, <2>3
<1>17. Posted'
  <2>0. \A i \in 1 .. m + 1 : i = m + 1 \/ (i \in 1 .. m /\ ~(m + 1 < i))
    OBVIOUS
  <2>1. \A i \in DOMAIN posted : posted[i].frame \in Frames
    BY PresElements DEF PresInv, Events
  <2>2. \A i \in DOMAIN posted : posted[i].type = "Frame" =>
          KeptAt(posted[i].frame, decoding'.next, decoding'.ring, decoding'.slots, fences'.decode,
                 fences'.render, writes', slotPic')
    BY <1>12, <2>1, Zenon DEF PresInv, Posted
  <2>3. \A i \in DOMAIN posted' : posted'[i].type = "Frame" =>
          /\ KeptAt(posted'[i].frame, decoding'.next, decoding'.ring, decoding'.slots, fences'.decode,
                    fences'.render, writes', slotPic')
          /\ window.latest.value < posted'[i].frame.value
          /\ \A j \in DOMAIN draws : draws[j].done < posted'[i].frame.value
    <3> TAKE i \in DOMAIN posted'
    <3>1. CASE i = m + 1
      BY <1>5, <1>8, <1>13, <1>16, <3>1, Zenon
    <3>2. CASE i \in 1 .. m
      BY <1>8, <2>2, <3>2, Zenon DEF PresInv, Posted
    <3> QED
      BY <1>8, <2>0, <3>1, <3>2, Zenon
  <2>4. ASSUME NEW i \in DOMAIN posted', NEW j \in DOMAIN posted', i < j,
               posted'[i].type = "Frame", posted'[j].type = "Frame"
        PROVE  posted'[i].frame.value < posted'[j].frame.value
    <3>0. i \in 1 .. m
      BY <1>8, <2>4
    <3>1. CASE j = m + 1
      BY <1>5, <1>8, <1>16, <2>4, <3>0, <3>1, Zenon
    <3>2. CASE j \in 1 .. m
      BY <1>8, <2>4, <3>0, <3>2, Zenon DEF PresInv, Posted
    <3> QED
      BY <1>8, <2>0, <3>1, <3>2, Zenon
  <2> QED
    BY <1>1, <2>3, <2>4, Zenon DEF Posted, FrameKept
<1>18. Working'
  <2>1. busy.write # NoWork => n # 0 /\ 1 \in 1 .. n /\ writes' # <<>>
    <3>1. busy.write # NoWork => writes # <<>>
      BY DEF PresInv, Working
    <3>2. writes # <<>> => n # 0
      BY <1>2a, <1>7, EmptySeq
    <3>3. writes' # <<>>
      BY <1>7
    <3> QED
      BY <3>1, <3>2, <3>3
  <2>2. busy.write # NoWork => writes'[1] = writes[1] /\ writes' # <<>>
    BY <1>7, <2>1, Zenon
  <2> QED
    BY <1>1, <2>2, Zenon DEF PresInv, Working
<1>19. Grown'
  <2>0. \A i \in 1 .. m + 1 : i = m + 1 \/ i \in 1 .. m
    OBVIOUS
  <2>0a. \A i \in 1 .. m : i \in 1 .. m + 1
    OBVIOUS
  <2>1. /\ \A i \in DOMAIN posted' : posted'[i].type = "Grow" =>
              i \in DOMAIN posted /\ posted[i].type = "Grow"
        /\ \A i \in DOMAIN posted : posted[i].type = "Grow" =>
              i \in DOMAIN posted' /\ posted'[i].type = "Grow"
    BY <1>5, <1>8, <2>0, <2>0a, Zenon
  <2>2. CASE rings = <<>> /\ side = decoding
    <3>1. decoding'.ring = decoding.ring /\ decoding'.size = decoding.size /\ decoding'.asked = decoding.asked
      BY <1>6, <2>2
    <3>2. Asking \/ FramesTaken
      BY <2>2 DEF PresInv, Grown, Made
    <3> QED
      BY <1>1, <2>1, <3>1, <3>2, Zenon DEF Grown, Asking, FramesTaken
  <2>3. CASE Made /\ side.ring = 1 /\ side.size = 2
    <3>1. decoding'.ring = 1 /\ decoding'.size = 2 /\ window'.ring = 1 /\ rings' = <<>>
      BY <1>1, <1>6, <2>3 DEF Made
    <3> QED
      BY <2>1, <2>3, <3>1, Zenon DEF Grown, Made, FramesTaken
  <2> QED
    BY <2>2, <2>3, SwitchedIs DEF side
<1> QED
  BY <1>9, <1>11, <1>15, <1>17, <1>18, <1>19, Zenon DEF PresInv

\* The window takes an event: what is left of those posted.
LEMMA EventTaken ==
    ASSUME PresInv, posted # <<>>, posted' = Tail(posted)
    PROVE  /\ posted' \in Seq(Events) /\ Head(posted) = posted[1] /\ posted[1] \in Events
           /\ 1 \in DOMAIN posted
           /\ \A i \in DOMAIN posted' : /\ i + 1 \in DOMAIN posted /\ posted'[i] = posted[i + 1]
                                        /\ 1 < i + 1 /\ i + 1 # 1
           /\ \A i \in DOMAIN posted : i = 1 \/ (i - 1 \in DOMAIN posted' /\ posted'[i - 1] = posted[i])
           /\ \A i, j \in DOMAIN posted' : /\ i < j => i + 1 < j + 1
                                           /\ i + 1 = j + 1 => i = j
PROOF
<1>0. posted \in Seq(Events)
  BY PresElements DEF PresInv
<1>1. posted[1] \in Events /\ Head(posted) = posted[1]
  BY <1>0, TailIs, SMTT(60)
<1>2. PICK n \in Nat : /\ DOMAIN posted = 1 .. n + 1 /\ posted' \in Seq(Events)
                       /\ DOMAIN posted' = 1 .. n /\ \A i \in 1 .. n : posted'[i] = posted[i + 1]
  BY <1>0, TailIs, SMTT(60)
<1>3. \A i \in 1 .. n : i + 1 \in 1 .. n + 1 /\ 1 < i + 1 /\ i + 1 # 1
  OBVIOUS
<1>4. \A i, j \in 1 .. n : (i < j => i + 1 < j + 1) /\ (i + 1 = j + 1 => i = j)
  OBVIOUS
<1>5. \A i \in 1 .. n + 1 : i = 1 \/ (i - 1 \in 1 .. n /\ (i - 1) + 1 = i)
  OBVIOUS
<1>6. 1 \in 1 .. n + 1
  OBVIOUS
<1>8. ASSUME NEW i \in 1 .. n + 1
      PROVE  i = 1 \/ (i - 1 \in DOMAIN posted' /\ posted'[i - 1] = posted[i])
  <2>1. CASE i # 1
    <3>1. i - 1 \in 1 .. n /\ (i - 1) + 1 = i
      BY <1>5, <2>1
    <3>2. posted'[i - 1] = posted[(i - 1) + 1]
      BY <1>2, <3>1, Zenon
    <3> QED
      BY <1>2, <3>1, <3>2, Zenon
  <2> QED
    BY <2>1, Zenon
<1>9. \A i \in DOMAIN posted' : /\ i + 1 \in DOMAIN posted /\ posted'[i] = posted[i + 1]
                                 /\ 1 < i + 1 /\ i + 1 # 1
  BY <1>2, <1>3, Zenon
<1>10. \A i, j \in DOMAIN posted' : (i < j => i + 1 < j + 1) /\ (i + 1 = j + 1 => i = j)
  BY <1>2, <1>4, Zenon
<1>11. 1 \in DOMAIN posted /\ \A i \in DOMAIN posted :
          i = 1 \/ (i - 1 \in DOMAIN posted' /\ posted'[i - 1] = posted[i])
  BY <1>2, <1>6, <1>8, Zenon
<1> QED
  BY <1>1, <1>2, <1>9, <1>10, <1>11, Zenon

LEMMA EventFrameStep == PresInv /\ EventFrame => PresInv'
PROOF
<1> SUFFICES ASSUME PresInv, EventFrame
             PROVE  PresInv'
  OBVIOUS
<1>1. /\ posted # <<>> /\ Head(posted).type = "Frame" /\ posted' = Tail(posted)
      /\ window' = [window EXCEPT !.latest = Head(posted).frame]
      /\ UNCHANGED <<arrived, decoding, writes, rings, draws, fences, busy, slotPic>>
  BY DEF EventFrame, decodeVars, gpuVars
<1>2. /\ posted' \in Seq(Events) /\ Head(posted) = posted[1] /\ posted[1] \in Events
      /\ 1 \in DOMAIN posted
      /\ \A i \in DOMAIN posted' : i + 1 \in DOMAIN posted /\ posted'[i] = posted[i + 1] /\ 1 < i + 1 /\ i + 1 # 1
      /\ \A i \in DOMAIN posted : i = 1 \/ (i - 1 \in DOMAIN posted' /\ posted'[i - 1] = posted[i])
      /\ \A i, j \in DOMAIN posted' : (i < j => i + 1 < j + 1) /\ (i + 1 = j + 1 => i = j)
  BY <1>1, EventTaken, Zenon
<1>3. /\ posted[1].type = "Frame" /\ window'.latest = posted[1].frame /\ window'.ring = window.ring
      /\ window' \in [ring : RingNumbers, latest : Frames, shown : Frames]
  BY <1>1, <1>2 DEF PresInv, PresTypes, Events
<1>4. PresTypes'
  BY <1>1, <1>2, <1>3, Zenon DEF PresInv, PresTypes, Events
<1>5. Counted' /\ Drawing' /\ Working'
  BY <1>1, Zenon DEF PresInv, Counted, Drawing, Working, FrameKept, Sampled
<1>6. Waiting'
  <2>1. FrameKept(posted[1].frame) /\ window.latest.value < posted[1].frame.value
        /\ \A j \in DOMAIN draws : draws[j].done < posted[1].frame.value
    BY <1>2, <1>3, Zenon DEF PresInv, Posted
  <2>2. posted[1].frame.value # 0
    BY <1>2, <2>1, PresElements DEF PresInv, Events, Frames
  <2>3. KeptAt(window'.latest, decoding'.next, decoding'.ring, decoding'.slots, fences'.decode,
               fences'.render, writes', slotPic')
    BY <1>1, <1>3, <2>1, Zenon DEF FrameKept
  <2> QED
    BY <1>1, <1>3, <2>1, <2>2, <2>3, Zenon DEF Waiting, FrameKept
<1>7. Posted'
  <2>1. ASSUME NEW i \in DOMAIN posted', posted'[i].type = "Frame"
        PROVE  /\ KeptAt(posted'[i].frame, decoding'.next, decoding'.ring, decoding'.slots,
                         fences'.decode, fences'.render, writes', slotPic')
               /\ window'.latest.value < posted'[i].frame.value
               /\ \A j \in DOMAIN draws : draws[j].done < posted'[i].frame.value
    <3>1. i + 1 \in DOMAIN posted /\ posted'[i] = posted[i + 1] /\ 1 < i + 1
      BY <1>2
    <3>2. FrameKept(posted[i + 1].frame) /\ \A j \in DOMAIN draws : draws[j].done < posted[i + 1].frame.value
      BY <2>1, <3>1, Zenon DEF PresInv, Posted
    <3>3. posted[1].frame.value < posted[i + 1].frame.value
      BY <1>2, <1>3, <2>1, <3>1, Zenon DEF PresInv, Posted
    <3> QED
      BY <1>1, <1>3, <3>1, <3>2, <3>3, Zenon DEF FrameKept
  <2>2. ASSUME NEW i \in DOMAIN posted', NEW j \in DOMAIN posted', i < j,
               posted'[i].type = "Frame", posted'[j].type = "Frame"
        PROVE  posted'[i].frame.value < posted'[j].frame.value
    <3>1. i + 1 \in DOMAIN posted /\ j + 1 \in DOMAIN posted /\ i + 1 < j + 1
          /\ posted'[i] = posted[i + 1] /\ posted'[j] = posted[j + 1]
      BY <1>2, <2>2, Zenon
    <3> QED
      BY <2>2, <3>1, Zenon DEF PresInv, Posted
  <2> QED
    BY <1>1, <2>1, <2>2, Zenon DEF Posted, FrameKept
<1>8. Grown'
  <2>1. \A i \in DOMAIN posted' : posted'[i].type = "Grow" => i + 1 \in DOMAIN posted /\ posted[i + 1].type = "Grow"
    BY <1>2, Zenon
  <2>2. \A i \in DOMAIN posted : posted[i].type = "Grow" => i - 1 \in DOMAIN posted' /\ posted'[i - 1].type = "Grow"
    BY <1>2, <1>3
  <2>3. CASE Asking
    <3>1. (decoding.asked = 2) <=> \E i \in DOMAIN posted' : posted'[i].type = "Grow"
      BY <2>1, <2>2, <2>3, Zenon DEF Asking
    <3>2. \A i, j \in DOMAIN posted' : posted'[i].type = "Grow" /\ posted'[j].type = "Grow" => i = j
      BY <1>2, <2>1, <2>3, ZenonT(60) DEF Asking
    <3> QED
      BY <1>1, <1>3, <2>3, <3>1, <3>2, Zenon DEF Asking, Grown
  <2>4. CASE Made \/ FramesTaken
    BY <1>1, <1>3, <2>1, <2>4, Zenon DEF Made, FramesTaken, Grown
  <2> QED
    BY <2>3, <2>4 DEF PresInv, Grown
<1> QED
  BY <1>4, <1>5, <1>6, <1>7, <1>8, Zenon DEF PresInv

LEMMA EventGrowStep == PresInv /\ EventGrow => PresInv'
PROOF
<1> SUFFICES ASSUME PresInv, EventGrow
             PROVE  PresInv'
  OBVIOUS
<1>1. /\ posted # <<>> /\ Head(posted).type = "Grow" /\ posted' = Tail(posted)
      /\ window' = [window EXCEPT !.ring = @ + 1, !.shown = NoFrame]
      /\ rings' = Append(rings, 2)
      /\ UNCHANGED <<arrived, decoding, writes, draws, fences, busy, slotPic>>
  BY DEF EventGrow, decodeVars, gpuVars
<1>2. /\ posted' \in Seq(Events) /\ Head(posted) = posted[1] /\ posted[1] \in Events
      /\ 1 \in DOMAIN posted
      /\ \A i \in DOMAIN posted' : i + 1 \in DOMAIN posted /\ posted'[i] = posted[i + 1] /\ 1 < i + 1 /\ i + 1 # 1
      /\ \A i, j \in DOMAIN posted' : (i < j => i + 1 < j + 1) /\ (i + 1 = j + 1 => i = j)
  BY <1>1, EventTaken, Zenon
<1>3. Asking
  BY <1>1, <1>2, Zenon DEF PresInv, Grown, Made, FramesTaken
<1>3a. /\ window.ring = 0 /\ 0 + 1 = 1 /\ 1 \in RingNumbers
       /\ window \in [ring : RingNumbers, latest : Frames, shown : Frames]
  BY <1>3 DEF PresInv, PresTypes, Asking, RingNumbers
<1>3b. window' = [window EXCEPT !.ring = 1, !.shown = NoFrame]
  BY <1>1, <1>3a
<1>4. /\ window'.latest = window.latest /\ window'.ring = 1
      /\ window' \in [ring : RingNumbers, latest : Frames, shown : Frames]
  BY <1>3a, <1>3b, NothingYet
<1>5. rings' = <<2>> /\ <<2>> \in Seq({2})
  BY <1>1, <1>3 DEF Asking
<1>6. PresTypes'
  BY <1>1, <1>2, <1>4, <1>5, Zenon DEF PresInv, PresTypes, Events
<1>7. Counted' /\ Drawing' /\ Working' /\ Waiting'
  BY <1>1, <1>4, Zenon DEF PresInv, Counted, Drawing, Working, Waiting, FrameKept, Sampled
<1>8. Posted'
  <2>1. ASSUME NEW i \in DOMAIN posted', posted'[i].type = "Frame"
        PROVE  /\ KeptAt(posted'[i].frame, decoding'.next, decoding'.ring, decoding'.slots,
                         fences'.decode, fences'.render, writes', slotPic')
               /\ window'.latest.value < posted'[i].frame.value
               /\ \A j \in DOMAIN draws : draws[j].done < posted'[i].frame.value
    <3>1. i + 1 \in DOMAIN posted /\ posted'[i] = posted[i + 1]
      BY <1>2
    <3> QED
      BY <1>1, <1>4, <2>1, <3>1, Zenon DEF PresInv, Posted, FrameKept
  <2>2. ASSUME NEW i \in DOMAIN posted', NEW j \in DOMAIN posted', i < j,
               posted'[i].type = "Frame", posted'[j].type = "Frame"
        PROVE  posted'[i].frame.value < posted'[j].frame.value
    <3>1. i + 1 \in DOMAIN posted /\ j + 1 \in DOMAIN posted /\ i + 1 < j + 1
          /\ posted'[i] = posted[i + 1] /\ posted'[j] = posted[j + 1]
      BY <1>2, <2>2, Zenon
    <3> QED
      BY <2>2, <3>1, Zenon DEF PresInv, Posted
  <2> QED
    BY <1>1, <2>1, <2>2, Zenon DEF Posted, FrameKept
<1>9. Grown'
  <2>1. \A i \in DOMAIN posted' : posted'[i].type # "Grow"
    <3> SUFFICES ASSUME NEW i \in DOMAIN posted', posted'[i].type = "Grow"
                 PROVE  FALSE
      OBVIOUS
    <3>1. i + 1 \in DOMAIN posted /\ posted[i + 1].type = "Grow" /\ i + 1 # 1
      BY <1>2, Zenon
    <3>2. posted[1].type = "Grow"
      BY <1>1, <1>2
    <3> QED
      BY <1>2, <1>3, <3>1, <3>2, Zenon DEF Asking
  <2>2. decoding'.ring = 0
    BY <1>1, <1>3 DEF Asking
  <2> QED
    BY <1>4, <1>5, <2>1, <2>2, Zenon DEF Grown, Made
<1> QED
  BY <1>6, <1>7, <1>8, <1>9, Zenon DEF PresInv

\* One more command for the render queue: what was given before stays in order.
LEMMA CommandGiven ==
    ASSUME PresInv, NEW c \in Commands, draws' = Append(draws, c),
           UNCHANGED <<arrived, decoding, writes, rings, posted, fences, busy, slotPic>>,
           c.done # 0 => /\ fences.render < c.done /\ c.done < decoding.next
                         /\ \A i \in DOMAIN draws : draws[i].done < c.done,
           c.sample.fresh => c.wait = c.done /\ FrameKept(Sampled(c))
    PROVE  /\ Drawing' /\ Working' /\ Counted' /\ draws' \in Seq(Commands)
           /\ \A i \in DOMAIN draws' : (i \in DOMAIN draws /\ draws'[i] = draws[i]) \/ draws'[i] = c
PROOF
<1>0. draws \in Seq(Commands)
  BY PresElements DEF PresInv
<1>0a. \E n \in Nat : /\ Len(draws) = n /\ DOMAIN draws = 1 .. n
                      /\ Append(draws, c) \in Seq(Commands) /\ Len(Append(draws, c)) = n + 1
                      /\ DOMAIN Append(draws, c) = 1 .. n + 1 /\ Append(draws, c)[n + 1] = c
                      /\ \A i \in 1 .. n : Append(draws, c)[i] = draws[i]
  BY <1>0, AppendIs, SMTT(60)
<1>1. PICK n \in Nat : /\ Len(draws) = n /\ DOMAIN draws = 1 .. n
                       /\ draws' \in Seq(Commands) /\ Len(draws') = n + 1
                       /\ DOMAIN draws' = 1 .. n + 1 /\ draws'[n + 1] = c
                       /\ \A i \in 1 .. n : draws'[i] = draws[i]
  BY <1>0a, Zenon
<1>2. \A i \in 1 .. n + 1 : i = n + 1 \/ i \in 1 .. n
  OBVIOUS
<1>3. \A i \in DOMAIN draws' : (i \in DOMAIN draws /\ draws'[i] = draws[i]) \/ draws'[i] = c
  BY <1>1, <1>2, Zenon
<1>4. \A i \in DOMAIN draws' :
         /\ draws'[i].done # 0 => fences.render < draws'[i].done /\ draws'[i].done < decoding.next
         /\ draws'[i].sample.fresh => draws'[i].wait = draws'[i].done /\ FrameKept(Sampled(draws'[i]))
  BY <1>3, Zenon DEF PresInv, Drawing
<1>5. ASSUME NEW i \in DOMAIN draws', NEW j \in DOMAIN draws', i < j, draws'[j].done # 0
      PROVE  draws'[i].done < draws'[j].done
  <2>1. i \in 1 .. n
    BY <1>1, <1>5
  <2>2. CASE j = n + 1
    BY <1>1, <1>5, <2>1, <2>2, Zenon
  <2>3. CASE j \in 1 .. n
    BY <1>1, <1>5, <2>1, <2>3, Zenon DEF PresInv, Drawing
  <2> QED
    BY <1>1, <1>2, <2>2, <2>3, Zenon
<1>6. Drawing'
  BY <1>4, <1>5, Zenon DEF Drawing, FrameKept, Sampled
<1>7. Working'
  <2>1. draws # <<>> => draws' # <<>> /\ draws'[1] = draws[1]
    <3>1. draws # <<>> => n # 0
      BY <1>0, <1>1, EmptySeq
    <3>2. n # 0 => 1 \in 1 .. n
      OBVIOUS
    <3>3. draws' # <<>>
      BY <1>1
    <3> QED
      BY <1>1, <3>1, <3>2, <3>3, Zenon
  <2> QED
    BY <2>1, Zenon DEF PresInv, Working
<1>8. Counted'
  BY Zenon DEF PresInv, Counted
<1> QED
  BY <1>1, <1>3, <1>6, <1>7, <1>8, Zenon

LEMMA RedrawStep == PresInv /\ Redraw => PresInv'
PROOF
<1> SUFFICES ASSUME PresInv, Redraw
             PROVE  PresInv'
  OBVIOUS
<1> DEFINE c == Command(0, Sample(window.shown, FALSE), 0)
<1>1. /\ draws = <<>> /\ draws' = Append(draws, c)
      /\ UNCHANGED <<arrived, decoding, writes, rings, posted, window, fences, busy, slotPic>>
  BY Zenon DEF Redraw, decodeVars, gpuVars
<1>2. c \in Commands /\ c.done = 0 /\ ~c.sample.fresh
  BY DEF Command, Sample, Commands, Works, PresInv, PresTypes, Frames
<1> HIDE DEF c
<1>3. /\ Drawing' /\ Working' /\ Counted' /\ draws' \in Seq(Commands)
      /\ \A i \in DOMAIN draws' : (i \in DOMAIN draws /\ draws'[i] = draws[i]) \/ draws'[i] = c
  BY <1>1, <1>2, CommandGiven, Zenon
<1>4. PresTypes'
  BY <1>1, <1>3, Zenon DEF PresInv, PresTypes, Commands
<1>5. Grown'
  BY <1>1, Zenon DEF PresInv, Grown, Asking, Made, FramesTaken
<1>6. \A i \in DOMAIN draws' : draws'[i].done = 0
  <2>1. \A i \in DOMAIN draws : FALSE
    BY <1>1
  <2> QED
    BY <1>2, <1>3, <2>1, Zenon
<1>7. Waiting'
  <2>1. window.latest # NoFrame => 0 < window.latest.value
    BY PresElements DEF PresInv, Waiting
  <2> QED
    BY <1>1, <1>6, <2>1, Zenon DEF PresInv, Waiting, FrameKept
<1>8. Posted'
  <2>1. \A i \in DOMAIN posted : posted[i].type = "Frame" => 0 < posted[i].frame.value
    <3> SUFFICES ASSUME NEW i \in DOMAIN posted, posted[i].type = "Frame"
                 PROVE  0 < posted[i].frame.value
      OBVIOUS
    <3>1. window.latest.value < posted[i].frame.value /\ posted[i].frame.value \in Nat
      BY PresElements DEF PresInv, Posted, Events, Frames
    <3> QED
      BY <3>1, PresElements DEF PresInv
  <2> QED
    BY <1>1, <1>6, <2>1, ZenonT(60) DEF PresInv, Posted, FrameKept
<1> QED
  BY <1>3, <1>4, <1>5, <1>7, <1>8, Zenon DEF PresInv

LEMMA DrawFreshStep == PresInv /\ DrawFresh => PresInv'
PROOF
<1> SUFFICES ASSUME PresInv, DrawFresh
             PROVE  PresInv'
  OBVIOUS
<1> DEFINE f == window.latest
           old == f.ring # window.ring
<1>1. PICK target \in BOOLEAN :
         /\ draws' = Append(draws, IF old \/ ~target THEN Command(0, NoWork, f.value)
                                   ELSE Command(f.value, Sample(f, TRUE), f.value))
         /\ window' = [window EXCEPT !.latest = NoFrame, !.shown = IF old THEN @ ELSE f]
  BY Zenon DEF DrawFresh
<1>2. /\ f # NoFrame /\ posted = <<>>
      /\ UNCHANGED <<arrived, decoding, writes, rings, posted, fences, busy, slotPic>>
  BY Zenon DEF DrawFresh, decodeVars, gpuVars
<1> DEFINE c == IF old \/ ~target THEN Command(0, NoWork, f.value)
                ELSE Command(f.value, Sample(f, TRUE), f.value)
<1>3. f \in Frames /\ f.value \in Nat /\ FrameKept(f) /\ \A i \in DOMAIN draws : draws[i].done < f.value
  BY <1>2, PresElements, Zenon DEF PresInv, Waiting
<1>4. fences.render < f.value /\ f.value < decoding.next
  BY <1>3, Zenon DEF FrameKept, KeptAt
<1>5. c \in Commands /\ c.done = f.value
  <2>1. NoWork \in Works /\ window.ring \in RingNumbers
    BY NothingYet DEF PresInv, PresTypes
  <2>2. Sample(f, TRUE) \in Works
    BY <1>3, <2>1 DEF Sample, Works, Frames
  <2> QED
    BY <1>3, <2>1, <2>2 DEF Command, Commands
<1>6. c.sample.fresh => c.wait = c.done /\ Sampled(c) = f
  <2>1. CASE old \/ ~target
    BY <2>1 DEF Command, NoWork
  <2>2. CASE ~(old \/ ~target)
    <3>1. c = Command(f.value, Sample(f, TRUE), f.value) /\ f.ring = window.ring
      BY <2>2
    <3>2. c.wait = f.value /\ c.done = f.value /\ c.sample.slot = f.slot /\ c.sample.ring = f.ring
          /\ c.sample.pic = f.pic
      BY <3>1 DEF Command, Sample
    <3> QED
      BY <1>3, <3>2 DEF Sampled, Frames
  <2> QED
    BY <2>1, <2>2
<1>7. draws' = Append(draws, c)
  BY <1>1
<1> HIDE DEF c
<1>8. /\ Drawing' /\ Working' /\ Counted' /\ draws' \in Seq(Commands)
  BY <1>2, <1>3, <1>4, <1>5, <1>6, <1>7, CommandGiven, Zenon
<1>9. /\ window' \in [ring : RingNumbers, latest : Frames, shown : Frames]
      /\ window'.ring = window.ring /\ window'.latest = NoFrame
  BY <1>1, NothingYet DEF PresInv, PresTypes
<1>10. PresTypes'
  BY <1>2, <1>8, <1>9, Zenon DEF PresInv, PresTypes, Commands
<1>11. Grown'
  BY <1>2, <1>9, Zenon DEF PresInv, Grown, Asking, Made, FramesTaken
<1>12. Waiting'
  BY <1>9, Zenon DEF Waiting
<1>13. Posted'
  <2>1. \A i \in DOMAIN posted' : FALSE
    BY <1>2
  <2> QED
    BY <2>1, Zenon DEF Posted
<1> QED
  BY <1>8, <1>10, <1>11, <1>12, <1>13, Zenon DEF PresInv

\* The GPU takes up the first of what a queue holds.
LEMMA BeginsStep == PresInv /\ (WriteBegins \/ DrawBegins) => PresInv'
PROOF
<1> SUFFICES ASSUME PresInv, WriteBegins \/ DrawBegins
             PROVE  PresInv'
  OBVIOUS
<1>1. UNCHANGED <<arrived, decoding, writes, rings, posted, window, draws, fences, slotPic>>
  BY DEF WriteBegins, DrawBegins, decodeVars
<1>2. writes \in Seq(Writes) /\ draws \in Seq(Commands) /\ busy \in [write : Works, sample : Works]
  BY PresElements DEF PresInv, PresTypes
<1>3. busy' \in [write : Works, sample : Works] /\ Working'
  <2>1. CASE WriteBegins
    <3> DEFINE f == Head(writes).frame
               w == [slot |-> f.slot, ring |-> f.ring, pic |-> f.pic, fresh |-> FALSE]
    <3>1. writes # <<>> /\ busy' = [busy EXCEPT !.write = w]
      BY <2>1 DEF WriteBegins
    <3>2. Head(writes) = writes[1] /\ writes[1] \in Writes
      BY <1>2, <3>1, TailIs, SMTT(60)
    <3>3. w \in Works /\ w.ring = writes[1].frame.ring /\ w.slot = writes[1].frame.slot
      BY <3>2 DEF Writes, Frames, Works
    <3> HIDE DEF w
    <3>4. busy'.write = w /\ busy'.sample = busy.sample /\ busy' \in [write : Works, sample : Works]
      BY <1>2, <3>1, <3>3
    <3> QED
      BY <1>1, <3>1, <3>3, <3>4, Zenon DEF PresInv, Working
  <2>2. CASE DrawBegins
    <3>1. draws # <<>> /\ busy' = [busy EXCEPT !.sample = Head(draws).sample]
          /\ fences.decode >= Head(draws).wait
      BY <2>2 DEF DrawBegins
    <3>2. Head(draws) = draws[1] /\ draws[1] \in Commands
      BY <1>2, <3>1, TailIs, SMTT(60)
    <3>3. draws[1].sample \in Works /\ draws[1].wait \in Nat
      BY <3>2 DEF Commands
    <3>4. busy'.write = busy.write /\ busy'.sample = draws[1].sample
          /\ busy' \in [write : Works, sample : Works]
      BY <1>2, <3>1, <3>2, <3>3
    <3>5. draws[1].wait <= fences.decode
      BY <3>1, <3>2, <3>3, PresElements DEF PresInv
    <3> QED
      BY <1>1, <3>1, <3>4, <3>5, Zenon DEF PresInv, Working
  <2> QED
    BY <2>1, <2>2
<1>4. PresTypes'
  BY <1>1, <1>3, Zenon DEF PresInv, PresTypes
<1>5. Grown'
  BY <1>1, Zenon DEF PresInv, Grown, Asking, Made, FramesTaken
<1>6. Counted' /\ Drawing' /\ Waiting' /\ Posted'
  BY <1>1, Zenon DEF PresInv, Counted, Drawing, Waiting, Posted, FrameKept, Sampled
<1> QED
  BY <1>3, <1>4, <1>5, <1>6, Zenon DEF PresInv

LEMMA WriteEndsStep == PresInv /\ WriteEnds => PresInv'
PROOF
<1> SUFFICES ASSUME PresInv, WriteEnds
             PROVE  PresInv'
  OBVIOUS
<1> DEFINE f == writes[1].frame
           pics == [slotPic EXCEPT ![f.ring] = [slotPic[f.ring] EXCEPT ![f.slot] = f.pic]]
<1>0. writes \in Seq(Writes) /\ busy \in [write : Works, sample : Works]
      /\ slotPic \in [RingNumbers -> [SlotNumbers -> Nat]] /\ fences \in [decode : Nat, render : Nat]
  BY PresElements DEF PresInv, PresTypes
<1>1. busy.write # NoWork /\ writes # <<>>
  BY DEF WriteEnds, PresInv, Working
<1>2. Head(writes) = writes[1] /\ writes[1] \in Writes
  BY <1>0, <1>1, TailIs, SMTT(60)
<1>3. /\ slotPic' = pics /\ fences' = [fences EXCEPT !.decode = f.value]
      /\ busy' = [busy EXCEPT !.write = NoWork] /\ writes' = Tail(writes)
      /\ UNCHANGED <<arrived, decoding, rings, posted, window, draws>>
  BY <1>2 DEF WriteEnds
<1>4. PICK n \in Nat : /\ Len(writes) = n + 1 /\ DOMAIN writes = 1 .. n + 1
                       /\ Tail(writes) \in Seq(Writes) /\ Len(Tail(writes)) = n
                       /\ DOMAIN Tail(writes) = 1 .. n
                       /\ \A i \in 1 .. n : Tail(writes)[i] = writes[i + 1]
  BY <1>0, <1>1, TailIs, SMTT(60)
<1>5. /\ DOMAIN writes = 1 .. n + 1 /\ DOMAIN writes' = 1 .. n /\ Len(writes') = n
      /\ \A i \in 1 .. n : writes'[i] = writes[i + 1]
  BY <1>3, <1>4, Zenon
<1>6. f \in Frames /\ fences.decode \in Nat /\ fences.render \in Nat
  BY <1>0, <1>2 DEF Writes
<1>7. /\ decoding.next = fences.decode + (n + 1) + 1
      /\ \A i \in 1 .. n + 1 : writes[i].frame.value = fences.decode + i /\ fences.render >= writes[i].after
  BY <1>4, Zenon DEF PresInv, Counted
<1>8. f.value = fences.decode + 1
  <2>1. 1 \in 1 .. n + 1
    OBVIOUS
  <2> QED
    BY <1>7, <2>1, Zenon
<1>9. /\ fences' \in [decode : Nat, render : Nat] /\ fences'.decode = fences.decode + 1
      /\ fences'.render = fences.render
  <2>1. f.value \in Nat
    BY <1>6 DEF Frames
  <2> HIDE DEF f
  <2> QED
    BY <1>0, <1>3, <1>8, <2>1
<1>10. /\ busy' \in [write : Works, sample : Works] /\ busy'.write = NoWork /\ busy'.sample = busy.sample
  BY <1>0, <1>3, NothingYet
<1>11. slotPic' \in [RingNumbers -> [SlotNumbers -> Nat]]
  <2>1. f.ring \in RingNumbers /\ f.slot \in SlotNumbers /\ f.pic \in Nat
    BY <1>6 DEF Frames
  <2> HIDE DEF f
  <2> QED
    BY <1>0, <1>3, <2>1
<1> HIDE DEF pics
<1>12. PresTypes'
  BY <1>3, <1>4, <1>9, <1>10, <1>11, Zenon DEF PresInv, PresTypes, Writes
<1>13. \A g \in Frames : FrameKept(g) =>
          KeptAt(g, decoding'.next, decoding'.ring, decoding'.slots, fences'.decode,
                 fences'.render, writes', slotPic')
  <2> SUFFICES ASSUME NEW g \in Frames, FrameKept(g)
               PROVE  KeptAt(g, decoding.next, decoding.ring, decoding.slots, fences.decode + 1,
                             fences.render, writes', pics)
    BY <1>3, <1>9, Zenon
  <2>1. decoding.next \in Nat /\ decoding.ring \in Nat
    BY PresElements DEF PresInv, DecodeState, RingNumbers
  <2>2. KeptAt(g, decoding.next, decoding.ring, decoding.slots, fences.decode, fences.render,
               writes, slotPic)
    BY DEF FrameKept
  <2>3. \A i \in 1 .. n + 1 : writes[i].frame.value = fences.decode + i
    BY <1>7
  <2>4. slotPic \in [RingNumbers -> [SlotNumbers -> Nat]]
    BY <1>0
  <2> QED
    BY <1>5, <1>6, <2>1, <2>2, <2>3, <2>4, KeptWritten DEF pics
<1>14. decoding.next <= decoding'.next
  BY <1>3, PresElements DEF PresInv, DecodeState
<1>15. Drawing' /\ Waiting' /\ Posted'
  BY <1>3, <1>9, <1>12, <1>13, <1>14, OnTheWay, Zenon DEF PresInv
<1>16. Counted'
  <2>1. decoding.next = (fences.decode + 1) + n + 1
    BY <1>6, <1>7
  <2>2. \A i \in 1 .. n : i + 1 \in 1 .. n + 1 /\ fences.decode + (i + 1) = (fences.decode + 1) + i
    BY <1>6
  <2>3. \A i \in DOMAIN writes' : /\ writes'[i].frame.value = (fences.decode + 1) + i
                                  /\ fences.render >= writes'[i].after
    <3> TAKE i \in DOMAIN writes'
    <3>1. i \in 1 .. n /\ writes'[i] = writes[i + 1]
      BY <1>5, Zenon
    <3>2. i + 1 \in 1 .. n + 1 /\ fences.decode + (i + 1) = (fences.decode + 1) + i
      BY <2>2, <3>1, Zenon
    <3>3. writes[i + 1].frame.value = fences.decode + (i + 1) /\ fences.render >= writes[i + 1].after
      BY <1>7, <3>2, Zenon
    <3> QED
      BY <3>1, <3>2, <3>3, Zenon
  <2> QED
    BY <1>3, <1>5, <1>9, <2>1, <2>3, Zenon DEF PresInv, Counted
<1>17. Working'
  <2>1. busy.sample # NoWork => draws[1].wait <= fences.decode + 1
    <3> SUFFICES ASSUME busy.sample # NoWork
                 PROVE  draws[1].wait <= fences.decode + 1
      OBVIOUS
    <3>1. draws # <<>> /\ draws[1].wait <= fences.decode
      BY DEF PresInv, Working
    <3>2. draws[1] \in Commands
      BY <3>1, PresElements, TailIs DEF PresInv
    <3> QED
      BY <1>6, <3>1, <3>2 DEF Commands
  <2> QED
    BY <1>3, <1>9, <1>10, <2>1, Zenon DEF PresInv, Working
<1>18. Grown'
  BY <1>3, Zenon DEF PresInv, Grown, Asking, Made, FramesTaken
<1> QED
  BY <1>12, <1>15, <1>16, <1>17, <1>18, Zenon DEF PresInv

LEMMA DrawEndsStep == PresInv /\ DrawEnds => PresInv'
PROOF
<1> SUFFICES ASSUME PresInv, DrawEnds
             PROVE  PresInv'
  OBVIOUS
<1>0. /\ draws \in Seq(Commands) /\ busy \in [write : Works, sample : Works]
      /\ fences \in [decode : Nat, render : Nat] /\ draws # <<>>
  BY PresElements DEF PresInv, PresTypes, DrawEnds
<1>1. Head(draws) = draws[1] /\ draws[1] \in Commands
  BY <1>0, TailIs, SMTT(60)
<1> DEFINE v == draws[1].done
<1>2. /\ fences' = [fences EXCEPT !.render = IF v = 0 THEN @ ELSE v]
      /\ busy' = [busy EXCEPT !.sample = NoWork] /\ draws' = Tail(draws)
      /\ UNCHANGED <<arrived, decoding, writes, rings, posted, window, slotPic>>
  BY <1>1 DEF DrawEnds, decodeVars
<1>3. PICK n \in Nat : /\ Len(draws) = n + 1 /\ DOMAIN draws = 1 .. n + 1
                       /\ Tail(draws) \in Seq(Commands) /\ Len(Tail(draws)) = n
                       /\ DOMAIN Tail(draws) = 1 .. n
                       /\ \A i \in 1 .. n : Tail(draws)[i] = draws[i + 1]
  BY <1>0, TailIs, SMTT(60)
<1>4. /\ DOMAIN draws = 1 .. n + 1 /\ DOMAIN draws' = 1 .. n /\ draws' \in Seq(Commands)
      /\ \A i \in 1 .. n : draws'[i] = draws[i + 1]
  BY <1>2, <1>3, Zenon
<1>5. \A i \in 1 .. n : i + 1 \in 1 .. n + 1 /\ 1 < i + 1
  OBVIOUS
<1>6. 1 \in 1 .. n + 1 /\ \A i, j \in 1 .. n : i < j => i + 1 < j + 1
  OBVIOUS
<1>7. v \in Nat /\ fences.render \in Nat /\ fences.decode \in Nat
  BY <1>0, <1>1 DEF Commands
<1> DEFINE re == fences'.render
<1>8. /\ fences' \in [decode : Nat, render : Nat] /\ fences'.decode = fences.decode
      /\ re = (IF v = 0 THEN fences.render ELSE v) /\ re \in Nat
  <2> HIDE DEF v
  <2> QED
    BY <1>0, <1>2, <1>7
<1>9. fences.render <= re /\ re < decoding.next
  <2>1. v # 0 => fences.render < v /\ v < decoding.next
    BY <1>4, <1>6, Zenon DEF PresInv, Drawing
  <2>2. fences.render < decoding.next
    BY DEF PresInv, Counted
  <2> HIDE DEF v, re
  <2> QED
    BY <1>7, <1>8, <2>1, <2>2
\* All that is behind has a greater value.
<1>10. ASSUME NEW x \in Nat, fences.render < x, v < x
       PROVE  re < x
  <2> HIDE DEF v, re
  <2> QED
    BY <1>8, <1>10
<1>11. ASSUME NEW g \in Frames, FrameKept(g), v < g.value
       PROVE  KeptAt(g, decoding'.next, decoding'.ring, decoding'.slots, fences'.decode,
                     fences'.render, writes', slotPic')
  <2>1. g.value \in Nat /\ fences.render < g.value
    BY <1>11 DEF FrameKept, KeptAt, Frames
  <2>2. re < g.value
    BY <1>10, <1>11, <2>1
  <2>3. KeptAt(g, decoding.next, decoding.ring, decoding.slots, fences.decode, re, writes, slotPic)
    BY <1>11, <2>2, KeptDrawn, Zenon DEF FrameKept
  <2> QED
    BY <1>2, <1>8, <2>3, Zenon
<1>12. busy' \in [write : Works, sample : Works] /\ busy'.write = busy.write /\ busy'.sample = NoWork
  BY <1>0, <1>2, NothingYet
<1> HIDE DEF re
<1>13. PresTypes'
  BY <1>2, <1>4, <1>8, <1>12, Zenon DEF PresInv, PresTypes, Commands
<1>14. Grown'
  BY <1>2, Zenon DEF PresInv, Grown, Asking, Made, FramesTaken
<1>15. Working'
  BY <1>2, <1>12, Zenon DEF PresInv, Working
<1>16. Counted'
  <2>1. ASSUME NEW i \in DOMAIN writes
        PROVE  re >= writes[i].after
    <3>1. writes[i].after \in Nat /\ fences.render >= writes[i].after
      BY PresElements DEF PresInv, Counted, Writes
    <3> QED
      BY <1>7, <1>8, <1>9, <3>1
  <2> QED
    BY <1>2, <1>8, <1>9, <2>1, Zenon DEF PresInv, Counted, re
<1>17. Drawing'
  <2>1. ASSUME NEW i \in DOMAIN draws'
        PROVE  /\ draws'[i].done # 0 => fences'.render < draws'[i].done /\ draws'[i].done < decoding'.next
               /\ draws'[i].sample.fresh =>
                     /\ draws'[i].wait = draws'[i].done
                     /\ KeptAt(Sampled(draws'[i]), decoding'.next, decoding'.ring, decoding'.slots,
                               fences'.decode, fences'.render, writes', slotPic')
    <3>0. i + 1 \in DOMAIN draws /\ 1 \in DOMAIN draws /\ 1 < i + 1 /\ draws'[i] = draws[i + 1]
      BY <1>4, <1>5, <1>6, Zenon
    <3>1. /\ draws[i + 1] \in Commands /\ draws[i + 1].done \in Nat /\ Sampled(draws[i + 1]) \in Frames
          /\ Sampled(draws[i + 1]).value = draws[i + 1].done
      BY <3>0, PresElements DEF PresInv, Commands, Sampled, Frames, Works
    <3>2. draws[i + 1].done # 0 => fences.render < draws[i + 1].done /\ draws[i + 1].done < decoding.next
                                   /\ v < draws[i + 1].done
      BY <3>0, Zenon DEF PresInv, Drawing
    <3>3. draws[i + 1].done # 0 => re < draws[i + 1].done
      BY <1>10, <3>1, <3>2, Zenon
    <3>4. draws[i + 1].sample.fresh => /\ draws[i + 1].wait = draws[i + 1].done
                                       /\ FrameKept(Sampled(draws[i + 1]))
      BY <3>0, Zenon DEF PresInv, Drawing
    <3>5. draws[i + 1].sample.fresh => draws[i + 1].done # 0
      <4>1. draws[i + 1].sample.fresh => fences.render < draws[i + 1].done
        BY <3>1, <3>4, Zenon DEF FrameKept, KeptAt
      <4> QED
        BY <1>7, <3>1, <4>1
    <3>6. draws[i + 1].sample.fresh =>
             KeptAt(Sampled(draws[i + 1]), decoding'.next, decoding'.ring, decoding'.slots,
                    fences'.decode, fences'.render, writes', slotPic')
      BY <1>11, <3>1, <3>2, <3>4, <3>5, Zenon
    <3> QED
      BY <1>2, <3>0, <3>2, <3>3, <3>4, <3>6, Zenon DEF re
  <2>2. ASSUME NEW i \in DOMAIN draws', NEW j \in DOMAIN draws', i < j, draws'[j].done # 0
        PROVE  draws'[i].done < draws'[j].done
    <3>1. i + 1 \in DOMAIN draws /\ j + 1 \in DOMAIN draws /\ i + 1 < j + 1
          /\ draws'[i] = draws[i + 1] /\ draws'[j] = draws[j + 1]
      BY <1>4, <1>5, <1>6, <2>2, Zenon
    <3> QED
      BY <2>2, <3>1, Zenon DEF PresInv, Drawing
  <2> QED
    BY <2>1, <2>2, Zenon DEF Drawing, FrameKept, Sampled
<1>18. Waiting'
  <2>1. \A i \in DOMAIN draws' : window.latest # NoFrame => draws'[i].done < window.latest.value
    BY <1>4, <1>5, Zenon DEF PresInv, Waiting
  <2>2. window.latest # NoFrame => v < window.latest.value
    BY <1>4, <1>6, Zenon DEF PresInv, Waiting
  <2>3. window.latest # NoFrame =>
          KeptAt(window.latest, decoding'.next, decoding'.ring, decoding'.slots, fences'.decode,
                 fences'.render, writes', slotPic')
    BY <1>11, <2>2, PresElements, Zenon DEF PresInv, Waiting
  <2> QED
    BY <1>2, <2>1, <2>3, Zenon DEF PresInv, Waiting, FrameKept
<1>19. Posted'
  <2>1. ASSUME NEW i \in DOMAIN posted, posted[i].type = "Frame"
        PROVE  /\ KeptAt(posted[i].frame, decoding'.next, decoding'.ring, decoding'.slots,
                         fences'.decode, fences'.render, writes', slotPic')
               /\ \A j \in DOMAIN draws' : draws'[j].done < posted[i].frame.value
    <3>1. posted[i].frame \in Frames
      BY PresElements DEF PresInv, Events
    <3>2. FrameKept(posted[i].frame) /\ v < posted[i].frame.value
      BY <1>4, <1>6, <2>1, Zenon DEF PresInv, Posted
    <3>3. \A j \in DOMAIN draws' : draws'[j].done < posted[i].frame.value
      BY <1>4, <1>5, <2>1, Zenon DEF PresInv, Posted
    <3> QED
      BY <1>11, <3>1, <3>2, <3>3
  <2> QED
    BY <1>2, <2>1, Zenon DEF PresInv, Posted, FrameKept
<1> QED
  BY <1>13, <1>14, <1>15, <1>16, <1>17, <1>18, <1>19, Zenon DEF PresInv

LEMMA PresStep == PresInv /\ [PresNext]_presVars => PresInv'
PROOF
<1> SUFFICES ASSUME PresInv, [PresNext]_presVars
             PROVE  PresInv'
  OBVIOUS
<1>1. CASE UNCHANGED presVars
  <2>1. UNCHANGED <<arrived, decoding, writes, rings, posted, window, draws, fences, busy, slotPic>>
    BY <1>1 DEF presVars, decodeVars, gpuVars
  <2>2. PresTypes' /\ Counted'
    BY <2>1, Zenon DEF PresInv, PresTypes, Counted
  <2>3. Grown'
    BY <2>1, Zenon DEF PresInv, Grown, Asking, Made, FramesTaken
  <2>4. Drawing' /\ Waiting' /\ Posted' /\ Working'
    BY <2>1, Zenon DEF PresInv, Drawing, Waiting, Posted, Working, FrameKept, Sampled
  <2> QED
    BY <2>2, <2>3, <2>4, Zenon DEF PresInv
<1> QED
  BY <1>1, ArrivesStep, DecodeGrowStep, DecodeSkipsStep, DecodeShowsStep, EventFrameStep,
     EventGrowStep, DrawFreshStep, RedrawStep, BeginsStep, WriteEndsStep, DrawEndsStep
     DEF PresNext, DecodeRuns, WindowRuns, GpuRuns

LEMMA PresInvSafe == PresInv => PresTypeOK /\ FreshWhole /\ NeverStalls
PROOF
<1> SUFFICES ASSUME PresInv
             PROVE  PresTypeOK /\ FreshWhole /\ NeverStalls
  OBVIOUS
<1>1. PresTypeOK
  <2>1. /\ decoding.next \in Nat \ {0} /\ decoding.pic \in Nat /\ arrived.pic \in Nat
        /\ decoding.ring \in RingNumbers /\ window.ring \in RingNumbers
    BY DEF PresInv, PresTypes
  <2>2. decoding.next \in 1 .. (PicBound + 1)
    BY <2>1, PresAssumption DEF PresInv, Counted
  <2>3. fences.decode < decoding.next
    <3> DEFINE n == Len(writes)
    <3>1. n \in Nat /\ fences.decode \in Nat /\ decoding.next = fences.decode + n + 1
      BY PresElements DEF PresInv, Counted
    <3> HIDE DEF n
    <3> QED
      BY <3>1
  <2>4. Len(rings) <= 1 /\ window.ring = decoding.ring + Len(rings)
    <3>1. Len(<<>>) = 0 /\ Len(<<2>>) = 1 /\ 0 <= 1 /\ 1 <= 1 /\ 0 = 0 + 0 /\ 1 = 0 + 1 /\ 1 = 1 + 0
      OBVIOUS
    <3> QED
      BY <3>1, Zenon DEF PresInv, Grown, Asking, Made, FramesTaken
  <2> QED
    BY <2>1, <2>2, <2>3, <2>4, Zenon DEF PresTypeOK
<1>2. FreshWhole
  <2> SUFFICES ASSUME busy.sample # NoWork, busy.sample.fresh
               PROVE  /\ slotPic[busy.sample.ring][busy.sample.slot] = busy.sample.pic
                      /\ \/ busy.write.ring # busy.sample.ring \/ busy.write.slot # busy.sample.slot
                         \/ busy.write = NoWork
    BY Zenon DEF FreshWhole
  <2> DEFINE c == draws[1]
             f == Sampled(c)
  <2>1. draws # <<>> /\ busy.sample = c.sample /\ c.wait <= fences.decode
    BY DEF PresInv, Working
  <2>2. 1 \in DOMAIN draws
    <3>1. draws \in Seq(Commands)
      BY PresElements DEF PresInv
    <3>2. PICK n \in Nat : DOMAIN draws = 1 .. n + 1
      BY <2>1, <3>1, TailIs, SMTT(60)
    <3> QED
      BY <3>2
  <2>3. c \in Commands /\ c.wait = c.done /\ FrameKept(f)
    BY <2>1, <2>2, PresElements DEF PresInv, Drawing
  <2>4. /\ f.value = c.done /\ f.ring = busy.sample.ring /\ f.slot = busy.sample.slot
        /\ f.pic = busy.sample.pic /\ f.value \in Nat
    BY <2>1, <2>3 DEF Sampled, Commands
  <2>5. f.value <= fences.decode
    BY <2>1, <2>3, <2>4
  <2> HIDE DEF f, c
  <2>6. slotPic[f.ring][f.slot] = f.pic
    <3>1. ~(fences.decode < f.value)
      BY <2>4, <2>5, PresElements DEF PresInv
    <3> QED
      BY <2>3, <3>1, Zenon DEF FrameKept, KeptAt
  <2>7. ASSUME busy.write # NoWork
        PROVE  busy.write.ring # f.ring \/ busy.write.slot # f.slot
    <3>1. /\ writes # <<>> /\ busy.write.ring = writes[1].frame.ring
          /\ busy.write.slot = writes[1].frame.slot
      BY <2>7 DEF PresInv, Working
    <3>2. 1 \in DOMAIN writes
      <4>1. writes \in Seq(Writes)
        BY PresElements DEF PresInv
      <4>2. PICK n \in Nat : DOMAIN writes = 1 .. n + 1
        BY <3>1, <4>1, TailIs, SMTT(60)
      <4> QED
        BY <4>2
    <3>3. writes[1].frame.value = fences.decode + 1
      BY <3>2, Zenon DEF PresInv, Counted
    <3>4. f.value < writes[1].frame.value
      BY <2>4, <2>5, <3>3, PresElements DEF PresInv
    <3> QED
      BY <2>3, <3>1, <3>2, <3>4, Zenon DEF FrameKept, KeptAt
  <2> QED
    BY <2>4, <2>6, <2>7, Zenon
<1>3. NeverStalls
  BY Zenon DEF PresInv, Counted, NeverStalls
<1> QED
  BY <1>1, <1>2, <1>3

\* A picture is whole from the first to the last pixel first drawn of it, and no
\* write waits in its queue: for any number of slots and of pictures, whatever the
\* two threads and the two GPU queues do first.
THEOREM PicturesWhole == PresSpec => [](PresTypeOK /\ FreshWhole /\ NeverStalls)
PROOF BY PresStart, PresStep, PresInvSafe, PTL DEF PresSpec

---------------------------------------------------------------------------
(* The screen. *)

Pics == [pic : Nat, device : Nat]
Inputs == [pic : Nat, key : BOOLEAN, nth : Nat, age : Nat]
PipeSteps == {"open", "first", "commands", "encode", "input", "output", "capture", "over"}

DeskTypes ==
    /\ desk \in [front : Desktops, pic : 1 .. PicBound2, pointer : Pointers, system : BOOLEAN]
    /\ capturer \in [at : {"out", "acquire", "follow", "rebuild"}, held : Nat, call : Nat,
                     device : Nat, desk : Desktops]
    /\ dups \in [lost : SUBSET Nat, unseen : BOOLEAN, pointer : BOOLEAN]
PipeTypes ==
    /\ pipe \in [at : PipeSteps, pending : Pics, last : Pics, cursor : Pointers \cup {"none"}]
    /\ asked \in [key : BOOLEAN, rate : {0, 2}]
    /\ enc \in [kind : {"none", "hw", "sw"}, device : Nat, software : BOOLEAN, force : BOOLEAN,
                rate : {1, 2}, session : {1, 2}, refused : BOOLEAN, unsent : Nat]
    /\ mft \in [inside : Seq(Inputs), outs : Seq(Inputs), fresh : BOOLEAN, key : BOOLEAN]
    /\ stream \in [pic : Nat, nth : Nat, wants : BOOLEAN, rate : {1, 2}]
    /\ spent \in [turns : Nat, glitches : Nat, lates : Nat]

\* The capturer is at work only while the thread looks, and holds one duplication,
\* of its newest device, or none while it makes one.
CapInv ==
    /\ pipe.at \notin {"open", "first", "capture"} => capturer.at = "out"
    /\ pipe.at = "open" => capturer.at \in {"follow", "rebuild"}
    /\ capturer.at = "acquire" => capturer.call = capturer.held /\ capturer.held # 0
    /\ capturer.at # "acquire" => capturer.call = 0
    /\ capturer.at \in {"follow", "rebuild"} => capturer.held = 0
    /\ capturer.held \in {0, capturer.device}
    /\ capturer.held # 0 /\ ~dups.pointer => pipe.cursor = desk.pointer

\* Which frame is at hand, and of which device.
PicInv ==
    /\ pipe.pending # NoPic => pipe.pending.device # 0
    /\ pipe.last # NoPic => pipe.last.device # 0
    /\ enc.kind # "none" => enc.device # 0
    /\ SettingUp => pipe.pending = NoPic /\ pipe.last = NoPic
    /\ pipe.at \in {"commands", "capture", "encode"} => Newest # NoPic
    /\ pipe.at \in {"commands", "capture"} \/ (pipe.at = "encode" /\ pipe.pending = NoPic) =>
          (pipe.last # NoPic => pipe.last.device = enc.device)
    /\ pipe.at \in {"input", "output"} =>
          pipe.pending # NoPic /\ pipe.pending.device = enc.device /\ enc.kind # "none"
    /\ capturer.held # 0 => capturer.device # 0

RateInv ==
    /\ asked.rate = 0 => enc.rate = stream.rate
    /\ asked.rate # 0 => asked.rate = stream.rate
    /\ enc.kind # "none" /\ ~enc.refused => enc.session = enc.rate

\* What the encoder holds is numbered from the frame sent last, outputs first, and
\* of the hardware one each is as old as there are others behind it.
QueueInv ==
    /\ stream.nth = 1
    /\ enc.unsent = Len(mft.outs) + Len(mft.inside)
    /\ \A i \in DOMAIN mft.outs : mft.outs[i].nth = i
    /\ \A i \in DOMAIN mft.inside : mft.inside[i].nth = Len(mft.outs) + i
RoomInv ==
    /\ spent.lates <= LateBound
    /\ Len(mft.inside) <= Depth + LateBound
    /\ enc.kind = "hw" => Len(mft.inside) <= Depth
    /\ enc.kind = "sw" /\ pipe.at # "over" =>
          Len(mft.outs) + Len(mft.inside) <= spent.lates + (IF pipe.at = "output" THEN 1 ELSE 0)
    /\ enc.kind = "hw" /\ pipe.at # "over" =>
          \A i \in DOMAIN mft.inside :
             mft.inside[i].age + i = Len(mft.inside) + (IF pipe.at = "input" THEN 1 ELSE 0)
    /\ enc.kind = "none" => mft.inside = <<>> \/ pipe.at = "over"

ScrInv == DeskTypes /\ PipeTypes /\ CapInv /\ PicInv /\ RateInv /\ QueueInv /\ RoomInv

\* The groups of steps: Windows, the capturer, the commands, the encoder.
Windows == SwitchesDesktop \/ ChangesMode \/ MovesPointer \/ Paints
Captures ==
    \/ CallsNextFrame \/ LosesAccess \/ Follows \/ Duplicates \/ DuplicateDenied
    \/ Acquires \/ WaitsInVain \/ DisplayGone \/ DeviceRefused \/ AcquireFails
Commanded == ViewerAsksKeyframe \/ SetsQuality \/ SenderDropped \/ TakesCommands \/ RateRefused
             \/ NothingToEncode
Binds == BindsHardware \/ BindsSoftware \/ NoEncoder
Encodes ==
    \/ Converts \/ ReadsBack \/ EncodeFails \/ GivesHardware \/ GivesSoftware
    \/ ReturnsOutput \/ OutputLate \/ HeldBack \/ PumpPasses \/ CollectsOutput

LEMMA ScrSteps ==
    ASSUME [ScrNext]_scrVars
    PROVE  UNCHANGED scrVars \/ Windows \/ Captures \/ Commanded \/ Binds \/ Encodes
PROOF BY Zenon DEF ScrNext, PipelineStep, Windows, Captures, Commanded, Binds, Encodes

\* What each group leaves alone.
LEMMA WindowsLeave ==
    ASSUME PipeTypes, Windows
    PROVE  /\ UNCHANGED <<capturer, pipe, asked, enc, mft, stream>>
           /\ spent' \in [turns : Nat, glitches : Nat, lates : Nat] /\ spent'.lates = spent.lates
PROOF
<1>0. spent \in [turns : Nat, glitches : Nat, lates : Nat]
  BY DEF PipeTypes
<1>1. UNCHANGED <<capturer, pipe, asked, enc, mft, stream>>
  BY Zenon DEF Windows, SwitchesDesktop, ChangesMode, MovesPointer, Paints, Turn, encVars
<1>2. spent' = spent \/ spent' = [spent EXCEPT !.turns = @ + 1]
  BY Zenon DEF Windows, SwitchesDesktop, ChangesMode, MovesPointer, Paints, Turn
<1> QED
  BY <1>0, <1>1, <1>2

LEMMA CapturesLeave ==
    ASSUME PipeTypes, Captures
    PROVE  /\ UNCHANGED <<desk, asked, enc, mft, stream>>
           /\ spent' \in [turns : Nat, glitches : Nat, lates : Nat] /\ spent'.lates = spent.lates
PROOF
<1>0. spent \in [turns : Nat, glitches : Nat, lates : Nat]
  BY DEF PipeTypes
<1>1. UNCHANGED <<desk, asked, enc, mft, stream>>
  BY Zenon DEF Captures, CallsNextFrame, LosesAccess, Follows, Duplicates, DuplicateDenied, Acquires,
     WaitsInVain, DisplayGone, DeviceRefused, AcquireFails, RebuildFails, encVars
<1>2. spent' = spent \/ spent' = [spent EXCEPT !.glitches = @ + 1]
  BY Zenon DEF Captures, CallsNextFrame, LosesAccess, Follows, Duplicates, DuplicateDenied, Acquires,
     WaitsInVain, DisplayGone, DeviceRefused, AcquireFails, Glitch
<1> QED
  BY <1>0, <1>1, <1>2

\* What taking the commands does, whether the session takes the rate or refuses it.
TakesEither == TakesCommands \/ RateRefused

LEMMA TakesIs ==
    ASSUME TakesEither
    PROVE  /\ pipe.at = "commands"
           /\ asked' = [asked EXCEPT !.key = FALSE, !.rate = 0]
           /\ pipe' = [pipe EXCEPT !.at = "encode",
                            !.pending = IF asked.key /\ pipe.pending = NoPic THEN pipe.last ELSE @,
                            !.last = IF asked.key /\ pipe.pending = NoPic THEN NoPic ELSE @]
           /\ \E refused \in BOOLEAN :
                 enc' = [enc EXCEPT !.force = @ \/ asked.key,
                              !.rate = IF asked.rate # 0 THEN asked.rate ELSE @,
                              !.session = IF asked.rate # 0 /\ enc.kind # "none" /\ ~refused
                                          THEN asked.rate ELSE @,
                              !.refused = IF asked.rate # 0 /\ enc.kind # "none"
                                          THEN refused ELSE @]
           /\ UNCHANGED <<desk, capturer, dups, mft, stream>>
           /\ spent' = spent \/ spent' = [spent EXCEPT !.glitches = @ + 1]
PROOF
<1>1. \E refused \in BOOLEAN : Takes(refused)
  BY Zenon DEF TakesEither, TakesCommands, RateRefused
<1>2. spent' = spent \/ spent' = [spent EXCEPT !.glitches = @ + 1]
  BY Zenon DEF TakesEither, TakesCommands, RateRefused, Glitch
<1>3. PICK refused \in BOOLEAN : Takes(refused)
  BY <1>1
<1> QED
  BY <1>2, <1>3 DEF Takes, capVars

LEMMA CommandedLeave ==
    ASSUME PipeTypes, Commanded
    PROVE  /\ UNCHANGED <<desk, capturer, dups, mft>>
           /\ spent' \in [turns : Nat, glitches : Nat, lates : Nat] /\ spent'.lates = spent.lates
PROOF
<1>0. spent \in [turns : Nat, glitches : Nat, lates : Nat]
  BY DEF PipeTypes
<1>1. CASE TakesEither
  <2>1. spent' = spent \/ spent' = [spent EXCEPT !.glitches = @ + 1]
    BY <1>1, TakesIs
  <2>2. UNCHANGED <<desk, capturer, dups, mft>>
    BY <1>1, TakesIs
  <2> QED
    BY <1>0, <2>1, <2>2
<1>2. CASE ViewerAsksKeyframe \/ SetsQuality \/ SenderDropped \/ NothingToEncode
  <2>1. UNCHANGED <<desk, capturer, dups, mft, spent>>
    BY <1>2, Zenon DEF ViewerAsksKeyframe, SetsQuality, SenderDropped, NothingToEncode, capVars, encVars
  <2> QED
    BY <1>0, <2>1
<1> QED
  BY <1>1, <1>2, Zenon DEF Commanded, TakesEither

LEMMA BindsLeave ==
    ASSUME PipeTypes, Binds
    PROVE  /\ UNCHANGED <<desk, capturer, dups, asked, stream>>
           /\ spent' \in [turns : Nat, glitches : Nat, lates : Nat] /\ spent'.lates = spent.lates
PROOF
<1>0. spent \in [turns : Nat, glitches : Nat, lates : Nat]
  BY DEF PipeTypes
<1>1. UNCHANGED <<desk, capturer, dups, asked, stream>>
  BY Zenon DEF Binds, BindsHardware, BindsSoftware, NoEncoder, Stale, capVars
<1>2. spent' = spent \/ spent' = [spent EXCEPT !.glitches = @ + 1]
  BY Zenon DEF Binds, BindsHardware, BindsSoftware, NoEncoder, Stale, Glitch
<1> QED
  BY <1>0, <1>1, <1>2

LEMMA EncodesLeave ==
    ASSUME PipeTypes, Encodes
    PROVE  UNCHANGED <<desk, capturer, dups, asked>>
PROOF BY DEF Encodes, Converts, ReadsBack, Encoding, EncodeFails, GivesHardware, GivesSoftware,
             ProcessInput, ReturnsOutput, OutputLate, HeldBack, ReturnsNothing, PumpPasses,
             CollectsOutput, EncoderDone, capVars

LEMMA ScrStart == ScrInit => ScrInv
PROOF
<1> SUFFICES ASSUME ScrInit
             PROVE  ScrInv
  OBVIOUS
<1>0. /\ mft.inside = <<>> /\ mft.outs = <<>> /\ Len(<<>>) = 0 /\ <<>> \in Seq(Inputs)
      /\ \A i \in DOMAIN <<>> : FALSE
  BY DEF ScrInit
<1>1. DeskTypes
  BY ScrAssumption DEF ScrInit, DeskTypes, Desktops, Pointers
<1>2. PipeTypes
  BY <1>0 DEF ScrInit, PipeTypes, Pics, NoPic, PipeSteps, Pointers
<1>3. CapInv
  BY DEF ScrInit, CapInv
<1>4. PicInv
  BY DEF ScrInit, PicInv, SettingUp
<1>5. RateInv
  BY DEF ScrInit, RateInv
<1>6. QueueInv
  <2>1. stream.nth = 1 /\ enc.unsent = 0
    BY DEF ScrInit
  <2>2. 0 = 0 + 0
    OBVIOUS
  <2> QED
    BY <1>0, <2>1, <2>2, Zenon DEF QueueInv
<1>7. RoomInv
  <2>1. enc.kind = "none" /\ spent.lates = 0 /\ 0 <= LateBound /\ 0 <= Depth + LateBound
    BY RingAssumption, ScrAssumption DEF ScrInit
  <2>2. "none" # "hw" /\ "none" # "sw"
    OBVIOUS
  <2> QED
    BY <1>0, <2>1, <2>2, Zenon DEF RoomInv
<1> QED
  BY <1>1, <1>2, <1>3, <1>4, <1>5, <1>6, <1>7, Zenon DEF ScrInv

LEMMA DeskTypesStep == ScrInv /\ [ScrNext]_scrVars => DeskTypes'
PROOF
<1> SUFFICES ASSUME DeskTypes, PipeTypes, [ScrNext]_scrVars
             PROVE  DeskTypes'
  BY DEF ScrInv
<1>1. CASE UNCHANGED scrVars
  BY <1>1 DEF scrVars, capVars, DeskTypes
<1>2. CASE Windows
  <2>0. capturer' = capturer /\ Live \subseteq Nat
    BY <1>2, WindowsLeave DEF DeskTypes, Live
  <2>1. desk' \in [front : Desktops, pic : 1 .. PicBound2, pointer : Pointers, system : BOOLEAN]
    <3>1. ASSUME NEW d \in Desktops, desk' = [desk EXCEPT !.front = d]
          PROVE  desk' \in [front : Desktops, pic : 1 .. PicBound2, pointer : Pointers, system : BOOLEAN]
      BY <3>1 DEF DeskTypes
    <3>2. ASSUME NEW p \in Pointers, desk' = [desk EXCEPT !.pointer = p]
          PROVE  desk' \in [front : Desktops, pic : 1 .. PicBound2, pointer : Pointers, system : BOOLEAN]
      BY <3>2 DEF DeskTypes
    <3>3. ASSUME desk.pic < PicBound2, desk' = [desk EXCEPT !.pic = @ + 1]
          PROVE  desk' \in [front : Desktops, pic : 1 .. PicBound2, pointer : Pointers, system : BOOLEAN]
      <4>1. desk.pic + 1 \in 1 .. PicBound2
        BY <3>3, ScrAssumption DEF DeskTypes
      <4> QED
        BY <3>3, <4>1 DEF DeskTypes
    <3> QED
      BY <1>2, <3>1, <3>2, <3>3
         DEF Windows, SwitchesDesktop, ChangesMode, MovesPointer, Paints, DeskTypes
  <2>2. dups' \in [lost : SUBSET Nat, unseen : BOOLEAN, pointer : BOOLEAN]
    <3>1. /\ dups \in [lost : SUBSET Nat, unseen : BOOLEAN, pointer : BOOLEAN]
          /\ Live \in SUBSET Nat
      BY <2>0 DEF DeskTypes
    <3>2. \/ dups' = [dups EXCEPT !.lost = Live] \/ dups' = [dups EXCEPT !.pointer = TRUE]
          \/ dups' = [dups EXCEPT !.unseen = TRUE]
      BY <1>2, Zenon DEF Windows, SwitchesDesktop, ChangesMode, MovesPointer, Paints
    <3> QED
      BY <3>1, <3>2
  <2> QED
    BY <2>0, <2>1, <2>2, Zenon DEF DeskTypes
<1>3. CASE Captures
  <2>0. desk' = desk
    BY <1>3, CapturesLeave
  <2>a. /\ capturer \in [at : {"out", "acquire", "follow", "rebuild"}, held : Nat, call : Nat,
                         device : Nat, desk : Desktops]
        /\ dups \in [lost : SUBSET Nat, unseen : BOOLEAN, pointer : BOOLEAN]
        /\ desk.front \in Desktops
    BY DEF DeskTypes
  <2>1. CASE CallsNextFrame
    BY <2>0, <2>1, <2>a DEF CallsNextFrame, DeskTypes
  <2>2. CASE LosesAccess
    BY <2>0, <2>2, <2>a DEF LosesAccess, DeskTypes
  <2>3. CASE Follows
    <3>1. Followed \in Desktops
      BY <2>a DEF Followed
    <3> QED
      BY <2>0, <2>3, <2>a, <3>1 DEF Follows, DeskTypes
  <2>4. CASE Duplicates
    <3> DEFINE id == capturer.device + 1
    <3>1. id \in Nat /\ Born(id) \in SUBSET Nat
      BY <2>a DEF Born, Live
    <3>2. /\ capturer' = [capturer EXCEPT !.at = "out", !.held = id, !.device = id]
          /\ dups' = [lost |-> Born(id), unseen |-> TRUE, pointer |-> TRUE]
      BY <2>4 DEF Duplicates, Rebuilt
    <3> HIDE DEF id
    <3>3. dups' \in [lost : SUBSET Nat, unseen : BOOLEAN, pointer : BOOLEAN]
      BY <3>1, <3>2
    <3> QED
      BY <2>0, <2>a, <3>1, <3>2, <3>3 DEF DeskTypes
  <2>5. CASE DuplicateDenied \/ DisplayGone \/ DeviceRefused
    BY <2>0, <2>5, <2>a DEF DuplicateDenied, DisplayGone, DeviceRefused, RebuildFails, DeskTypes
  <2>6. CASE Acquires
    BY <2>0, <2>6, <2>a DEF Acquires, DeskTypes
  <2>7. CASE WaitsInVain \/ AcquireFails
    <3>1. capturer' = [capturer EXCEPT !.at = "out", !.call = 0] /\ dups' = dups
      BY <2>7, Zenon DEF WaitsInVain, AcquireFails
    <3> QED
      BY <2>0, <3>1, <2>a DEF DeskTypes
  <2> QED
    BY <1>3, <2>1, <2>2, <2>3, <2>4, <2>5, <2>6, <2>7 DEF Captures
<1>4. CASE Commanded
  BY <1>4, CommandedLeave DEF DeskTypes
<1>5. CASE Binds
  BY <1>5, BindsLeave DEF DeskTypes
<1>6. CASE Encodes
  BY <1>6, EncodesLeave DEF DeskTypes
<1> QED
  BY <1>1, <1>2, <1>3, <1>4, <1>5, <1>6, ScrSteps

\* How the parts of the thread look after a call of the capturer.
LEMMA PipeEnds ==
    ASSUME PipeTypes, NEW kind
    PROVE  LET P == [at : PipeSteps, pending : Pics, last : Pics, cursor : Pointers \cup {"none"}]
           IN  Ends \in P /\ AfterError(kind) \in P
PROOF BY DEF PipeTypes, Ends, AfterError, PipeSteps

LEMMA PipeTypesCaptures == DeskTypes /\ PipeTypes /\ Captures => PipeTypes'
PROOF
<1> SUFFICES ASSUME DeskTypes, PipeTypes, Captures
             PROVE  PipeTypes'
  OBVIOUS
<1> DEFINE P == [at : PipeSteps, pending : Pics, last : Pics, cursor : Pointers \cup {"none"}]
<1>0. pipe \in P /\ Ends \in P /\ \A kind : AfterError(kind) \in P
  BY PipeEnds, Zenon DEF PipeTypes
<1>1. pipe' \in P
  <2>1. CASE Acquires
    <3>1. Copied \in Pics /\ NotePointer \in Pointers \cup {"none"}
      <4>1. /\ desk \in [front : Desktops, pic : 1 .. PicBound2, pointer : Pointers, system : BOOLEAN]
            /\ capturer \in [at : {"out", "acquire", "follow", "rebuild"}, held : Nat, call : Nat,
                             device : Nat, desk : Desktops]
        BY Zenon DEF DeskTypes
      <4>2. desk.pic \in Nat /\ desk.pointer \in Pointers /\ capturer.device \in Nat
        BY <4>1, SMTT(30)
      <4>3. pipe.cursor \in Pointers \cup {"none"}
        BY <1>0
      <4> QED
        BY <4>2, <4>3, SMTT(30) DEF Copied, Pics, NotePointer
    <3> QED
      BY <1>0, <2>1, <3>1 DEF Acquires, PipeSteps
  <2>2. CASE Duplicates
    <3>1. [pipe EXCEPT !.at = "first"] \in P
      BY <1>0 DEF PipeSteps
    <3> QED
      BY <1>0, <2>2, <3>1, Zenon DEF Duplicates
  <2>3. CASE \/ CallsNextFrame \/ LosesAccess \/ Follows \/ DuplicateDenied
             \/ DisplayGone \/ DeviceRefused \/ AcquireFails
    BY <1>0, <2>3, ZenonT(60) DEF CallsNextFrame, LosesAccess, Follows, DuplicateDenied, DisplayGone,
       DeviceRefused, RebuildFails, AcquireFails
  <2>4. CASE WaitsInVain
    <3>1. [pipe EXCEPT !.at = "commands"] \in P
      BY <1>0 DEF PipeSteps
    <3> QED
      BY <1>0, <2>4, <3>1, Zenon DEF WaitsInVain
  <2> QED
    BY <2>1, <2>2, <2>3, <2>4, Zenon DEF Captures
<1>2. UNCHANGED <<asked, enc, mft, stream>> /\ spent' \in [turns : Nat, glitches : Nat, lates : Nat]
  BY CapturesLeave, Zenon
<1> QED
  BY <1>1, <1>2, ZenonT(60) DEF PipeTypes

LEMMA PipeTypesCommanded == PipeTypes /\ Commanded => PipeTypes'
PROOF
<1> SUFFICES ASSUME PipeTypes, Commanded
             PROVE  PipeTypes'
  OBVIOUS
<1>0. mft' = mft /\ spent' \in [turns : Nat, glitches : Nat, lates : Nat]
  BY CommandedLeave
<1>1. CASE ViewerAsksKeyframe \/ SetsQuality
  <2>1. enc' = enc /\ pipe' = pipe
    BY <1>1, Zenon DEF ViewerAsksKeyframe, SetsQuality, encVars
  <2>2. /\ asked' \in {[asked EXCEPT !.key = TRUE], [asked EXCEPT !.rate = 2]}
        /\ stream' \in {[stream EXCEPT !.wants = TRUE], [stream EXCEPT !.rate = 2]}
    BY <1>1 DEF ViewerAsksKeyframe, SetsQuality
  <2>3. /\ asked' \in [key : BOOLEAN, rate : {0, 2}]
        /\ stream' \in [pic : Nat, nth : Nat, wants : BOOLEAN, rate : {1, 2}]
    BY <2>2 DEF PipeTypes
  <2> QED
    BY <1>0, <2>1, <2>3, Zenon DEF PipeTypes
<1>2. CASE SenderDropped \/ NothingToEncode
  <2>1. /\ enc' = enc /\ asked' = asked /\ stream' = stream
        /\ pipe' \in {[pipe EXCEPT !.at = "over"], [pipe EXCEPT !.at = "capture"]}
    BY <1>2 DEF SenderDropped, NothingToEncode, encVars, Ends
  <2>2. pipe' \in [at : PipeSteps, pending : Pics, last : Pics, cursor : Pointers \cup {"none"}]
    <3>1. pipe \in [at : PipeSteps, pending : Pics, last : Pics, cursor : Pointers \cup {"none"}]
      BY Zenon DEF PipeTypes
    <3> QED
      BY <2>1, <3>1, SMTT(30) DEF PipeSteps
  <2> QED
    BY <1>0, <2>1, <2>2, ZenonT(60) DEF PipeTypes
<1>3. CASE TakesEither
  <2>1. NoPic \in Pics
    BY DEF NoPic, Pics
  <2>2. pipe' \in [at : PipeSteps, pending : Pics, last : Pics, cursor : Pointers \cup {"none"}]
    <3>1. pipe \in [at : PipeSteps, pending : Pics, last : Pics, cursor : Pointers \cup {"none"}]
      BY Zenon DEF PipeTypes
    <3>2. pipe' = [pipe EXCEPT !.at = "encode",
                            !.pending = IF asked.key /\ pipe.pending = NoPic THEN pipe.last ELSE @,
                            !.last = IF asked.key /\ pipe.pending = NoPic THEN NoPic ELSE @]
      BY <1>3, TakesIs, Zenon
    <3>3. "encode" \in PipeSteps
      BY DEF PipeSteps
    <3> QED
      BY <2>1, <3>1, <3>2, <3>3
  <2>3. enc' \in [kind : {"none", "hw", "sw"}, device : Nat, software : BOOLEAN, force : BOOLEAN,
                  rate : {1, 2}, session : {1, 2}, refused : BOOLEAN, unsent : Nat]
    <3>1. PICK refused \in BOOLEAN :
            enc' = [enc EXCEPT !.force = @ \/ asked.key,
                              !.rate = IF asked.rate # 0 THEN asked.rate ELSE @,
                              !.session = IF asked.rate # 0 /\ enc.kind # "none" /\ ~refused
                                          THEN asked.rate ELSE @,
                              !.refused = IF asked.rate # 0 /\ enc.kind # "none"
                                          THEN refused ELSE @]
      BY <1>3, TakesIs, Zenon
    <3>2. /\ asked \in [key : BOOLEAN, rate : {0, 2}]
          /\ enc \in [kind : {"none", "hw", "sw"}, device : Nat, software : BOOLEAN, force : BOOLEAN,
                      rate : {1, 2}, session : {1, 2}, refused : BOOLEAN, unsent : Nat]
      BY Zenon DEF PipeTypes
    <3> QED
      BY <3>1, <3>2
  <2>4. asked' \in [key : BOOLEAN, rate : {0, 2}]
    BY <1>3, TakesIs DEF PipeTypes
  <2>5. stream' = stream
    BY <1>3, TakesIs
  <2> QED
    BY <1>0, <2>2, <2>3, <2>4, <2>5, Zenon DEF PipeTypes
<1> QED
  BY <1>1, <1>2, <1>3, Zenon DEF Commanded, TakesEither

LEMMA PipeTypesBinds == PipeTypes /\ Binds => PipeTypes'
PROOF
<1> SUFFICES ASSUME PipeTypes, Binds
             PROVE  PipeTypes'
  OBVIOUS
<1> DEFINE E == [kind : {"none", "hw", "sw"}, device : Nat, software : BOOLEAN, force : BOOLEAN,
                 rate : {1, 2}, session : {1, 2}, refused : BOOLEAN, unsent : Nat]
<1>1. Opened("hw") \in E /\ Opened("sw") \in E /\ [enc EXCEPT !.kind = "none", !.software = TRUE] \in E
  BY DEF PipeTypes, Opened, Pics
<1>2. /\ Ends \in [at : PipeSteps, pending : Pics, last : Pics, cursor : Pointers \cup {"none"}]
      /\ pipe' \in {pipe, Ends}
  BY PipeEnds DEF Binds, BindsHardware, BindsSoftware, NoEncoder
<1>3. enc' \in E
  BY <1>1, Zenon DEF Binds, BindsHardware, BindsSoftware, NoEncoder
<1>4. NewMft \in [inside : Seq(Inputs), outs : Seq(Inputs), fresh : BOOLEAN, key : BOOLEAN]
  <2>1. <<>> \in Seq(Inputs)
    OBVIOUS
  <2> QED
    BY <2>1 DEF NewMft
<1>5. mft' = NewMft \/ mft' = mft
  BY Zenon DEF Binds, BindsHardware, BindsSoftware, NoEncoder
<1>6. UNCHANGED <<asked, stream>> /\ spent' \in [turns : Nat, glitches : Nat, lates : Nat]
  BY BindsLeave, Zenon
<1>7. pipe' \in [at : PipeSteps, pending : Pics, last : Pics, cursor : Pointers \cup {"none"}]
  BY <1>2 DEF PipeTypes
<1> QED
  BY <1>3, <1>4, <1>5, <1>6, <1>7, Zenon DEF PipeTypes

\* What the steps of the encoder make of its queues, as numbers and elements.
LEMMA QueuesAre ==
    ASSUME PipeTypes, QueueInv
    PROVE  \E n \in Nat, m \in Nat :
              /\ Len(mft.outs) = n /\ DOMAIN mft.outs = 1 .. n
              /\ Len(mft.inside) = m /\ DOMAIN mft.inside = 1 .. m
              /\ enc.unsent = n + m
              /\ \A i \in 1 .. n : mft.outs[i] \in Inputs /\ mft.outs[i].nth = i
              /\ \A i \in 1 .. m : mft.inside[i] \in Inputs /\ mft.inside[i].nth = n + i
PROOF
<1> DEFINE n == Len(mft.outs) m == Len(mft.inside)
<1>1. mft.outs \in Seq(Inputs) /\ mft.inside \in Seq(Inputs)
  BY DEF PipeTypes
<1>2. n \in Nat /\ m \in Nat /\ DOMAIN mft.outs = 1 .. n /\ DOMAIN mft.inside = 1 .. m
  BY <1>1, LenProperties
<1>3. (\A i \in 1 .. n : mft.outs[i] \in Inputs) /\ (\A i \in 1 .. m : mft.inside[i] \in Inputs)
  BY <1>1, <1>2, ElementOfSeq
<1> QED
  BY <1>2, <1>3, Zenon DEF QueueInv

\* The two of the next state, from what its queues are.
LEMMA QueueIf ==
    ASSUME NEW n, NEW m, stream'.nth = 1, enc'.unsent = n + m,
           Len(mft'.outs) = n, DOMAIN mft'.outs = 1 .. n,
           Len(mft'.inside) = m, DOMAIN mft'.inside = 1 .. m,
           \A i \in 1 .. n : mft'.outs[i].nth = i,
           \A i \in 1 .. m : mft'.inside[i].nth = n + i
    PROVE  QueueInv'
PROOF BY Zenon DEF QueueInv

LEMMA RoomIf ==
    ASSUME NEW n, NEW m, NEW x, NEW y,
           Len(mft'.outs) = n, Len(mft'.inside) = m, DOMAIN mft'.inside = 1 .. m,
           x = (IF pipe'.at = "input" THEN 1 ELSE 0), y = (IF pipe'.at = "output" THEN 1 ELSE 0),
           spent'.lates <= LateBound, m <= Depth + LateBound, enc'.kind = "hw" => m <= Depth,
           enc'.kind = "sw" => n + m <= spent'.lates + y,
           enc'.kind = "hw" => \A i \in 1 .. m : mft'.inside[i].age + i = m + x,
           enc'.kind # "none"
    PROVE  RoomInv'
PROOF BY Zenon DEF RoomInv

\* The images of the elements under Aged and under Closer.
LEMMA AgedIs ==
    ASSUME NEW e \in Inputs
    PROVE  Aged(e) \in Inputs /\ Aged(e).nth = e.nth /\ Aged(e).age = e.age + 1
PROOF BY DEF Aged, Inputs

LEMMA CloserIs ==
    ASSUME NEW q \in Seq(Inputs), \A i \in DOMAIN q : q[i].nth # 0
    PROVE  /\ Closer(q) \in Seq(Inputs) /\ Len(Closer(q)) = Len(q) /\ DOMAIN Closer(q) = DOMAIN q
           /\ \A i \in DOMAIN q : Closer(q)[i].nth = q[i].nth - 1 /\ Closer(q)[i].age = q[i].age
PROOF
<1>1. \A i \in DOMAIN q : q[i] \in Inputs
  BY ElementOfSeq, LenProperties
<1>2. \A e \in Inputs : e.nth # 0 => /\ [e EXCEPT !.nth = @ - 1] \in Inputs
                                     /\ [e EXCEPT !.nth = @ - 1].nth = e.nth - 1
                                     /\ [e EXCEPT !.nth = @ - 1].age = e.age
  <2> TAKE e \in Inputs
  <2>1. e.nth # 0 => e.nth - 1 \in Nat
    BY DEF Inputs
  <2>2. \A k \in Nat : [e EXCEPT !.nth = k] \in Inputs /\ [e EXCEPT !.nth = k].nth = k
                        /\ [e EXCEPT !.nth = k].age = e.age
    BY DEF Inputs
  <2>3. [e EXCEPT !.nth = @ - 1] = [e EXCEPT !.nth = e.nth - 1]
    OBVIOUS
  <2> QED
    BY <2>1, <2>2, <2>3, Zenon
<1>3. \A i \in DOMAIN q : Closer(q)[i] = [q[i] EXCEPT !.nth = @ - 1]
  BY DEF Closer
<1>4. Closer(q) = [i \in DOMAIN q |-> Closer(q)[i]]
  BY DEF Closer
<1>5. \A i \in DOMAIN q : Closer(q)[i] \in Inputs /\ Closer(q)[i].nth = q[i].nth - 1
                          /\ Closer(q)[i].age = q[i].age
  BY <1>1, <1>2, <1>3, Zenon
<1>6. Closer(q) \in Seq(Inputs) /\ Len(Closer(q)) = Len(q) /\ DOMAIN Closer(q) = DOMAIN q
  BY <1>4, <1>5, EachIs
<1> QED
  BY <1>5, <1>6, Zenon

LEMMA FixedUnlessQueues ==
    ASSUME PipeTypes, Converts \/ ReadsBack
    PROVE  /\ enc' = [enc EXCEPT !.force = FALSE] /\ pipe' = [pipe EXCEPT !.at = "input"]
           /\ mft'.outs = mft.outs /\ stream' = stream /\ spent' = spent
           /\ mft' = [mft EXCEPT !.key = @ \/ enc.force, !.inside = mft'.inside]
           /\ Converts => mft'.inside = [i \in DOMAIN mft.inside |-> Aged(mft.inside[i])]
           /\ ReadsBack => mft'.inside = mft.inside
PROOF
<1>1. ASSUME NEW inside, Encoding(inside)
      PROVE  /\ enc' = [enc EXCEPT !.force = FALSE] /\ pipe' = [pipe EXCEPT !.at = "input"]
             /\ mft'.outs = mft.outs /\ stream' = stream /\ spent' = spent
             /\ mft' = [mft EXCEPT !.key = @ \/ enc.force, !.inside = mft'.inside]
             /\ mft'.inside = inside
  BY <1>1 DEF Encoding, PipeTypes
<1> QED
  BY <1>1, Zenon DEF Converts, ReadsBack

\* Converting turns the ring: everything inside is one texture older.
LEMMA QueuesConvert ==
    ScrInv /\ (Converts \/ ReadsBack) => PipeTypes' /\ QueueInv' /\ RoomInv'
PROOF
<1> SUFFICES ASSUME PipeTypes, QueueInv, RoomInv, Converts \/ ReadsBack
             PROVE  PipeTypes' /\ QueueInv' /\ RoomInv'
  BY DEF ScrInv
<1>1. PICK n \in Nat, m \in Nat :
              /\ Len(mft.outs) = n /\ DOMAIN mft.outs = 1 .. n
              /\ Len(mft.inside) = m /\ DOMAIN mft.inside = 1 .. m
              /\ enc.unsent = n + m
              /\ \A i \in 1 .. n : mft.outs[i] \in Inputs /\ mft.outs[i].nth = i
              /\ \A i \in 1 .. m : mft.inside[i] \in Inputs /\ mft.inside[i].nth = n + i
  BY QueuesAre
<1>2. /\ enc' = [enc EXCEPT !.force = FALSE] /\ pipe' = [pipe EXCEPT !.at = "input"]
      /\ mft'.outs = mft.outs /\ stream' = stream /\ spent' = spent
      /\ mft' = [mft EXCEPT !.key = @ \/ enc.force, !.inside = mft'.inside]
      /\ Converts => mft'.inside = [i \in DOMAIN mft.inside |-> Aged(mft.inside[i])]
      /\ ReadsBack => mft'.inside = mft.inside
  BY FixedUnlessQueues
<1>3. asked' = asked
  BY EncodesLeave, Zenon DEF Encodes
<1>4. /\ enc'.kind = enc.kind /\ enc'.unsent = enc.unsent /\ pipe'.at = "input"
      /\ enc' \in [kind : {"none", "hw", "sw"}, device : Nat, software : BOOLEAN, force : BOOLEAN,
                   rate : {1, 2}, session : {1, 2}, refused : BOOLEAN, unsent : Nat]
      /\ pipe' \in [at : PipeSteps, pending : Pics, last : Pics, cursor : Pointers \cup {"none"}]
  BY <1>2 DEF PipeTypes, PipeSteps
<1>5. pipe.at = "encode" /\ (Converts => enc.kind = "hw") /\ (ReadsBack => enc.kind = "sw")
  BY Zenon DEF Converts, ReadsBack, Bound
<1>6. /\ mft'.inside \in Seq(Inputs) /\ Len(mft'.inside) = m /\ DOMAIN mft'.inside = 1 .. m
      /\ \A i \in 1 .. m : mft'.inside[i].nth = n + i
      /\ Converts => \A i \in 1 .. m : mft'.inside[i].age = mft.inside[i].age + 1
  <2>1. mft.inside \in Seq(Inputs)
    BY DEF PipeTypes
  <2>2. CASE Converts
    <3> DEFINE f == mft'.inside
    <3>1. f = [i \in DOMAIN mft.inside |-> Aged(mft.inside[i])]
      BY <1>2, <2>2
    <3>2. \A i \in 1 .. m : f[i] = Aged(mft.inside[i])
      BY <1>1, <3>1
    <3>3. \A i \in 1 .. m : f[i] \in Inputs /\ f[i].nth = mft.inside[i].nth
                            /\ f[i].age = mft.inside[i].age + 1
      BY <1>1, <3>2, AgedIs, ZenonT(60)
    <3>4. f = [i \in DOMAIN mft.inside |-> f[i]]
      BY <3>1
    <3> HIDE DEF f
    <3>5. f \in Seq(Inputs) /\ Len(f) = Len(mft.inside) /\ DOMAIN f = DOMAIN mft.inside
      BY <1>1, <2>1, <3>3, <3>4, EachIs
    <3>6. \A i \in 1 .. m : f[i].nth = n + i
      BY <1>1, <3>3, Zenon
    <3> QED
      BY <1>1, <3>3, <3>5, <3>6, Zenon DEF f
  <2>3. CASE ~Converts /\ ReadsBack
    BY <1>1, <1>2, <2>1, <2>3, Zenon
  <2> QED
    BY <2>2, <2>3, Zenon
<1>7. PipeTypes'
  <2>1. (mft.key \/ enc.force) \in BOOLEAN
    BY DEF PipeTypes
  <2>2. /\ mft \in [inside : Seq(Inputs), outs : Seq(Inputs), fresh : BOOLEAN, key : BOOLEAN]
        /\ mft' = [mft EXCEPT !.key = mft.key \/ enc.force, !.inside = mft'.inside]
    BY <1>2 DEF PipeTypes
  <2> DEFINE Q == Seq(Inputs) f == mft'.inside
  <2>3. mft' \in [inside : Q, outs : Q, fresh : BOOLEAN, key : BOOLEAN]
    <3>1. f \in Q /\ mft \in [inside : Q, outs : Q, fresh : BOOLEAN, key : BOOLEAN]
          /\ mft' = [mft EXCEPT !.key = mft.key \/ enc.force, !.inside = f]
      BY <1>6, <2>2
    <3> HIDE DEF Q, f
    <3> QED
      BY <2>1, <3>1
  <2>4. /\ stream' \in [pic : Nat, nth : Nat, wants : BOOLEAN, rate : {1, 2}]
        /\ spent' \in [turns : Nat, glitches : Nat, lates : Nat]
        /\ asked' \in [key : BOOLEAN, rate : {0, 2}]
    BY <1>2, <1>3 DEF PipeTypes
  <2> QED
    BY <1>4, <2>3, <2>4, Zenon DEF PipeTypes
<1>8. QueueInv'
  <2>1. stream'.nth = 1 /\ enc'.unsent = n + m
    BY <1>1, <1>2, <1>4 DEF QueueInv
  <2>2. Len(mft'.outs) = n /\ DOMAIN mft'.outs = 1 .. n /\ \A i \in 1 .. n : mft'.outs[i].nth = i
    BY <1>1, <1>2, Zenon
  <2> QED
    BY <1>6, <2>1, <2>2, QueueIf, Zenon
<1>9. RoomInv'
  <2>1. /\ spent.lates \in Nat /\ spent.lates <= LateBound /\ m <= Depth + LateBound
        /\ enc.kind = "hw" => m <= Depth
    BY <1>1 DEF RoomInv, PipeTypes
  <2>2. enc.kind = "sw" => n + m <= spent.lates + 0
    BY <1>1, <1>5, Zenon DEF RoomInv
  <2>3. ASSUME enc.kind = "hw", NEW i \in 1 .. m
        PROVE  mft'.inside[i].age + i = m + 1
    <3>1. mft.inside[i].age + i = m + 0
      BY <1>1, <1>5, <2>3, Zenon DEF RoomInv
    <3>2. mft'.inside[i].age = mft.inside[i].age + 1
      BY <1>5, <1>6, <2>3
    <3>3. mft.inside[i].age \in Nat /\ i \in Nat
      BY <1>1 DEF Inputs
    <3> QED
      BY <3>1, <3>2, <3>3
  <2>4. /\ 1 = (IF pipe'.at = "input" THEN 1 ELSE 0) /\ 0 = (IF pipe'.at = "output" THEN 1 ELSE 0)
        /\ enc'.kind # "none" /\ spent'.lates = spent.lates
    BY <1>2, <1>4, <1>5
  <2>5. Len(mft'.outs) = n /\ Len(mft'.inside) = m /\ DOMAIN mft'.inside = 1 .. m
    BY <1>1, <1>2, <1>6, Zenon
  <2>6. /\ spent'.lates <= LateBound /\ (enc'.kind = "hw" => m <= Depth)
        /\ (enc'.kind = "sw" => n + m <= spent'.lates + 0)
        /\ (enc'.kind = "hw" => \A i \in 1 .. m : mft'.inside[i].age + i = m + 1)
    BY <1>4, <2>1, <2>2, <2>3, <2>4, Zenon
  <2> QED
    BY <2>1, <2>4, <2>5, <2>6, RoomIf, Zenon
<1> QED
  BY <1>7, <1>8, <1>9

\* What goes in is the newest, its number the next.
LEMMA QueuesGive ==
    ScrInv /\ (GivesHardware \/ GivesSoftware) => PipeTypes' /\ QueueInv' /\ RoomInv'
PROOF
<1> SUFFICES ASSUME PipeTypes, QueueInv, RoomInv, GivesHardware \/ GivesSoftware
             PROVE  PipeTypes' /\ QueueInv' /\ RoomInv'
  BY DEF ScrInv
<1>1. PICK n \in Nat, m \in Nat :
              /\ Len(mft.outs) = n /\ DOMAIN mft.outs = 1 .. n
              /\ Len(mft.inside) = m /\ DOMAIN mft.inside = 1 .. m
              /\ enc.unsent = n + m
              /\ \A i \in 1 .. n : mft.outs[i] \in Inputs /\ mft.outs[i].nth = i
              /\ \A i \in 1 .. m : mft.inside[i] \in Inputs /\ mft.inside[i].nth = n + i
  BY QueuesAre
<1> DEFINE f == Append(mft.inside, Input)
<1>2. /\ pipe.at = "input" /\ enc' = [enc EXCEPT !.unsent = @ + 1]
      /\ mft' = [mft EXCEPT !.inside = f, !.fresh = FALSE, !.key = FALSE]
      /\ pipe' = [pipe EXCEPT !.at = "output"]
      /\ stream' = stream /\ spent' = spent /\ asked' = asked
  BY DEF GivesHardware, GivesSoftware, ProcessInput
<1>a. enc.unsent \in Nat /\ enc.unsent + 1 = n + m + 1 /\ enc.unsent + 1 \in Nat
  BY <1>1
<1>3. /\ enc'.kind = enc.kind /\ enc'.unsent = n + m + 1 /\ pipe'.at = "output"
      /\ enc' \in [kind : {"none", "hw", "sw"}, device : Nat, software : BOOLEAN, force : BOOLEAN,
                   rate : {1, 2}, session : {1, 2}, refused : BOOLEAN, unsent : Nat]
      /\ pipe' \in [at : PipeSteps, pending : Pics, last : Pics, cursor : Pointers \cup {"none"}]
  BY <1>2, <1>a DEF PipeTypes, PipeSteps
<1>4. Input \in Inputs /\ Input.age = 0 /\ Input.nth = n + (m + 1)
  BY <1>1 DEF Input, Inputs, PipeTypes, Pics
<1>5. /\ f \in Seq(Inputs) /\ Len(f) = m + 1 /\ DOMAIN f = 1 .. m + 1 /\ f[m + 1] = Input
      /\ \A i \in 1 .. m : f[i] = mft.inside[i]
  <2>1. mft.inside \in Seq(Inputs)
    BY DEF PipeTypes
  <2>2. Input \in Inputs
    BY <1>4
  <2>3. ASSUME NEW q \in Seq(Inputs), NEW x \in Inputs
        PROVE  \E k \in Nat : /\ Len(q) = k /\ DOMAIN q = 1 .. k
                              /\ Append(q, x) \in Seq(Inputs) /\ Len(Append(q, x)) = k + 1
                              /\ DOMAIN Append(q, x) = 1 .. k + 1 /\ Append(q, x)[k + 1] = x
                              /\ \A i \in 1 .. k : Append(q, x)[i] = q[i]
    <3>1. Len(q) \in Nat /\ Len(q) = Len(q) /\ DOMAIN q = 1 .. Len(q)
      BY LenProperties
    <3>2. /\ Append(q, x) \in Seq(Inputs) /\ Len(Append(q, x)) = Len(q) + 1
          /\ DOMAIN Append(q, x) = 1 .. Len(q) + 1 /\ Append(q, x)[Len(q) + 1] = x
          /\ \A i \in 1 .. Len(q) : Append(q, x)[i] = q[i]
      BY AppendProperties, LenProperties
    <3> QED
      BY <3>1, <3>2, Zenon
  <2>4. \E k \in Nat : /\ Len(mft.inside) = k /\ DOMAIN mft.inside = 1 .. k
                       /\ f \in Seq(Inputs) /\ Len(f) = k + 1
                       /\ DOMAIN f = 1 .. k + 1 /\ f[k + 1] = Input
                       /\ \A i \in 1 .. k : f[i] = mft.inside[i]
    BY <2>1, <2>2, <2>3, Zenon
  <2>5. PICK k \in Nat : /\ Len(mft.inside) = k /\ DOMAIN mft.inside = 1 .. k
                         /\ f \in Seq(Inputs) /\ Len(f) = k + 1
                         /\ DOMAIN f = 1 .. k + 1 /\ f[k + 1] = Input
                         /\ \A i \in 1 .. k : f[i] = mft.inside[i]
    BY <2>4, Zenon
  <2> QED
    BY <1>1, <2>5, Zenon
<1> HIDE DEF f
<1>6. mft'.inside = f /\ mft'.outs = mft.outs
  BY <1>2 DEF PipeTypes
<1>7. \A i \in 1 .. m + 1 : i \in 1 .. m \/ i = m + 1
  OBVIOUS
<1>8. PipeTypes'
  <2> DEFINE Q == Seq(Inputs)
  <2>1. mft' \in [inside : Q, outs : Q, fresh : BOOLEAN, key : BOOLEAN]
    <3>1. f \in Q /\ mft \in [inside : Q, outs : Q, fresh : BOOLEAN, key : BOOLEAN]
      BY <1>5 DEF PipeTypes
    <3> HIDE DEF Q
    <3> QED
      BY <1>2, <3>1
  <2>2. /\ stream' \in [pic : Nat, nth : Nat, wants : BOOLEAN, rate : {1, 2}]
        /\ spent' \in [turns : Nat, glitches : Nat, lates : Nat]
        /\ asked' \in [key : BOOLEAN, rate : {0, 2}]
    BY <1>2 DEF PipeTypes
  <2> QED
    BY <1>3, <2>1, <2>2, Zenon DEF PipeTypes
<1>9. QueueInv'
  <2>1. \A i \in 1 .. m + 1 : f[i].nth = n + i
    BY <1>1, <1>4, <1>5, <1>7, Zenon
  <2>2. stream'.nth = 1
    BY <1>2 DEF QueueInv
  <2>3. enc'.unsent = n + (m + 1)
    BY <1>3
  <2>4. /\ Len(mft'.outs) = n /\ DOMAIN mft'.outs = 1 .. n /\ \A i \in 1 .. n : mft'.outs[i].nth = i
        /\ Len(mft'.inside) = m + 1 /\ DOMAIN mft'.inside = 1 .. m + 1
        /\ \A i \in 1 .. m + 1 : mft'.inside[i].nth = n + i
    BY <1>1, <1>5, <1>6, <2>1, Zenon
  <2> QED
    BY <2>2, <2>3, <2>4, QueueIf, Zenon
<1>10. RoomInv'
  <2>1. spent.lates \in Nat /\ spent.lates <= LateBound /\ spent' = spent
    BY <1>2 DEF RoomInv, PipeTypes
  <2>4. 0 = (IF pipe'.at = "input" THEN 1 ELSE 0) /\ 1 = (IF pipe'.at = "output" THEN 1 ELSE 0)
    BY <1>3
  <2>5. Len(mft'.outs) = n /\ Len(mft'.inside) = m + 1 /\ DOMAIN mft'.inside = 1 .. m + 1
    BY <1>1, <1>5, <1>6, Zenon
  <2>2. CASE GivesHardware
    <3>1. enc.kind = "hw" /\ m < Depth
      BY <1>1, <2>2 DEF GivesHardware
    <3>2. m + 1 <= Depth /\ m + 1 <= Depth + LateBound
      BY <3>1, RingAssumption, ScrAssumption
    <3>3. ASSUME NEW i \in 1 .. m + 1
          PROVE  f[i].age + i = m + 1 + 0
      <4>1. CASE i \in 1 .. m
        <5>1. mft.inside[i].age + i = m + 1
          BY <1>1, <1>2, <3>1, <4>1, Zenon DEF RoomInv
        <5>2. f[i].age + i = m + 1
          BY <1>5, <4>1, <5>1, Zenon
        <5> QED
          BY <5>2
      <4>2. CASE i = m + 1
        BY <1>4, <1>5, <4>2
      <4> QED
        BY <1>7, <4>1, <4>2, Zenon
    <3>4. enc'.kind = "hw" /\ "hw" # "sw" /\ "hw" # "none"
      BY <1>3, <3>1
    <3>5. \A i \in 1 .. m + 1 : mft'.inside[i].age + i = m + 1 + 0
      BY <1>6, <3>3, Zenon
    <3> QED
      BY <2>1, <2>4, <2>5, <3>2, <3>4, <3>5, RoomIf, Zenon
  <2>3. CASE GivesSoftware
    <3>1. enc.kind = "sw" /\ "sw" # "hw" /\ "sw" # "none"
      BY <2>3 DEF GivesSoftware
    <3>2. n + m <= spent.lates + 0
      <4>1. "input" # "output" /\ "input" # "over"
        OBVIOUS
      <4> QED
        BY <1>1, <1>2, <3>1, <4>1, Zenon DEF RoomInv
    <3>3. n + (m + 1) <= spent.lates + 1 /\ m + 1 <= Depth + LateBound
      BY <2>1, <3>2, RingAssumption, ScrAssumption
    <3> QED
      BY <1>3, <2>1, <2>4, <2>5, <3>1, <3>3, RoomIf, Zenon
  <2> QED
    BY <2>2, <2>3
<1> QED
  BY <1>8, <1>9, <1>10

\* What comes out goes from the one queue to the other, ...
LEMMA QueuesPass ==
    ScrInv /\ (PumpPasses \/ CollectsOutput) => PipeTypes' /\ QueueInv' /\ RoomInv'
PROOF
<1> SUFFICES ASSUME PipeTypes, QueueInv, RoomInv, PumpPasses \/ CollectsOutput
             PROVE  PipeTypes' /\ QueueInv' /\ RoomInv'
  BY DEF ScrInv
<1>1. PICK n \in Nat, k \in Nat :
              /\ Len(mft.outs) = n /\ DOMAIN mft.outs = 1 .. n
              /\ Len(mft.inside) = k /\ DOMAIN mft.inside = 1 .. k
              /\ enc.unsent = n + k
              /\ \A i \in 1 .. n : mft.outs[i] \in Inputs /\ mft.outs[i].nth = i
              /\ \A i \in 1 .. k : mft.inside[i] \in Inputs /\ mft.inside[i].nth = n + i
  BY QueuesAre
<1> DEFINE t == Tail(mft.inside) f == Append(mft.outs, Head(mft.inside))
<1>2. /\ pipe.at # "over" /\ mft.inside # <<>>
      /\ mft' = [mft EXCEPT !.inside = t, !.outs = f]
      /\ enc' = enc /\ pipe' = pipe /\ stream' = stream /\ spent' = spent /\ asked' = asked
  BY DEF PumpPasses, CollectsOutput, EncoderDone
<1>3. enc.kind \in {"hw", "sw"}
  BY DEF PumpPasses, CollectsOutput
<1>4. mft.inside \in Seq(Inputs) /\ mft.outs \in Seq(Inputs)
  BY DEF PipeTypes
<1>5. PICK m \in Nat : /\ Len(mft.inside) = m + 1 /\ DOMAIN mft.inside = 1 .. m + 1
                       /\ Tail(mft.inside) \in Seq(Inputs) /\ Len(Tail(mft.inside)) = m
                       /\ DOMAIN Tail(mft.inside) = 1 .. m
                       /\ \A i \in 1 .. m : Tail(mft.inside)[i] = mft.inside[i + 1]
  <2> HIDE DEF t, f
  <2> QED
    BY <1>2, <1>4, TailIs, SMTT(60)
<1>6. Head(mft.inside) = mft.inside[1] /\ Head(mft.inside) \in Inputs
  <2> HIDE DEF t, f
  <2> QED
    BY <1>2, <1>4, TailIs, SMTT(60)
<1>7. /\ f \in Seq(Inputs) /\ Len(f) = n + 1 /\ DOMAIN f = 1 .. n + 1 /\ f[n + 1] = Head(mft.inside)
      /\ \A i \in 1 .. n : f[i] = mft.outs[i]
  <2> DEFINE h == Head(mft.inside)
  <2> HIDE DEF f, h
  <2>1. PICK j \in Nat : /\ Len(mft.outs) = j /\ DOMAIN mft.outs = 1 .. j
                         /\ Append(mft.outs, h) \in Seq(Inputs) /\ Len(Append(mft.outs, h)) = j + 1
                         /\ DOMAIN Append(mft.outs, h) = 1 .. j + 1 /\ Append(mft.outs, h)[j + 1] = h
                         /\ \A i \in 1 .. j : Append(mft.outs, h)[i] = mft.outs[i]
    <3>1. h \in Inputs
      BY <1>6 DEF h
    <3> QED
      BY <1>4, <3>1, AppendIs, SMTT(60)
  <2> QED
    BY <1>1, <2>1, Zenon DEF f, h
<1> HIDE DEF t, f
<1>8. mft'.inside = t /\ mft'.outs = f
  BY <1>2 DEF PipeTypes
<1>9. k = m + 1 /\ Len(t) = m /\ DOMAIN t = 1 .. m /\ t \in Seq(Inputs)
      /\ \A i \in 1 .. m : t[i] = mft.inside[i + 1]
  BY <1>1, <1>5, Zenon DEF t
<1>10. /\ \A i \in 1 .. n + 1 : i \in 1 .. n \/ i = n + 1
       /\ \A i \in 1 .. m : i + 1 \in 1 .. k
       /\ 1 \in 1 .. k
  BY <1>9
<1>11. PipeTypes'
  <2> DEFINE Q == Seq(Inputs)
  <2>1. mft' \in [inside : Q, outs : Q, fresh : BOOLEAN, key : BOOLEAN]
    <3>1. f \in Q /\ t \in Q /\ mft \in [inside : Q, outs : Q, fresh : BOOLEAN, key : BOOLEAN]
      BY <1>7, <1>9 DEF PipeTypes
    <3> HIDE DEF Q
    <3> QED
      BY <1>2, <3>1
  <2> QED
    BY <1>2, <2>1, ZenonT(60) DEF PipeTypes
<1>12. QueueInv'
  <2>1. stream'.nth = 1 /\ enc'.unsent = (n + 1) + m
    <3>1. enc'.unsent = n + (m + 1)
      BY <1>1, <1>2, <1>9
    <3> QED
      BY <1>2, <3>1 DEF QueueInv
  <2>2. \A i \in 1 .. n + 1 : mft'.outs[i].nth = i
    <3>1. Head(mft.inside).nth = n + 1
      BY <1>1, <1>6, <1>10, Zenon
    <3> QED
      BY <1>1, <1>7, <1>8, <1>10, <3>1, Zenon
  <2>3. \A i \in 1 .. m : mft'.inside[i].nth = (n + 1) + i
    <3>1. \A i \in 1 .. m : mft'.inside[i].nth = n + (i + 1)
      BY <1>1, <1>8, <1>9, <1>10, Zenon
    <3>2. \A i \in 1 .. m : n + (i + 1) = (n + 1) + i
      OBVIOUS
    <3> QED
      BY <3>1, <3>2, Zenon
  <2>4. Len(mft'.outs) = n + 1 /\ DOMAIN mft'.outs = 1 .. n + 1 /\ Len(mft'.inside) = m
        /\ DOMAIN mft'.inside = 1 .. m
    BY <1>7, <1>8, <1>9, Zenon
  <2> QED
    BY <2>1, <2>2, <2>3, <2>4, QueueIf, Zenon
<1>13. RoomInv'
  <2> DEFINE x == IF pipe.at = "input" THEN 1 ELSE 0 y == IF pipe.at = "output" THEN 1 ELSE 0
  <2>0. x \in Nat /\ y \in Nat /\ x = (IF pipe'.at = "input" THEN 1 ELSE 0)
        /\ y = (IF pipe'.at = "output" THEN 1 ELSE 0)
    BY <1>2
  <2>1. /\ spent'.lates <= LateBound /\ k <= Depth + LateBound /\ (enc.kind = "hw" => k <= Depth)
        /\ (enc.kind = "sw" => n + k <= spent'.lates + y)
    BY <1>1, <1>2, Zenon DEF RoomInv
  <2>2. \A i \in 1 .. k : enc.kind = "hw" => mft.inside[i].age + i = k + x
    BY <1>1, <1>2, Zenon DEF RoomInv
  <2> HIDE DEF x, y
  <2>3. m <= Depth + LateBound /\ (enc'.kind = "hw" => m <= Depth)
    BY <1>2, <1>9, <2>1, RingAssumption, ScrAssumption
  <2>4. enc'.kind = "sw" => (n + 1) + m <= spent'.lates + y
    <3>1. n + (m + 1) = (n + 1) + m
      OBVIOUS
    <3> QED
      BY <1>2, <1>9, <2>1, <3>1, Zenon
  <2>5. ASSUME enc'.kind = "hw", NEW i \in 1 .. m
        PROVE  mft'.inside[i].age + i = m + x
    <3>1. mft.inside[i + 1].age + (i + 1) = (m + 1) + x
      BY <1>2, <1>9, <1>10, <2>2, <2>5, Zenon
    <3>2. mft.inside[i + 1] \in Inputs
      BY <1>1, <1>10, Zenon
    <3>3. mft.inside[i + 1].age \in Nat
      BY <3>2 DEF Inputs
    <3>4. mft.inside[i + 1].age + i = m + x
      BY <2>0, <3>1, <3>3
    <3> QED
      BY <1>8, <1>9, <3>4, Zenon
  <2>6. Len(mft'.outs) = n + 1 /\ Len(mft'.inside) = m /\ DOMAIN mft'.inside = 1 .. m
    BY <1>7, <1>8, <1>9, Zenon
  <2>7. enc'.kind # "none" /\ spent'.lates <= LateBound
    BY <1>2, <1>3, <2>1
  <2> QED
    BY <2>0, <2>3, <2>4, <2>5, <2>6, <2>7, RoomIf, Zenon
<1> QED
  BY <1>11, <1>12, <1>13

\* ... and what is sent is the first of it, so that each of the others is one closer.
LEMMA QueuesReturn ==
    ScrInv /\ ReturnsOutput => PipeTypes' /\ QueueInv' /\ RoomInv'
PROOF
<1> SUFFICES ASSUME PipeTypes, PicInv, QueueInv, RoomInv, ReturnsOutput
             PROVE  PipeTypes' /\ QueueInv' /\ RoomInv'
  BY DEF ScrInv
<1>1. PICK k \in Nat, m \in Nat :
              /\ Len(mft.outs) = k /\ DOMAIN mft.outs = 1 .. k
              /\ Len(mft.inside) = m /\ DOMAIN mft.inside = 1 .. m
              /\ enc.unsent = k + m
              /\ \A i \in 1 .. k : mft.outs[i] \in Inputs /\ mft.outs[i].nth = i
              /\ \A i \in 1 .. m : mft.inside[i] \in Inputs /\ mft.inside[i].nth = k + i
  BY QueuesAre
<1> DEFINE h == Head(mft.outs) t == Tail(mft.outs) f == Closer(t) g == Closer(mft.inside)
<1>2. /\ pipe.at = "output" /\ mft.outs # <<>>
      /\ mft' = [mft EXCEPT !.outs = f, !.inside = g]
      /\ enc' = [enc EXCEPT !.unsent = @ - 1] /\ pipe' = Kept
      /\ stream' = [stream EXCEPT !.pic = h.pic, !.nth = h.nth, !.wants = @ /\ ~h.key]
      /\ spent' = spent /\ asked' = asked
  BY DEF ReturnsOutput, Popped, Sends
<1>3. mft.inside \in Seq(Inputs) /\ mft.outs \in Seq(Inputs)
  BY DEF PipeTypes
<1>4. PICK n \in Nat : /\ Len(mft.outs) = n + 1 /\ DOMAIN mft.outs = 1 .. n + 1
                       /\ Tail(mft.outs) \in Seq(Inputs) /\ Len(Tail(mft.outs)) = n
                       /\ DOMAIN Tail(mft.outs) = 1 .. n
                       /\ \A i \in 1 .. n : Tail(mft.outs)[i] = mft.outs[i + 1]
  <2> HIDE DEF h, t, f, g
  <2> QED
    BY <1>2, <1>3, TailIs, SMTT(60)
<1>5. h = mft.outs[1] /\ h \in Inputs
  <2>1. Head(mft.outs) = mft.outs[1] /\ Head(mft.outs) \in Inputs
    <3> HIDE DEF h, t, f, g
    <3> QED
      BY <1>2, <1>3, TailIs, SMTT(60)
  <2> QED
    BY <2>1
<1>6. k = n + 1 /\ t \in Seq(Inputs) /\ Len(t) = n /\ DOMAIN t = 1 .. n
      /\ \A i \in 1 .. n : t[i] = mft.outs[i + 1]
  BY <1>1, <1>4, Zenon
<1>7. 1 \in 1 .. k /\ \A i \in 1 .. n : i + 1 \in 1 .. k
  BY <1>6
<1> HIDE DEF h, t
<1>b. \A i \in 1 .. n : (i + 1) - 1 = i
  OBVIOUS
<1>c. \A i \in 1 .. m : (k + i) - 1 = n + i
  BY <1>6
<1>d. DOMAIN t = 1 .. n /\ DOMAIN mft.inside = 1 .. m
  BY <1>1, <1>6, Zenon
<1>e. \A i \in 1 .. m : mft.inside[i].nth = k + i
  BY <1>1, Zenon
<1>8. h.nth = 1
  BY <1>1, <1>5, <1>7, Zenon
<1>9. \A i \in 1 .. n : t[i].nth = i + 1
  BY <1>1, <1>6, <1>7, Zenon
<1>10. /\ f \in Seq(Inputs) /\ Len(f) = n /\ DOMAIN f = 1 .. n
       /\ \A i \in 1 .. n : f[i].nth = t[i].nth - 1
  <2>1. \A i \in DOMAIN t : t[i].nth # 0
    BY <1>9, <1>d
  <2>2. /\ Closer(t) \in Seq(Inputs) /\ Len(Closer(t)) = Len(t) /\ DOMAIN Closer(t) = DOMAIN t
        /\ \A i \in DOMAIN t : Closer(t)[i].nth = t[i].nth - 1 /\ Closer(t)[i].age = t[i].age
    <3> HIDE DEF f, g
    <3> QED
      BY <1>6, <2>1, CloserIs
  <2> QED
    BY <1>6, <2>2, Zenon
<1>11. /\ g \in Seq(Inputs) /\ Len(g) = m /\ DOMAIN g = 1 .. m
       /\ \A i \in 1 .. m : g[i].nth = mft.inside[i].nth - 1 /\ g[i].age = mft.inside[i].age
  <2> DEFINE q == mft.inside
  <2>1. \A i \in DOMAIN q : q[i].nth # 0
    BY <1>d, <1>e
  <2>2. /\ Closer(q) \in Seq(Inputs) /\ Len(Closer(q)) = Len(q) /\ DOMAIN Closer(q) = DOMAIN q
        /\ \A i \in DOMAIN q : Closer(q)[i].nth = q[i].nth - 1 /\ Closer(q)[i].age = q[i].age
    <3>1. q \in Seq(Inputs)
      BY <1>3
    <3> HIDE DEF f, g, q
    <3> QED
      BY <2>1, <3>1, CloserIs
  <2> QED
    BY <1>1, <2>2, Zenon
<1> HIDE DEF f, g
<1>12. mft'.inside = g /\ mft'.outs = f
  BY <1>2 DEF PipeTypes
<1>13. enc.unsent - 1 = n + m /\ enc.unsent - 1 \in Nat
  BY <1>1, <1>6
<1>14. /\ enc'.kind = enc.kind /\ enc'.unsent = n + m
       /\ enc' \in [kind : {"none", "hw", "sw"}, device : Nat, software : BOOLEAN, force : BOOLEAN,
                    rate : {1, 2}, session : {1, 2}, refused : BOOLEAN, unsent : Nat]
  BY <1>2, <1>13 DEF PipeTypes
<1>15. /\ pipe'.at = "capture"
       /\ pipe' \in [at : PipeSteps, pending : Pics, last : Pics, cursor : Pointers \cup {"none"}]
  <2>1. NoPic \in Pics
    BY DEF NoPic, Pics
  <2> QED
    BY <1>2, <2>1 DEF Kept, PipeTypes, PipeSteps
<1>16. PipeTypes'
  <2> DEFINE Q == Seq(Inputs)
  <2>1. mft' \in [inside : Q, outs : Q, fresh : BOOLEAN, key : BOOLEAN]
    <3>1. f \in Q /\ g \in Q /\ mft \in [inside : Q, outs : Q, fresh : BOOLEAN, key : BOOLEAN]
      BY <1>10, <1>11 DEF PipeTypes
    <3> HIDE DEF Q
    <3> QED
      BY <1>2, <3>1
  <2>2. stream' \in [pic : Nat, nth : Nat, wants : BOOLEAN, rate : {1, 2}]
    BY <1>2, <1>5 DEF PipeTypes, Inputs
  <2> QED
    BY <1>2, <1>14, <1>15, <2>1, <2>2, Zenon DEF PipeTypes
<1>17. QueueInv'
  <2>1. stream'.nth = 1
    BY <1>2, <1>8 DEF PipeTypes
  <2>2. \A i \in 1 .. n : mft'.outs[i].nth = i
    BY <1>9, <1>10, <1>12, <1>b, Zenon
  <2>3. \A i \in 1 .. m : mft'.inside[i].nth = n + i
    BY <1>11, <1>12, <1>c, <1>e, Zenon
  <2>4. Len(mft'.outs) = n /\ DOMAIN mft'.outs = 1 .. n /\ Len(mft'.inside) = m
        /\ DOMAIN mft'.inside = 1 .. m
    BY <1>10, <1>11, <1>12, Zenon
  <2> QED
    BY <1>14, <2>1, <2>2, <2>3, <2>4, QueueIf, Zenon
<1>18. RoomInv'
  <2>0. 0 = (IF pipe'.at = "input" THEN 1 ELSE 0) /\ 0 = (IF pipe'.at = "output" THEN 1 ELSE 0)
    BY <1>15
  <2>1. "output" # "over" /\ "output" # "input"
    OBVIOUS
  <2>2. /\ spent.lates <= LateBound /\ m <= Depth + LateBound /\ (enc.kind = "hw" => m <= Depth)
        /\ (enc.kind = "sw" => k + m <= spent.lates + 1)
        /\ enc.kind = "hw" => \A i \in 1 .. m : mft.inside[i].age + i = m + 0
    BY <1>1, <1>2, <2>1, Zenon DEF RoomInv
  <2>3. enc'.kind # "none"
    BY <1>2, <1>14 DEF PicInv
  <2>4. enc'.kind = "sw" => n + m <= spent'.lates + 0
    <3>1. spent.lates \in Nat
      BY DEF PipeTypes
    <3>2. k + m <= spent.lates + 1 => n + m <= spent.lates + 0
      BY <1>6, <3>1
    <3> QED
      BY <1>2, <1>14, <2>2, <3>2, Zenon
  <2>5. enc'.kind = "hw" => \A i \in 1 .. m : mft'.inside[i].age + i = m + 0
    BY <1>11, <1>12, <1>14, <2>2, Zenon
  <2>6. /\ Len(mft'.outs) = n /\ Len(mft'.inside) = m /\ DOMAIN mft'.inside = 1 .. m
        /\ spent'.lates <= LateBound /\ (enc'.kind = "hw" => m <= Depth)
    BY <1>2, <1>10, <1>11, <1>12, <1>14, <2>2, Zenon
  <2> QED
    BY <2>0, <2>2, <2>3, <2>4, <2>5, <2>6, RoomIf, Zenon
<1> QED
  BY <1>16, <1>17, <1>18

\* A frame that brings no output out leaves one more behind.
LEMMA QueuesWait ==
    ScrInv /\ (OutputLate \/ HeldBack) => PipeTypes' /\ QueueInv' /\ RoomInv'
PROOF
<1> SUFFICES ASSUME PipeTypes, QueueInv, RoomInv, OutputLate \/ HeldBack
             PROVE  PipeTypes' /\ QueueInv' /\ RoomInv'
  BY DEF ScrInv
<1>1. PICK n \in Nat, m \in Nat :
              /\ Len(mft.outs) = n /\ DOMAIN mft.outs = 1 .. n
              /\ Len(mft.inside) = m /\ DOMAIN mft.inside = 1 .. m
              /\ enc.unsent = n + m
              /\ \A i \in 1 .. n : mft.outs[i] \in Inputs /\ mft.outs[i].nth = i
              /\ \A i \in 1 .. m : mft.inside[i] \in Inputs /\ mft.inside[i].nth = n + i
  BY QueuesAre
<1>2. /\ pipe.at = "output" /\ spent.lates < LateBound /\ spent' = [spent EXCEPT !.lates = @ + 1]
      /\ pipe' = Kept /\ enc' = enc /\ mft' = mft /\ stream' = stream /\ asked' = asked
  BY DEF OutputLate, HeldBack, ReturnsNothing, encVars
<1>3. enc.kind \in {"hw", "sw"}
  BY DEF OutputLate, HeldBack
<1>4. /\ pipe'.at = "capture"
      /\ pipe' \in [at : PipeSteps, pending : Pics, last : Pics, cursor : Pointers \cup {"none"}]
  <2>1. NoPic \in Pics
    BY DEF NoPic, Pics
  <2> QED
    BY <1>2, <2>1 DEF Kept, PipeTypes, PipeSteps
<1>5. /\ spent' \in [turns : Nat, glitches : Nat, lates : Nat]
      /\ spent'.lates = spent.lates + 1 /\ spent'.lates <= LateBound
  <2>1. spent \in [turns : Nat, glitches : Nat, lates : Nat]
    BY DEF PipeTypes
  <2>2. spent.lates < LateBound /\ spent' = [spent EXCEPT !.lates = @ + 1]
    BY <1>2
  <2> QED
    BY <2>1, <2>2, ScrAssumption
<1>6. PipeTypes'
  BY <1>2, <1>4, <1>5, ZenonT(90) DEF PipeTypes
<1>7. QueueInv'
  BY <1>2, Zenon DEF QueueInv
<1>8. RoomInv'
  <2>0. 0 = (IF pipe'.at = "input" THEN 1 ELSE 0) /\ 0 = (IF pipe'.at = "output" THEN 1 ELSE 0)
    BY <1>4
  <2>1. "output" # "over" /\ "output" # "input"
    OBVIOUS
  <2>2. /\ m <= Depth + LateBound /\ (enc.kind = "hw" => m <= Depth)
        /\ (enc.kind = "sw" => n + m <= spent.lates + 1)
        /\ enc.kind = "hw" => \A i \in 1 .. m : mft.inside[i].age + i = m + 0
    BY <1>1, <1>2, <2>1, Zenon DEF RoomInv
  <2>3. enc'.kind = "sw" => n + m <= spent'.lates + 0
    <3>1. spent.lates \in Nat
      BY DEF PipeTypes
    <3>2. n + m <= spent.lates + 1 => n + m <= spent.lates + 1 + 0
      BY <3>1
    <3> QED
      BY <1>2, <1>5, <2>2, <3>2, Zenon
  <2>4. /\ Len(mft'.outs) = n /\ Len(mft'.inside) = m /\ DOMAIN mft'.inside = 1 .. m
        /\ (enc'.kind = "hw" => m <= Depth)
        /\ enc'.kind = "hw" => \A i \in 1 .. m : mft'.inside[i].age + i = m + 0
    BY <1>1, <1>2, <2>2, Zenon
  <2>5. enc'.kind # "none"
    BY <1>2, <1>3
  <2> QED
    BY <1>5, <2>0, <2>2, <2>3, <2>4, <2>5, RoomIf, Zenon
<1> QED
  BY <1>6, <1>7, <1>8

\* Where the encoder does nothing its room stays as it is.
LEMMA RoomKeeps ==
    ASSUME RoomInv, mft' = mft, enc'.kind = enc.kind, spent'.lates = spent.lates,
           \/ pipe'.at = pipe.at \/ pipe'.at = "over"
           \/ pipe.at \notin {"input", "output", "over"} /\ pipe'.at \notin {"input", "output", "over"}
    PROVE  RoomInv'
PROOF BY Zenon DEF RoomInv

LEMMA QueuesElse ==
    ScrInv /\ (UNCHANGED scrVars \/ Windows \/ Captures \/ Commanded \/ EncodeFails)
        => PipeTypes' /\ QueueInv' /\ RoomInv'
PROOF
<1> SUFFICES ASSUME DeskTypes, PipeTypes, CapInv, QueueInv, RoomInv,
                    UNCHANGED scrVars \/ Windows \/ Captures \/ Commanded \/ EncodeFails
             PROVE  PipeTypes' /\ QueueInv' /\ RoomInv'
  BY DEF ScrInv
<1> DEFINE Moves == \/ pipe'.at = pipe.at \/ pipe'.at = "over"
                    \/ /\ pipe.at \notin {"input", "output", "over"}
                       /\ pipe'.at \notin {"input", "output", "over"}
<1>a. ASSUME NEW s, pipe' = [pipe EXCEPT !.at = s]
      PROVE  pipe'.at = s
  BY <1>a DEF PipeTypes
<1>b. Ends.at = "over"
  BY DEF Ends, PipeTypes
<1>1. CASE UNCHANGED scrVars
  <2>1. pipe' = pipe /\ asked' = asked /\ enc' = enc /\ mft' = mft /\ stream' = stream /\ spent' = spent
    BY <1>1 DEF scrVars, encVars
  <2>2. PipeTypes'
    BY <2>1 DEF PipeTypes
  <2>4. QueueInv'
    BY <2>1, Zenon DEF QueueInv
  <2>3. enc'.kind = enc.kind /\ spent'.lates = spent.lates /\ pipe'.at = pipe.at
    BY <2>1
  <2> QED
    BY <2>1, <2>2, <2>3, <2>4, RoomKeeps, Zenon
<1>2. CASE Windows
  <2>1. UNCHANGED <<capturer, pipe, asked, enc, mft, stream>>
        /\ spent' \in [turns : Nat, glitches : Nat, lates : Nat] /\ spent'.lates = spent.lates
    BY <1>2, WindowsLeave
  <2>2. pipe' = pipe /\ asked' = asked /\ enc' = enc /\ mft' = mft /\ stream' = stream
    BY <2>1
  <2> QED
    BY <2>1, <2>2, RoomKeeps, ZenonT(60) DEF PipeTypes, QueueInv
<1>3. CASE Captures
  <2>1. UNCHANGED <<desk, asked, enc, mft, stream>> /\ spent'.lates = spent.lates
    BY <1>3, CapturesLeave
  <2>2. pipe.at \in {"open", "first", "capture"} /\ (capturer.at = "out" => pipe.at # "open")
    BY <1>3 DEF Captures, CapInv, CallsNextFrame, LosesAccess, Follows, Duplicates, DuplicateDenied,
       Acquires, WaitsInVain, DisplayGone, DeviceRefused, AcquireFails, RebuildFails
  <2>3. pipe'.at \in {pipe.at, "over", "commands", "first"}
    <3>1. \A kind : AfterError(kind).at \in {"over", "commands"}
      BY DEF AfterError, Ends, PipeTypes
    <3>2. CASE Acquires
      BY <3>2 DEF Acquires, PipeTypes
    <3>3. CASE WaitsInVain
      BY <3>3 DEF WaitsInVain, Ends, PipeTypes
    <3>4. CASE Duplicates
      <4>1. pipe' = [pipe EXCEPT !.at = "first"] \/ pipe' = AfterError("SourceLost")
        BY <3>4, Zenon DEF Duplicates
      <4>2. [pipe EXCEPT !.at = "first"].at = "first"
        BY DEF PipeTypes
      <4> QED
        BY <3>1, <4>1, <4>2
    <3>5. CASE CallsNextFrame \/ LosesAccess \/ Follows \/ DuplicateDenied
               \/ DisplayGone \/ DeviceRefused \/ AcquireFails
      <4>1. pipe' = pipe \/ \E kind : pipe' = AfterError(kind)
        BY <3>5, Zenon DEF CallsNextFrame, LosesAccess, Follows, DuplicateDenied, DisplayGone,
           DeviceRefused, AcquireFails, RebuildFails
      <4> QED
        BY <3>1, <4>1
    <3> QED
      BY <1>3, <3>2, <3>3, <3>4, <3>5, Zenon DEF Captures
  <2>4. Moves
    BY <2>2, <2>3
  <2> QED
    BY <1>3, <2>1, <2>4, PipeTypesCaptures, RoomKeeps, Zenon DEF QueueInv
<1>4. CASE Commanded
  <2>1. mft' = mft /\ spent'.lates = spent.lates
    BY <1>4, CommandedLeave
  <2>2. enc'.kind = enc.kind /\ enc'.unsent = enc.unsent /\ stream'.nth = stream.nth
    <3>1. CASE TakesEither
      BY <3>1, TakesIs DEF PipeTypes
    <3>2. CASE ViewerAsksKeyframe \/ SetsQuality
      BY <3>2 DEF ViewerAsksKeyframe, SetsQuality, PipeTypes, encVars
    <3>3. CASE SenderDropped \/ NothingToEncode
      BY <3>3 DEF SenderDropped, NothingToEncode, encVars
    <3> QED
      BY <1>4, <3>1, <3>2, <3>3, Zenon DEF Commanded, TakesEither
  <2>3. Moves
    <3>1. CASE TakesEither
      BY <3>1, TakesIs DEF PipeTypes
    <3>2. CASE ViewerAsksKeyframe \/ SetsQuality
      BY <3>2 DEF ViewerAsksKeyframe, SetsQuality
    <3>3. CASE SenderDropped \/ NothingToEncode
      BY <3>3 DEF SenderDropped, NothingToEncode, Ends, PipeTypes
    <3> QED
      BY <1>4, <3>1, <3>2, <3>3, Zenon DEF Commanded, TakesEither
  <2>4. spent'.lates = spent.lates
    BY <2>1
  <2> QED
    BY <1>4, <2>1, <2>2, <2>3, <2>4, PipeTypesCommanded, RoomKeeps, Zenon DEF QueueInv
<1>5. CASE EncodeFails
  <2>1. UNCHANGED <<asked, enc, mft, stream>> /\ pipe' = Ends
        /\ spent' = [spent EXCEPT !.glitches = @ + 1]
    BY <1>5 DEF EncodeFails, Glitch, encVars
  <2>2. spent' \in [turns : Nat, glitches : Nat, lates : Nat] /\ spent'.lates = spent.lates
    <3>1. spent \in [turns : Nat, glitches : Nat, lates : Nat]
      BY DEF PipeTypes
    <3> QED
      BY <2>1, <3>1
  <2>3. pipe' \in [at : PipeSteps, pending : Pics, last : Pics, cursor : Pointers \cup {"none"}]
        /\ pipe'.at = "over"
    BY <2>1, <1>b, PipeEnds
  <2>4. PipeTypes'
    BY <2>1, <2>2, <2>3, ZenonT(90) DEF PipeTypes
  <2>5. enc'.kind = enc.kind
    BY <2>1
  <2> QED
    BY <2>1, <2>2, <2>3, <2>4, <2>5, RoomKeeps, Zenon DEF QueueInv
<1> QED
  BY <1>1, <1>2, <1>3, <1>4, <1>5

\* A session of the encoder starts empty.
LEMMA QueuesBind == ScrInv /\ Binds => PipeTypes' /\ QueueInv' /\ RoomInv'
PROOF
<1> SUFFICES ASSUME PipeTypes, QueueInv, RoomInv, Binds
             PROVE  PipeTypes' /\ QueueInv' /\ RoomInv'
  BY DEF ScrInv
<1>0. PipeTypes'
  BY PipeTypesBinds
<1>a. stream' = stream /\ spent'.lates = spent.lates
  BY BindsLeave
<1>1. CASE BindsHardware \/ BindsSoftware
  <2>1. /\ pipe.at = "encode" /\ pipe' = pipe /\ mft' = NewMft
        /\ enc' \in {Opened("hw"), Opened("sw")}
    BY <1>1 DEF BindsHardware, BindsSoftware, Stale
  <2>2. enc'.kind \in {"hw", "sw"} /\ enc'.unsent = 0 + 0
    <3>1. /\ enc \in [kind : {"none", "hw", "sw"}, device : Nat, software : BOOLEAN, force : BOOLEAN,
                      rate : {1, 2}, session : {1, 2}, refused : BOOLEAN, unsent : Nat]
          /\ pipe.pending \in Pics
      BY DEF PipeTypes
    <3>2. \A kind \in {"hw", "sw"} : Opened(kind).kind = kind /\ Opened(kind).unsent = 0
      BY <3>1 DEF Opened
    <3> QED
      BY <2>1, <3>2
  <2>3. Len(<<>>) = 0 /\ DOMAIN <<>> = 1 .. 0 /\ \A i \in 1 .. 0 : FALSE
    OBVIOUS
  <2>4. mft'.inside = <<>> /\ mft'.outs = <<>>
    BY <2>1 DEF NewMft
  <2>5. stream'.nth = 1
    BY <1>a DEF QueueInv
  <2>6. QueueInv'
    BY <2>2, <2>3, <2>4, <2>5, QueueIf, Zenon
  <2>7. 0 = (IF pipe'.at = "input" THEN 1 ELSE 0) /\ 0 = (IF pipe'.at = "output" THEN 1 ELSE 0)
    BY <2>1
  <2>8. /\ spent'.lates <= LateBound /\ 0 <= Depth + LateBound /\ 0 <= Depth
        /\ 0 + 0 <= spent'.lates + 0
    BY <1>a, RingAssumption, ScrAssumption DEF PipeTypes, RoomInv
  <2>9. enc'.kind # "none"
    BY <2>2
  <2>10. RoomInv'
    BY <2>3, <2>4, <2>7, <2>8, <2>9, RoomIf, Zenon
  <2> QED
    BY <1>0, <2>6, <2>10
<1>2. CASE NoEncoder
  <2>1. mft' = mft /\ pipe'.at = "over" /\ enc'.kind = "none" /\ enc'.unsent = enc.unsent
    BY <1>2 DEF NoEncoder, Ends, PipeTypes
  <2>2. QueueInv'
    BY <1>a, <2>1, Zenon DEF QueueInv
  <2>3. "none" # "hw" /\ "none" # "sw"
    OBVIOUS
  <2>4. RoomInv'
    BY <1>a, <2>1, <2>3, Zenon DEF RoomInv
  <2> QED
    BY <1>0, <2>2, <2>4
<1> QED
  BY <1>1, <1>2 DEF Binds

LEMMA QueuesStep == ScrInv /\ [ScrNext]_scrVars => PipeTypes' /\ QueueInv' /\ RoomInv'
PROOF BY ScrSteps, QueuesConvert, QueuesGive, QueuesPass, QueuesReturn, QueuesWait, QueuesElse,
         QueuesBind, Zenon DEF Encodes

LEMMA CapStep == ScrInv /\ [ScrNext]_scrVars => CapInv'
PROOF
<1> SUFFICES ASSUME DeskTypes, PipeTypes, CapInv, [ScrNext]_scrVars
             PROVE  CapInv'
  BY DEF ScrInv
<1>0. /\ capturer \in [at : {"out", "acquire", "follow", "rebuild"}, held : Nat, call : Nat,
                       device : Nat, desk : Desktops]
      /\ dups \in [lost : SUBSET Nat, unseen : BOOLEAN, pointer : BOOLEAN]
      /\ desk \in [front : Desktops, pic : 1 .. PicBound2, pointer : Pointers, system : BOOLEAN]
      /\ pipe \in [at : PipeSteps, pending : Pics, last : Pics, cursor : Pointers \cup {"none"}]
  BY DEF DeskTypes, PipeTypes
<1>a. ASSUME UNCHANGED <<desk, capturer, dups>>, pipe'.cursor = pipe.cursor,
             \/ pipe'.at = pipe.at
             \/ pipe'.at # "open" /\ capturer.at = "out"
      PROVE  CapInv'
  BY <1>0, <1>a DEF CapInv
<1>1. CASE UNCHANGED scrVars
  <2>1. UNCHANGED <<desk, capturer, dups, pipe>>
    BY <1>1, Zenon DEF scrVars, capVars
  <2> QED
    BY <1>a, <2>1
<1>2. CASE Windows
  <2>1. capturer' = capturer /\ pipe' = pipe
    BY <1>2, WindowsLeave
  <2>2. \/ dups'.pointer = dups.pointer /\ desk'.pointer = desk.pointer
        \/ dups'.pointer = TRUE
    BY <1>0, <1>2 DEF Windows, SwitchesDesktop, ChangesMode, MovesPointer, Paints
  <2> QED
    BY <1>0, <2>1, <2>2 DEF CapInv
<1>3. CASE Captures
  <2>0. desk' = desk
    BY <1>3, CapturesLeave
  <2>a. \A kind : /\ AfterError(kind).at \in {"over", "commands"}
                  /\ AfterError(kind).cursor = pipe.cursor
    BY <1>0 DEF AfterError, Ends
  <2>1. CASE CallsNextFrame
    BY <1>0, <2>0, <2>1 DEF CallsNextFrame, CapInv
  <2>2. CASE LosesAccess
    BY <1>0, <2>0, <2>2 DEF LosesAccess, CapInv
  <2>3. CASE Follows
    <3>1. CASE capturer' = [capturer EXCEPT !.at = "out"] /\ pipe' = AfterError("Blocked") /\ dups' = dups
               /\ capturer.at = "follow"
      BY <1>0, <2>0, <2>a, <3>1 DEF CapInv
    <3>2. CASE /\ pipe' = pipe /\ dups' = dups /\ capturer.at = "follow"
               /\ \/ capturer' = [capturer EXCEPT !.at = "rebuild", !.desk = Followed]
                  \/ capturer' = [capturer EXCEPT !.at = "rebuild"]
      BY <1>0, <2>0, <3>2 DEF CapInv
    <3> QED
      BY <2>3, <3>1, <3>2, Zenon DEF Follows
  <2>4. CASE Duplicates
    <3>1. /\ capturer' = [capturer EXCEPT !.at = "out", !.held = capturer.device + 1,
                                          !.device = capturer.device + 1]
          /\ dups'.pointer = TRUE /\ capturer.at = "rebuild"
      BY <2>4 DEF Duplicates, Rebuilt
    <3>2. pipe'.at \in {"first", "over", "commands"}
      BY <1>0, <2>4, <2>a DEF Duplicates
    <3> QED
      BY <1>0, <3>1, <3>2 DEF CapInv
  <2>5. CASE DuplicateDenied \/ DisplayGone \/ DeviceRefused
    <3>1. /\ capturer.at = "rebuild" /\ capturer' = [capturer EXCEPT !.at = "out"] /\ dups' = dups
          /\ \E kind : pipe' = AfterError(kind)
      BY <2>5, Zenon DEF DuplicateDenied, DisplayGone, DeviceRefused, RebuildFails
    <3>2. pipe'.at \in {"over", "commands"}
      BY <2>a, <3>1
    <3> QED
      BY <1>0, <2>0, <3>1, <3>2 DEF CapInv
  <2>6. CASE Acquires
    <3>1. /\ capturer' = [capturer EXCEPT !.at = "out", !.call = 0] /\ dups'.pointer = FALSE
          /\ pipe'.at \in {"commands", "first"} /\ pipe'.cursor = NotePointer
          /\ capturer.at = "acquire"
      BY <1>0, <2>6 DEF Acquires
    <3>2. capturer.held # 0 /\ pipe'.cursor = desk.pointer
      BY <1>0, <3>1 DEF CapInv, NotePointer
    <3> QED
      BY <1>0, <2>0, <3>1, <3>2 DEF CapInv
  <2>7. CASE WaitsInVain \/ AcquireFails
    <3>1. capturer' = [capturer EXCEPT !.at = "out", !.call = 0] /\ dups' = dups
      BY <2>7, Zenon DEF WaitsInVain, AcquireFails
    <3>2. pipe'.at \in {"over", "commands"} /\ pipe'.cursor = pipe.cursor
      <4>1. CASE WaitsInVain
        BY <1>0, <4>1 DEF WaitsInVain, Ends
      <4>2. CASE AcquireFails
        <5>1. pipe' = AfterError("Backend")
          BY <4>2 DEF AcquireFails
        <5> QED
          BY <2>a, <5>1
      <4> QED
        BY <2>7, <4>1, <4>2
    <3> QED
      BY <1>0, <2>0, <3>1, <3>2 DEF CapInv
  <2> QED
    BY <1>3, <2>1, <2>2, <2>3, <2>4, <2>5, <2>6, <2>7 DEF Captures
<1>4. CASE Commanded
  <2>1. UNCHANGED <<desk, capturer, dups>>
    BY <1>4, CommandedLeave
  <2>2. /\ pipe'.cursor = pipe.cursor
        /\ pipe'.at = pipe.at \/ (pipe'.at # "open" /\ pipe.at \in {"commands", "encode"})
    <3>1. CASE TakesEither
      BY <1>0, <3>1, TakesIs
    <3>2. CASE ViewerAsksKeyframe \/ SetsQuality \/ SenderDropped \/ NothingToEncode
      BY <1>0, <3>2 DEF ViewerAsksKeyframe, SetsQuality, SenderDropped, NothingToEncode, Ends
    <3> QED
      BY <1>4, <3>1, <3>2, Zenon DEF Commanded, TakesEither
  <2> QED
    BY <1>a, <2>1, <2>2 DEF CapInv
<1>5. CASE Binds
  <2>1. UNCHANGED <<desk, capturer, dups>>
    BY <1>5, BindsLeave
  <2>2. pipe' \in {pipe, Ends} /\ pipe.at = "encode"
    BY <1>5 DEF Binds, BindsHardware, BindsSoftware, NoEncoder, Stale
  <2>3. pipe'.cursor = pipe.cursor /\ (pipe'.at = pipe.at \/ pipe'.at = "over")
    BY <1>0, <2>2 DEF Ends
  <2> QED
    BY <1>a, <2>1, <2>2, <2>3 DEF CapInv
<1>6. CASE Encodes
  <2>1. UNCHANGED <<desk, capturer, dups>>
    BY <1>6, EncodesLeave
  <2>2. \/ pipe' = pipe
        \/ /\ pipe.at \in {"encode", "input", "output"}
           /\ pipe' \in {Ends, Kept, [pipe EXCEPT !.at = "input"], [pipe EXCEPT !.at = "output"]}
    BY <1>6 DEF Encodes, Converts, ReadsBack, Bound, Encoding, EncodeFails, GivesHardware, GivesSoftware,
       ProcessInput, ReturnsOutput, OutputLate, HeldBack, ReturnsNothing, PumpPasses, CollectsOutput,
       EncoderDone
  <2>3. pipe'.cursor = pipe.cursor
    BY <1>0, <2>2 DEF Ends, Kept
  <2>4. pipe' = pipe \/ pipe'.at # "open"
    BY <1>0, <2>2 DEF Ends, Kept
  <2> QED
    BY <1>a, <2>1, <2>2, <2>3, <2>4 DEF CapInv
<1> QED
  BY <1>1, <1>2, <1>3, <1>4, <1>5, <1>6, ScrSteps

LEMMA RateStep == ScrInv /\ [ScrNext]_scrVars => RateInv'
PROOF
<1> SUFFICES ASSUME PipeTypes, RateInv, [ScrNext]_scrVars
             PROVE  RateInv'
  BY DEF ScrInv
<1>0. /\ asked \in [key : BOOLEAN, rate : {0, 2}]
      /\ enc \in [kind : {"none", "hw", "sw"}, device : Nat, software : BOOLEAN, force : BOOLEAN,
                  rate : {1, 2}, session : {1, 2}, refused : BOOLEAN, unsent : Nat]
      /\ stream \in [pic : Nat, nth : Nat, wants : BOOLEAN, rate : {1, 2}]
  BY DEF PipeTypes
<1>a. ASSUME asked'.rate = asked.rate, stream'.rate = stream.rate, enc'.rate = enc.rate,
             enc'.kind = enc.kind, enc'.session = enc.session, enc'.refused = enc.refused
      PROVE  RateInv'
  BY <1>a DEF RateInv
<1>1. CASE UNCHANGED scrVars \/ Windows \/ Captures
  <2>1. asked' = asked /\ stream' = stream /\ enc' = enc
    BY <1>1, WindowsLeave, CapturesLeave DEF scrVars, encVars
  <2> QED
    BY <1>a, <2>1
<1>2. CASE Commanded
  <2>1. CASE SetsQuality
    <3>1. asked' = [asked EXCEPT !.rate = 2] /\ stream' = [stream EXCEPT !.rate = 2] /\ enc' = enc
      BY <2>1 DEF SetsQuality, encVars
    <3> QED
      BY <1>0, <3>1 DEF RateInv
  <2>2. CASE TakesEither
    <3>1. asked' = [asked EXCEPT !.key = FALSE, !.rate = 0] /\ stream' = stream
      BY <2>2, TakesIs
    <3>2. PICK refused \in BOOLEAN :
            enc' = [enc EXCEPT !.force = @ \/ asked.key,
                              !.rate = IF asked.rate # 0 THEN asked.rate ELSE @,
                              !.session = IF asked.rate # 0 /\ enc.kind # "none" /\ ~refused
                                          THEN asked.rate ELSE @,
                              !.refused = IF asked.rate # 0 /\ enc.kind # "none"
                                          THEN refused ELSE @]
      BY <2>2, TakesIs, Zenon
    <3>3. CASE asked.rate = 0
      BY <1>0, <3>1, <3>2, <3>3 DEF RateInv
    <3>4. CASE asked.rate # 0
      BY <1>0, <3>1, <3>2, <3>4 DEF RateInv
    <3> QED
      BY <3>3, <3>4
  <2>3. CASE ViewerAsksKeyframe \/ SenderDropped \/ NothingToEncode
    <3>1. /\ asked'.rate = asked.rate /\ stream'.rate = stream.rate /\ enc' = enc
      BY <1>0, <2>3 DEF ViewerAsksKeyframe, SenderDropped, NothingToEncode, encVars
    <3> QED
      BY <1>a, <3>1
  <2> QED
    BY <1>2, <2>1, <2>2, <2>3 DEF Commanded, TakesEither
<1>3. CASE Binds
  <2>1. asked' = asked /\ stream' = stream
    BY <1>3, BindsLeave
  <2>2. \/ enc' \in {Opened("hw"), Opened("sw")}
        \/ enc' = [enc EXCEPT !.kind = "none", !.software = TRUE]
    BY <1>3 DEF Binds, BindsHardware, BindsSoftware, NoEncoder
  <2>3. enc'.rate = enc.rate /\ (enc'.kind # "none" => enc'.session = enc.rate)
    BY <1>0, <2>2 DEF Opened
  <2> QED
    BY <2>1, <2>3 DEF RateInv
<1>4. CASE Encodes
  <2>1. asked' = asked
    BY <1>4, EncodesLeave
  <2>2. stream'.rate = stream.rate
    BY <1>0, <1>4 DEF Encodes, Converts, ReadsBack, Encoding, EncodeFails, GivesHardware, GivesSoftware,
       ProcessInput, ReturnsOutput, Sends, OutputLate, HeldBack, ReturnsNothing, PumpPasses,
       CollectsOutput, EncoderDone
  <2>3. \/ enc' = enc \/ enc' = [enc EXCEPT !.force = FALSE]
        \/ enc' = [enc EXCEPT !.unsent = @ + 1] \/ enc' = [enc EXCEPT !.unsent = @ - 1]
    BY <1>4, Zenon DEF Encodes, Converts, ReadsBack, Encoding, EncodeFails, GivesHardware, GivesSoftware,
       ProcessInput, ReturnsOutput, OutputLate, HeldBack, ReturnsNothing, PumpPasses,
       CollectsOutput, EncoderDone, encVars
  <2>4. /\ enc'.rate = enc.rate /\ enc'.kind = enc.kind
        /\ enc'.session = enc.session /\ enc'.refused = enc.refused
    BY <1>0, <2>3
  <2> QED
    BY <1>a, <2>1, <2>2, <2>4
<1> QED
  BY <1>1, <1>2, <1>3, <1>4, ScrSteps

LEMMA PicStep == ScrInv /\ [ScrNext]_scrVars => PicInv'
PROOF
<1> SUFFICES ASSUME DeskTypes, PipeTypes, CapInv, PicInv, [ScrNext]_scrVars
             PROVE  PicInv'
  BY DEF ScrInv
<1>0. /\ capturer \in [at : {"out", "acquire", "follow", "rebuild"}, held : Nat, call : Nat,
                       device : Nat, desk : Desktops]
      /\ pipe \in [at : PipeSteps, pending : Pics, last : Pics, cursor : Pointers \cup {"none"}]
      /\ enc \in [kind : {"none", "hw", "sw"}, device : Nat, software : BOOLEAN, force : BOOLEAN,
                  rate : {1, 2}, session : {1, 2}, refused : BOOLEAN, unsent : Nat]
  BY DEF DeskTypes, PipeTypes
<1>e. Ends = [pipe EXCEPT !.at = "over"]
  BY DEF Ends
<1>a. ASSUME pipe' = pipe, enc'.kind = enc.kind, enc'.device = enc.device,
             capturer'.held # 0 => capturer'.device # 0
      PROVE  PicInv'
  BY <1>a DEF PicInv, SettingUp, Newest
<1>b. ASSUME pipe' = Ends, enc'.kind # "none" => enc'.device # 0,
             capturer'.held # 0 => capturer'.device # 0
      PROVE  PicInv'
  BY <1>0, <1>b, <1>e DEF PicInv, SettingUp, Newest
<1>1. CASE UNCHANGED scrVars \/ Windows
  <2>1. pipe' = pipe /\ enc' = enc /\ capturer' = capturer
    <3>1. CASE UNCHANGED scrVars
      BY <3>1 DEF scrVars, capVars, encVars
    <3> QED
      BY <1>1, <3>1, WindowsLeave
  <2> QED
    BY <1>a, <2>1 DEF PicInv
<1>2. CASE Captures
  <2>0. enc' = enc
    BY <1>2, CapturesLeave
  <2>1. CASE CallsNextFrame \/ LosesAccess
    <3>1. pipe' = pipe /\ capturer'.device = capturer.device
          /\ (capturer'.held # 0 => capturer'.held = capturer.held)
      BY <1>0, <2>1 DEF CallsNextFrame, LosesAccess
    <3> QED
      BY <1>a, <2>0, <3>1 DEF PicInv
  <2>2. CASE Acquires
    <3>1. /\ capturer.at = "acquire" /\ pipe.at \in {"first", "capture"}
          /\ capturer'.held = capturer.held /\ capturer'.device = capturer.device
      BY <1>0, <2>2 DEF Acquires, CapInv
    <3>2. capturer.device # 0 /\ Copied.device # 0 /\ Copied # NoPic /\ Copied \in Pics
      <4>1. capturer.held # 0
        BY <3>1 DEF CapInv
      <4>2. capturer.device # 0
        BY <4>1 DEF PicInv
      <4>3. desk.pic \in Nat
        BY DEF DeskTypes
      <4> QED
        BY <1>0, <4>2, <4>3 DEF Copied, NoPic, Pics
    <3>3. /\ pipe'.at = IF dups.unseen \/ ~SettingUp THEN "commands" ELSE "first"
          /\ pipe'.pending = IF dups.unseen THEN Copied ELSE pipe.pending
          /\ pipe'.last = pipe.last
      BY <1>0, <2>2 DEF Acquires
    <3>4. CASE dups.unseen
      <4>1. pipe'.at = "commands" /\ pipe'.pending = Copied /\ pipe'.last = pipe.last
        BY <3>3, <3>4
      <4> QED
        BY <2>0, <3>1, <3>2, <4>1 DEF PicInv, SettingUp, Newest
    <3>5. CASE ~dups.unseen
      <4>1. /\ pipe'.at = IF SettingUp THEN "first" ELSE "commands"
            /\ pipe'.pending = pipe.pending /\ pipe'.last = pipe.last
        BY <3>3, <3>5
      <4> QED
        BY <2>0, <3>1, <3>2, <4>1 DEF PicInv, SettingUp, Newest
    <3> QED
      BY <3>4, <3>5
  <2>3. CASE WaitsInVain
    <3>1. /\ pipe.at \in {"first", "capture"}
          /\ capturer'.held = capturer.held /\ capturer'.device = capturer.device
          /\ pipe' = IF SettingUp THEN Ends ELSE [pipe EXCEPT !.at = "commands"]
      BY <1>0, <2>3 DEF WaitsInVain, CapInv
    <3>2. CASE SettingUp
      BY <1>b, <2>0, <3>1, <3>2 DEF PicInv
    <3>3. CASE ~SettingUp
      BY <1>0, <2>0, <3>1, <3>3 DEF PicInv, SettingUp, Newest
    <3> QED
      BY <3>2, <3>3
  <2>4. ASSUME NEW kind, pipe' = AfterError(kind), capturer'.held # 0 => capturer'.device # 0,
               pipe.at \in {"open", "first", "capture"}
        PROVE  PicInv'
    <3>1. CASE SettingUp \/ kind = "Backend"
      BY <1>b, <2>0, <2>4, <3>1 DEF PicInv, AfterError
    <3>2. CASE ~(SettingUp \/ kind = "Backend")
      <4>1. pipe' = [pipe EXCEPT !.at = "commands"] /\ pipe.at = "capture"
        BY <2>4, <3>2 DEF AfterError, SettingUp
      <4> QED
        BY <1>0, <2>0, <2>4, <4>1 DEF PicInv, SettingUp, Newest
    <3> QED
      BY <3>1, <3>2
  <2>a. capturer.at # "out" => pipe.at \in {"open", "first", "capture"}
    BY <1>0 DEF CapInv
  <2>5. CASE Duplicates
    <3>1. /\ capturer'.device = capturer.device + 1 /\ capturer.at = "rebuild"
          /\ pipe' = IF pipe.at = "open" THEN [pipe EXCEPT !.at = "first"]
                     ELSE AfterError("SourceLost")
      BY <1>0, <2>5 DEF Duplicates
    <3>2. capturer'.device # 0
      BY <1>0, <3>1
    <3>3. CASE pipe.at = "open"
      BY <1>0, <2>0, <3>1, <3>2, <3>3 DEF PicInv, SettingUp, Newest
    <3> QED
      BY <2>4, <2>a, <3>1, <3>2, <3>3
  <2>6. CASE Follows \/ DuplicateDenied \/ DisplayGone \/ DeviceRefused \/ AcquireFails
    <3>1. /\ capturer'.held = capturer.held /\ capturer'.device = capturer.device
          /\ capturer.at # "out"
      BY <1>0, <2>6 DEF Follows, DuplicateDenied, DisplayGone, DeviceRefused, AcquireFails, RebuildFails
    <3>2. pipe' = pipe \/ \E kind : pipe' = AfterError(kind)
      BY <2>6, Zenon DEF Follows, DuplicateDenied, DisplayGone, DeviceRefused, AcquireFails, RebuildFails
    <3>3. capturer'.held # 0 => capturer'.device # 0
      BY <3>1 DEF PicInv
    <3>4. enc'.kind = enc.kind /\ enc'.device = enc.device
      BY <2>0
    <3> QED
      BY <1>a, <2>4, <2>a, <3>1, <3>2, <3>3, <3>4, Zenon
  <2> QED
    BY <1>2, <2>1, <2>2, <2>3, <2>5, <2>6, Zenon DEF Captures
<1>3. CASE Commanded
  <2>0. capturer'.held # 0 => capturer'.device # 0
    BY <1>3, CommandedLeave DEF PicInv
  <2>1. CASE ViewerAsksKeyframe \/ SetsQuality
    BY <1>a, <2>0, <2>1 DEF ViewerAsksKeyframe, SetsQuality, encVars
  <2>2. CASE SenderDropped
    BY <1>b, <2>0, <2>2 DEF SenderDropped, encVars, PicInv
  <2>3. CASE NothingToEncode
    <3>1. enc' = enc /\ pipe.at = "encode" /\ pipe.pending = NoPic /\ pipe' = [pipe EXCEPT !.at = "capture"]
      BY <2>3 DEF NothingToEncode, encVars
    <3> QED
      BY <1>0, <2>0, <3>1 DEF PicInv, SettingUp, Newest
  <2>4. CASE TakesEither
    <3>1. /\ pipe.at = "commands" /\ pipe'.at = "encode"
          /\ enc'.kind = enc.kind /\ enc'.device = enc.device
      BY <1>0, <2>4, TakesIs
    <3>2. CASE asked.key /\ pipe.pending = NoPic
      <4>1. pipe'.pending = pipe.last /\ pipe'.last = NoPic
        BY <1>0, <2>4, <3>2, TakesIs
      <4> QED
        BY <1>0, <2>0, <3>1, <3>2, <4>1 DEF PicInv, SettingUp, Newest
    <3>3. CASE ~(asked.key /\ pipe.pending = NoPic)
      <4>1. pipe'.pending = pipe.pending /\ pipe'.last = pipe.last
        BY <1>0, <2>4, <3>3, TakesIs
      <4> QED
        BY <1>0, <2>0, <3>1, <3>3, <4>1 DEF PicInv, SettingUp, Newest
    <3> QED
      BY <3>2, <3>3
  <2> QED
    BY <1>3, <2>1, <2>2, <2>3, <2>4 DEF Commanded, TakesEither
<1>4. CASE Binds
  <2>0. capturer'.held # 0 => capturer'.device # 0
    BY <1>4, BindsLeave DEF PicInv
  <2>1. CASE BindsHardware \/ BindsSoftware
    <3>1. /\ pipe.at = "encode" /\ pipe.pending # NoPic /\ pipe' = pipe
          /\ enc'.device = pipe.pending.device
      BY <1>0, <2>1 DEF BindsHardware, BindsSoftware, Stale, Opened
    <3> QED
      BY <1>0, <2>0, <3>1 DEF PicInv, SettingUp, Newest
  <2>2. CASE NoEncoder
    <3>1. pipe' = Ends /\ enc'.kind = "none"
      BY <1>0, <2>2 DEF NoEncoder
    <3> QED
      BY <1>b, <2>0, <3>1
  <2> QED
    BY <1>4, <2>1, <2>2 DEF Binds
<1>5. CASE Encodes
  <2>0. capturer'.held # 0 => capturer'.device # 0
    BY <1>5, EncodesLeave DEF PicInv
  <2>1. enc'.kind = enc.kind /\ enc'.device = enc.device
    <3>1. \/ enc' = enc \/ enc' = [enc EXCEPT !.force = FALSE]
          \/ enc' = [enc EXCEPT !.unsent = @ + 1] \/ enc' = [enc EXCEPT !.unsent = @ - 1]
      BY <1>5, Zenon DEF Encodes, Converts, ReadsBack, Encoding, EncodeFails, GivesHardware, GivesSoftware,
         ProcessInput, ReturnsOutput, OutputLate, HeldBack, ReturnsNothing, PumpPasses,
         CollectsOutput, EncoderDone, encVars
    <3> QED
      BY <1>0, <3>1
  <2>2. CASE Converts \/ ReadsBack
    <3>1. /\ pipe.at = "encode" /\ enc.kind # "none" /\ enc.device = pipe.pending.device
          /\ pipe' = [pipe EXCEPT !.at = "input"]
      BY <2>2 DEF Converts, ReadsBack, Bound, Encoding
    <3>2. pipe.pending # NoPic
      BY <3>1 DEF PicInv, NoPic
    <3> QED
      BY <1>0, <2>0, <2>1, <3>1, <3>2 DEF PicInv, SettingUp, Newest
  <2>3. CASE GivesHardware \/ GivesSoftware
    <3>1. pipe.at = "input" /\ pipe' = [pipe EXCEPT !.at = "output"]
      BY <2>3 DEF GivesHardware, GivesSoftware, ProcessInput
    <3> QED
      BY <1>0, <2>0, <2>1, <3>1 DEF PicInv, SettingUp, Newest
  <2>4. CASE ReturnsOutput \/ OutputLate \/ HeldBack
    <3>1. pipe.at = "output" /\ pipe' = Kept
      BY <2>4 DEF ReturnsOutput, OutputLate, HeldBack, ReturnsNothing
    <3>2. pipe'.at = "capture" /\ pipe'.pending = NoPic /\ pipe'.last = pipe.pending
      BY <1>0, <3>1 DEF Kept
    <3> QED
      BY <1>0, <2>0, <2>1, <3>1, <3>2 DEF PicInv, SettingUp, Newest
  <2>5. CASE PumpPasses \/ CollectsOutput
    BY <1>a, <2>0, <2>1, <2>5 DEF PumpPasses, CollectsOutput, EncoderDone
  <2>6. CASE EncodeFails
    BY <1>b, <2>0, <2>1, <2>6 DEF EncodeFails, PicInv
  <2> QED
    BY <1>5, <2>2, <2>3, <2>4, <2>5, <2>6, Zenon DEF Encodes
<1> QED
  BY <1>1, <1>2, <1>3, <1>4, <1>5, ScrSteps

LEMMA ScrStep == ScrInv /\ [ScrNext]_scrVars => ScrInv'
PROOF BY DeskTypesStep, QueuesStep, CapStep, PicStep, RateStep, Zenon DEF ScrInv

\* The invariant gives what is promised of the screen.
LEMMA ScrInvSafe ==
    ScrInv => /\ ScrTypeOK /\ OneDuplication /\ RingSafe /\ KeyframeAtHand
              /\ PointerTold /\ RateKept /\ NoGap
PROOF
<1> SUFFICES ASSUME DeskTypes, PipeTypes, CapInv, PicInv, RateInv, QueueInv, RoomInv
             PROVE  /\ ScrTypeOK /\ OneDuplication /\ RingSafe /\ KeyframeAtHand
                    /\ PointerTold /\ RateKept /\ NoGap
  BY DEF ScrInv
<1>1. ScrTypeOK
  <2>1. Len(mft.inside) <= Depth + LateBound
    BY DEF RoomInv
  <2>2. /\ desk.front \in Desktops /\ desk.pic \in 1..PicBound2
        /\ capturer.at \in {"out", "acquire", "follow", "rebuild"}
    BY DEF DeskTypes
  <2>3. /\ pipe.at \in PipeSteps /\ pipe.cursor \in Pointers \cup {"none"}
        /\ enc.kind \in {"none", "hw", "sw"}
    BY DEF PipeTypes
  <2>4. capturer.held \in {0, capturer.device}
    BY DEF CapInv
  <2> QED
    BY <2>1, <2>2, <2>3, <2>4, Zenon DEF ScrTypeOK, PipeSteps
<1>2. OneDuplication
  <2>1. Live \subseteq {capturer.held}
    BY DEF Live, CapInv
  <2>2. IsFiniteSet({capturer.held}) /\ Cardinality({capturer.held}) = 1
    BY FS_Singleton
  <2>3. IsFiniteSet(Live) /\ Cardinality(Live) <= Cardinality({capturer.held})
    BY <2>1, <2>2, FS_Subset
  <2>4. Cardinality(Live) <= 1
    BY <2>2, <2>3
  <2> QED
    BY <2>4 DEF OneDuplication
<1>3. RingSafe
  <2> SUFFICES ASSUME pipe.at = "input", enc.kind = "hw", NEW i \in DOMAIN mft.inside
               PROVE  mft.inside[i].age < Nv12Ring
    BY DEF RingSafe
  <2>1. PICK n \in Nat, m \in Nat :
              /\ Len(mft.outs) = n /\ DOMAIN mft.outs = 1 .. n
              /\ Len(mft.inside) = m /\ DOMAIN mft.inside = 1 .. m
              /\ enc.unsent = n + m
              /\ \A j \in 1 .. n : mft.outs[j] \in Inputs /\ mft.outs[j].nth = j
              /\ \A j \in 1 .. m : mft.inside[j] \in Inputs /\ mft.inside[j].nth = n + j
    BY QueuesAre
  <2>2. "input" # "over"
    OBVIOUS
  <2>3. mft.inside[i].age + i = m + 1 /\ m <= Depth
    BY <2>1, <2>2, Zenon DEF RoomInv
  <2>4. i \in 1 .. m /\ mft.inside[i] \in Inputs
    BY <2>1, Zenon
  <2>5. mft.inside[i].age \in Nat
    BY <2>4 DEF Inputs
  <2> QED
    BY <2>3, <2>4, <2>5, RingAssumption
<1>4. KeyframeAtHand
  BY DEF PicInv, KeyframeAtHand
<1>5. PointerTold
  BY DEF CapInv, PointerTold
<1>6. RateKept
  BY DEF RateInv, RateKept
<1>7. NoGap
  BY DEF QueueInv, NoGap
<1> QED
  BY <1>1, <1>2, <1>3, <1>4, <1>5, <1>6, <1>7

\* One duplication at a time, a texture per frame the encoder still reads, a frame
\* at hand for every keyframe asked, the pointer as it is, the rate asked for last
\* unless the session refused it, and no delta frame sent without its predecessor:
\* for any depth the ring has room for and any number of late outputs (pipeline.rs,
\* dxgi.rs, encoder.rs, software.rs).
THEOREM ScreenKept ==
    ScrSpec => [](/\ ScrTypeOK /\ OneDuplication /\ RingSafe /\ KeyframeAtHand
                  /\ PointerTold /\ RateKept /\ NoGap)
PROOF
<1>1. ScrInit => ScrInv
  BY ScrStart
<1>2. ScrInv /\ [ScrNext]_scrVars => ScrInv'
  BY ScrStep
<1>3. ScrInv => /\ ScrTypeOK /\ OneDuplication /\ RingSafe /\ KeyframeAtHand
                /\ PointerTold /\ RateKept /\ NoGap
  BY ScrInvSafe
<1> QED
  BY <1>1, <1>2, <1>3, PTL DEF ScrSpec

---------------------------------------------------------------------------
(* The parts together. *)

LEMMA PartsStart ==
    ViewerInit => ScrInit /\ PresInit /\ IntroInit /\ VsInit /\ WebInit /\ ClipInit
PROOF BY DEF ViewerInit

\* A step of the parts is a step of each, or leaves it as it is.
LEMMA PartsStep ==
    [ViewerNext]_viewerVars =>
        /\ [ScrNext]_scrVars /\ [PresNext]_presVars /\ [IntroNext]_introVars
        /\ [VsNext]_vsVars /\ [WebNext]_webVars /\ [ClipNext]_clipVars
PROOF
<1>1. UNCHANGED viewerVars =>
        /\ UNCHANGED scrVars /\ UNCHANGED presVars /\ UNCHANGED introVars
        /\ UNCHANGED vsVars /\ UNCHANGED webVars /\ UNCHANGED clipVars
  BY DEF viewerVars
<1> QED
  BY <1>1, Zenon DEF ViewerNext, Others

\* What a person at a viewer sees is so, for all the parts (present, direct.rs,
\* rendezvous.rs, session.rs and view.js, lib.rs of the clipboard).
THEOREM ViewerSeesTrue == ViewerSpec => []ViewerSafe
PROOF
<1> DEFINE Inv == PresInv /\ IntroInv /\ VsInv /\ WebInv /\ ClipInv
<1>1. ViewerInit => Inv
  BY PartsStart, PresStart, IntroStart, VsStart, WebStart, ClipStart
<1>2. Inv /\ [ViewerNext]_viewerVars => Inv'
  BY PartsStep, PresStep, IntroStep, VsStep, WebStep, ClipStep
<1>3. Inv => ViewerSafe
  BY PresInvSafe, IntroInvSafe, VsInvSafe, WebInvSafe, ClipInvSafe DEF ViewerSafe
<1> QED
  BY <1>1, <1>2, <1>3, PTL DEF ViewerSpec

\* No step turns a viewer away for its own other connection, tries a decision
\* again or sends a pasted text back (rendezvous.rs, direct.rs, lib.rs of the
\* clipboard).
THEOREM ViewerStepsRight == ViewerSpec => ViewerSteps
PROOF
<1> DEFINE Inv == IntroInv /\ VsInv /\ ClipInv
<1>1. ViewerInit => Inv
  BY PartsStart, IntroStart, VsStart, ClipStart
<1>2. Inv /\ [ViewerNext]_viewerVars => Inv'
  BY PartsStep, IntroStep, VsStep, ClipStep
<1>3. Inv /\ [ViewerNext]_viewerVars =>
        /\ [BusyIfOther]_introVars /\ [FinalIfDecided]_vsVars /\ [EchoOnlyIf]_clipVars
  BY PartsStep, BusyStep, FinalStep, EchoStep
<1>4. ViewerSpec => /\ [][BusyIfOther]_introVars /\ [][FinalIfDecided]_vsVars
                    /\ [][EchoOnlyIf]_clipVars
  BY <1>1, <1>2, <1>3, PTL DEF ViewerSpec
<1> QED
  BY <1>4 DEF ViewerSteps, NoSelfBusy, DecisionsFinal, NoEcho, BusyIfOther, FinalIfDecided, EchoOnlyIf

\* The pipeline behind that picture holds to what it promises (dxgi.rs,
\* encoder.rs, pipeline.rs).
THEOREM ViewerScreenSafe == ViewerSpec => []ScreenSafe
PROOF
<1>1. ViewerInit => ScrInv
  BY PartsStart, ScrStart
<1>2. ScrInv /\ [ViewerNext]_viewerVars => ScrInv'
  BY PartsStep, ScrStep
<1>3. ScrInv => ScreenSafe
  BY ScrInvSafe DEF ScreenSafe
<1> QED
  BY <1>1, <1>2, <1>3, PTL DEF ViewerSpec

=============================================================================
