--------------------------- MODULE ViewerSession ---------------------------
(***************************************************************************)
(* A viewer watching a device across connections: run, session, talk, and  *)
(* how an ending is judged (viewer/src/direct.rs), beside the agent's slot *)
(* for one viewer, and the window that waits for the first monitor list    *)
(* (viewer/src/main.rs).  Seconds are counted while the viewer is away.    *)
(***************************************************************************)
EXTENDS Naturals

CONSTANTS
    ComeBackFor,   \* RECONNECT_FOR
    ComeBackFirst, \* RECONNECT_FIRST
    ComeBackMax,   \* RECONNECT_MAX
    EndBound       \* bound: times a connection or the agent goes

ASSUME ComeBackAssumption ==
    ComeBackFor \in Nat /\ ComeBackMax \in Nat /\ ComeBackFirst \in 1 .. ComeBackMax

VARIABLES
    phase,       \* where the viewer is
    conn,        \* its connection: none, open, lost, or why it was closed
    established, \* a session got as far as the picture
    away,        \* seconds since lost_at, or NotAway
    backoff,     \* wait
    shown,       \* Shared's link
    pane,      \* waiting for the monitor list, open, or closed
    agentUp,     \* the agent is there to be reached
    holder,      \* the agent's slot: free, ours, stale (ours, lost), another's
    endings      \* history

vsVars == <<phase, conn, established, away, backoff, shown, pane, agentUp, holder, endings>>

NotAway == ComeBackFor + 1
Talking == {"hello", "auth", "approval", "list", "live"}

(* The codes an agent closes with that are its decision. *)
Decisions == {"protocol", "busy", "pipeline", "denied"}

---------------------------------------------------------------------------
(* A mutant: whatever the agent says, it is tried again. *)
Judge_AlwaysAgain(closed) == IF closed = "normal" THEN "ok" ELSE "again"

(* How an attempt ended: ended and explain.  A goodbye is an end; a reason *)
(* other than going away, or one of this side's own, is final.             *)
Judge(closed) ==
    CASE closed = "normal" -> "ok"
      [] closed \in Decisions \cup {"local"} -> "refusal"
      [] OTHER -> "again"   \* going away, lost, or nothing said

(* A mutant: the window is not told that the device is away. *)
AttemptEnds_NotTold(outcome, reached) ==
    LET since == IF reached \/ away = NotAway THEN 0 ELSE away IN
    /\ established' = (established \/ reached)
    /\ IF outcome = "ok" \/ outcome = "refusal" \/ ~established' \/ since >= ComeBackFor
       THEN phase' = "over" /\ shown' = "over" /\ UNCHANGED <<away, backoff>>
       ELSE /\ phase' = "waiting" /\ UNCHANGED shown
            /\ away' = since
            /\ backoff' = IF reached THEN ComeBackFirst ELSE backoff

(* A mutant: every attempt counts from the start. *)
AttemptEnds_CountsAnew(outcome, reached) ==
    /\ established' = (established \/ reached)
    /\ IF outcome = "ok" \/ outcome = "refusal" \/ ~established'
       THEN phase' = "over" /\ shown' = "over" /\ UNCHANGED <<away, backoff>>
       ELSE /\ phase' = "waiting" /\ shown' = "comingBack"
            /\ away' = 0
            /\ backoff' = IF reached THEN ComeBackFirst ELSE backoff

(* run, after session returned: reached starts the count over; an error is *)
(* final before the first picture, when it is a refusal, and after         *)
(* RECONNECT_FOR.                                                          *)
AttemptEnds(outcome, reached) ==
    LET since == IF reached \/ away = NotAway THEN 0 ELSE away IN
    /\ established' = (established \/ reached)
    /\ IF outcome = "ok" \/ outcome = "refusal" \/ ~established' \/ since >= ComeBackFor
       THEN phase' = "over" /\ shown' = "over" /\ UNCHANGED <<away, backoff>>
       ELSE /\ phase' = "waiting" /\ shown' = "comingBack"
            /\ away' = since
            /\ backoff' = IF reached THEN ComeBackFirst ELSE backoff

---------------------------------------------------------------------------
(* session *)

(* The device is reached, or it is not there (a second goes by).  Its key, *)
(* where it is not the one known, is a refusal (KnownKeys).                *)
Connects ==
    /\ phase = "connect" /\ agentUp
    /\ phase' = "hello" /\ conn' = "open"
    /\ UNCHANGED <<established, away, backoff, shown, pane, agentUp, holder, endings>>
ConnectFails ==
    /\ phase = "connect" /\ ~agentUp
    /\ AttemptEnds("again", FALSE)
    /\ UNCHANGED <<conn, pane, agentUp, holder, endings>>
WrongKey ==
    /\ phase = "connect" /\ agentUp
    /\ AttemptEnds("refusal", FALSE)
    /\ UNCHANGED <<conn, pane, agentUp, holder, endings>>

(* The control stream reaches the agent, which gives its slot or is busy.  *)
Claims ==
    /\ phase = "hello" /\ conn = "open"
    /\ IF holder = "free"
       THEN holder' = "ours" /\ phase' = "auth" /\ UNCHANGED conn
       ELSE conn' = "busy" /\ UNCHANGED <<holder, phase>>
    /\ UNCHANGED <<established, away, backoff, shown, pane, agentUp, endings>>

(* AuthRequired and the exchange; AwaitingApproval; MonitorList.  A        *)
(* password is asked for once and kept.                                    *)
Admitted ==
    /\ conn = "open"
    /\ \/ phase = "auth" /\ phase' \in {"approval", "list"}
       \/ phase = "approval" /\ phase' = "list"
    /\ UNCHANGED <<conn, established, away, backoff, shown, pane, agentUp, holder, endings>>

(* In: a loss from here on is worth coming back from. *)
Listed ==
    /\ phase = "list" /\ conn = "open"
    /\ phase' = "live" /\ shown' = "live" /\ established' = TRUE
    /\ away' = NotAway /\ backoff' = ComeBackFirst
    /\ pane' = IF pane = "waiting" THEN "open" ELSE pane
    /\ UNCHANGED <<conn, agentUp, holder, endings>>

(* The monitor is not there, or the ends do not fit: Refusal, and the      *)
(* connection is dropped.                                                  *)
Unfit ==
    /\ phase \in {"auth", "list"} /\ conn = "open"
    /\ conn' = "none" /\ holder' = IF holder = "ours" THEN "free" ELSE holder
    /\ AttemptEnds("refusal", FALSE)
    /\ UNCHANGED <<pane, agentUp, endings>>

(* The end of a connection is noticed and judged; this side closes its own *)
(* end, which an agent that can still be reached hears of.                 *)
Notices ==
    /\ phase \in Talking /\ conn # "open"
    /\ AttemptEnds(Judge(conn), phase = "live")
    /\ conn' = "none"
    /\ UNCHANGED <<pane, agentUp, holder, endings>>

(* An error of this side while the connection is fine: the recording       *)
(* cannot be written.  Judged as a loss.                                   *)
LocalError ==
    /\ phase = "live" /\ conn = "open" /\ endings < EndBound /\ endings' = endings + 1
    /\ AttemptEnds("again", TRUE)
    /\ conn' = "none" /\ holder' = "free"
    /\ UNCHANGED <<pane, agentUp>>

(* A mutant: the process goes without a goodbye and keeps the socket. *)
Leaves_NoBye ==
    /\ \/ phase \in {"live", "waiting"}
       \/ pane = "closed" /\ phase # "over"
    /\ phase' = "over" /\ shown' = "over"
    /\ UNCHANGED <<conn, holder, established, away, backoff, pane, agentUp, endings>>

(* stop, Ctrl+C, --seconds, the window closed: Bye, and the agent closes.  *)
Leaves ==
    /\ \/ phase \in {"live", "waiting"}
       \/ pane = "closed" /\ phase # "over"
    /\ phase' = "over" /\ shown' = "over"
    /\ IF conn = "open"
       THEN conn' = "none" /\ holder' = IF holder = "ours" THEN "free" ELSE holder
       ELSE UNCHANGED <<conn, holder>>
    /\ UNCHANGED <<established, away, backoff, pane, agentUp, endings>>

(* A mutant: the wait grows without end. *)
TriesAgain_Unbounded ==
    /\ phase = "waiting"
    /\ phase' = "connect"
    /\ away' = IF away + backoff < ComeBackFor THEN away + backoff ELSE ComeBackFor
    /\ backoff' = 2 * backoff
    /\ UNCHANGED <<conn, established, shown, pane, agentUp, holder, endings>>

(* The wait is over. *)
TriesAgain ==
    /\ phase = "waiting"
    /\ phase' = "connect"
    /\ away' = IF away + backoff < ComeBackFor THEN away + backoff ELSE ComeBackFor
    /\ backoff' = IF 2 * backoff < ComeBackMax THEN 2 * backoff ELSE ComeBackMax
    /\ UNCHANGED <<conn, established, shown, pane, agentUp, holder, endings>>

(* windowed: no monitor list within CONNECT_TIMEOUT ends the process.      *)
WindowGivesUp ==
    /\ pane = "waiting" /\ phase \notin {"live", "over"} /\ ~established
    /\ pane' = "closed" /\ phase' = "over" /\ shown' = "over"
    /\ IF conn = "open"
       THEN conn' = "none" /\ holder' = IF holder = "ours" THEN "free" ELSE holder
       ELSE UNCHANGED <<conn, holder>>
    /\ UNCHANGED <<established, away, backoff, agentUp, endings>>

WindowCloses ==
    /\ pane = "open" /\ pane' = "closed"
    /\ UNCHANGED <<phase, conn, established, away, backoff, shown, agentUp, holder, endings>>

---------------------------------------------------------------------------
(* The agent and the network. *)

(* The agent ends the session, with a reason. *)
AgentCloses ==
    /\ conn = "open" /\ holder = "ours" /\ endings < EndBound /\ endings' = endings + 1
    /\ conn' \in {"normal", "goingAway"} \cup (Decisions \ {"busy"})
    /\ holder' = "free"
    /\ UNCHANGED <<phase, established, away, backoff, shown, pane, agentUp>>

(* A packet this side cannot read, or a stream it did not expect. *)
ClosedHere ==
    /\ conn = "open" /\ phase = "live" /\ endings < EndBound /\ endings' = endings + 1
    /\ conn' = "local" /\ holder' = "free"
    /\ UNCHANGED <<phase, established, away, backoff, shown, pane, agentUp>>

(* The connection is lost: the viewer's idle timeout ends it first, or the *)
(* agent's does.                                                           *)
LinkLost ==
    /\ conn = "open" /\ endings < EndBound /\ endings' = endings + 1
    /\ conn' = "lost"
    /\ holder' = IF holder = "ours" THEN "stale" ELSE holder
    /\ UNCHANGED <<phase, established, away, backoff, shown, pane, agentUp>>
StaleEnds ==
    /\ holder = "stale" /\ holder' = "free"
    /\ UNCHANGED <<phase, conn, established, away, backoff, shown, pane, agentUp, endings>>

(* The agent goes, saying so or not, and is back. *)
AgentGoes ==
    /\ agentUp /\ endings < EndBound /\ endings' = endings + 1
    /\ agentUp' = FALSE /\ holder' = "free"
    /\ conn' \in IF conn = "open" THEN {"goingAway", "lost"} ELSE {conn}
    /\ UNCHANGED <<phase, established, away, backoff, shown, pane>>
AgentBack ==
    /\ ~agentUp /\ agentUp' = TRUE
    /\ UNCHANGED <<phase, conn, established, away, backoff, shown, pane, holder, endings>>
AnotherViewer ==
    /\ \/ agentUp /\ holder = "free" /\ holder' = "another"
       \/ holder = "another" /\ holder' = "free"
    /\ UNCHANGED <<phase, conn, established, away, backoff, shown, pane, agentUp, endings>>

VsInit ==
    /\ phase = "connect" /\ conn = "none" /\ established = FALSE /\ away = NotAway
    /\ backoff = ComeBackFirst /\ shown = "live" /\ pane \in {"waiting", "none"}
    /\ agentUp = TRUE /\ holder = "free" /\ endings = 0

GoesOn == Connects \/ ConnectFails \/ Claims \/ Admitted \/ Listed \/ Notices \/ TriesAgain

VsNext ==
    \/ GoesOn \/ WrongKey \/ Unfit \/ LocalError \/ Leaves
    \/ WindowGivesUp \/ WindowCloses
    \/ AgentCloses \/ ClosedHere \/ LinkLost \/ StaleEnds \/ AgentGoes \/ AgentBack
    \/ AnotherViewer

(* The viewer's tasks and timers go on, the agent's idle timeout ends a    *)
(* lost session, and the person or password the agent asks for answers.    *)
VsFairness ==
    /\ WF_vsVars(GoesOn) /\ WF_vsVars(StaleEnds)
    /\ WF_vsVars(pane = "closed" /\ Leaves)

VsSpec == VsInit /\ [][VsNext]_vsVars /\ VsFairness

---------------------------------------------------------------------------
(* Every variable keeps its type. *)
VsTypeOK ==
    /\ phase \in Talking \cup {"connect", "waiting", "over"}
    /\ conn \in {"none", "open", "lost", "normal", "goingAway", "local"} \cup Decisions
    /\ away \in 0..NotAway /\ backoff \in 1..ComeBackMax
    /\ holder \in {"free", "ours", "stale", "another"}

(* The window never shows a picture as live that the viewer knows is not:  *)
(* from the loss until the next monitor list it says so, and once it is    *)
(* over, that.                                                             *)
LinkTruth ==
    /\ shown = "over" <=> phase = "over"
    /\ established /\ phase \in {"waiting", "connect", "hello", "auth", "approval", "list"}
         => shown = "comingBack"

(* What the agent or its person decided is final, whenever in a session,   *)
(* and however many sessions there were: the viewer does not come again.   *)
DecisionsFinal ==
    [][(conn \in Decisions /\ conn' # conn) => phase' = "over"]_vsVars

(* The slot of a viewer that is gone is free in the end, whichever way it  *)
(* went.                                                                   *)
SlotLeft == phase = "over" /\ holder \in {"ours", "stale"}
SlotFreed == SlotLeft ~> ~SlotLeft

(* A viewer that lost its device is live again or over in the end: it is   *)
(* not left trying for ever, whether the agent comes back or not.          *)
GivesUp == phase = "waiting" ~> phase \in {"live", "over"}

(* What run's comment says: one whose connection was lost is reached       *)
(* again, if the agent is there and no one else is.                        *)
LostComesBack ==
    [][(phase = "hello" /\ conn = "busy" /\ established) => holder # "stale"]_vsVars
====
