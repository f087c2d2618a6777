----------------------------- MODULE WebViewer -----------------------------
(***************************************************************************)
(* The browser's viewer: the page's main, connect, comeBack and run        *)
(* (server/web/view.js) over the session in WebAssembly                    *)
(* (web-viewer/src/session.rs), talking to an agent whose admission is     *)
(* Admission's, of one viewer.  A turn of the page (a packet or a timer,   *)
(* then pump) is one step; control messages are ordered and not lost.      *)
(* Seconds are counted while the page comes back, ticks between keyframes. *)
(***************************************************************************)
EXTENDS Naturals, Sequences

CONSTANTS
    GrantBound,    \* bound: grants the server gives
    BackFor,       \* COME_BACK_FOR_MS
    BackMax,       \* the longest wait between two tries
    KeyframeEvery, \* KEYFRAME_REQUEST_INTERVAL, in ticks
    ByeBound,      \* bound: times the agent or the link ends a session
    OutBound       \* bound: input messages not read yet

ASSUME WebAssumption ==
    /\ GrantBound \in Nat /\ BackFor \in Nat /\ BackMax \in Nat \ {0}
    /\ KeyframeEvery \in Nat /\ OutBound \in Nat

VARIABLES
    page,      \* asking, reaching, session, waiting (comeBack) or over
    returning, \* comeBack's loop catches what goes wrong
    gone,      \* seconds since comeBack began
    pauses,    \* its wait
    grant,     \* the grant in hand
    password,  \* what the person typed: none, right or wrong
    session,   \* Session: conn, auth, proving and run's established
    up, down,  \* control messages not read yet
    required,  \* what the device asks for
    stageOf,   \* the agent's side of this connection
    presented, \* times each grant was presented to the agent
    wants,     \* keyframe_needed
    since,     \* ticks since last_keyframe_request
    broken,    \* history: a keyframe is needed and none was asked for since
    holds,     \* Held: whether the one key is down here
    out,       \* the input stream: queued and on its way
    opened,    \* its id: the agent has allowed the stream
    remote,    \* what the agent read of it: the kind, the key down, sense
    byes       \* history

webVars == <<page, returning, gone, pauses, grant, password, session, up, down, required,
             stageOf, presented, wants, since, broken, holds, out, opened, remote, byes>>
pageVars == <<returning, gone, pauses, grant, password>>
wireVars == <<up, down, stageOf, presented>>
keyVars == <<wants, since, broken>>
inputVars == <<holds, out, opened, remote>>

NoSession == [conn |-> "none", auth |-> FALSE, proving |-> "none", established |-> FALSE]
NewSession == [conn |-> "connecting", auth |-> TRUE, proving |-> "none", established |-> FALSE]
NoGrant == 0
Unread == [kind |-> FALSE, down |-> FALSE, sense |-> TRUE]

---------------------------------------------------------------------------
(* The page is done with the session: what it had is dropped. *)
Drops ==
    /\ session' = NoSession /\ up' = <<>> /\ down' = <<>> /\ stageOf' = "none"
    /\ wants' = FALSE /\ since' = KeyframeEvery /\ broken' = FALSE
    /\ holds' = FALSE /\ out' = <<>> /\ opened' = FALSE /\ remote' = Unread

(* handle's "closed": a session that got as far as the picture is worth    *)
(* coming back to, where the agent may be back; any other end is told.     *)
Closed(mayReturn) ==
    /\ Drops
    /\ IF mayReturn /\ session.established
       THEN page' = "waiting" /\ returning' = TRUE /\ gone' = 0 /\ pauses' = 1
       ELSE page' = "over" /\ returning' = FALSE /\ UNCHANGED <<gone, pauses>>

(* A mutant: the loop never looks at the clock. *)
Throws_Forever ==
    /\ IF returning
       THEN page' = "waiting" /\ pauses' = IF 2 * pauses < BackMax THEN 2 * pauses ELSE BackMax
       ELSE page' = "over" /\ UNCHANGED pauses
    /\ returning' = (returning /\ page' # "over")
    /\ UNCHANGED gone

(* Something thrown while asking or reaching: final the first time, and    *)
(* caught by comeBack until its time is over.                              *)
Throws ==
    /\ IF returning /\ gone < BackFor
       THEN page' = "waiting" /\ pauses' = IF 2 * pauses < BackMax THEN 2 * pauses ELSE BackMax
       ELSE page' = "over" /\ UNCHANGED pauses
    /\ returning' = (returning /\ page' # "over")
    /\ UNCHANGED gone

---------------------------------------------------------------------------
(* main and comeBack: a new grant, since each is good once. *)
GetsGrant ==
    /\ page = "asking"
    /\ IF grant < GrantBound
       THEN grant' = grant + 1 /\ page' = "reaching" /\ UNCHANGED <<returning, gone, pauses>>
       ELSE Throws /\ UNCHANGED grant
    /\ UNCHANGED <<password, session, required, byes>> /\ UNCHANGED wireVars /\ UNCHANGED <<keyVars, inputVars>>
NoAccess ==
    /\ page = "asking" /\ Throws
    /\ UNCHANGED <<grant, password, session, required, byes>>
    /\ UNCHANGED wireVars /\ UNCHANGED <<keyVars, inputVars>>

(* connect: reach, over WebTransport or else a WebSocket; the key the      *)
(* server names is the grant's, and the one seen before or confirmed.  The *)
(* session is new; connect returns, and with it comeBack.                  *)
Reaches ==
    /\ page = "reaching"
    /\ page' = "session" /\ session' = NewSession /\ returning' = FALSE
    /\ since' = KeyframeEvery
    /\ UNCHANGED <<gone, pauses, grant, password, required, wants, broken, byes>>
    /\ UNCHANGED <<wireVars, inputVars>>
NotReached ==
    /\ page = "reaching" /\ Throws
    /\ UNCHANGED <<grant, password, session, required, byes>>
    /\ UNCHANGED wireVars /\ UNCHANGED <<keyVars, inputVars>>

Waited ==
    /\ page = "waiting" /\ page' = "asking"
    /\ gone' = IF gone + pauses < BackFor THEN gone + pauses ELSE BackFor
    /\ UNCHANGED <<returning, pauses, grant, password, session, required, byes>>
    /\ UNCHANGED wireVars /\ UNCHANGED <<keyVars, inputVars>>

---------------------------------------------------------------------------
(* Session *)

(* connected *)
Connected ==
    /\ page = "session" /\ session.conn = "connecting"
    /\ session' = [session EXCEPT !.conn = "up"]
    /\ up' = <<[is |-> "Hello"]>>
    /\ UNCHANGED <<page, down, required, stageOf, presented, byes>>
    /\ UNCHANGED pageVars /\ UNCHANGED <<keyVars, inputVars>>

(* A mutant: the grant is presented before looking at what else is asked.  *)
AskedFor_PresentFirst ==
    /\ session.auth
    /\ presented' = [presented EXCEPT ![grant] = @ + 1]
    /\ IF required = "both" /\ password = "none"
       THEN /\ Drops
            /\ \/ page' = "reaching" /\ password' \in {"right", "wrong"}
               \/ page' = "over" /\ UNCHANGED password
       ELSE /\ session' = [session EXCEPT !.auth = FALSE,
                                          !.proving = IF required = "both" THEN "started" ELSE "none"]
            /\ up' = up \o <<[is |-> "Present", grant |-> grant]>>
                        \o IF required = "both" THEN <<[is |-> "AuthStart"]>> ELSE <<>>
            /\ down' = Tail(down)
            /\ UNCHANGED <<page, password, stageOf>> /\ UNCHANGED <<keyVars, inputVars>>
    /\ UNCHANGED <<returning, gone, pauses, grant>>

(* asked_for.  Nothing is presented until the viewer can finish: where the *)
(* password is wanted as well and there is none, the page asks the person  *)
(* for it and connects again with the same grant.                          *)
AskedFor ==
    IF ~session.auth \/ required = "password"
    THEN /\ Closed(FALSE) /\ UNCHANGED <<grant, password, presented>>
    ELSE IF required = "both" /\ password = "none"
    THEN /\ Drops
         /\ \/ page' = "reaching" /\ password' \in {"right", "wrong"}
            \/ page' = "over" /\ UNCHANGED password
         /\ UNCHANGED <<returning, gone, pauses, grant, presented>>
    ELSE /\ session' = [session EXCEPT !.auth = FALSE,
                                       !.proving = IF required = "both" THEN "started" ELSE "none"]
         /\ presented' = [presented EXCEPT ![grant] = @ + 1]
         /\ up' = up \o <<[is |-> "Present", grant |-> grant]>>
                     \o IF required = "both" THEN <<[is |-> "AuthStart"]>> ELSE <<>>
         /\ down' = Tail(down)
         /\ UNCHANGED <<page, stageOf>> /\ UNCHANGED pageVars /\ UNCHANGED <<keyVars, inputVars>>

(* prove: the answer to AuthStart is used up, and the viewer's proof sent. *)
Proves ==
    /\ session.proving = "started"
    /\ session' = [session EXCEPT !.proving = "proven"]
    /\ up' = Append(up, [is |-> "AuthProve"]) /\ down' = Tail(down)
    /\ UNCHANGED <<page, stageOf, presented>> /\ UNCHANGED pageVars /\ UNCHANGED <<keyVars, inputVars>>

(* check_the_agent: its proof in turn; the exchange is over. *)
ChecksAgent ==
    /\ session.proving = "proven"
    /\ session' = [session EXCEPT !.proving = "none"]
    /\ down' = Tail(down)
    /\ UNCHANGED <<page, up, stageOf, presented>> /\ UNCHANGED pageVars /\ UNCHANGED <<keyVars, inputVars>>

(* control_message: prove, check_the_agent, and what the page is told.  A  *)
(* message out of turn ends the session.                                   *)
ControlMessage ==
    /\ page = "session" /\ session.conn = "up" /\ down # <<>>
    /\ LET m == Head(down).is IN
       \/ /\ m = "AuthRequired" /\ AskedFor
       \/ /\ \/ m = "AuthAnswer" /\ session.proving # "started"
             \/ m = "AuthProved" /\ session.proving # "proven"
          /\ Closed(FALSE) /\ UNCHANGED <<grant, password, presented>>
       \/ m = "AuthAnswer" /\ Proves
       \/ m = "AuthProved" /\ ChecksAgent
       \/ /\ m \in {"Hello", "AwaitingApproval", "MonitorList"}
          /\ session' = [session EXCEPT !.established = @ \/ m = "MonitorList"]
          /\ down' = Tail(down)
          /\ UNCHANGED <<page, up, stageOf, presented>> /\ UNCHANGED pageVars /\ UNCHANGED <<keyVars, inputVars>>
    /\ UNCHANGED <<required, byes>>

(* A mutant: a request that comes too soon is dropped. *)
Drive_Dropped(needed, ticks) ==
    IF needed /\ ticks = KeyframeEvery
    THEN wants' = FALSE /\ since' = 0 /\ broken' = FALSE
    ELSE wants' = FALSE /\ since' = ticks /\ broken' = (broken \/ needed)

(* drive: a keyframe is asked for when one is needed and the last request  *)
(* is long enough ago; one that is too soon is kept for later.             *)
Drive(needed, ticks) ==
    IF needed /\ ticks = KeyframeEvery
    THEN wants' = FALSE /\ since' = 0 /\ broken' = FALSE
    ELSE wants' = needed /\ since' = ticks /\ broken' = (broken \/ needed)

(* The decoder lost its footing, or the reassembler gave a frame up. *)
NeedsKeyframe ==
    /\ page = "session" /\ session.established
    /\ Drive(TRUE, since)
    /\ UNCHANGED <<page, session, required, byes, pageVars, wireVars, inputVars>>
WebTick ==
    /\ page = "session" /\ session.conn = "up"
    /\ Drive(wants, IF since < KeyframeEvery THEN since + 1 ELSE since)
    /\ UNCHANGED <<page, session, required, byes, pageVars, wireVars, inputVars>>

(* lost: an agent that went away saying it may be back, and one that       *)
(* stopped answering, may be worth another try; any other end is not.      *)
SessionLost ==
    /\ page = "session" /\ byes < ByeBound /\ byes' = byes + 1
    /\ Closed(TRUE)
    /\ UNCHANGED <<grant, password, required, presented>>
SessionEnded ==
    /\ page = "session" /\ byes < ByeBound /\ byes' = byes + 1
    /\ Closed(FALSE)
    /\ UNCHANGED <<grant, password, required, presented>>

(* $("leave"), there from the first session on. *)
LeavesPage ==
    /\ page \in {"session", "waiting"} \/ (page # "over" /\ returning)
    /\ page' = "over" /\ returning' = FALSE /\ Drops
    /\ UNCHANGED <<gone, pauses, grant, password, required, presented, byes>>

---------------------------------------------------------------------------
(* Input, on a stream of its own. *)

(* A mutant: the kind leads whenever nothing is queued. *)
Pushed_KindAgain(messages) ==
    IF messages = <<>> THEN out ELSE (IF out = <<>> THEN <<"kind">> ELSE out) \o messages

(* Outgoing::push: the kind comes first, once. *)
Pushed(messages) ==
    IF messages = <<>> THEN out
    ELSE (IF out = <<>> /\ ~opened THEN <<"kind">> ELSE out) \o messages

(* A mutant: what is pressed is not remembered. *)
WebKey_NotHeld(down_) ==
    /\ page = "session" /\ Len(out) < OutBound
    /\ UNCHANGED holds
    /\ out' = IF session.conn = "up" /\ (down_ \/ holds)
              THEN Pushed(<<IF down_ THEN "down" ELSE "up">>) ELSE out
    /\ UNCHANGED <<page, session, required, byes, opened, remote, pageVars, wireVars, keyVars>>

(* input: a press is remembered even while there is nowhere to send it;    *)
(* the release of a key that was not pressed is not sent.                  *)
WebKey(down_) ==
    /\ page = "session" /\ Len(out) < OutBound
    /\ holds' = down_
    /\ out' = IF session.conn = "up" /\ (down_ \/ holds)
              THEN Pushed(<<IF down_ THEN "down" ELSE "up">>) ELSE out
    /\ UNCHANGED <<page, session, required, byes, opened, remote, pageVars, wireVars, keyVars>>

(* A key without a position goes as the character it gives (key, text),    *)
(* whatever is held: a Shift or an AltGr is part of it.                    *)
WebCharacter ==
    /\ page = "session" /\ Len(out) < OutBound
    /\ out' = IF session.conn = "up" THEN Pushed(<<"char">>) ELSE out
    /\ UNCHANGED <<page, session, required, byes, holds, opened, remote, pageVars, wireVars, keyVars>>

(* What release_all has to let go of. *)
Releases == IF holds THEN <<"up">> ELSE <<>>

(* release_all, when the picture loses focus or the page is hidden; and    *)
(* type_text, which lets go first.                                         *)
WebReleaseAll(typed) ==
    /\ page = "session" /\ Len(out) < OutBound
    /\ holds' = FALSE
    /\ out' = Pushed(Releases
                     \o (IF typed /\ session.conn = "up" THEN <<"text">> ELSE <<>>))
    /\ UNCHANGED <<page, session, required, byes, opened, remote, pageVars, wireVars, keyVars>>

(* flush: the stream is opened when the agent allows one. *)
StreamOpens ==
    /\ page = "session" /\ session.conn = "up" /\ out # <<>> /\ ~opened
    /\ opened' = TRUE
    /\ UNCHANGED <<page, session, required, byes, holds, out, remote, pageVars, wireVars, keyVars>>
AgentReadsInput ==
    /\ page = "session" /\ opened /\ out # <<>>
    /\ out' = Tail(out)
    /\ remote' = [kind |-> TRUE,
                  down |-> CASE Head(out) = "down" -> TRUE
                             [] Head(out) = "up" -> FALSE
                             [] OTHER -> remote.down,
                  sense |-> remote.sense /\ (remote.kind <=> Head(out) # "kind")
                              /\ (Head(out) = "text" => ~remote.down)]
    /\ UNCHANGED <<page, session, required, byes, holds, opened, pageVars, wireVars, keyVars>>

---------------------------------------------------------------------------
(* The agent, of one connection: who it lets in is Admission's. *)
AgentReads ==
    /\ page = "session" /\ up # <<>>
    /\ LET m == Head(up)
           letIn == \/ down' = down \o <<[is |-> "MonitorList"]>>
                    \/ down' = down \o <<[is |-> "AwaitingApproval"], [is |-> "MonitorList"]>>
           denied == Closed(FALSE) /\ UNCHANGED <<grant, password>>
           on == up' = Tail(up) /\ UNCHANGED <<page, session>> /\ UNCHANGED pageVars
                 /\ UNCHANGED <<keyVars, inputVars>>
       IN \/ m.is = "Hello" /\ on /\ stageOf' = "asked"
             /\ down' = <<[is |-> "Hello"], [is |-> "AuthRequired"]>>
          \/ m.is = "Present" /\ presented[m.grant] > 1 /\ denied
          \/ m.is = "Present" /\ presented[m.grant] = 1 /\ on
             /\ IF required = "both" THEN stageOf' = "granted" /\ UNCHANGED down
                ELSE stageOf' = "in" /\ letIn
          \/ m.is = "AuthStart" /\ on /\ stageOf' = "answered"
             /\ down' = Append(down, [is |-> "AuthAnswer"])
          \/ m.is = "AuthProve" /\ password = "wrong" /\ denied
          \/ m.is = "AuthProve" /\ password = "right" /\ on /\ stageOf' = "in"
             /\ \/ down' = down \o <<[is |-> "AuthProved"], [is |-> "MonitorList"]>>
                \/ down' = down \o <<[is |-> "AuthProved"], [is |-> "AwaitingApproval"],
                                     [is |-> "MonitorList"]>>
    /\ UNCHANGED <<required, presented, byes>>

WebInit ==
    /\ page = "asking" /\ returning = FALSE /\ gone = 0 /\ pauses = 1 /\ grant = NoGrant
    /\ password = "none" /\ session = NoSession /\ up = <<>> /\ down = <<>>
    /\ required \in {"grant", "both", "password"} /\ stageOf = "none"
    /\ presented = [g \in 1 .. GrantBound |-> 0]
    /\ wants = FALSE /\ since = KeyframeEvery /\ broken = FALSE
    /\ holds = FALSE /\ out = <<>> /\ opened = FALSE /\ remote = Unread /\ byes = 0

WebNext ==
    \/ GetsGrant \/ NoAccess \/ Reaches \/ NotReached \/ Waited
    \/ Connected \/ ControlMessage \/ NeedsKeyframe \/ WebTick
    \/ SessionLost \/ SessionEnded \/ LeavesPage
    \/ AgentReads
    \/ \E b \in BOOLEAN : WebKey(b) \/ WebReleaseAll(b)
    \/ WebCharacter
    \/ StreamOpens \/ AgentReadsInput

(* The browser's timers and fetches come back, and so do the packets.  Not *)
(* that anything is reached.                                               *)
WebFairness ==
    /\ WF_webVars(GetsGrant \/ NoAccess \/ Reaches \/ NotReached \/ Waited)
    /\ WF_webVars(WebTick) /\ WF_webVars(Connected \/ ControlMessage) /\ WF_webVars(AgentReads)

WebSpec == WebInit /\ [][WebNext]_webVars /\ WebFairness

---------------------------------------------------------------------------
(* Every variable keeps its type. *)
WebTypeOK ==
    /\ page \in {"asking", "reaching", "session", "waiting", "over"}
    /\ gone \in 0 .. BackFor /\ pauses \in 1 .. BackMax /\ grant \in 0 .. GrantBound
    /\ session.conn \in {"none", "connecting", "up"}
    /\ since \in 0 .. KeyframeEvery /\ Len(up) <= 2 /\ Len(down) <= 3
    /\ Len(out) <= OutBound + 2

(* No grant is presented twice, though a page that has to ask the person   *)
(* for the password connects again with the grant it has: "nothing has     *)
(* been presented yet - so the grant is still good".                       *)
GrantUnspent == \A g \in 1 .. GrantBound : presented[g] <= 1

(* Whether the key is down once the first n of these have been read, where *)
(* it was before them.                                                     *)
DownAfter(messages, before, n) ==
    \/ \E i \in DOMAIN messages :
          /\ i <= n /\ messages[i] = "down"
          /\ \A j \in DOMAIN messages : i < j /\ j <= n => messages[j] # "up"
    \/ before /\ \A j \in DOMAIN messages : j <= n => messages[j] # "up"

(* A key that is down at the device is held here, or its release is on     *)
(* the way: when the page lets go of everything, the device does; and text *)
(* typed for the person (type_text) is never typed under a held key, which *)
(* the character of a key without a position may be.  The stream starts    *)
(* with its kind, once.                                                    *)
KeysFollow == remote.sense /\ (DownAfter(out, remote.down, Len(out)) => holds)

(* A need for a keyframe is not lost to the limit on asking: a request     *)
(* follows, or the session is over.                                        *)
KeyframeAsked == broken ~> ~broken

(* A page that lost its device shows it again or says that it is over: the *)
(* loop ends, whatever the server and the agent do.                        *)
BackOrOver == page = "waiting" ~> page \in {"session", "over"}

(* What view.js says: connect again, for a while.  A page coming back does *)
(* not stop on a loss before its time is over.                             *)
ForAWhile == [][(SessionLost /\ gone \in 1 .. BackFor - 1) => page' = "waiting"]_webVars
====
