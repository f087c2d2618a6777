------------------------------ MODULE MCViewer ------------------------------
(***************************************************************************)
(* What a person at a viewer sees and does, for TLC: the device's screen   *)
(* on its way to the encoder, the presenter with its two threads and the   *)
(* GPU, the introductions and the race of the ways there, the session that *)
(* comes back after a loss, the page in a browser, and the clipboard at    *)
(* both ends. `part` says which of them a behaviour is of; the others stay *)
(* as they began. Since `part` never changes, a leads-to between           *)
(* disjunctions over the parts is one leads-to for each of them.           *)
(***************************************************************************)
EXTENDS Screen, Presenter, Introduce, ViewerSession, WebViewer, Clipboard

VARIABLE part

viewerVars == <<part, scrVars, presVars, introVars, vsVars, webVars, clipVars>>

ViewerInit ==
    /\ part \in {"screen", "presenter", "introduce", "session", "web", "clipboard"}
    /\ ScrInit /\ PresInit /\ IntroInit /\ VsInit /\ WebInit /\ ClipInit
    /\ part = "screen" \/ (desk.system /\ desk.front = "Default")
    /\ part = "introduce" \/ route = "best"
    /\ part = "session" \/ pane = "none"
    /\ part = "web" \/ required = "grant"

(* The parts that are not at work. *)
Others ==
    /\ UNCHANGED part
    /\ IF part = "screen" THEN TRUE ELSE UNCHANGED scrVars
    /\ IF part = "presenter" THEN TRUE ELSE UNCHANGED presVars
    /\ IF part = "introduce" THEN TRUE ELSE UNCHANGED introVars
    /\ IF part = "session" THEN TRUE ELSE UNCHANGED vsVars
    /\ IF part = "web" THEN TRUE ELSE UNCHANGED webVars
    /\ IF part = "clipboard" THEN TRUE ELSE UNCHANGED clipVars

ViewerNext ==
    \/ part = "screen" /\ ScrNext /\ Others
    \/ part = "presenter" /\ PresNext /\ Others
    \/ part = "introduce" /\ IntroNext /\ Others
    \/ part = "session" /\ VsNext /\ Others
    \/ part = "web" /\ WebNext /\ Others
    \/ part = "clipboard" /\ ClipNext /\ Others

(* The fairness conditions of ScrSpec, PresSpec, IntroSpec, VsSpec,        *)
(* WebSpec and ClipSpec, each for the part at work.                        *)
ViewerFairness ==
    /\ WF_scrVars(part = "screen" /\ PipelineStep)
    /\ SF_scrVars(part = "screen" /\ AsksAgain)
    /\ WF_scrVars(part = "screen" /\ PumpPasses)
    /\ WF_presVars(part = "presenter" /\ DecodeRuns)
    /\ WF_presVars(part = "presenter" /\ WindowRuns)
    /\ WF_presVars(part = "presenter" /\ (WriteBegins \/ WriteEnds))
    /\ WF_presVars(part = "presenter" /\ (DrawBegins \/ DrawEnds))
    /\ WF_introVars(part = "introduce" /\ Progresses)
    /\ WF_introVars(part = "introduce" /\ IntroducerClosed)
    /\ \A p \in Paths :
          /\ WF_introVars(part = "introduce" /\ NotUsed(p))
          /\ WF_introVars(part = "introduce" /\ ServeEnds(p))
    /\ WF_vsVars(part = "session" /\ GoesOn)
    /\ WF_vsVars(part = "session" /\ StaleEnds)
    /\ WF_vsVars(part = "session" /\ pane = "closed" /\ Leaves)
    /\ WF_webVars(part = "web" /\ (GetsGrant \/ NoAccess \/ Reaches \/ NotReached \/ Waited))
    /\ WF_webVars(part = "web" /\ WebTick)
    /\ WF_webVars(part = "web" /\ (Connected \/ ControlMessage))
    /\ WF_webVars(part = "web" /\ AgentReads)
    /\ \A s \in Sides : WF_clipVars(part = "clipboard" /\ Runs(s))

ViewerSpec == ViewerInit /\ [][ViewerNext]_viewerVars /\ ViewerFairness

---------------------------------------------------------------------------
(* What captures and encodes the screen holds to, across desktops that     *)
(* change, devices that are lost and outputs that are late: one            *)
(* duplication, a texture no one still reads, a frame to make a keyframe   *)
(* of, the pointer and the rate as last told, no gap in what is sent       *)
(* (capture/src/dxgi.rs; codec/src/mediafoundation/encoder.rs;             *)
(* agent/src/pipeline.rs).                                                 *)
ScreenSafe ==
    /\ ScrTypeOK /\ OneDuplication /\ RingSafe /\ KeyframeAtHand
    /\ PointerTold /\ RateKept /\ NoGap

(* What a person sees is so: a picture whole while it is first drawn and a *)
(* decoder never held up; a session carried by a connection that is there, *)
(* and given up only when nothing works; a loss shown as one; a grant      *)
(* presented once; keys that follow the page; a clipboard in step          *)
(* (viewer/src/present, direct.rs; transport/src/rendezvous.rs;            *)
(* web-viewer/src/session.rs; server/web/view.js; clipboard/src/lib.rs).   *)
ViewerSafe ==
    /\ PresTypeOK /\ FreshWhole /\ NeverStalls
    /\ IntroTypeOK /\ CarrierThere /\ UsesWhatWorks
    /\ VsTypeOK /\ LinkTruth
    /\ WebTypeOK /\ GrantUnspent /\ KeysFollow
    /\ ClipTypeOK /\ InStep

(* What no step may do: a viewer turned away for its own other connection, *)
(* a decision of the agent or its person tried again, a pasted text sent   *)
(* back (transport/src/rendezvous.rs; viewer/src/direct.rs;                *)
(* clipboard/src/lib.rs).                                                  *)
ViewerSteps == NoSelfBusy /\ DecisionsFinal /\ NoEcho

(* What must come in the end, for the part at work: the keyframe a viewer  *)
(* needs, the slots of the ring, the end of the introductions with nothing *)
(* left of them, the device's slot, the request for a keyframe, rest on    *)
(* the clipboards; after a loss, the session again or its end; and the     *)
(* picture that is on the desktop, once it can be seen (KeyframeSent,      *)
(* SlotsComeBack, Settles, SlotFreed, KeyframeAsked, ComesToRest; GivesUp, *)
(* BackOrOver; PictureReturns of the modules).                             *)
ViewerLives ==
    /\ (\/ part = "screen" /\ stream.wants
        \/ part = "presenter" /\ SlotsOut
        \/ part = "introduce" /\ stage = "connecting"
        \/ part = "session" /\ SlotLeft
        \/ part = "web" /\ broken
        \/ part = "clipboard" /\ ~Quiet)
       ~> (\/ part = "screen" /\ KeyframeDone
           \/ part = "presenter" /\ ~SlotsOut
           \/ part = "introduce" /\ Settled
           \/ part = "session" /\ ~SlotLeft
           \/ part = "web" /\ ~broken
           \/ part = "clipboard" /\ Quiet)
    /\ (\/ part = "session" /\ phase = "waiting"
        \/ part = "web" /\ page = "waiting")
       ~> (\/ part = "session" /\ phase \in {"live", "over"}
           \/ part = "web" /\ page \in {"session", "over"})
    /\ <>[](part = "screen" /\ PictureDue) => []<>(part = "screen" /\ PictureDone)
=============================================================================
