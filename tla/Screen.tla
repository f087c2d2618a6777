------------------------------- MODULE Screen -------------------------------
(***************************************************************************)
(* The agent's picture: the pipeline thread (agent/src/pipeline.rs), the   *)
(* capturer that duplicates the desktop and follows it (capture/src/       *)
(* dxgi.rs, desktop.rs), and the encoder, hardware first and then software *)
(* (codec/src/mediafoundation/encoder.rs, software.rs).                    *)
(*                                                                         *)
(* A picture is its number.  Windows is external: which desktop is in      *)
(* front, when a duplication loses access, when the hardware encoder asks  *)
(* for input and has output.  A duplication and the device made with it    *)
(* share a number.                                                         *)
(***************************************************************************)
EXTENDS Naturals, Sequences, FiniteSets

CONSTANTS
    Nv12Ring,     \* NV12_RING
    Depth,        \* how many inputs the hardware encoder takes ahead (external)
    PicBound2,    \* bound: pictures the screen shows
    TurnBound,    \* bound: desktop switches, mode changes, pointer changes
    GlitchBound,  \* bound: calls into Windows that fail
    LateBound     \* bound: outputs later than OUTPUT_TIMEOUT

(* With more than Nv12Ring - 1 inputs inside the encoder the texture being *)
(* written would be one it still reads; nothing in the code limits Depth.  *)
ASSUME RingAssumption == Nv12Ring \in Nat /\ Depth \in 1..(Nv12Ring - 1)
ASSUME ScrAssumption == PicBound2 \in Nat \ {0} /\ LateBound \in Nat

VARIABLES
    desk,       \* Windows: the desktop in front, the picture on it, the pointer
    capturer,   \* DxgiCapturer and its step
    dups,       \* Windows: duplications without access, and what is new to ours
    pipe,       \* the pipeline thread: step, pending, last, the pointer it sent
    asked,   \* the command channel: Keyframe, Quality
    enc,        \* MfEncoder; history: its session refused the rate
    mft,        \* the encoder of its session: inputs inside, outputs
    stream,     \* the frame sent last, and whether the viewer needs a keyframe
    spent       \* what the bounds have used up

capVars == <<capturer, dups>>
encVars == <<enc, mft>>
scrVars == <<desk, capVars, pipe, asked, encVars, stream, spent>>

NoPic == [pic |-> 0, device |-> 0]
Desktops == {"Default", "Winlogon"}
Pointers == {"shown", "hidden"}

(* Only SYSTEM may open or duplicate the secure desktop. *)
CanSee == desk.system \/ desk.front = "Default"
Live == {capturer.held, capturer.call} \ {0}
SettingUp == pipe.at \in {"open", "first"}
Newest == IF pipe.pending # NoPic THEN pipe.pending ELSE pipe.last

Glitch == spent.glitches < GlitchBound /\ spent' = [spent EXCEPT !.glitches = @ + 1]

ScrInit ==
    /\ desk \in [front : Desktops, pic : {1}, pointer : {"shown"}, system : BOOLEAN]
    /\ capturer = [at |-> "follow", held |-> 0, call |-> 0, device |-> 0,
                   desk |-> "Default"]
    /\ dups = [lost |-> {}, unseen |-> FALSE, pointer |-> FALSE]
    /\ pipe = [at |-> "open", pending |-> NoPic, last |-> NoPic, cursor |-> "none"]
    /\ asked = [key |-> FALSE, rate |-> 0]
    /\ enc = [kind |-> "none", device |-> 0, software |-> FALSE, force |-> FALSE,
              rate |-> 1, session |-> 1, refused |-> FALSE, unsent |-> 0]
    /\ mft = [inside |-> <<>>, outs |-> <<>>, fresh |-> FALSE, key |-> FALSE]
    /\ stream = [pic |-> 0, nth |-> 1, wants |-> FALSE, rate |-> 1]
    /\ spent = [turns |-> 0, glitches |-> 0, lates |-> 0]

---------------------------------------------------------------------------
(* Windows.  The thread looks at the desktop, and at the commands after    *)
(* it, only once it is back from encoding: what happens to either while it *)
(* encodes is no different from what happens then.                         *)
Looking == pipe.at \in {"open", "first", "capture"}

Turn ==
    /\ Looking /\ spent.turns < TurnBound
    /\ spent' = [spent EXCEPT !.turns = @ + 1]
    /\ UNCHANGED <<capturer, pipe, asked, encVars, stream>>

(* A UAC prompt, the lock screen, or back: every duplication loses access. *)
SwitchesDesktop ==
    /\ Turn
    /\ \E d \in Desktops \ {desk.front} : desk' = [desk EXCEPT !.front = d]
    /\ dups' = [dups EXCEPT !.lost = Live]

(* A resolution change, or a program taking the whole screen. *)
ChangesMode ==
    /\ Turn /\ Live # {}
    /\ dups' = [dups EXCEPT !.lost = Live]
    /\ UNCHANGED desk

MovesPointer ==
    /\ Turn
    /\ \E p \in Pointers \ {desk.pointer} : desk' = [desk EXCEPT !.pointer = p]
    /\ dups' = [dups EXCEPT !.pointer = TRUE]

Paints ==
    /\ Looking /\ desk.pic < PicBound2
    /\ desk' = [desk EXCEPT !.pic = @ + 1]
    /\ dups' = [dups EXCEPT !.unseen = TRUE]
    /\ UNCHANGED <<capturer, pipe, asked, encVars, stream, spent>>

---------------------------------------------------------------------------
(* How a call of the capturer ends.  In setup any error ends the start; in *)
(* the loop SourceLost and Blocked are waited out and the rest stop it.    *)
Ends == [pipe EXCEPT !.at = "over"]
AfterError(kind) ==
    IF SettingUp \/ kind = "Backend" THEN Ends ELSE [pipe EXCEPT !.at = "commands"]

(* A mutant: without a duplication there is nothing to do. *)
CallsNextFrame_GivesUp ==
    /\ pipe.at \in {"first", "capture"} /\ capturer.at = "out"
    /\ IF capturer.held = 0
       THEN pipe' = AfterError("Blocked") /\ UNCHANGED capturer
       ELSE capturer' = [capturer EXCEPT !.at = "acquire", !.call = capturer.held]
            /\ UNCHANGED pipe
    /\ UNCHANGED <<desk, dups, asked, encVars, stream, spent>>

(* next_frame begins: without a duplication, by rebuilding it. *)
CallsNextFrame ==
    /\ pipe.at \in {"first", "capture"} /\ capturer.at = "out"
    /\ capturer' = IF capturer.held = 0 THEN [capturer EXCEPT !.at = "follow"]
                   ELSE [capturer EXCEPT !.at = "acquire", !.call = capturer.held]
    /\ UNCHANGED <<desk, dups, pipe, asked, encVars, stream, spent>>

(* A mutant: the clone the call holds outlives the rebuild. *)
LosesAccess_CloneKept ==
    /\ capturer.at = "acquire" /\ capturer.call \in dups.lost
    /\ capturer' = [capturer EXCEPT !.at = "follow", !.held = 0]
    /\ UNCHANGED <<desk, dups, pipe, asked, encVars, stream, spent>>

(* DXGI_ERROR_ACCESS_LOST: both references go before anything is rebuilt.  *)
(* recover waits out REBUILD_PAUSE here.                                   *)
LosesAccess ==
    /\ capturer.at = "acquire" /\ capturer.call \in dups.lost
    /\ capturer' = [capturer EXCEPT !.at = "follow", !.held = 0, !.call = 0]
    /\ UNCHANGED <<desk, dups, pipe, asked, encVars, stream, spent>>

(* ThreadDesktop::follow moves the thread to the desktop in front, if it may. *)
Followed == IF CanSee THEN desk.front ELSE capturer.desk

(* The step that follows.  NoAccess ends recover with Blocked; new only    *)
(* logs it and goes on, and so does either for any other failure.          *)
Follows ==
    /\ capturer.at = "follow"
    /\ \/ /\ ~CanSee /\ pipe.at # "open"
          /\ capturer' = [capturer EXCEPT !.at = "out"]
          /\ pipe' = AfterError("Blocked")
          /\ UNCHANGED spent
       \/ /\ CanSee \/ pipe.at = "open"
          /\ capturer' = [capturer EXCEPT !.at = "rebuild", !.desk = Followed]
          /\ UNCHANGED <<pipe, spent>>
       \/ /\ CanSee /\ Glitch
          /\ capturer' = [capturer EXCEPT !.at = "rebuild"]
          /\ UNCHANGED pipe
    /\ UNCHANGED <<desk, dups, asked, encVars, stream>>

(* The new duplication starts with the whole picture and the pointer. *)
Rebuilt(born) == [lost |-> born, unseen |-> TRUE, pointer |-> TRUE]

RebuildFails(kind) ==
    /\ capturer.at = "rebuild"
    /\ capturer' = [capturer EXCEPT !.at = "out"]
    /\ pipe' = AfterError(kind)
    /\ UNCHANGED <<desk, dups, asked, encVars, stream>>

(* find_output: the display of that number is no longer attached. *)
DisplayGone == Glitch /\ RebuildFails("Backend")

(* create_device, with video support and then without. *)
DeviceRefused == Glitch /\ RebuildFails("Backend")

(* duplicate: the secure desktop came in front. *)
DuplicateDenied == ~CanSee /\ RebuildFails("Blocked") /\ UNCHANGED spent

(* Made beside a duplication that lives, or on a desktop that is not in    *)
(* front, the new one has lost access at once.                             *)
Born(id) == IF Live # {} \/ capturer.desk # desk.front THEN {id} \cup Live ELSE {}

(* recover, or new: the output, the device and the duplication afresh.     *)
Duplicates ==
    /\ capturer.at = "rebuild" /\ CanSee
    /\ LET id == capturer.device + 1
       IN  /\ capturer' = [capturer EXCEPT !.at = "out", !.held = id, !.device = id]
           /\ dups' = Rebuilt(Born(id))
    /\ pipe' = IF pipe.at = "open" THEN [pipe EXCEPT !.at = "first"]
               ELSE AfterError("SourceLost")
    /\ UNCHANGED <<desk, asked, encVars, stream, spent>>

(* A mutant: only a frame with a picture is looked at for the pointer. *)
NotePointer_WithPicture ==
    IF dups.pointer /\ dups.unseen THEN desk.pointer ELSE pipe.cursor

(* note_pointer and forward_pointer: what is new of the pointer. *)
NotePointer == IF dups.pointer THEN desk.pointer ELSE pipe.cursor

(* The picture, copied to our own texture on the capturer's device. *)
Copied == [pic |-> desk.pic, device |-> capturer.device]

(* A frame: the pointer is noted, the picture copied if there is a new     *)
(* one, the frame released; forward_pointer follows every call.            *)
Acquires ==
    /\ capturer.at = "acquire" /\ capturer.call \notin dups.lost
    /\ dups.unseen \/ dups.pointer
    /\ capturer' = [capturer EXCEPT !.at = "out", !.call = 0]
    /\ dups' = [dups EXCEPT !.unseen = FALSE, !.pointer = FALSE]
    /\ pipe' = [pipe EXCEPT
           !.at = IF dups.unseen \/ ~SettingUp THEN "commands" ELSE "first",
           !.pending = IF dups.unseen THEN Copied ELSE @,
           !.cursor = NotePointer]
    /\ UNCHANGED <<desk, asked, encVars, stream, spent>>

(* Nothing within the timeout: the loop goes round; a start whose first    *)
(* frame does not come in two seconds fails.                               *)
WaitsInVain ==
    /\ capturer.at = "acquire" /\ capturer.call \notin dups.lost
    /\ ~dups.unseen /\ ~dups.pointer
    /\ capturer' = [capturer EXCEPT !.at = "out", !.call = 0]
    /\ pipe' = IF SettingUp THEN Ends ELSE [pipe EXCEPT !.at = "commands"]
    /\ UNCHANGED <<desk, dups, asked, encVars, stream, spent>>

(* AcquireNextFrame, the copy or the rectangles fail. *)
AcquireFails ==
    /\ capturer.at = "acquire" /\ Glitch
    /\ capturer' = [capturer EXCEPT !.at = "out", !.call = 0]
    /\ pipe' = AfterError("Backend")
    /\ UNCHANGED <<desk, dups, asked, encVars, stream>>

---------------------------------------------------------------------------
(* The session: it asks for keyframes, sets the quality, and lets go.      *)
ViewerAsksKeyframe ==
    /\ pipe.at = "capture" /\ ~asked.key
    /\ asked' = [asked EXCEPT !.key = TRUE]
    /\ stream' = [stream EXCEPT !.wants = TRUE]
    /\ UNCHANGED <<desk, capVars, pipe, encVars, spent>>

AsksAgain == stream.wants /\ ViewerAsksKeyframe

SetsQuality ==
    /\ Looking /\ stream.rate = 1
    /\ asked' = [asked EXCEPT !.rate = 2]
    /\ stream' = [stream EXCEPT !.rate = 2]
    /\ UNCHANGED <<desk, capVars, pipe, encVars, spent>>

(* The command sender is dropped: Disconnected. *)
SenderDropped ==
    /\ pipe.at = "commands"
    /\ pipe' = Ends
    /\ UNCHANGED <<desk, capVars, asked, encVars, stream, spent>>

(* Two mutants: the frame to encode again is forgotten; the rate reaches   *)
(* the session and not the configuration.                                  *)
TakesCommands_NotEncodedAgain ==
    /\ pipe.at = "commands"
    /\ asked' = [asked EXCEPT !.key = FALSE, !.rate = 0]
    /\ enc' = [enc EXCEPT !.force = @ \/ asked.key,
                          !.rate = IF asked.rate # 0 THEN asked.rate ELSE @,
                          !.session = IF asked.rate # 0 /\ enc.kind # "none"
                                      THEN asked.rate ELSE @]
    /\ pipe' = [pipe EXCEPT !.at = "encode"]
    /\ UNCHANGED <<desk, capVars, mft, stream, spent>>

TakesCommands_SessionOnly ==
    LET again == asked.key /\ pipe.pending = NoPic IN
    /\ pipe.at = "commands"
    /\ asked' = [asked EXCEPT !.key = FALSE, !.rate = 0]
    /\ enc' = [enc EXCEPT !.force = @ \/ asked.key,
                          !.session = IF asked.rate # 0 /\ enc.kind # "none"
                                      THEN asked.rate ELSE @]
    /\ pipe' = [pipe EXCEPT !.at = "encode",
                            !.pending = IF again THEN pipe.last ELSE @,
                            !.last = IF again THEN NoPic ELSE @]
    /\ UNCHANGED <<desk, capVars, mft, stream, spent>>

(* The commands that wait.  A keyframe is forced from the next input on,   *)
(* and on an idle desktop the last frame is encoded again to carry it.  A  *)
(* rate is kept in the configuration before the session is told, which may *)
(* refuse it, or have nothing to tell (no ICodecAPI); the thread goes on.  *)
Takes(refused) ==
    LET again == asked.key /\ pipe.pending = NoPic
        told == asked.rate # 0 /\ enc.kind # "none"
    IN  /\ pipe.at = "commands"
        /\ asked' = [asked EXCEPT !.key = FALSE, !.rate = 0]
        /\ enc' = [enc EXCEPT !.force = @ \/ asked.key,
                              !.rate = IF asked.rate # 0 THEN asked.rate ELSE @,
                              !.session = IF told /\ ~refused THEN asked.rate ELSE @,
                              !.refused = IF told THEN refused ELSE @]
        /\ pipe' = [pipe EXCEPT !.at = "encode",
                                !.pending = IF again THEN pipe.last ELSE @,
                                !.last = IF again THEN NoPic ELSE @]
        /\ UNCHANGED <<desk, capVars, mft, stream>>

TakesCommands == Takes(FALSE) /\ UNCHANGED spent

(* set_quality fails in the session: pipeline.rs only warns.               *)
RateRefused == asked.rate # 0 /\ enc.kind # "none" /\ Glitch /\ Takes(TRUE)

NothingToEncode ==
    /\ pipe.at = "encode" /\ pipe.pending = NoPic
    /\ pipe' = [pipe EXCEPT !.at = "capture"]
    /\ UNCHANGED <<desk, capVars, asked, encVars, stream, spent>>

---------------------------------------------------------------------------
(* MfEncoder::encode.  A frame of another device than the session's, or    *)
(* none yet: the session goes, and one is opened on the new device, in     *)
(* hardware until that failed once.                                        *)
NewMft == [inside |-> <<>>, outs |-> <<>>, fresh |-> TRUE, key |-> FALSE]

Opened(kind) ==
    [enc EXCEPT !.kind = kind, !.device = pipe.pending.device, !.force = FALSE,
                !.software = (kind = "sw"),
                !.session = enc.rate, !.refused = FALSE, !.unsent = 0]

Stale ==
    /\ pipe.at = "encode" /\ pipe.pending # NoPic
    /\ enc.kind = "none" \/ enc.device # pipe.pending.device
    /\ UNCHANGED <<desk, capVars, asked, stream>>

(* Session::new. *)
BindsHardware ==
    /\ Stale /\ ~enc.software
    /\ enc' = Opened("hw") /\ mft' = NewMft
    /\ UNCHANGED <<pipe, spent>>

(* SoftwareSession::new: once hardware failed, and ever after. *)
BindsSoftware ==
    /\ Stale
    /\ IF enc.software THEN UNCHANGED spent ELSE Glitch
    /\ enc' = Opened("sw") /\ mft' = NewMft
    /\ UNCHANGED pipe

(* No encoder at all: the old session is gone, and the pipeline stops. *)
NoEncoder ==
    /\ Stale /\ Glitch
    /\ enc' = [enc EXCEPT !.kind = "none", !.software = TRUE]
    /\ pipe' = Ends
    /\ UNCHANGED mft

Bound(kind) ==
    pipe.at = "encode" /\ enc.kind = kind /\ enc.device = pipe.pending.device

(* A mutant: the ring does not turn. *)
Aged_SameTexture(input) == [input EXCEPT !.age = Nv12Ring]

(* next_nv12 turns: a texture comes round again after Nv12Ring frames. *)
Aged(input) == [input EXCEPT !.age = @ + 1]

Encoding(inside) ==
    /\ mft' = [mft EXCEPT !.key = @ \/ enc.force, !.inside = inside]
    /\ enc' = [enc EXCEPT !.force = FALSE]
    /\ pipe' = [pipe EXCEPT !.at = "input"]
    /\ UNCHANGED <<desk, capVars, asked, stream, spent>>

(* Session::encode: converted on the GPU into the next texture of the      *)
(* ring, and a keyframe forced.                                            *)
Converts == Bound("hw") /\ Encoding([i \in DOMAIN mft.inside |-> Aged(mft.inside[i])])

(* SoftwareSession::encode: read back and converted on the CPU. *)
ReadsBack == Bound("sw") /\ Encoding(mft.inside)

(* The encoder fails: converting, forcing, taking input, an event of       *)
(* failure, or no input asked for in INPUT_TIMEOUT.                        *)
EncodeFails ==
    /\ pipe.at \in {"input", "output"} /\ Glitch
    /\ pipe' = Ends
    /\ UNCHANGED <<desk, capVars, asked, encVars, stream>>

(* What goes in: a fresh encoder starts with a keyframe, and a forced one  *)
(* is what the next input becomes.  Its place is counted from the frame of *)
(* its session that was sent last.                                         *)
Input == [pic |-> pipe.pending.pic, key |-> mft.fresh \/ mft.key,
          nth |-> enc.unsent + 1, age |-> 0]

ProcessInput ==
    /\ pipe.at = "input"
    /\ enc' = [enc EXCEPT !.unsent = @ + 1]
    /\ mft' = [mft EXCEPT !.inside = Append(@, Input), !.fresh = FALSE, !.key = FALSE]
    /\ pipe' = [pipe EXCEPT !.at = "output"]
    /\ UNCHANGED <<desk, capVars, asked, stream, spent>>

(* The hardware encoder asked for input (need_input, an event of the pump  *)
(* thread): it does while it has room.                                     *)
GivesHardware == enc.kind = "hw" /\ Len(mft.inside) < Depth /\ ProcessInput

(* The software one takes it always. *)
GivesSoftware == enc.kind = "sw" /\ ProcessInput

(* A mutant: the newest output first. *)
Popped_Newest(outs) == [out |-> outs[Len(outs)], rest |-> SubSeq(outs, 1, Len(outs) - 1)]

(* pending.pop_front(). *)
Popped(outs) == [out |-> Head(outs), rest |-> Tail(outs)]

(* What encode returned is sent. *)
Sends(out) ==
    stream' = [stream EXCEPT !.pic = out.pic, !.nth = out.nth, !.wants = @ /\ ~out.key]
Closer(outs) == [i \in DOMAIN outs |-> [outs[i] EXCEPT !.nth = @ - 1]]

(* A mutant: the frame encoded is not kept. *)
Kept_Dropped == [pipe EXCEPT !.at = "capture", !.pending = NoPic]

(* The frame encoded stays at hand, for a keyframe on an idle desktop. *)
Kept == [pipe EXCEPT !.at = "capture", !.pending = NoPic, !.last = pipe.pending]

(* Session::encode returns the oldest output, this frame's own or one that *)
(* was late.                                                               *)
ReturnsOutput ==
    /\ pipe.at = "output" /\ mft.outs # <<>>
    /\ mft' = [mft EXCEPT !.outs = Closer(Popped(mft.outs).rest), !.inside = Closer(@)]
    /\ enc' = [enc EXCEPT !.unsent = @ - 1]
    /\ Sends(Popped(mft.outs).out)
    /\ pipe' = Kept
    /\ UNCHANGED <<desk, capVars, asked, spent>>

ReturnsNothing ==
    /\ pipe.at = "output" /\ mft.outs = <<>>
    /\ spent.lates < LateBound
    /\ spent' = [spent EXCEPT !.lates = @ + 1]
    /\ pipe' = Kept
    /\ UNCHANGED <<desk, capVars, asked, encVars, stream>>

(* No output within OUTPUT_TIMEOUT. *)
OutputLate == enc.kind = "hw" /\ ReturnsNothing

(* MF_E_TRANSFORM_NEED_MORE_INPUT: it comes out with the next frame. *)
HeldBack == enc.kind = "sw" /\ ReturnsNothing

---------------------------------------------------------------------------
EncoderDone ==
    /\ pipe.at # "over" /\ mft.inside # <<>>
    /\ mft' = [mft EXCEPT !.inside = Tail(@), !.outs = Append(@, Head(mft.inside))]
    /\ UNCHANGED <<desk, capVars, pipe, asked, enc, stream, spent>>

(* The hardware encoder has output, at any time: the pump thread passes it *)
(* on, and it waits until encode looks.                                    *)
PumpPasses == enc.kind = "hw" /\ EncoderDone

(* The software one gives its output to the call that asks, one at a time. *)
CollectsOutput ==
    enc.kind = "sw" /\ pipe.at = "output" /\ mft.outs = <<>> /\ EncoderDone

---------------------------------------------------------------------------
PipelineStep ==
    \/ CallsNextFrame \/ LosesAccess \/ Follows \/ Duplicates \/ DuplicateDenied
    \/ Acquires \/ WaitsInVain
    \/ TakesCommands \/ NothingToEncode \/ BindsHardware \/ BindsSoftware
    \/ Converts \/ ReadsBack \/ GivesHardware \/ GivesSoftware
    \/ CollectsOutput \/ ReturnsOutput

ScrNext ==
    \/ SwitchesDesktop \/ ChangesMode \/ MovesPointer \/ Paints
    \/ PipelineStep \/ PumpPasses
    \/ DisplayGone \/ DeviceRefused \/ AcquireFails
    \/ RateRefused \/ NoEncoder \/ EncodeFails \/ OutputLate \/ HeldBack
    \/ ViewerAsksKeyframe \/ SetsQuality \/ SenderDropped

(* The thread runs on; the viewer repeats its request until it is served   *)
(* (here at the step the thread comes back to, hence SF); an encoder that  *)
(* has not failed works.                                                   *)
ScrFairness ==
    /\ WF_scrVars(PipelineStep)
    /\ SF_scrVars(AsksAgain)
    /\ WF_scrVars(PumpPasses)

ScrSpec == ScrInit /\ [][ScrNext]_scrVars /\ ScrFairness

---------------------------------------------------------------------------
(* Every variable keeps its type, and no more devices are made than the    *)
(* desktop gave cause to.                                                  *)
ScrTypeOK ==
    /\ desk.front \in Desktops /\ desk.pic \in 1..PicBound2
    /\ capturer.at \in {"out", "acquire", "follow", "rebuild"}
    /\ capturer.held \in {0, capturer.device}
    /\ pipe.at \in {"open", "first", "commands", "encode", "input", "output", "capture", "over"}
    /\ pipe.cursor \in Pointers \cup {"none"}
    /\ enc.kind \in {"none", "hw", "sw"}
    /\ Len(mft.inside) <= Depth + LateBound

(* A lost duplication is gone, to the last reference, before the next is   *)
(* made (dxgi.rs recover, next_frame): two never live at once, since one   *)
(* made beside another is lost straight away, and so on for ever.          *)
OneDuplication == Cardinality(Live) <= 1

(* The texture a frame is converted into is none the hardware encoder      *)
(* still reads (encoder.rs NV12_RING), late outputs included.              *)
RingSafe ==
    (pipe.at = "input" /\ enc.kind = "hw") =>
        \A i \in DOMAIN mft.inside : mft.inside[i].age < Nv12Ring

(* Outside of a call there is always a frame at hand to make a keyframe    *)
(* of, from the device the session is bound to: a request re-encodes the   *)
(* last frame without moving the encoder back to a device that is gone     *)
(* (pipeline.rs last, encoder.rs stale).                                   *)
KeyframeAtHand ==
    pipe.at \in {"commands", "capture"} =>
        /\ Newest # NoPic
        /\ pipe.last # NoPic => pipe.last.device = enc.device

(* What the viewer was told of the pointer is what the duplication last    *)
(* reported, across rebuilds and on frames without a picture.              *)
PointerTold ==
    (~SettingUp /\ pipe.at # "over" /\ capturer.held # 0 /\ ~dups.pointer)
        => pipe.cursor = desk.pointer

(* The session encodes at the rate asked for last, unless it refused that  *)
(* one; and then the next session does, opened after a loss of the device: *)
(* set_quality keeps the rate in the configuration first.                  *)
RateKept ==
    (enc.kind # "none" /\ asked.rate = 0 /\ pipe.at # "over" /\ ~enc.refused)
        => enc.session = stream.rate

(* A frame sent follows directly on the one before it in its encoder       *)
(* session, or is the first of a new session: outputs left inside by a     *)
(* timeout come out later, in order and without a gap, so that no delta    *)
(* frame goes out without its predecessor.                                 *)
NoGap == stream.nth = 1

(* A keyframe the viewer needs is sent, on an idle or a blocked desktop    *)
(* too, unless the pipeline ends.                                          *)
KeyframeDone == ~stream.wants \/ pipe.at = "over"
KeyframeSent == stream.wants ~> KeyframeDone

(* When the desktop in front can be seen again, what is on it is sent, or  *)
(* the pipeline ends: unless an output was late, which leaves the last     *)
(* change of an idle desktop inside the encoder.                           *)
PictureDue == CanSee /\ spent.lates = 0
PictureDone == pipe.at = "over" \/ stream.pic = desk.pic
PictureReturns == <>[]PictureDue => []<>PictureDone

(* Not so, by the code: a start that meets the secure desktop does not     *)
(* wait for it to go, it fails (open, and setup's next_frame).             *)
BlockedIsTemporary ==
    [][ (Looking /\ ~CanSee /\ pipe'.at = "over") => spent'.glitches > spent.glitches ]_scrVars
=============================================================================
