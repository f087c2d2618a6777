----------------------------- MODULE Presenter -----------------------------
(***************************************************************************)
(* The viewer's window: the decode thread writes pictures into a ring of   *)
(* slots shared by two GPU queues, the window draws them, and fences tell  *)
(* each how far the other is (viewer/src/present/mod.rs, decode.rs,        *)
(* interop.rs).                                                            *)
(*                                                                         *)
(* A picture is its number and its size, 1 or 2.  Both GPU queues execute  *)
(* what they were given later and in order; writing and sampling a slot    *)
(* take time.                                                              *)
(***************************************************************************)
EXTENDS Naturals, Sequences, FiniteSets

CONSTANTS
    Slots,      \* SLOTS
    PicBound    \* bound: pictures that arrive

ASSUME PresAssumption == Slots \in Nat \ {0} /\ PicBound \in Nat

VARIABLES
    arrived,    \* the newest picture received, and its size
    decoding,   \* decode thread: pictures decoded, next fence value, ring, slot
                \* size, the value last written to each slot, the size asked for
    rings,      \* sizes of bigger rings on their way to the decode thread
    posted,     \* user events on their way to the window
    window,     \* its ring, the newest frame not drawn, the frame on screen
    writes,     \* what the decode queue was given
    draws,      \* what the render queue was given
    fences,     \* the decode and the render fence
    busy,       \* the slot each GPU queue works on
    slotPic,    \* the picture in each slot of each ring
    handed      \* history: the value of the newest frame posted

decodeVars == <<arrived, decoding, writes>>
gpuVars == <<fences, busy, slotPic>>
presVars == <<decodeVars, rings, posted, window, draws, gpuVars, handed>>

NoFrame == [value |-> 0, slot |-> 0, ring |-> 0, pic |-> 0]
NoWork == [slot |-> 0, ring |-> 0, pic |-> 0, fresh |-> FALSE]
SlotOf(value) == (value - 1) % Slots
RingNumbers == {0, 1}

(* The network side hands over a picture. *)
Arrives ==
    /\ arrived.pic < PicBound
    /\ \E size \in {1, 2} : arrived' = [pic |-> arrived.pic + 1, size |-> size]
    /\ UNCHANGED <<decoding, writes, rings, posted, window, draws, gpuVars, handed>>

---------------------------------------------------------------------------
(* run: everything that waits is decoded, and the newest is the one to     *)
(* show.  A ring that came is switched to first.                           *)
Switched ==
    IF rings = <<>> THEN decoding
    ELSE [decoding EXCEPT !.ring = @ + 1, !.size = Head(rings), !.asked = 0,
                          !.slots = [s \in 0..(Slots - 1) |-> 0]]

Decode(side) ==
    /\ decoding.pic < arrived.pic
    /\ rings' = IF rings = <<>> THEN rings ELSE Tail(rings)
    /\ decoding' = [side EXCEPT !.pic = arrived.pic]
    /\ UNCHANGED <<arrived, window, draws, gpuVars>>

(* A picture larger than the slots: the window is asked once for bigger    *)
(* ones, and this picture is not shown.                                    *)
DecodeGrow ==
    LET side == Switched IN
    /\ arrived.size > side.size
    /\ Decode([side EXCEPT !.asked = arrived.size])
    /\ posted' = IF side.asked = arrived.size THEN posted
                 ELSE Append(posted, [type |-> "Grow", frame |-> NoFrame])
    /\ UNCHANGED <<writes, handed>>

(* A mutant: the slot is not looked at, and the queue is left to wait. *)
SlotHeld_NotLooked(side) == FALSE

(* The renderer still holds the slot: the picture is not shown. *)
SlotHeld(side) == fences.render < side.slots[SlotOf(side.next)]

DecodeSkips ==
    LET side == Switched IN
    /\ arrived.size <= side.size /\ SlotHeld(side)
    /\ Decode(side)
    /\ UNCHANGED <<posted, writes, handed>>

DecodeShows ==
    LET side == Switched
        slot == SlotOf(side.next)
        frame == [value |-> side.next, slot |-> slot, ring |-> side.ring, pic |-> arrived.pic]
    IN
    /\ arrived.size <= side.size /\ ~SlotHeld(side)
    /\ Decode([side EXCEPT !.next = @ + 1, !.slots = [@ EXCEPT ![slot] = side.next]])
    /\ writes' = Append(writes, [frame |-> frame, after |-> side.slots[slot]])
    /\ posted' = Append(posted, [type |-> "Frame", frame |-> frame])
    /\ handed' = frame.value

---------------------------------------------------------------------------
(* The window's event loop. *)

(* user_event *)
EventFrame ==
    /\ posted # <<>> /\ Head(posted).type = "Frame"
    /\ posted' = Tail(posted)
    /\ window' = [window EXCEPT !.latest = Head(posted).frame]
    /\ UNCHANGED <<decodeVars, rings, draws, gpuVars, handed>>

(* grow: a new ring; the frame on screen was in the old one. *)
EventGrow ==
    /\ posted # <<>> /\ Head(posted).type = "Grow"
    /\ posted' = Tail(posted)
    /\ window' = [window EXCEPT !.ring = @ + 1, !.shown = NoFrame]
    /\ rings' = Append(rings, 2)
    /\ UNCHANGED <<decodeVars, draws, gpuVars, handed>>

(* A mutant: no wait for the decode fence. *)
Command_NoWait(wait, sample, done) == [wait |-> 0, sample |-> sample, done |-> done]

(* What the render queue is given: wait_for_frame, the pass that samples a *)
(* slot of the window's ring, and frame_done.                              *)
Command(wait, sample, done) == [wait |-> wait, sample |-> sample, done |-> done]
Sample(frame, isFresh) ==
    [slot |-> frame.slot, ring |-> window.ring, pic |-> frame.pic, fresh |-> isFresh]

(* A mutant: with nothing to draw into, the slot is not given back. *)
DrawFresh_SlotKept ==
    LET frame == window.latest IN
    /\ frame # NoFrame /\ posted = <<>>
    /\ \E target \in BOOLEAN :
          draws' = IF target
                   THEN Append(draws, Command(frame.value, Sample(frame, TRUE), frame.value))
                   ELSE draws
    /\ window' = [window EXCEPT !.latest = NoFrame, !.shown = frame]
    /\ UNCHANGED <<decodeVars, rings, posted, gpuVars, handed>>

(* draw(Some(frame)), from about_to_wait once no event is left: waits for  *)
(* the decode fence, samples, and signals the render fence.  A frame of a  *)
(* ring since replaced, or with nothing to draw into, is only signalled.   *)
DrawFresh ==
    LET frame == window.latest IN
    /\ frame # NoFrame /\ posted = <<>>
    /\ \E target \in BOOLEAN :
          LET old == frame.ring # window.ring IN
          /\ draws' = Append(draws, IF old \/ ~target
                                    THEN Command(0, NoWork, frame.value)
                                    ELSE Command(frame.value, Sample(frame, TRUE), frame.value))
          /\ window' = [window EXCEPT !.latest = NoFrame, !.shown = IF old THEN @ ELSE frame]
    /\ UNCHANGED <<decodeVars, rings, posted, gpuVars, handed>>

(* draw(None): what is on screen once more.  Bound: one at a time. *)
Redraw ==
    /\ window.shown # NoFrame /\ draws = <<>>
    /\ draws' = Append(draws, Command(0, Sample(window.shown, FALSE), 0))
    /\ UNCHANGED <<decodeVars, rings, posted, window, gpuVars, handed>>

---------------------------------------------------------------------------
(* The two GPU queues. *)

WriteBegins ==
    /\ writes # <<>> /\ busy.write = NoWork
    /\ fences.render >= Head(writes).after
    /\ LET f == Head(writes).frame IN
       busy' = [busy EXCEPT !.write = [slot |-> f.slot, ring |-> f.ring, pic |-> f.pic, fresh |-> FALSE]]
    /\ UNCHANGED <<decodeVars, rings, posted, window, draws, fences, slotPic, handed>>

WriteEnds ==
    /\ busy.write # NoWork
    /\ LET f == Head(writes).frame IN
       /\ slotPic' = [slotPic EXCEPT ![f.ring] = [@ EXCEPT ![f.slot] = f.pic]]
       /\ fences' = [fences EXCEPT !.decode = f.value]
    /\ busy' = [busy EXCEPT !.write = NoWork]
    /\ writes' = Tail(writes)
    /\ UNCHANGED <<arrived, decoding, rings, posted, window, draws, handed>>

DrawBegins ==
    /\ draws # <<>> /\ busy.sample = NoWork /\ Head(draws).sample # NoWork
    /\ fences.decode >= Head(draws).wait
    /\ busy' = [busy EXCEPT !.sample = Head(draws).sample]
    /\ UNCHANGED <<decodeVars, rings, posted, window, draws, fences, slotPic, handed>>

DrawEnds ==
    /\ draws # <<>> /\ busy.sample = Head(draws).sample
    /\ fences' = [fences EXCEPT !.render = IF Head(draws).done = 0 THEN @ ELSE Head(draws).done]
    /\ busy' = [busy EXCEPT !.sample = NoWork]
    /\ draws' = Tail(draws)
    /\ UNCHANGED <<decodeVars, rings, posted, window, slotPic, handed>>

---------------------------------------------------------------------------
PresInit ==
    /\ arrived = [pic |-> 0, size |-> 1]
    /\ decoding = [pic |-> 0, next |-> 1, ring |-> 0, size |-> 1, asked |-> 0,
                   slots |-> [s \in 0..(Slots - 1) |-> 0]]
    /\ rings = <<>> /\ posted = <<>> /\ writes = <<>> /\ draws = <<>>
    /\ window = [ring |-> 0, latest |-> NoFrame, shown |-> NoFrame]
    /\ fences = [decode |-> 0, render |-> 0]
    /\ busy = [write |-> NoWork, sample |-> NoWork]
    /\ slotPic = [r \in RingNumbers |-> [s \in 0..(Slots - 1) |-> 0]]
    /\ handed = 0

WindowRuns == EventFrame \/ EventGrow \/ DrawFresh
DecodeRuns == DecodeGrow \/ DecodeSkips \/ DecodeShows
GpuRuns == WriteBegins \/ WriteEnds \/ DrawBegins \/ DrawEnds

PresNext == Arrives \/ DecodeRuns \/ WindowRuns \/ Redraw \/ GpuRuns

(* Both threads run, and the GPU executes what its queues hold. *)
PresFairness ==
    /\ WF_presVars(DecodeRuns) /\ WF_presVars(WindowRuns)
    /\ WF_presVars(WriteBegins \/ WriteEnds) /\ WF_presVars(DrawBegins \/ DrawEnds)

PresSpec == PresInit /\ [][PresNext]_presVars /\ PresFairness

---------------------------------------------------------------------------
(* Rings, slots and values keep to their ranges. *)
PresTypeOK ==
    /\ decoding.ring \in RingNumbers /\ window.ring \in RingNumbers
    /\ decoding.next \in 1..(PicBound + 1) /\ fences.decode < decoding.next
    /\ Len(rings) <= 1 /\ window.ring = decoding.ring + Len(rings)

(* A picture drawn fresh is whole: its slot holds it and is not being      *)
(* written, from the first to the last pixel sampled.                      *)
FreshWhole ==
    busy.sample # NoWork /\ busy.sample.fresh =>
        LET s == busy.sample IN
        /\ slotPic[s.ring][s.slot] = s.pic
        /\ busy.write.ring # s.ring \/ busy.write.slot # s.slot \/ busy.write = NoWork

(* The wait queued before a write is already satisfied: it never stalls    *)
(* the decoder behind the renderer.                                        *)
NeverStalls == \A i \in DOMAIN writes : fences.render >= writes[i].after

(* Every slot comes back: whatever became of a frame - drawn, superseded,  *)
(* of a ring since replaced, with the window minimised - the render fence  *)
(* passes its value.                                                       *)
SlotsOut == handed > fences.render
SlotsComeBack == SlotsOut ~> ~SlotsOut

(* What decode.rs says of the wait it queues: no slot is overwritten while *)
(* it is sampled.                                                          *)
NeverOverwritten ==
    busy.sample # NoWork /\ busy.write # NoWork =>
        busy.sample.ring # busy.write.ring \/ busy.sample.slot # busy.write.slot

(* What decode.rs says of a picture too large for the slots: it is held    *)
(* back until a ring big enough for it arrives, and shown then.            *)
HeldBackShown ==
    (decoding.asked # 0) ~> (window.shown # NoFrame /\ window.shown.ring = 1)
====
