------------------------------ MODULE Decoder ------------------------------
(***************************************************************************)
(* The video at the viewer: the H.264 byte stream taken apart (codec/src/  *)
(* h264.rs), the decoder (codec/src/mediafoundation/decoder.rs), and the   *)
(* loop that feeds it (viewer/src/present/decode.rs run): what waits is    *)
(* decoded as one batch and the newest picture is shown.                   *)
(*                                                                         *)
(* The stream is checked against an encoder that puts it together: NAL     *)
(* units, each behind a start code of three bytes or four, with zeros      *)
(* after some of them, and now and then a start code with nothing behind   *)
(* it. A unit begins with a header byte that is not zero, has no start     *)
(* code inside (the encoder escapes those) and does not end in a zero.     *)
(*                                                                         *)
(* To the decoder a frame is its number, which is also its capture time.   *)
(* Windows' decoder is external: it holds up to Behind frames back, and    *)
(* may drop or refuse one.                                                 *)
(***************************************************************************)
EXTENDS Integers, Sequences, SequencesExt, FiniteSetsExt

---------------------------------------------------------------------------
(* The units of the stream. *)

CONSTANTS
    Bytes3,      \* the bytes of units: 0, 1 and a header or two
    IdrByte,     \* a header byte whose nal_unit_type is 5
    UnitLen,     \* bound: bytes of a unit
    UnitMost     \* bound: units of the stream

ASSUME AnnexBAssumption == {0, 1} \subseteq Bytes3 /\ IdrByte \in Bytes3 \ {0, 1}

VARIABLES
    stream3,     \* the bytes
    put          \* the units the encoder put into it

annexVars == <<stream3, put>>

CodeAt(s, i) == i + 2 <= Len(s) /\ s[i] = 0 /\ s[i + 1] = 0 /\ s[i + 2] = 1

(* What the encoder may write as one unit. *)
NalUnits ==
    {u \in UNION {[1..n -> Bytes3] : n \in 1..UnitLen} :
        /\ u[1] # 0 /\ u[Len(u)] # 0
        /\ \A i \in 1..Len(u) : ~CodeAt(u, i)
        /\ \A i \in 1..(Len(u) - 2) : ~(u[i] = 0 /\ u[i + 1] = 0 /\ u[i + 2] = 0)}

(* nal_units, its first loop: where units start, after their start codes. *)
Starts(s) == SetToSortSeq({i + 3 : i \in {i \in 1..Len(s) : CodeAt(s, i)}}, LAMBDA a, b : a < b)

(* Nothing taken off the end of a unit. *)
EndOf_Untrimmed(s, starts, n) ==
    IF n < Len(starts) THEN starts[n + 1] - 4 ELSE Len(s)

(* Its second: a unit ends where the next one's start code begins, less the
   zeros there. *)
EndOf(s, starts, n) ==
    LET last == IF n < Len(starts) THEN starts[n + 1] - 4 ELSE Len(s)
    IN  Max({starts[n] - 1} \cup {e \in starts[n]..last : s[e] # 0})

(* nal_units: the units that are not empty. *)
UnitsOf(s) ==
    LET starts == Starts(s)
        all == [n \in DOMAIN starts |-> SubSeq(s, starts[n], EndOf(s, starts, n))]
    IN  SelectSeq(all, LAMBDA u : u # <<>>)

(* is_keyframe *)
IsKeyframe(s) == \E n \in DOMAIN UnitsOf(s) : UnitsOf(s)[n][1] = IdrByte

(* Some bytes that are no unit may come before the first start code. *)
AnnexInit == stream3 \in {<<>>, <<1>>, <<0>>} /\ put = <<>>

PutsUnit(u, code, zeros) ==
    /\ Len(put) < UnitMost
    /\ stream3' = stream3 \o code \o u \o [i \in 1..zeros |-> 0]
    /\ put' = Append(put, u)

PutsNothing(code) ==
    /\ Len(stream3) <= 3
    /\ stream3' = stream3 \o code
    /\ UNCHANGED put

AnnexNext ==
    \E code \in {<<0, 0, 1>>, <<0, 0, 0, 1>>} :
        \/ \E u \in NalUnits, z \in 0..1 : PutsUnit(u, code, z)
        \/ PutsNothing(code)

AnnexSpec == AnnexInit /\ [][AnnexNext]_annexVars

(* The units that come out are the units that went in, in order and byte for
   byte, whatever start codes and zeros stand between them, and a keyframe is
   seen exactly when one went in (codec/src/h264.rs nal_units, is_keyframe). *)
UnitsComeBack ==
    /\ UnitsOf(stream3) = put
    /\ IsKeyframe(stream3) <=> \E n \in DOMAIN put : put[n][1] = IdrByte

---------------------------------------------------------------------------
(* The decoder. *)

CONSTANTS
    InFlightMost,   \* the most capture times kept (16 in the code)
    Behind,         \* the most frames the decoder holds back (external)
    FrameBound2,    \* bound: frames received
    MissBound       \* bound: frames dropped or refused

(* The decoder never legitimately holds more than the times kept. *)
ASSUME DecoderAssumption ==
    /\ Behind \in Nat /\ InFlightMost \in Nat /\ Behind + 1 <= InFlightMost
    /\ FrameBound2 \in Nat /\ MissBound \in Nat

VARIABLES
    received,   \* the channel from the network side: the frames that wait
    newestSeen, \* the last frame received
    batch,      \* the frames taken from it, not decoded yet
    inFlight,   \* in_flight: capture times of frames not yet returned
    within,     \* the frames inside the decoder
    lent,       \* held: the frame whose surface is kept from the decoder
    result,     \* the newest picture of the batch: frame and capture time
    onScreen,   \* history: what was converted last, and whether still lent
    lag,        \* how many frames the decoder holds back: 0 in low-latency mode
    misses      \* frames dropped or refused

decVars == <<received, newestSeen, batch, inFlight, within, lent, result,
             onScreen, lag, misses>>

NoPicture == [frame |-> 0, time |-> 0]

DecInit ==
    /\ received = <<>> /\ newestSeen = 0 /\ batch = <<>>
    /\ inFlight = <<>> /\ within = <<>> /\ lent = 0
    /\ result = NoPicture
    /\ onScreen = [frame |-> 0, time |-> 0, lent |-> TRUE]
    /\ lag \in 0..Behind /\ misses = 0

ReceivesFrame ==
    /\ newestSeen < FrameBound2
    /\ newestSeen' = newestSeen + 1
    /\ received' = Append(received, newestSeen + 1)
    /\ UNCHANGED <<batch, inFlight, within, lent, result, onScreen, lag, misses>>

(* recv, and then everything else that waits. *)
TakesBatch ==
    /\ batch = <<>> /\ result = NoPicture /\ received # <<>>
    /\ batch' = received /\ received' = <<>>
    /\ UNCHANGED <<newestSeen, inFlight, within, lent, result, onScreen, lag, misses>>

---------------------------------------------------------------------------
(* A mutant: the times of frames that never came out stay. *)
Trimmed_Kept(times) == times

(* No more times than the decoder could hold frames. *)
Trimmed(times) ==
    IF Len(times) > InFlightMost THEN SubSeq(times, Len(times) - InFlightMost + 1, Len(times))
    ELSE times

(* decode begins: the surface of the last picture goes back, and the time  *)
(* of this frame joins the queue.                                          *)
Times == Trimmed(Append(inFlight, Head(batch)))

(* The decoder refuses the frame: a keyframe is asked for. *)
DecodeFails ==
    /\ batch # <<>> /\ misses < MissBound
    /\ batch' = Tail(batch) /\ inFlight' = Times /\ lent' = 0
    /\ misses' = misses + 1
    /\ UNCHANGED <<received, newestSeen, within, result, onScreen, lag>>

(* The decoder takes it and never returns it, a reference it lacks. *)
DecodeDrops ==
    /\ batch # <<>> /\ misses < MissBound
    /\ batch' = Tail(batch) /\ inFlight' = Times /\ lent' = 0
    /\ misses' = misses + 1
    /\ UNCHANGED <<received, newestSeen, within, result, onScreen, lag>>

(* A mutant: the time of the frame just given. *)
PairedWith_Last(times, k) == times[Len(times)]

(* process_output: the k-th output since the call takes the k-th time. *)
PairedWith(times, k) == times[k]

(* Outputs are pulled until the decoder needs more input, and only the     *)
(* newest picture is worth showing.                                        *)
Decodes(k) ==
    LET inside == Append(within, Head(batch))
        times == Times
    IN  /\ batch # <<>>
        /\ k <= Len(inside) /\ Len(inside) - k <= lag
        /\ batch' = Tail(batch)
        /\ within' = SubSeq(inside, k + 1, Len(inside))
        /\ inFlight' = SubSeq(times, k + 1, Len(times))
        /\ lent' = IF k = 0 THEN 0 ELSE inside[k]
        /\ result' = IF k = 0 THEN result
                     ELSE [frame |-> inside[k], time |-> PairedWith(times, k)]
        /\ UNCHANGED <<received, newestSeen, onScreen, lag, misses>>

(* The batch is through: its newest picture is converted into a slot. *)
ShowsNewest ==
    /\ batch = <<>> /\ result # NoPicture
    /\ onScreen' = [frame |-> result.frame, time |-> result.time,
                    lent |-> lent = result.frame]
    /\ result' = NoPicture
    /\ UNCHANGED <<received, newestSeen, batch, inFlight, within, lent, lag, misses>>

DecNext ==
    \/ ReceivesFrame \/ TakesBatch \/ DecodeFails \/ DecodeDrops \/ ShowsNewest
    \/ \E k \in 0..(Behind + 1) : Decodes(k)

DecSpec == DecInit /\ [][DecNext]_decVars

---------------------------------------------------------------------------
(* Every variable keeps its type, and the queue of capture times its       *)
(* bound, however many frames the decoder never returns.                   *)
DecTypeOK ==
    /\ newestSeen \in 0..FrameBound2
    /\ Len(inFlight) <= InFlightMost
    /\ Len(within) <= lag

(* The capture time a picture is shown with is never later than its own:   *)
(* the latency the overlay shows may be overstated, never understated.  In *)
(* low-latency mode that holds however many frames were dropped or         *)
(* refused; a decoder that holds frames back must have missed fewer than   *)
(* the queue has room for, or the time of one still inside is trimmed.     *)
TimeNeverNewer ==
    (lag = 0 \/ misses + lag < InFlightMost) => onScreen.time <= onScreen.frame

(* Not so, by the code: a batch whose last frame gives no picture shows    *)
(* the one before it, whose surface went back to the decoder.              *)
SurfaceStillLent == onScreen.lent

(* Not so, by the code: after a frame that never comes out, every picture  *)
(* is shown with the time of an earlier one.                               *)
PairedInOrder == onScreen.time = onScreen.frame
=============================================================================
