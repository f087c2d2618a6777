---------------------------- MODULE RateControl ----------------------------
(***************************************************************************)
(* The agent's rate control (agent/src/rate.rs), closed over a link: every *)
(* interval the encoder makes some of its budget, the sender takes frames  *)
(* of it while QUIC's buffer holds little and resends what the viewer asks *)
(* for again, the link takes what it can, the rest waits in the buffer,    *)
(* and the controller decides anew.                                        *)
(*                                                                         *)
(* Rates are kbit/s and amounts kbit; an interval is half a second.  The   *)
(* link is free to change, to lose packets and to queue for FreeBound      *)
(* intervals and then stays as it is, so that what the controller makes of *)
(* a steady link can be stated.  A bottleneck in the network (the round    *)
(* trip against its baseline) and loss are only told apart by the verdict  *)
(* they lead to.                                                           *)
(***************************************************************************)
EXTENDS Integers

CONSTANTS
    FloorKbps,       \* FLOOR_KBPS
    MinFps,          \* MIN_FPS
    CalmToProbe,     \* CALM_TO_PROBE
    Settle,          \* SETTLE_AFTER_BACKOFF
    RememberOveruse, \* REMEMBER_OVERUSE
    LeastLimit,      \* BACKPRESSURE_MIN_BYTES, in kbit
    SharpKbit,       \* the monitor's pixels times BITS_PER_PIXEL, in kbit
    Ceilings,        \* what the viewer may ask for at most: [kbps, fps]
    Capacities,      \* what the link may take
    FrameMost,       \* the largest frame, in kbit
    RepairMost,      \* what one interval may resend, in kbit
    Buffer,          \* DATAGRAM_BUFFER, in kbit
    FreeBound        \* bound: intervals before the link is steady

(* The session clamps the frame rate it is asked for to 1..=MAX_FPS. *)
ASSUME RateAssumption ==
    /\ FloorKbps \in Nat \ {0} /\ MinFps \in 1..255 /\ RememberOveruse \in Nat /\ Settle \in Nat
    /\ {CalmToProbe, LeastLimit, SharpKbit, FreeBound, FrameMost, RepairMost, Buffer} \subseteq Nat
    /\ Ceilings \subseteq [kbps : Nat, fps : 1..255] /\ Capacities \subseteq Nat

VARIABLES
    ceiling, target, fps, calm, settling, lastOveruse, applied, \* RateController
    primed,    \* whether there is a previous sample
    backlog,   \* what waits in QUIC's buffer
    resent,    \* what was resent since the backlog was last within its limit
    capacity,  \* what the link takes
    demand,    \* how much of its budget the encoder sends, in percent
    free       \* intervals left before the link is steady

controller == <<ceiling, target, fps, calm, settling, lastOveruse, applied>>
rateVars == <<controller, primed, backlog, resent, capacity, demand, free>>

Never == 0
Demands == {10, 50, 100}

Lesser(a, b) == IF a < b THEN a ELSE b
Greater(a, b) == IF a > b THEN a ELSE b
Clamp(x, low, high) == Greater(low, Lesser(x, high))

---------------------------------------------------------------------------
(* RateController *)

Quality(kbps, f, top) == [kbps |-> kbps, fps |-> Clamp(f, MinFps, Greater(top.fps, MinFps))]

(* apply: a quality far enough from what the encoder has. *)
Apply(kbps, f, top) ==
    LET next == Quality(kbps, f, top)
        apart == Greater(next.kbps, applied.kbps) - Lesser(next.kbps, applied.kbps) IN
    applied' = IF next.fps # applied.fps \/ apart * 20 > applied.kbps THEN next ELSE applied

(* backlog_limit *)
BacklogLimit(kbps) == Greater((kbps * 150) \div 1000, LeastLimit)

AdaptFps_OnlyDown(used) ==
    LET next == IF used >= 90 /\ target < SharpKbit * Greater(fps, 1) THEN (fps * 4) \div 5 ELSE fps IN
    Clamp(next, MinFps, Greater(ceiling.fps, MinFps))

(* adapt_fps, with used in percent. *)
AdaptFps(used) ==
    LET starved == used >= 90 /\ target < SharpKbit * Greater(fps, 1)
        next == IF starved THEN (fps * 4) \div 5
                ELSE IF used <= 60 THEN Lesser((fps * 5) \div 4 + 1, 255) ELSE fps IN
    Clamp(next, MinFps, Greater(ceiling.fps, MinFps))

Verdict_NotGrowing(after, trouble) ==
    IF (after * 1000) \div target > 100 THEN "hold" ELSE trouble

(* read: our own backlog first, and only then the network's queue and loss, *)
(* whose verdict is given.                                                  *)
Verdict(after, trouble) ==
    IF (after * 1000) \div target > 100
    THEN IF after >= backlog THEN "overuse" ELSE "hold"
    ELSE trouble

(* update, once there is a previous sample. *)
Overuse(through) ==
    /\ calm' = 0
    /\ IF settling > 0
       THEN settling' = settling - 1 /\ UNCHANGED <<target, lastOveruse>>
       ELSE /\ target' = Greater((Lesser(target, through) * 85) \div 100, FloorKbps)
            /\ settling' = Settle /\ lastOveruse' = through

Hold ==
    /\ calm' = 0 /\ settling' = Greater(settling - 1, 0)
    /\ UNCHANGED <<target, lastOveruse>>

Underuse_NeverCalm(used) ==
    /\ calm' = 1
    /\ settling' = Greater(settling - 1, 0)
    /\ UNCHANGED <<target, lastOveruse>>

Underuse(used) ==
    LET calmer == Lesser(calm + 1, RememberOveruse)
        known == IF calmer >= RememberOveruse THEN Never ELSE lastOveruse
        near == known # Never /\ target * 10 >= known * 9
        raised == (target * (IF near THEN 102 ELSE 108)) \div 100 + 20 IN
    /\ calm' = calmer /\ lastOveruse' = known
    /\ settling' = Greater(settling - 1, 0)
    /\ target' = IF calmer >= CalmToProbe /\ used >= 50
                 THEN Lesser(raised, Greater(ceiling.kbps, FloorKbps)) ELSE target

---------------------------------------------------------------------------
Offered(share) == (applied.kbps * share) \div 200

SentIn_NoLimit(share, last) == Offered(share) + last

(* What the sender puts into QUIC's buffer in an interval.  It looks at the *)
(* backlog before it takes a frame and puts in all of the frame it takes,   *)
(* so the last one goes beyond the limit by some of its length: last.       *)
SentIn(share, last) ==
    LET room == BacklogLimit(target) + capacity \div 2 - backlog IN
    IF room < 0 THEN 0 ELSE Lesser(Offered(share), room) + last

(* One interval (ticker.tick): the first sample only sets the start. What   *)
(* the viewer asked for again goes into the buffer unlooked, and the buffer *)
(* drops its oldest when it is full.                                        *)
Tick(share, last, again, trouble) ==
    LET sent == SentIn(share, last)
        after == Lesser(Buffer, Greater(0, backlog + sent + again - capacity \div 2))
        used == (sent * 200) \div target
        through == Greater(2 * (sent + backlog - after), FloorKbps)
        verdict == Verdict(after, trouble) IN
    /\ backlog' = after /\ primed' = TRUE
    /\ resent' = IF after <= BacklogLimit(target) THEN 0 ELSE resent + again
    /\ IF ~primed
       THEN UNCHANGED <<target, fps, calm, settling, lastOveruse, applied>>
       ELSE /\ fps' = AdaptFps(used)
            /\ \/ verdict = "overuse" /\ Overuse(through)
               \/ verdict = "hold" /\ Hold
               \/ verdict = "underuse" /\ Underuse(used)
            /\ Apply(target', fps', ceiling)
    /\ UNCHANGED ceiling

(* The link while it is free to change; trouble is what its queue and loss  *)
(* amount to, and a frame may be a keyframe, larger than its share.         *)
FreeInterval ==
    /\ free > 0 /\ free' = free - 1
    /\ \E share \in Demands, last \in {0, FrameMost}, again \in {0, RepairMost},
          trouble \in {"overuse", "hold", "underuse"} :
          Tick(share, last, again, trouble) /\ demand' = share
    /\ capacity' \in Capacities

(* On a steady link nothing is lost and the encoder keeps to its budget.    *)
SteadyInterval ==
    /\ free = 0
    /\ \E last \in {0, FrameMost} :
          /\ SentIn(demand, last) <= Offered(demand)
          /\ Tick(demand, last, 0, "underuse")
    /\ UNCHANGED <<capacity, demand, free>>

SetCeiling_Kept(top) ==
    /\ free > 0 /\ free' = free - 1
    /\ ceiling' = top
    /\ UNCHANGED <<target, fps, calm, settling, lastOveruse, applied, primed, backlog,
                   resent, capacity, demand>>

(* set_ceiling: the viewer changed what it wants at most (SetQuality). *)
SetCeiling(top) ==
    /\ free > 0 /\ free' = free - 1
    /\ ceiling' = top
    /\ fps' = Lesser(fps, top.fps)
    /\ target' = Clamp(target, FloorKbps, Greater(top.kbps, FloorKbps))
    /\ Apply(target', fps', top)
    /\ UNCHANGED <<calm, settling, lastOveruse, primed, backlog, resent, capacity, demand>>

(* new: a stream's controller starts where the last stream's was. *)
RateInit ==
    /\ ceiling \in Ceilings /\ capacity \in Capacities /\ demand \in Demands /\ free = FreeBound
    /\ target \in {Clamp(c, FloorKbps, Greater(ceiling.kbps, FloorKbps)) : c \in Capacities}
    /\ fps = ceiling.fps /\ calm = 0 /\ settling = 0 /\ lastOveruse = Never
    /\ applied = Quality(target, fps, ceiling)
    /\ primed = FALSE /\ backlog = 0 /\ resent = 0

RateNext == FreeInterval \/ SteadyInterval \/ \E top \in Ceilings : SetCeiling(top)

(* The ticker ticks. *)
RateSpec == RateInit /\ [][RateNext]_rateVars /\ WF_rateVars(FreeInterval \/ SteadyInterval)

---------------------------------------------------------------------------
Room == Greater(ceiling.kbps, FloorKbps)

RateTypeOK ==
    /\ ceiling \in Ceilings /\ target \in FloorKbps..Room /\ free \in 0..FreeBound
    /\ calm \in 0..RememberOveruse /\ settling \in 0..Settle
    /\ backlog \in 0..Buffer /\ resent \in Nat
    /\ fps \in 1..255 /\ primed \in BOOLEAN

(* The encoder is never asked for more than the viewer's ceiling, but for   *)
(* the twentieth apply leaves alone (rate.rs: "`ceiling` is the most the    *)
(* viewer asked for").                                                      *)
UnderCeiling == applied.kbps * 19 <= Room * 20 /\ applied.fps <= Greater(ceiling.fps, MinFps)

(* What waits in the buffer is at most the limit, at the highest rate ever  *)
(* allowed, one frame, and what was resent since the backlog was last       *)
(* within its limit: a keyframe or a lowered rate fills the buffer no       *)
(* further, however long the sender goes on (transport/src/lib.rs: "the     *)
(* agent never lets it fill").                                              *)
BacklogBounded ==
    \E c \in Ceilings : backlog <= BacklogLimit(Greater(c.kbps, FloorKbps)) + FrameMost + resent

Shallow == (backlog * 1000) \div target <= 100

(* On a steady link the backlog does not stay: again and again it is below  *)
(* what counts as overuse.                                                  *)
Drains == []<>Shallow

MostOfLink == (target * 100) \div 85 >= Lesser(capacity, Room)

(* On a steady link that the encoder fills, the target comes back to most   *)
(* of what the link takes, whatever happened before.                        *)
RecoveryDue == free = 0 /\ demand = 100
Recovers == RecoveryDue ~> MostOfLink

(* And once the encoder leaves budget unused, the frame rate comes back.    *)
FpsDue == free = 0 /\ demand < 60
FpsDone == fps = Greater(ceiling.fps, MinFps)
FpsReturns == FpsDue ~> FpsDone

=============================================================================
