---------------------------- MODULE ClockOffset ----------------------------
(***************************************************************************)
(* The offset between the agent's clock and the viewer's (core/src/        *)
(* clock.rs), measured by Ping and Pong on the control stream              *)
(* (viewer/src/direct.rs talk, agent/src/session.rs serve).                *)
(*                                                                         *)
(* The viewer's clock is the model's time. The agent's is that plus        *)
(* `skew`, which drifts by a tick now and then and is another number       *)
(* altogether once the agent's machine has restarted. The control stream   *)
(* is reliable and ordered, and as slow as it likes.                       *)
(***************************************************************************)
EXTENDS Integers, Sequences, FiniteSets

CONSTANTS
    ClockWindow,   \* WINDOW: recent exchanges considered
    NowBound,      \* bound: the time
    PingBound,     \* bound: pings of a session
    DriftMost,     \* bound: ticks the clocks drift apart
    LinkMost       \* bound: sessions

ASSUME ClockAssumption == ClockWindow \in Nat \ {0} /\ NowBound \in Nat /\ PingBound \in Nat

VARIABLES
    nowUs,      \* the viewer's clock
    skew,       \* the agent's clock minus it
    drifts,     \* drifts so far
    links,      \* sessions so far
    pings,      \* on the way to the agent: the viewer's clock in each
    pongs,      \* on the way back: [sent, agent, since]
    pinged,     \* pings of this session
    samples,    \* ClockSync::samples: [rtt, offset], the newest last
    shared,     \* clock_offset_us and clock_uncertainty_us of the shared state
    fresh      \* history: samples in a row measured after the last drift

clockVars == <<nowUs, skew, drifts, links, pings, pongs, pinged, samples, shared, fresh>>

NotMeasured == [known |-> FALSE, offset |-> 0, uncertainty |-> 0]

(* ClockSync::best: the first of the samples with the least round trip. *)
Best(ss) ==
    ss[CHOOSE i \in DOMAIN ss : \A j \in DOMAIN ss : ss[i].rtt <= ss[j].rtt
                                   /\ (ss[i].rtt = ss[j].rtt => i <= j)]

(* The same, of a window that nothing leaves. *)
AddSample_Endless(ss, p) ==
    IF nowUs < p.sent THEN ss
    ELSE Append(ss, [rtt |-> nowUs - p.sent,
                     offset |-> p.agent - (p.sent + (nowUs - p.sent) \div 2)])

(* ClockSync::add: nothing from a clock that ran backwards; the agent is
   taken to have answered half way. *)
AddSample(ss, p) ==
    IF nowUs < p.sent THEN ss
    ELSE Append(IF Len(ss) = ClockWindow THEN Tail(ss) ELSE ss,
                [rtt |-> nowUs - p.sent,
                 offset |-> p.agent - (p.sent + (nowUs - p.sent) \div 2)])

ClockInit ==
    /\ nowUs = 0 /\ skew = 3 /\ drifts = 0 /\ links = 1
    /\ pings = <<>> /\ pongs = <<>> /\ pinged = 0
    /\ samples = <<>> /\ shared = NotMeasured /\ fresh = 0

(* The ticker of talk: a Ping with the time it leaves. *)
PingLeaves ==
    /\ pinged < PingBound
    /\ pinged' = pinged + 1
    /\ pings' = Append(pings, nowUs)
    /\ UNCHANGED <<nowUs, skew, drifts, links, pongs, samples, shared, fresh>>

(* The agent's serve: answered straight away, with its own clock. *)
PongLeaves ==
    /\ pings # <<>>
    /\ pings' = Tail(pings)
    /\ pongs' = Append(pongs, [sent |-> Head(pings), agent |-> nowUs + skew, since |-> drifts])
    /\ UNCHANGED <<nowUs, skew, drifts, links, pinged, samples, shared, fresh>>

(* The Pong's arm of talk: a sample, and what is best now is shared. *)
PongArrives ==
    /\ pongs # <<>>
    /\ pongs' = Tail(pongs)
    /\ samples' = AddSample(samples, Head(pongs))
    /\ shared' = [known |-> TRUE, offset |-> Best(samples').offset,
                  uncertainty |-> Best(samples').rtt \div 2]
    /\ fresh' = (IF Head(pongs).since = drifts THEN fresh + 1 ELSE 0)
    /\ UNCHANGED <<nowUs, skew, drifts, links, pings, pinged>>

(* A session that was lost begins again (run): talk has a ClockSync of its
   own, while the shared state keeps what the last one measured. The agent's
   machine may have restarted in between. *)
LinkAgain(newSkew) ==
    /\ links < LinkMost
    /\ links' = links + 1
    /\ skew' = newSkew
    /\ pings' = <<>> /\ pongs' = <<>> /\ pinged' = 0
    /\ samples' = <<>> /\ fresh' = 0
    /\ UNCHANGED <<nowUs, drifts, shared>>

TimeGoesOn ==
    /\ nowUs < NowBound
    /\ nowUs' = nowUs + 1
    /\ UNCHANGED <<skew, drifts, links, pings, pongs, pinged, samples, shared, fresh>>

(* Two crystals: the agent's clock gains a tick on the viewer's. *)
ClocksDrift ==
    /\ drifts < DriftMost
    /\ drifts' = drifts + 1
    /\ skew' = skew + 1
    /\ fresh' = 0
    /\ UNCHANGED <<nowUs, links, pings, pongs, pinged, samples, shared>>

ClockNext ==
    \/ PingLeaves \/ PongLeaves \/ PongArrives
    \/ \E s \in {skew, 0} : LinkAgain(s)
    \/ TimeGoesOn \/ ClocksDrift

ClockSpec == ClockInit /\ [][ClockNext]_clockVars

Distance(a, b) == IF a < b THEN b - a ELSE a - b

(* A round trip is the time that passed; what is on the way was sent. *)
ClockTypeOK ==
    /\ \A i \in DOMAIN samples : samples[i].rtt \in 0..NowBound
    /\ Len(pings) + Len(pongs) <= pinged

(* Once this session's window holds nothing but exchanges answered since the
   clocks last drifted (or they never did), the offset it trusts is off by at
   most half the round trip it trusts, rounded up: a pong that was late, or
   one that overtook no one, never makes it worse; an old fast exchange does
   not outlive its window (core/src/clock.rs add, best). *)
OffsetWithin ==
    samples # <<>> /\ (fresh >= ClockWindow \/ fresh >= Len(samples)) =>
        Distance(Best(samples).offset, skew) <= (Best(samples).rtt + 1) \div 2

(* As uncertainty_us says: how far off the offset can be is half the best
   round trip. An odd round trip is off by one more. *)
HalfTheRoundTrip ==
    samples # <<>> /\ drifts = 0 =>
        Distance(shared.offset, skew) <= shared.uncertainty
=============================================================================
