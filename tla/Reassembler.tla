----------------------------- MODULE Reassembler ----------------------------
(***************************************************************************)
(* The video reassembler of crates/core/src/video.rs: chunks of frames come *)
(* in over an unreliable link, frames go out to the decoder in order.       *)
(*                                                                         *)
(* The calls into it are atomic for everybody else, but `drain` and         *)
(* `expire` are loops that a bad state could keep going for ever, so each   *)
(* of their iterations is a step: `pc` says which loop runs and `ret` where *)
(* `drain` returns to, and no other call starts until pc is "idle".         *)
(***************************************************************************)
EXTENDS FrameIds, FiniteSets, FiniteSetsExt, Sequences

CONSTANTS MaxPending,          \* MAX_PENDING
          MaxGapNacks,         \* MAX_GAP_NACKS
          MaxRememberedGaps,   \* MAX_REMEMBERED_GAPS
          InputIds,            \* frame ids the sender uses
          MaxChunks,           \* bound on the chunks of a frame
          Timings,             \* repair timings the caller derives from the rtt
          MaxTime,             \* bound on the clock
          LastArrival          \* bound on the times at which chunks come in

Timing == [quiet : Nat, retry : Nat, giveUp : Nat]

ASSUME LimitsAssumption ==
    /\ MaxPending \in Nat \ {0}
    /\ MaxGapNacks \in Nat \ {0}
    /\ MaxRememberedGaps \in Nat
    /\ MaxRememberedGaps >= MaxGapNacks
    /\ MaxChunks \in Nat \ {0}
    /\ MaxTime \in Nat /\ LastArrival \in Nat
    /\ Timings \subseteq Timing
ASSUME InputIdsAssumption == InputIds \subseteq Ids

VARIABLES
    pending,      \* frames of which something arrived, by id
    ready,        \* frames for the decoder, oldest first
    lastSettled,  \* newest frame delivered or given up on
    gapNacks,     \* frames of which nothing arrived: when last asked for
    waiting,      \* waiting_for_keyframe
    wanted,       \* keyframe_wanted
    now,          \* the caller's clock
    pc, ret, arg, \* the call in progress: loop, where drain returns, argument
    handed        \* history: the newest frame ever put in `ready`

vars == <<pending, ready, lastSettled, gapNacks, waiting, wanted, now,
          pc, ret, arg, handed>>

Chunk == [id : InputIds, key : BOOLEAN, chunks : 0 .. MaxChunks,
          chunk : 0 .. MaxChunks]

Pending == [key : BOOLEAN, chunks : 1 .. MaxChunks,
            parts : SUBSET (0 .. MaxChunks), first : Nat, last : Nat,
            nacked : Nat \cup {None}]

Frame == [id : Ids, key : BOOLEAN]

-----------------------------------------------------------------------------
(* Helpers *)

Held == DOMAIN pending
Keep(f, S) == [x \in DOMAIN f \cap S |-> f[x]]
SaturatingSub(a, b) == IF a >= b THEN a - b ELSE 0

Complete(p) == p.parts = 0 .. (p.chunks - 1)

\* The frame the decoder needs next, as a set of at most one id.
Expected ==
    IF lastSettled = None THEN OldestOf(Held) ELSE {Succ(lastSettled)}

CompleteKeyframes == {id \in Held : pending[id].key /\ Complete(pending[id])}

\* Mutant of settle(): the gaps it passes stay remembered.
Settle_GapsKept(id, gaps) ==
    /\ lastSettled' = IF lastSettled = None \/ IsNewer(id, lastSettled)
                      THEN id ELSE lastSettled
    /\ gapNacks' = gaps

\* settle(id), with `gaps` the remembered gaps before it.
Settle(id, gaps) ==
    /\ lastSettled' = IF lastSettled = None \/ IsNewer(id, lastSettled)
                      THEN id ELSE lastSettled
    /\ gapNacks' = Keep(gaps, {g \in Ids : IsNewer(g, id)})

\* Mutants of lost(): the chain not broken, the keyframe not asked for.
Lost_ChainKept == waiting' = waiting /\ wanted' = TRUE
Lost_NotAsked == waiting' = TRUE /\ wanted' = wanted

\* lost()
Lost == waiting' = TRUE /\ wanted' = TRUE

Call(where, back) == pc' = where /\ ret' = back

-----------------------------------------------------------------------------
(* drain, one iteration at a time *)

\* deliver(frame): a P-frame is dropped while the chain is broken.
Deliver(id) ==
    LET frame == pending[id]
        drop == ~frame.key /\ waiting
    IN  /\ Settle(id, gapNacks)
        /\ waiting' = (waiting /\ ~frame.key)
        /\ wanted' = (wanted \/ drop)
        /\ ready' = IF drop THEN ready
                    ELSE Append(ready, [id |-> id, key |-> frame.key])
        /\ handed' = IF drop THEN handed ELSE [id |-> id, key |-> frame.key]

NextInLine == {id \in Expected \cap Held : Complete(pending[id])}

\* The expected frame is here and complete.
DrainDeliver ==
    /\ pc = "drain"
    /\ \E id \in NextInLine :
          /\ pending' = Keep(pending, Held \ {id})
          /\ Deliver(id)
    /\ UNCHANGED <<now, pc, ret, arg>>

\* It is not, but a complete keyframe is: skip straight to it.
DrainJump ==
    /\ pc = "drain"
    /\ Expected # {}
    /\ NextInLine = {}
    /\ \E id \in OldestOf(CompleteKeyframes) :
          /\ pending' = Keep(pending, {p \in Held : IsNewer(p, Pred(id))})
          /\ Settle(Pred(id), gapNacks)
    /\ UNCHANGED <<ready, waiting, wanted, now, pc, ret, arg, handed>>

DrainReturn ==
    /\ pc = "drain"
    /\ Expected = {} \/ (NextInLine = {} /\ CompleteKeyframes = {})
    /\ pc' = ret /\ ret' = "idle"
    /\ UNCHANGED <<pending, ready, lastSettled, gapNacks, waiting, wanted, now,
                   arg, handed>>

\* give_up_expected(), up to its call of drain(). Both callers have something
\* pending, so there is an expected frame.
GiveUpExpected(gaps) ==
    /\ \E id \in Expected : /\ pending' = Keep(pending, Held \ {id})
                            /\ Settle(id, gaps)
    /\ Lost

-----------------------------------------------------------------------------
(* push *)

\* Mutants of push(): a chunk count of zero, or a late chunk, let through.
Valid_Unchecked(c) == c.chunks = 0 \/ c.chunk < c.chunks
Late_Unchecked(c) == FALSE

Valid(c) == c.chunk < c.chunks
Late(c) == lastSettled # None /\ ~IsNewer(c.id, lastSettled)

Fresh(c) == [key |-> c.key, chunks |-> c.chunks, parts |-> {},
             first |-> now, last |-> now, nacked |-> None]

\* The chunk is recorded in frame p; a frame it completes is drained.
Store(c, p) ==
    LET q == [p EXCEPT !.parts = @ \cup {c.chunk}, !.last = now] IN
    /\ pending' = [id \in Held \cup {c.id} |->
                      IF id = c.id THEN q ELSE pending[id]]
    /\ IF Complete(q) THEN Call("drain", "idle") ELSE Call("idle", "idle")
    /\ UNCHANGED <<ready, lastSettled, waiting, wanted, now, handed>>

\* The caller empties `ready` after each push and each expire.
Idle == pc = "idle" /\ ready = <<>>

\* A chunk that changes anything: not one whose header contradicts itself or
\* the frame's, that is late, or that arrived before.
Accepts(c) ==
    /\ Valid(c) /\ ~Late(c)
    /\ c.id \in Held => /\ c.chunks = pending[c.id].chunks
                        /\ c.key = pending[c.id].key
                        /\ c.chunk \notin pending[c.id].parts

\* A chunk of a frame that is already held.
PushHeld(c) ==
    /\ Idle /\ Accepts(c)
    /\ c.id \in Held
    /\ Store(c, pending[c.id])
    /\ UNCHANGED <<gapNacks, arg>>

\* The first chunk of a frame, with room for it.
PushNew(c) ==
    /\ Idle /\ Accepts(c)
    /\ c.id \notin Held
    /\ Cardinality(Held) < MaxPending
    /\ gapNacks' = Keep(gapNacks, Ids \ {c.id})
    /\ Store(c, Fresh(c))
    /\ UNCHANGED arg

\* The first chunk of a frame, without: the expected frame is given up on,
\* what that unblocks is drained, and then (PushInsert) the frame is added.
PushOverflow(c) ==
    /\ Idle /\ Accepts(c)
    /\ c.id \notin Held
    /\ Cardinality(Held) >= MaxPending
    /\ GiveUpExpected(Keep(gapNacks, Ids \ {c.id}))
    /\ arg' = c
    /\ Call("drain", "insert")
    /\ UNCHANGED <<ready, now, handed>>

PushInsert ==
    /\ pc = "insert"
    /\ Store(arg, Fresh(arg))
    /\ arg' = None
    /\ UNCHANGED gapNacks

Push == \/ /\ now <= LastArrival
           /\ \E c \in Chunk : PushHeld(c) \/ PushNew(c) \/ PushOverflow(c)
        \/ PushInsert

\* pop()
Pop == /\ pc = "idle"
       /\ ready # <<>>
       /\ ready' = Tail(ready)
       /\ UNCHANGED <<pending, lastSettled, gapNacks, waiting, wanted, now,
                      pc, ret, arg, handed>>

-----------------------------------------------------------------------------
(* nacks *)

Due(asked, t) == asked = None \/ SaturatingSub(now, asked) >= t.retry

\* Worth repairing: a P-frame is useless while the chain is broken.
Repairable(id) == ~Complete(pending[id]) /\ (pending[id].key \/ ~waiting)

\* The chunks of a held frame that count as lost.
LostChunks(id, t) ==
    LET p == pending[id]
        newerSeen == \E n \in NewestOf(Held) : IsNewer(n, id)
        quiet == SaturatingSub(now, p.last) >= t.quiet
    IN  {i \in (0 .. (p.chunks - 1)) \ p.parts :
            (\E h \in p.parts : i < h) \/ newerSeen \/ quiet}

FramesToAsk(t) == {id \in Held : /\ Repairable(id)
                                 /\ LostChunks(id, t) # {}
                                 /\ Due(pending[id].nacked, t)}

\* Ids between the expected frame and the newest that left no other trace,
\* asked for only while the chain holds.
Gaps == {id \in Ids \ Held :
            /\ ~waiting
            /\ \E e \in Expected, n \in NewestOf(Held) :
                  /\ IsNewer(n, e)
                  /\ WrappingSub(id, e) < WrappingSub(n, e)
                  /\ WrappingSub(id, e) < MaxGapNacks}

AskedAt(id) == IF id \in DOMAIN gapNacks THEN gapNacks[id] ELSE None
GapsToAsk(t) == {id \in Gaps : Due(AskedAt(id), t)}

\* The requests a call of nacks(now, t) returns: the frame, and the chunks of it
\* or none at all for the whole frame.
Missing(t) == {[id |-> id, chunks |-> LostChunks(id, t)] : id \in FramesToAsk(t)}
              \cup {[id |-> id, chunks |-> {}] : id \in GapsToAsk(t)}

\* Of the gaps remembered from before, the ones there is room for beside the new
\* ones: the stalest go.
Remember(old, room) ==
    IF Cardinality(old) <= room THEN {old}
    ELSE {S \in SUBSET old :
            /\ Cardinality(S) = room
            /\ \A s \in S, d \in old \ S : gapNacks[s] >= gapNacks[d]}

Nacks(t) ==
    /\ pc = "idle"
    /\ Missing(t) # {}
    /\ pending' = [id \in Held |-> IF id \in FramesToAsk(t)
                                   THEN [pending[id] EXCEPT !.nacked = now]
                                   ELSE pending[id]]
    /\ LET asked == GapsToAsk(t) IN
       \E kept \in Remember(DOMAIN gapNacks \ asked,
                            MaxRememberedGaps - Cardinality(asked)) :
          gapNacks' = [id \in asked \cup kept |->
                          IF id \in asked THEN now ELSE gapNacks[id]]
    /\ UNCHANGED <<ready, lastSettled, waiting, wanted, now, pc, ret, arg,
                   handed>>

-----------------------------------------------------------------------------
(* expire, one iteration at a time, and the time at which it is due *)

\* Mutant of expire(): a frame of which nothing arrived is never stuck.
StuckSince_HeldOnly == {pending[id].last : id \in Expected \cap Held}

\* Since when the expected frame has made no progress: its own last chunk or,
\* when nothing of it arrived, the first chunk of the oldest frame held.
StuckSince == {pending[id].last : id \in Expected \cap Held}
              \cup {pending[id].first : id \in IF Expected \cap Held = {}
                                               THEN OldestOf(Held) ELSE {}}

Overdue(t) == \E s \in StuckSince : SaturatingSub(now, s) >= t.giveUp

Expire(t) ==
    /\ Idle
    /\ Call("expire", "idle")
    /\ arg' = t
    /\ UNCHANGED <<pending, ready, lastSettled, gapNacks, waiting, wanted, now,
                   handed>>

\* The expected frame is here but stuck.
ExpireFrame ==
    /\ pc = "expire" /\ Overdue(arg)
    /\ Expected \cap Held # {}
    /\ GiveUpExpected(gapNacks)
    /\ Call("drain", "expire")
    /\ UNCHANGED <<ready, now, arg, handed>>

\* Nothing of it arrived: the whole gap up to the oldest frame held is lost.
ExpireGap ==
    /\ pc = "expire" /\ Overdue(arg)
    /\ Expected \cap Held = {}
    /\ \E id \in OldestOf(Held) : Settle(Pred(id), gapNacks)
    /\ Lost
    /\ Call("drain", "expire")
    /\ UNCHANGED <<pending, ready, now, arg, handed>>

ExpireReturn ==
    /\ pc = "expire" /\ ~Overdue(arg)
    /\ Call("idle", "idle")
    /\ arg' = None
    /\ UNCHANGED <<pending, ready, lastSettled, gapNacks, waiting, wanted, now,
                   handed>>

\* next_deadline(t), as a set of at most one time: the earliest repair of a held
\* frame, repair of a gap, or giving up.
RepairDeadlines(t) ==
    {IF pending[id].nacked = None THEN pending[id].last + t.quiet
     ELSE Max({pending[id].nacked + t.retry, pending[id].last + t.quiet}) :
        id \in {i \in Held : Repairable(i)}}
GapDeadlines(t) ==
    {gapNacks[g] + t.retry : g \in IF waiting THEN {} ELSE DOMAIN gapNacks}
\* Mutant of next_deadline(): counting from a frame's last chunk.
GiveUpSince_LastChunk ==
    IF Expected \cap Held # {} THEN StuckSince ELSE {pending[id].last : id \in Held}

GiveUpSince ==
    IF Expected \cap Held # {} THEN StuckSince ELSE {pending[id].first : id \in Held}

NextDeadline(t) ==
    LET all == RepairDeadlines(t) \cup GapDeadlines(t)
               \cup {s + t.giveUp : s \in GiveUpSince}
    IN  IF all = {} THEN {} ELSE {Min(all)}

-----------------------------------------------------------------------------
(* The caller *)

\* take_keyframe_request()
TakeKeyframeRequest ==
    /\ pc = "idle" /\ wanted
    /\ wanted' = FALSE
    /\ UNCHANGED <<pending, ready, lastSettled, gapNacks, waiting, now, pc, ret,
                   arg, handed>>

Tick == /\ pc = "idle" /\ now < MaxTime
        /\ now' = now + 1
        /\ UNCHANGED <<pending, ready, lastSettled, gapNacks, waiting, wanted,
                       pc, ret, arg, handed>>

Init == /\ pending = [id \in {} |-> None]
        /\ ready = <<>>
        /\ lastSettled = None
        /\ gapNacks = [id \in {} |-> None]
        /\ waiting = TRUE /\ wanted = FALSE
        /\ now = 0
        /\ pc = "idle" /\ ret = "idle" /\ arg = None
        /\ handed = None

Drain == DrainDeliver \/ DrainJump \/ DrainReturn
ExpireLoop == ExpireFrame \/ ExpireGap \/ ExpireReturn

Next == \/ Push \/ Pop \/ Drain \/ ExpireLoop
        \/ \E t \in Timings : Nacks(t) \/ Expire(t)
        \/ TakeKeyframeRequest \/ Tick

Spec == Init /\ [][Next]_vars

\* A call that has begun runs on, the caller empties `ready`, time passes between
\* its calls (which interrupt Tick, so strongly fair), and it calls
\* expire when a deadline passes.
FairSpec == Spec /\ WF_vars(Drain) /\ WF_vars(ExpireLoop) /\ WF_vars(PushInsert)
                 /\ WF_vars(Pop) /\ SF_vars(Tick)
                 /\ WF_vars(\E t \in Timings : Expire(t))

-----------------------------------------------------------------------------
(* Properties *)

\* Every field of `Reassembler` keeps its type across push, pop, nacks, expire
\* and the loops they run; a pushed chunk being inserted is a valid one.
TypeOK ==
    /\ DOMAIN pending \subseteq Ids
    /\ pending \in [DOMAIN pending -> Pending]
    /\ ready \in Seq(Frame)
    /\ lastSettled \in Ids \cup {None}
    /\ DOMAIN gapNacks \subseteq Ids
    /\ gapNacks \in [DOMAIN gapNacks -> Nat]
    /\ waiting \in BOOLEAN /\ wanted \in BOOLEAN
    /\ now \in Nat
    /\ pc \in {"idle", "drain", "insert", "expire"}
    /\ ret \in {"idle", "insert", "expire"} /\ (pc # "drain" => ret = "idle")
    /\ "insert" \in {pc, ret} => arg \in {c \in Chunk : Valid(c)}
    /\ "expire" \in {pc, ret} => arg \in Timings
    /\ handed \in Frame \cup {None}

\* The doc of `Reassembler` promises frames "to the decoder strictly in order",
\* and a P-frame only after its predecessor: what `deliver`, the keyframe jump
\* and every way of giving up must preserve together.
Decoder == INSTANCE DecoderStream WITH settled <- lastSettled
DecoderPromise == Decoder!Spec

\* While the chain holds, the frame handed over last is the one settled last, or
\* `drain` has just jumped to a keyframe that it hands over next.
ChainIntact ==
    ~waiting => /\ handed # None /\ lastSettled # None
                /\ \/ handed.id = lastSettled
                   \/ pc = "drain" /\ Succ(lastSettled) \in CompleteKeyframes

\* The frame a push is about to insert is no longer remembered as a gap.
InsertedIsNoGap == "insert" \in {pc, ret} => arg.id \notin DOMAIN gapNacks

\* A remembered gap (`gap_nacks`) is a frame still to come, of which nothing is
\* held, and within reach of the expected frame: `settle`, `push` and `nacks`
\* keep it so, and the list never needs its eviction.
GapsAreGaps ==
    \A g \in DOMAIN gapNacks :
        /\ lastSettled # None
        /\ IsNewer(g, lastSettled)
        /\ g \notin Held
        /\ WrappingSub(g, Succ(lastSettled)) < MaxGapNacks

\* Whatever is settled without reaching the decoder raises `keyframe_wanted`,
\* unless it is skipped for a complete keyframe that is delivered next.
SkippingAsksForKeyframe ==
    [][lastSettled' # lastSettled /\ handed' = handed
       => wanted' \/ Succ(lastSettled') \in CompleteKeyframes']_vars

\* A caller that sleeps until `next_deadline` never sleeps past a frame `expire`
\* would give up on, and sleeps for ever only when nothing is held.
DeadlineNotLate ==
    pc = "idle" =>
        \A t \in Timings : /\ Held # {} => NextDeadline(t) # {}
                           /\ Overdue(t) => \A d \in NextDeadline(t) : d <= now

\* The comment on the field `pending`: "Frames after `last_settled`, complete or
\* not."
PendingAfterSettled ==
    pc = "idle" /\ lastSettled # None => \A id \in Held : IsNewer(id, lastSettled)

\* The comments in `drain` and `expire` take care that neither loop is endless:
\* every call returns.
CallsReturn == (pc # "idle") ~> (pc = "idle")

\* No frame is held for ever: it is delivered, dropped or given up on.
HeldFramesSettle == \A id \in InputIds : (id \in Held) ~> (id \notin Held)

-----------------------------------------------------------------------------
(* Instances for TLC *)

\* Time abstracted away: every deadline is always due, so expire and nacks act
\* whenever they are called.
AlwaysDue == {[quiet |-> 0, retry |-> 0, giveUp |-> 0]}

\* A round trip of one tick.
OneTick == {[quiet |-> 1, retry |-> 1, giveUp |-> 2]}

=============================================================================
