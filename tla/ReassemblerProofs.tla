------------------------- MODULE ReassemblerProofs --------------------------
(***************************************************************************)
(* Proofs about Reassembler: type correctness, the promise to the decoder   *)
(* (DecoderStream) and the bound on the remembered gaps, for every id width,*)
(* every limit and every sender.                                            *)
(***************************************************************************)
EXTENDS Reassembler, WellFoundedInduction, TLAPS

(***************************************************************************)
(* Frame ids                                                               *)
(***************************************************************************)

\* wrapping_add(1) and wrapping_sub(1) stay within the ids and are inverse.
LEMMA SuccPred ==
    ASSUME NEW a \in Ids
    PROVE  /\ Succ(a) \in Ids /\ Pred(a) \in Ids
           /\ Succ(Pred(a)) = a
BY HalfAssumption DEF Ids, IdSpace, Succ, Pred

\* is_newer: an id is newer than the one before it.
LEMMA SuccIsNewer ==
    ASSUME NEW a \in Ids
    PROVE  IsNewer(Succ(a), a) /\ IsNewer(a, Pred(a))
BY HalfAssumption DEF Ids, IdSpace, Succ, Pred, IsNewer, WrappingSub

\* Distances from a settled id shrink as the settled id advances (`settle`).
LEMMA AdvanceShrinks ==
    ASSUME NEW s \in Ids, NEW t \in Ids, NEW g \in Ids,
           IsNewer(t, s), IsNewer(g, t), IsNewer(g, s)
    PROVE  WrappingSub(g, Succ(t)) < WrappingSub(g, Succ(s))
BY HalfAssumption DEF Ids, IdSpace, Succ, IsNewer, WrappingSub

\* An id before the newest and not before the expected one is yet to settle.
LEMMA GapIsAhead ==
    ASSUME NEW s \in Ids, NEW n \in Ids, NEW g \in Ids,
           IsNewer(n, Succ(s)),
           WrappingSub(g, Succ(s)) < WrappingSub(n, Succ(s))
    PROVE  IsNewer(g, s)
BY HalfAssumption DEF Ids, IdSpace, Succ, IsNewer, WrappingSub

(***************************************************************************)
(* Types                                                                   *)
(***************************************************************************)

\* The expected frame, the held ones and the complete keyframes are ids.
LEMMA ExpectedType ==
    ASSUME TypeOK
    PROVE  Expected \subseteq Ids /\ Held \subseteq Ids /\ CompleteKeyframes \subseteq Held
BY SuccPred DEF TypeOK, Expected, OldestOf, Held, CompleteKeyframes

\* settle() keeps the types of the two fields it changes, and always leaves
\* something settled.
LEMMA SettleType ==
    ASSUME TypeOK, NEW id \in Ids, NEW gaps, DOMAIN gaps \subseteq Ids,
           gaps \in [DOMAIN gaps -> Nat], Settle(id, gaps)
    PROVE  /\ lastSettled' \in Ids
           /\ DOMAIN gapNacks' \subseteq Ids
           /\ gapNacks' \in [DOMAIN gapNacks' -> Nat]
           /\ DOMAIN gapNacks' = {g \in DOMAIN gaps : IsNewer(g, id)}
<1>1. lastSettled' \in Ids
  BY DEF Settle, TypeOK
<1>2. gapNacks' = Keep(gaps, {g \in Ids : IsNewer(g, id)})
  BY DEF Settle
<1> QED BY <1>1, <1>2 DEF Keep

\* Removing frames from `pending` keeps its type.
LEMMA DropType ==
    ASSUME TypeOK, NEW S, pending' = Keep(pending, S)
    PROVE  /\ DOMAIN pending' = DOMAIN pending \cap S
           /\ DOMAIN pending' \subseteq Ids
           /\ pending' \in [DOMAIN pending' -> Pending]
           /\ \A x \in DOMAIN pending' : pending'[x] = pending[x]
BY DEF TypeOK, Keep

\* Recording a valid chunk in a frame that fits it keeps the type of `pending`.
LEMMA StoreType ==
    ASSUME TypeOK, NEW c \in Chunk, Valid(c), NEW p \in Pending, Store(c, p)
    PROVE  /\ DOMAIN pending' = DOMAIN pending \cup {c.id}
           /\ DOMAIN pending' \subseteq Ids
           /\ pending' \in [DOMAIN pending' -> Pending]
           /\ pc' \in {"idle", "drain"} /\ ret' = "idle"
<1> DEFINE q == [p EXCEPT !.parts = @ \cup {c.chunk}, !.last = now]
<1>1. q \in Pending
  BY DEF Pending, TypeOK, Chunk
<1>2. pending' = [id \in Held \cup {c.id} |-> IF id = c.id THEN q ELSE pending[id]]
  BY DEF Store
<1>3. c.id \in Ids
  BY InputIdsAssumption DEF Chunk
<1>4. pc' \in {"idle", "drain"} /\ ret' = "idle"
  BY DEF Store, Call
<1> QED BY <1>1, <1>2, <1>3, <1>4 DEF TypeOK, Held

\* A new frame made for a valid chunk.
LEMMA FreshType ==
    ASSUME TypeOK, NEW c \in Chunk, Valid(c)
    PROVE  Fresh(c) \in Pending
BY LimitsAssumption DEF TypeOK, Chunk, Valid, Fresh, Pending

\* Each step of `Reassembler` keeps every field's type.
LEMMA TypeStep == TypeOK /\ [Next]_vars => TypeOK'
<1> SUFFICES ASSUME TypeOK, [Next]_vars PROVE TypeOK'
  OBVIOUS
<1>1. ASSUME NEW c \in Chunk, PushHeld(c) PROVE TypeOK'
  <2>1. pending[c.id] \in Pending
    BY <1>1 DEF PushHeld, TypeOK, Held
  <2>2. Store(c, pending[c.id]) /\ Valid(c) /\ UNCHANGED <<gapNacks, arg>>
    BY <1>1 DEF PushHeld, Accepts
  <2> QED BY <2>1, <2>2, StoreType DEF TypeOK, Store
<1>2. ASSUME NEW c \in Chunk, PushNew(c) PROVE TypeOK'
  <2>1. Store(c, Fresh(c)) /\ Valid(c) /\ UNCHANGED arg
        /\ gapNacks' = Keep(gapNacks, Ids \ {c.id})
    BY <1>2 DEF PushNew, Accepts
  <2>2. DOMAIN gapNacks' \subseteq Ids /\ gapNacks' \in [DOMAIN gapNacks' -> Nat]
    BY <2>1 DEF TypeOK, Keep
  <2> QED BY <2>1, <2>2, FreshType, StoreType DEF TypeOK, Store
<1>3. ASSUME NEW c \in Chunk, PushOverflow(c) PROVE TypeOK'
  <2> DEFINE gaps == Keep(gapNacks, Ids \ {c.id})
  <2>1. DOMAIN gaps \subseteq Ids /\ gaps \in [DOMAIN gaps -> Nat]
    BY DEF TypeOK, Keep
  <2> HIDE DEF gaps
  <2>2. GiveUpExpected(gaps) /\ Valid(c) /\ arg' = c /\ Call("drain", "insert")
        /\ UNCHANGED <<ready, now, handed>>
    BY <1>3 DEF PushOverflow, Accepts, gaps
  <2>3. PICK id \in Expected : /\ pending' = Keep(pending, Held \ {id})
                               /\ Settle(id, gaps)
    BY <2>2 DEF GiveUpExpected
  <2>4. id \in Ids
    BY <2>3, ExpectedType
  <2> QED BY <2>1, <2>2, <2>3, <2>4, SettleType, DropType
          DEF TypeOK, GiveUpExpected, Lost, Call
<1>4. CASE PushInsert
  <2>1. arg \in Chunk /\ Valid(arg)
    BY <1>4 DEF PushInsert, TypeOK
  <2>2. Store(arg, Fresh(arg)) /\ arg' = None /\ UNCHANGED gapNacks
    BY <1>4 DEF PushInsert
  <2> QED BY <2>1, <2>2, FreshType, StoreType DEF TypeOK, Store
<1>5. CASE Pop
  BY <1>5 DEF Pop, TypeOK
<1>6. CASE DrainDeliver
  <2>1. PICK id \in NextInLine : pending' = Keep(pending, Held \ {id}) /\ Deliver(id)
    BY <1>6 DEF DrainDeliver
  <2>2. id \in Ids /\ id \in Held /\ pending[id] \in Pending
    BY <2>1, ExpectedType DEF NextInLine, TypeOK, Held
  <2>3. Settle(id, gapNacks)
    BY <2>1 DEF Deliver
  <2>4. pending[id].key \in BOOLEAN
    BY <2>2 DEF Pending
  <2>5. ready' \in Seq(Frame) /\ handed' \in Frame \cup {None}
    <3> DEFINE f == [id |-> id, key |-> pending[id].key]
    <3>1. f \in Frame
      BY <2>2, <2>4 DEF Frame
    <3>2. ready' \in {ready, Append(ready, f)} /\ handed' \in {handed, f}
      BY <2>1 DEF Deliver
    <3> HIDE DEF f
    <3> QED BY <3>1, <3>2, SMTT(30) DEF TypeOK
  <2>6. waiting' \in BOOLEAN /\ wanted' \in BOOLEAN
    BY <2>1 DEF Deliver
  <2> QED BY <1>6, <2>1, <2>2, <2>3, <2>5, <2>6, SettleType, DropType
          DEF TypeOK, DrainDeliver
<1>7. CASE DrainJump
  <2>1. PICK id \in OldestOf(CompleteKeyframes) :
           /\ pending' = Keep(pending, {p \in Held : IsNewer(p, Pred(id))})
           /\ Settle(Pred(id), gapNacks)
    BY <1>7 DEF DrainJump
  <2>2. Pred(id) \in Ids
    BY <2>1, ExpectedType, SuccPred DEF OldestOf
  <2> QED BY <1>7, <2>1, <2>2, SettleType, DropType DEF TypeOK, DrainJump
<1>8. CASE DrainReturn
  BY <1>8 DEF DrainReturn, TypeOK
<1>9. CASE ExpireFrame
  <2>1. GiveUpExpected(gapNacks) /\ Call("drain", "expire")
        /\ pc = "expire" /\ UNCHANGED <<ready, now, arg, handed>>
    BY <1>9 DEF ExpireFrame
  <2>2. PICK id \in Expected : /\ pending' = Keep(pending, Held \ {id})
                               /\ Settle(id, gapNacks)
    BY <2>1 DEF GiveUpExpected
  <2>3. id \in Ids
    BY <2>2, ExpectedType
  <2> QED BY <2>1, <2>2, <2>3, SettleType, DropType
          DEF TypeOK, GiveUpExpected, Lost, Call
<1>10. CASE ExpireGap
  <2>1. PICK id \in OldestOf(Held) : Settle(Pred(id), gapNacks)
    BY <1>10 DEF ExpireGap
  <2>2. Pred(id) \in Ids
    BY <2>1, ExpectedType, SuccPred DEF OldestOf
  <2> QED BY <1>10, <2>1, <2>2, SettleType DEF TypeOK, ExpireGap, Lost, Call
<1>11. CASE ExpireReturn
  BY <1>11 DEF ExpireReturn, TypeOK, Call
<1>12. ASSUME NEW t \in Timings, Nacks(t) PROVE TypeOK'
  <2>1. DOMAIN pending' = DOMAIN pending /\ pending' \in [DOMAIN pending' -> Pending]
    <3>1. pending' = [id \in Held |-> IF id \in FramesToAsk(t)
                                     THEN [pending[id] EXCEPT !.nacked = now]
                                     ELSE pending[id]]
      BY <1>12 DEF Nacks
    <3>2. \A id \in Held : [pending[id] EXCEPT !.nacked = now] \in Pending
      BY DEF TypeOK, Held, Pending
    <3> QED BY <3>1, <3>2 DEF TypeOK, Held
  <2>2. PICK kept \in Remember(DOMAIN gapNacks \ GapsToAsk(t),
                               MaxRememberedGaps - Cardinality(GapsToAsk(t))) :
           gapNacks' = [id \in GapsToAsk(t) \cup kept |->
                           IF id \in GapsToAsk(t) THEN now ELSE gapNacks[id]]
    BY <1>12 DEF Nacks
  <2>3. kept \subseteq DOMAIN gapNacks
    BY <2>2 DEF Remember
  <2>4. GapsToAsk(t) \subseteq Ids
    BY DEF GapsToAsk, Gaps
  <2>5. DOMAIN gapNacks' \subseteq Ids /\ gapNacks' \in [DOMAIN gapNacks' -> Nat]
    BY <2>2, <2>3, <2>4 DEF TypeOK
  <2> QED BY <1>12, <2>1, <2>5 DEF TypeOK, Nacks
<1>13. ASSUME NEW t \in Timings, Expire(t) PROVE TypeOK'
  BY <1>13 DEF Expire, TypeOK, Call
<1>14. CASE TakeKeyframeRequest
  BY <1>14 DEF TakeKeyframeRequest, TypeOK
<1>15. CASE Tick
  BY <1>15 DEF Tick, TypeOK
<1>16. CASE UNCHANGED vars
  BY <1>16 DEF vars, TypeOK
<1> QED BY <1>1, <1>2, <1>3, <1>4, <1>5, <1>6, <1>7, <1>8, <1>9, <1>10, <1>11,
           <1>12, <1>13, <1>14, <1>15, <1>16
        DEF Next, Push, Drain, ExpireLoop

\* Every field of the reassembler keeps its type, whatever chunks arrive.
THEOREM TypeCorrect == Spec => []TypeOK
<1>1. Init => TypeOK
  <2> SUFFICES ASSUME Init PROVE TypeOK
    OBVIOUS
  <2>1. DOMAIN pending = {} /\ pending \in [DOMAIN pending -> Pending]
    BY DEF Init
  <2>2. DOMAIN gapNacks = {} /\ gapNacks \in [DOMAIN gapNacks -> Nat]
    BY DEF Init
  <2>3. ready \in Seq(Frame)
    BY DEF Init
  <2> QED BY <2>1, <2>2, <2>3 DEF Init, TypeOK
<1> QED BY <1>1, TypeStep, PTL DEF Spec

(***************************************************************************)
(* The promise to the decoder                                              *)
(***************************************************************************)

\* A frame record is not None: it has a field and None, outside the integers,
\* is assumed to be no record either.
LEMMA NoneIsNoFrame ==
    ASSUME NEW id \in Ids, NEW key \in BOOLEAN
    PROVE  [id |-> id, key |-> key] # None
BY NoneAssumption DEF Frame

\* What one delivery of `drain` does: it settles exactly the frame it takes, and
\* hands it over unless it is a P-frame and the chain is broken.
LEMMA DeliverStep ==
    ASSUME TypeOK, DrainDeliver
    PROVE  \E id \in Expected \cap Held :
              /\ id \in Ids /\ pending[id].key \in BOOLEAN
              /\ lastSettled' = id
              /\ waiting' = (waiting /\ ~pending[id].key)
              /\ handed' = IF ~pending[id].key /\ waiting THEN handed
                           ELSE [id |-> id, key |-> pending[id].key]
<1>1. PICK id \in NextInLine : Deliver(id)
  BY DEF DrainDeliver
<1>2. id \in Ids /\ id \in Held /\ id \in Expected /\ pending[id].key \in BOOLEAN
  BY <1>1, ExpectedType DEF NextInLine, TypeOK, Held, Pending
<1>3. lastSettled = None \/ IsNewer(id, lastSettled)
  BY <1>2, SuccIsNewer DEF Expected, TypeOK
<1>4. lastSettled' = id
  BY <1>1, <1>3 DEF Deliver, Settle
<1> QED BY <1>1, <1>2, <1>4 DEF Deliver

\* What the keyframe jump of `drain` does: it changes nothing but `pending` and
\* what is settled, and if it settles anything the keyframe comes next.
LEMMA JumpStep ==
    ASSUME TypeOK, DrainJump
    PROVE  /\ \/ lastSettled' = lastSettled
              \/ /\ lastSettled' \in Ids
                 /\ lastSettled = None \/ IsNewer(lastSettled', lastSettled)
                 /\ Succ(lastSettled') \in CompleteKeyframes'
           /\ handed' = handed /\ waiting' = waiting /\ pc' = "drain"
<1>1. PICK id \in OldestOf(CompleteKeyframes) :
         /\ pending' = Keep(pending, {p \in Held : IsNewer(p, Pred(id))})
         /\ Settle(Pred(id), gapNacks)
  BY DEF DrainJump
<1>2. id \in CompleteKeyframes /\ id \in Held /\ id \in Ids
  BY <1>1, ExpectedType DEF OldestOf
<1>3. IsNewer(id, Pred(id)) /\ Succ(Pred(id)) = id /\ Pred(id) \in Ids
  BY <1>2, SuccIsNewer, SuccPred
<1>4. id \in DOMAIN pending' /\ pending'[id] = pending[id]
  BY <1>1, <1>2, <1>3 DEF Keep, Held
<1>5. id \in CompleteKeyframes'
  BY <1>2, <1>4 DEF CompleteKeyframes, Held, Complete
<1> QED BY <1>1, <1>3, <1>5 DEF Settle, DrainJump

\* Giving up breaks the chain and settles the expected frame.
LEMMA GiveUpStep ==
    ASSUME TypeOK, NEW gaps, GiveUpExpected(gaps)
    PROVE  /\ waiting' = TRUE
           /\ lastSettled' \in Ids
           /\ lastSettled = None \/ IsNewer(lastSettled', lastSettled)
<1>1. PICK id \in Expected : Settle(id, gaps)
  BY DEF GiveUpExpected
<1>2. id \in Ids
  BY <1>1, ExpectedType
<1>3. lastSettled = None \/ IsNewer(id, lastSettled)
  BY <1>1, <1>2, SuccIsNewer DEF Expected, TypeOK
<1> QED BY <1>1, <1>2, <1>3 DEF Settle, GiveUpExpected, Lost

\* Expiring a whole gap breaks the chain and settles forward or not at all.
LEMMA ExpireGapStep ==
    ASSUME TypeOK, ExpireGap
    PROVE  /\ waiting' = TRUE /\ handed' = handed
           /\ \/ lastSettled' = lastSettled
              \/ /\ lastSettled' \in Ids
                 /\ lastSettled = None \/ IsNewer(lastSettled', lastSettled)
<1>1. PICK id \in OldestOf(Held) : Settle(Pred(id), gapNacks)
  BY DEF ExpireGap
<1>2. Pred(id) \in Ids
  BY <1>1, ExpectedType, SuccPred DEF OldestOf
<1> QED BY <1>1, <1>2 DEF Settle, ExpireGap, Lost

\* No other step touches the chain, and all of them begin outside `drain` or end
\* it with nothing left to deliver.
Aside == \/ \E c \in Chunk : PushHeld(c) \/ PushNew(c)
         \/ PushInsert \/ Pop \/ DrainReturn \/ ExpireReturn
         \/ \E t \in Timings : Nacks(t) \/ Expire(t)
         \/ TakeKeyframeRequest \/ Tick

LEMMA AsideStep ==
    ASSUME Aside
    PROVE  /\ UNCHANGED <<lastSettled, handed, waiting>>
           /\ pc # "drain" \/ Expected = {} \/ CompleteKeyframes = {}
BY DEF Aside, PushHeld, PushNew, Idle, PushInsert, Store, Pop, DrainReturn,
       ExpireReturn, Nacks, Expire, TakeKeyframeRequest, Tick

\* Next, by what its steps do to the chain.
LEMMA NextCases ==
    ASSUME [Next]_vars
    PROVE  \/ DrainDeliver \/ DrainJump \/ ExpireGap \/ Aside \/ UNCHANGED vars
           \/ \E gaps : GiveUpExpected(gaps) /\ handed' = handed
BY DEF Next, Push, Drain, ExpireLoop, PushOverflow, ExpireFrame, Aside

\* Each step keeps ChainIntact.
LEMMA ChainStep == TypeOK /\ ChainIntact /\ [Next]_vars => ChainIntact'
<1> SUFFICES ASSUME TypeOK, ChainIntact, [Next]_vars PROVE ChainIntact'
  OBVIOUS
<1>1. CASE DrainDeliver
  <2>1. PICK id \in Expected \cap Held :
           /\ id \in Ids /\ pending[id].key \in BOOLEAN
           /\ lastSettled' = id
           /\ waiting' = (waiting /\ ~pending[id].key)
           /\ handed' = IF ~pending[id].key /\ waiting THEN handed
                        ELSE [id |-> id, key |-> pending[id].key]
    BY <1>1, DeliverStep
  <2>2. CASE waiting /\ ~pending[id].key
    BY <2>1, <2>2 DEF ChainIntact
  <2>3. CASE ~(waiting /\ ~pending[id].key)
    <3>1. handed' = [id |-> id, key |-> pending[id].key]
      BY <2>1, <2>3
    <3>2. handed' # None /\ handed'.id = id
      BY <3>1, <2>1, NoneIsNoFrame
    <3> QED BY <2>1, <3>2, NoneAssumption DEF ChainIntact, Ids
  <2> QED BY <2>2, <2>3
<1>2. CASE DrainJump
  <2>1. CASE lastSettled' = lastSettled
    <3>1. Expected # {} /\ NextInLine = {}
      BY <1>2 DEF DrainJump
    <3>2. lastSettled # None => Succ(lastSettled) \notin CompleteKeyframes
      BY <3>1 DEF NextInLine, Expected, CompleteKeyframes
    <3> QED BY <1>2, <2>1, <3>2, JumpStep DEF ChainIntact
  <2>2. CASE lastSettled' # lastSettled
    BY <1>2, <2>2, JumpStep, NoneAssumption DEF ChainIntact, Ids
  <2> QED BY <2>1, <2>2
<1>3. CASE ExpireGap
  BY <1>3, ExpireGapStep DEF ChainIntact
<1>4. CASE \E gaps : GiveUpExpected(gaps) /\ handed' = handed
  BY <1>4, GiveUpStep DEF ChainIntact
<1>5. CASE Aside
  <2>1. lastSettled # None => Expected # {}
    BY DEF Expected
  <2> QED BY <1>5, <2>1, AsideStep DEF ChainIntact
<1>6. CASE UNCHANGED vars
  BY <1>6 DEF vars, ChainIntact, CompleteKeyframes, Held, Complete
<1> QED BY <1>1, <1>2, <1>3, <1>4, <1>5, <1>6, NextCases

\* While frames are missing, lost, repaired, duplicated or reordered, the chain
\* stays intact: no P-frame can be delivered after a gap.
THEOREM ChainAlwaysIntact == Spec => []ChainIntact
<1>1. Init => ChainIntact
  BY DEF Init, ChainIntact
<1> QED BY <1>1, ChainStep, TypeCorrect, PTL DEF Spec

\* `Reassembler` implements DecoderStream: frames reach the decoder in order, and
\* a P-frame only right after the frame it depends on.
THEOREM ImplementsDecoderStream == Spec => DecoderPromise
<1>1. Init => Decoder!Init
  BY DEF Init, Decoder!Init
<1>2. TypeOK /\ ChainIntact /\ [Next]_vars
      => [Decoder!Next]_<<lastSettled, handed>>
  <2> SUFFICES ASSUME TypeOK, ChainIntact, [Next]_vars
               PROVE  Decoder!Next \/ UNCHANGED <<lastSettled, handed>>
    OBVIOUS
  <2> USE DEF Decoder!Ids, Decoder!IdSpace, Ids, IdSpace
  <2>0. \A a, b : Decoder!IsNewer(a, b) <=> IsNewer(a, b)
    BY DEF Decoder!IsNewer, IsNewer, Decoder!WrappingSub, WrappingSub
  <2>1. CASE DrainDeliver
    <3>1. PICK id \in Expected \cap Held :
             /\ id \in Ids /\ pending[id].key \in BOOLEAN
             /\ lastSettled' = id
             /\ waiting' = (waiting /\ ~pending[id].key)
             /\ handed' = IF ~pending[id].key /\ waiting THEN handed
                          ELSE [id |-> id, key |-> pending[id].key]
      BY <2>1, DeliverStep
    <3>2. lastSettled = None \/ (IsNewer(id, lastSettled) /\ id = Succ(lastSettled))
      BY <3>1, SuccIsNewer DEF Expected, TypeOK
    <3>3. CASE ~pending[id].key /\ waiting
      <4>1. Decoder!Skip(id)
        BY <2>0, <3>1, <3>2, <3>3 DEF Decoder!Skip, Decoder!Advances
      <4> QED BY <3>1, <4>1 DEF Decoder!Next
    <3>4. CASE pending[id].key
      <4>1. Decoder!HandKeyframe(id)
        BY <2>0, <3>1, <3>2, <3>4 DEF Decoder!HandKeyframe, Decoder!Advances
      <4> QED BY <3>1, <4>1 DEF Decoder!Next
    <3>5. CASE ~pending[id].key /\ ~waiting
      <4>1. handed # None /\ lastSettled # None
        BY <3>5 DEF ChainIntact
      <4>2. Succ(lastSettled) \notin CompleteKeyframes
        BY <3>1, <3>2, <3>5, <4>1 DEF CompleteKeyframes
      <4>3. handed.id = lastSettled
        BY <3>5, <4>2 DEF ChainIntact
      <4>4. handed' = [id |-> id, key |-> FALSE]
        BY <3>1, <3>5
      <4>5. id = Decoder!Succ(handed.id)
        BY <3>2, <4>1, <4>3 DEF Decoder!Succ, Succ
      <4>6. Decoder!HandDelta(id)
        BY <3>1, <4>1, <4>3, <4>4, <4>5 DEF Decoder!HandDelta
      <4> QED BY <3>1, <4>6 DEF Decoder!Next
    <3> QED BY <3>1, <3>3, <3>4, <3>5
  <2>2. ASSUME lastSettled' \in Ids, handed' = handed,
               lastSettled = None \/ IsNewer(lastSettled', lastSettled)
        PROVE  Decoder!Next
    <3>1. Decoder!Skip(lastSettled')
      BY <2>0, <2>2 DEF Decoder!Skip, Decoder!Advances
    <3> QED BY <2>2, <3>1 DEF Decoder!Next
  <2>3. CASE DrainJump
    BY <2>2, <2>3, JumpStep
  <2>4. CASE ExpireGap
    BY <2>2, <2>4, ExpireGapStep
  <2>5. CASE \E gaps : GiveUpExpected(gaps) /\ handed' = handed
    BY <2>2, <2>5, GiveUpStep
  <2>6. CASE Aside
    BY <2>6, AsideStep
  <2>7. CASE UNCHANGED vars
    BY <2>7 DEF vars
  <2> QED BY <2>1, <2>3, <2>4, <2>5, <2>6, <2>7, NextCases
<1> QED BY <1>1, <1>2, TypeCorrect, ChainAlwaysIntact, PTL
        DEF Spec, DecoderPromise, Decoder!Spec

(***************************************************************************)
(* Remembered gaps                                                         *)
(***************************************************************************)

\* Settling a frame, forward or not at all, leaves only gaps still ahead.
LEMMA SettleGaps ==
    ASSUME TypeOK, GapsAreGaps, NEW id \in Ids, NEW gaps,
           DOMAIN gaps \subseteq DOMAIN gapNacks, gaps \in [DOMAIN gaps -> Nat],
           Settle(id, gaps), Held' \subseteq Held
    PROVE  GapsAreGaps' /\ DOMAIN gapNacks' \subseteq DOMAIN gaps
<1>1. /\ DOMAIN gapNacks' = {g \in DOMAIN gaps : IsNewer(g, id)}
      /\ lastSettled' \in Ids
  BY SettleType DEF TypeOK
<1> SUFFICES ASSUME NEW g \in DOMAIN gapNacks'
             PROVE  /\ lastSettled' # None /\ IsNewer(g, lastSettled')
                    /\ g \notin Held'
                    /\ WrappingSub(g, Succ(lastSettled')) < MaxGapNacks
  BY <1>1 DEF GapsAreGaps
<1>2. /\ g \in Ids /\ IsNewer(g, id) /\ g \notin Held
      /\ lastSettled \in Ids /\ IsNewer(g, lastSettled)
      /\ WrappingSub(g, Succ(lastSettled)) < MaxGapNacks
  BY <1>1 DEF GapsAreGaps, TypeOK
<1>3. CASE IsNewer(id, lastSettled)
  <2>1. lastSettled' = id
    BY <1>3 DEF Settle
  <2>2. WrappingSub(g, Succ(id)) < WrappingSub(g, Succ(lastSettled))
    BY <1>2, <1>3, AdvanceShrinks
  <2>3. WrappingSub(g, Succ(id)) < MaxGapNacks
    BY <1>2, <2>2, SuccPred, HalfAssumption, LimitsAssumption
       DEF WrappingSub, Ids, IdSpace
  <2> QED BY <1>1, <1>2, <2>1, <2>3, NoneAssumption DEF Ids
<1>4. CASE ~IsNewer(id, lastSettled)
  <2>1. lastSettled' = lastSettled
    BY <1>2, <1>4, NoneAssumption DEF Settle, Ids
  <2> QED BY <1>1, <1>2, <2>1, NoneAssumption DEF Ids
<1> QED BY <1>3, <1>4

\* Storing a chunk of a frame that is no gap.
LEMMA StoreGaps ==
    ASSUME TypeOK, GapsAreGaps, NEW c \in Chunk, Valid(c), NEW p \in Pending,
           Store(c, p), DOMAIN gapNacks' \subseteq DOMAIN gapNacks \ {c.id}
    PROVE  GapsAreGaps' /\ InsertedIsNoGap'
<1>1. Held' = Held \cup {c.id} /\ pc' # "insert" /\ ret' # "insert"
  BY StoreType DEF Held
<1>2. lastSettled' = lastSettled
  BY DEF Store
<1> QED BY <1>1, <1>2 DEF GapsAreGaps, InsertedIsNoGap

GapInv == GapsAreGaps /\ InsertedIsNoGap

\* Each step of push, nacks, drain and expire keeps the gaps gaps.
LEMMA GapStep == TypeOK /\ ChainIntact /\ GapInv /\ [Next]_vars => GapInv'
<1> SUFFICES ASSUME TypeOK, ChainIntact, GapInv, [Next]_vars PROVE GapInv'
  OBVIOUS
<1> USE DEF GapInv
<1>a. DOMAIN gapNacks \subseteq Ids /\ gapNacks \in [DOMAIN gapNacks -> Nat]
  BY DEF TypeOK
<1>1. ASSUME NEW c \in Chunk, PushHeld(c) PROVE GapInv'
  <2>1. pending[c.id] \in Pending /\ c.id \in Held
    BY <1>1 DEF PushHeld, TypeOK, Held
  <2>2. Store(c, pending[c.id]) /\ Valid(c) /\ gapNacks' = gapNacks
    BY <1>1 DEF PushHeld, Accepts
  <2>3. c.id \notin DOMAIN gapNacks
    BY <2>1 DEF GapsAreGaps
  <2> QED BY <2>1, <2>2, <2>3, StoreGaps
<1>2. ASSUME NEW c \in Chunk, PushNew(c) PROVE GapInv'
  <2>1. Store(c, Fresh(c)) /\ Valid(c) /\ gapNacks' = Keep(gapNacks, Ids \ {c.id})
    BY <1>2 DEF PushNew, Accepts
  <2>2. DOMAIN gapNacks' \subseteq DOMAIN gapNacks \ {c.id}
    BY <2>1 DEF Keep
  <2> QED BY <2>1, <2>2, FreshType, StoreGaps
<1>3. ASSUME NEW c \in Chunk, PushOverflow(c) PROVE GapInv'
  <2> DEFINE gaps == Keep(gapNacks, Ids \ {c.id})
  <2>1. /\ DOMAIN gaps \subseteq DOMAIN gapNacks /\ c.id \notin DOMAIN gaps
        /\ gaps \in [DOMAIN gaps -> Nat]
    BY <1>a DEF Keep
  <2>2. PICK id \in Expected : /\ pending' = Keep(pending, Held \ {id})
                               /\ Settle(id, gaps)
    BY <1>3 DEF PushOverflow, GiveUpExpected
  <2> HIDE DEF gaps
  <2>3. id \in Ids /\ Held' \subseteq Held
    BY <2>2, ExpectedType, DropType DEF Held
  <2>4. GapsAreGaps' /\ DOMAIN gapNacks' \subseteq DOMAIN gaps
    BY <2>1, <2>2, <2>3, SettleGaps
  <2>5. arg' = c
    BY <1>3 DEF PushOverflow
  <2> QED BY <2>1, <2>4, <2>5 DEF InsertedIsNoGap
<1>4. CASE PushInsert
  <2>1. arg \in Chunk /\ Valid(arg) /\ arg.id \notin DOMAIN gapNacks
    BY <1>4 DEF PushInsert, TypeOK, InsertedIsNoGap
  <2>2. Store(arg, Fresh(arg)) /\ gapNacks' = gapNacks
    BY <1>4 DEF PushInsert
  <2> QED BY <2>1, <2>2, FreshType, StoreGaps
<1>5. CASE DrainDeliver
  <2>1. PICK id \in NextInLine : pending' = Keep(pending, Held \ {id}) /\ Deliver(id)
    BY <1>5 DEF DrainDeliver
  <2>2. id \in Ids /\ Settle(id, gapNacks) /\ Held' \subseteq Held
    BY <2>1, ExpectedType, DropType DEF NextInLine, Deliver, Held
  <2>3. GapsAreGaps' /\ DOMAIN gapNacks' \subseteq DOMAIN gapNacks
    BY <1>a, <2>2, SettleGaps
  <2> QED BY <1>5, <2>3 DEF DrainDeliver, InsertedIsNoGap
<1>6. CASE DrainJump
  <2>1. PICK id \in OldestOf(CompleteKeyframes) :
           /\ pending' = Keep(pending, {p \in Held : IsNewer(p, Pred(id))})
           /\ Settle(Pred(id), gapNacks)
    BY <1>6 DEF DrainJump
  <2>2. Pred(id) \in Ids /\ Held' \subseteq Held
    BY <2>1, ExpectedType, SuccPred, DropType DEF OldestOf, Held
  <2>3. GapsAreGaps' /\ DOMAIN gapNacks' \subseteq DOMAIN gapNacks
    BY <1>a, <2>1, <2>2, SettleGaps
  <2> QED BY <1>6, <2>3 DEF DrainJump, InsertedIsNoGap
<1>7. CASE ExpireFrame
  <2>1. PICK id \in Expected : /\ pending' = Keep(pending, Held \ {id})
                               /\ Settle(id, gapNacks)
    BY <1>7 DEF ExpireFrame, GiveUpExpected
  <2>2. id \in Ids /\ Held' \subseteq Held
    BY <2>1, ExpectedType, DropType DEF Held
  <2>3. GapsAreGaps' /\ DOMAIN gapNacks' \subseteq DOMAIN gapNacks
    BY <1>a, <2>1, <2>2, SettleGaps
  <2> QED BY <1>7, <2>3 DEF ExpireFrame, Call, InsertedIsNoGap
<1>8. CASE ExpireGap
  <2>1. PICK id \in OldestOf(Held) : Settle(Pred(id), gapNacks)
    BY <1>8 DEF ExpireGap
  <2>2. Pred(id) \in Ids /\ Held' \subseteq Held
    BY <1>8, <2>1, ExpectedType, SuccPred DEF OldestOf, ExpireGap, Held
  <2>3. GapsAreGaps' /\ DOMAIN gapNacks' \subseteq DOMAIN gapNacks
    BY <1>a, <2>1, <2>2, SettleGaps
  <2> QED BY <1>8, <2>3 DEF ExpireGap, Call, InsertedIsNoGap
<1>9. ASSUME NEW t \in Timings, Nacks(t) PROVE GapInv'
  <2>1. PICK kept \in Remember(DOMAIN gapNacks \ GapsToAsk(t),
                               MaxRememberedGaps - Cardinality(GapsToAsk(t))) :
           gapNacks' = [id \in GapsToAsk(t) \cup kept |->
                           IF id \in GapsToAsk(t) THEN now ELSE gapNacks[id]]
    BY <1>9 DEF Nacks
  <2>2. kept \subseteq DOMAIN gapNacks
    BY <2>1 DEF Remember
  <2>3. Held' = Held /\ lastSettled' = lastSettled /\ pc' = pc /\ ret' = ret
        /\ pc = "idle" /\ arg' = arg
    BY <1>9 DEF Nacks, Held
  <2>4. ASSUME NEW g \in GapsToAsk(t)
        PROVE  /\ lastSettled # None /\ IsNewer(g, lastSettled) /\ g \notin Held
               /\ WrappingSub(g, Succ(lastSettled)) < MaxGapNacks
    <3>1. g \in Ids \ Held /\ ~waiting
      BY <2>4 DEF GapsToAsk, Gaps
    <3>2. lastSettled # None /\ lastSettled \in Ids /\ Expected = {Succ(lastSettled)}
      BY <3>1 DEF ChainIntact, TypeOK, Expected
    <3>3. PICK n \in NewestOf(Held) :
             /\ IsNewer(n, Succ(lastSettled))
             /\ WrappingSub(g, Succ(lastSettled)) < WrappingSub(n, Succ(lastSettled))
             /\ WrappingSub(g, Succ(lastSettled)) < MaxGapNacks
      BY <2>4, <3>2 DEF GapsToAsk, Gaps
    <3>4. n \in Ids
      BY <3>3, ExpectedType DEF NewestOf
    <3> QED BY <3>1, <3>2, <3>3, <3>4, GapIsAhead
  <2>5. GapsAreGaps'
    BY <2>1, <2>2, <2>3, <2>4 DEF GapsAreGaps
  <2> QED BY <2>3, <2>5 DEF InsertedIsNoGap, TypeOK
<1>10. CASE Pop \/ DrainReturn \/ ExpireReturn \/ TakeKeyframeRequest \/ Tick
            \/ \E t \in Timings : Expire(t)
  BY <1>10 DEF Pop, DrainReturn, ExpireReturn, TakeKeyframeRequest, Tick, Expire,
               Call, GapsAreGaps, InsertedIsNoGap, Held
<1>11. CASE UNCHANGED vars
  BY <1>11 DEF vars, GapsAreGaps, InsertedIsNoGap, Held
<1> QED BY <1>1, <1>2, <1>3, <1>4, <1>5, <1>6, <1>7, <1>8, <1>9, <1>10, <1>11
        DEF Next, Push, Drain, ExpireLoop

\* The list of remembered gaps holds exactly frames still to come, at most
\* MAX_GAP_NACKS beyond the settled one, so `nacks` never evicts any.
THEOREM GapsAlwaysGaps == Spec => []GapsAreGaps
<1>1. Init => GapInv
  BY DEF Init, GapInv, GapsAreGaps, InsertedIsNoGap
<1>2. GapInv => GapsAreGaps
  BY DEF GapInv
<1> QED BY <1>1, <1>2, GapStep, TypeCorrect, ChainAlwaysIntact, PTL DEF Spec

(***************************************************************************)
(* The deadline                                                            *)
(***************************************************************************)

\* A set of times has an earliest one.
LEMMA LeastTime ==
    ASSUME NEW T, T \subseteq Nat, T # {}
    PROVE  Min(T) \in T /\ \A y \in T : Min(T) <= y
<1>1. PICK x \in T : \A y \in T : <<y, x>> \notin OpToRel(<, Nat)
  BY WFMin, NatLessThanWellFounded, Zenon
<1>2. \A y \in T : ~ (y < x)
  BY <1>1, Zenon DEF OpToRel
<1>3. \A y \in T : x <= y
  BY <1>2
<1> QED BY <1>1, <1>3 DEF Min

\* What is held arrived in the past (`first_arrival`, `last_arrival`).
TimesPast == \A id \in Held : pending[id].first <= now /\ pending[id].last <= now

\* A frame that is stored got its chunk now.
LEMMA StoreTimes ==
    ASSUME TypeOK, TimesPast, NEW c \in Chunk, NEW p \in Pending, p.first <= now, Store(c, p)
    PROVE  TimesPast'
<1> DEFINE q == [p EXCEPT !.parts = @ \cup {c.chunk}, !.last = now]
<1>1. q.first <= now /\ q.last <= now
  BY DEF Pending, TypeOK
<1>2. pending' = [id \in Held \cup {c.id} |-> IF id = c.id THEN q ELSE pending[id]] /\ now' = now
  BY DEF Store
<1> HIDE DEF q
<1> QED BY <1>1, <1>2 DEF TimesPast, Held

\* Frames that go take their times with them.
LEMMA DropTimes ==
    ASSUME TypeOK, TimesPast, NEW S, pending' = Keep(pending, S), now' = now
    PROVE  TimesPast'
BY DEF TimesPast, Held, Keep

LEMMA TimesStep == TypeOK /\ TimesPast /\ [Next]_vars => TimesPast'
<1> SUFFICES ASSUME TypeOK, TimesPast, [Next]_vars PROVE TimesPast'
  OBVIOUS
<1>1. ASSUME NEW c \in Chunk, PushHeld(c) PROVE TimesPast'
  <2>1. pending[c.id] \in Pending /\ pending[c.id].first <= now /\ Store(c, pending[c.id])
    BY <1>1 DEF PushHeld, TypeOK, Held, TimesPast
  <2> QED BY <2>1, StoreTimes
<1>2. ASSUME NEW c \in Chunk, PushNew(c) PROVE TimesPast'
  <2>1. Store(c, Fresh(c)) /\ Valid(c)
    BY <1>2 DEF PushNew, Accepts
  <2>2. Fresh(c) \in Pending /\ Fresh(c).first <= now
    BY <2>1, FreshType DEF Fresh, TypeOK
  <2> QED BY <2>1, <2>2, StoreTimes
<1>3. CASE PushInsert
  <2>1. arg \in Chunk /\ Valid(arg) /\ Store(arg, Fresh(arg))
    BY <1>3 DEF PushInsert, TypeOK
  <2>2. Fresh(arg) \in Pending /\ Fresh(arg).first <= now
    BY <2>1, FreshType DEF Fresh, TypeOK
  <2> QED BY <2>1, <2>2, StoreTimes
<1>4. CASE (\E c \in Chunk : PushOverflow(c)) \/ DrainDeliver \/ DrainJump \/ ExpireFrame
  <2>1. now' = now /\ \E S : pending' = Keep(pending, S)
    BY <1>4, Zenon DEF PushOverflow, GiveUpExpected, DrainDeliver, DrainJump, ExpireFrame
  <2> QED BY <2>1, DropTimes
<1>5. ASSUME NEW t \in Timings, Nacks(t) PROVE TimesPast'
  <2>1. now' = now /\ pending' = [id \in Held |-> IF id \in FramesToAsk(t)
                                                 THEN [pending[id] EXCEPT !.nacked = now]
                                                 ELSE pending[id]]
    BY <1>5 DEF Nacks
  <2>2. \A id \in Held : /\ [pending[id] EXCEPT !.nacked = now].first = pending[id].first
                         /\ [pending[id] EXCEPT !.nacked = now].last = pending[id].last
    BY DEF TypeOK, Held, Pending
  <2>3. \A id \in Held : pending'[id].first <= now /\ pending'[id].last <= now
    BY <2>1, <2>2 DEF TimesPast
  <2> QED BY <2>1, <2>3 DEF TimesPast, Held
<1>6. CASE Tick
  <2>1. \A id \in Held : pending[id].first \in Nat /\ pending[id].last \in Nat
    BY DEF TypeOK, Held, Pending
  <2>2. now \in Nat /\ now' = now + 1 /\ pending' = pending
    BY <1>6 DEF Tick, TypeOK
  <2> QED BY <2>1, <2>2 DEF TimesPast, Held
<1>7. CASE \/ Pop \/ DrainReturn \/ ExpireGap \/ ExpireReturn \/ TakeKeyframeRequest
           \/ (\E t \in Timings : Expire(t)) \/ UNCHANGED vars
  <2>1. now' = now /\ pending' = pending
    BY <1>7 DEF Pop, DrainReturn, ExpireGap, ExpireReturn, TakeKeyframeRequest, Expire, vars
  <2> QED BY <2>1 DEF TimesPast, Held
<1> QED BY <1>1, <1>2, <1>3, <1>4, <1>5, <1>6, <1>7 DEF Next, Push, Drain, ExpireLoop

\* The deadline is the earliest of the times at which something is due, and the
\* one at which `expire` gives up is among them.
LEMMA DeadlineIfPast == TypeOK /\ TimesPast => DeadlineNotLate
<1> SUFFICES ASSUME TypeOK, TimesPast, NEW t \in Timings
             PROVE  /\ Held # {} => NextDeadline(t) # {}
                    /\ Overdue(t) => \A d \in NextDeadline(t) : d <= now
  BY DEF DeadlineNotLate
<1> DEFINE ups == {s + t.giveUp : s \in GiveUpSince}
           all == RepairDeadlines(t) \cup GapDeadlines(t) \cup ups
<1>0. t.quiet \in Nat /\ t.retry \in Nat /\ t.giveUp \in Nat /\ now \in Nat
  BY LimitsAssumption DEF Timing, TypeOK
<1>1. NextDeadline(t) = IF all = {} THEN {} ELSE {Min(all)}
  BY DEF NextDeadline
<1>2. \A id \in Held : /\ pending[id].first \in Nat /\ pending[id].last \in Nat
                       /\ pending[id].nacked \in Nat \cup {None}
  BY DEF TypeOK, Held, Pending
<1>3. GiveUpSince \subseteq Nat /\ (Held # {} => GiveUpSince # {})
  BY <1>2 DEF GiveUpSince, StuckSince
<1>4. all \subseteq Nat
  <2>1. \A a, b \in Nat : Max({a, b}) \in Nat
    <3> TAKE a, b \in Nat
    <3>1. \E x \in {a, b} : \A y \in {a, b} : x >= y
      OBVIOUS
    <3>2. Max({a, b}) \in {a, b}
      BY <3>1, Zenon DEF Max
    <3> QED BY <3>2
  <2>2. RepairDeadlines(t) \subseteq Nat
    <3> SUFFICES ASSUME NEW id \in Held
                 PROVE  (IF pending[id].nacked = None THEN pending[id].last + t.quiet
                         ELSE Max({pending[id].nacked + t.retry, pending[id].last + t.quiet})) \in Nat
      BY DEF RepairDeadlines
    <3>1. pending[id].last + t.quiet \in Nat
      BY <1>0, <1>2
    <3>2. pending[id].nacked # None => pending[id].nacked + t.retry \in Nat
      BY <1>0, <1>2
    <3> QED BY <2>1, <3>1, <3>2, Zenon
  <2>3. GapDeadlines(t) \subseteq Nat
    BY <1>0 DEF GapDeadlines, TypeOK
  <2>4. ups \subseteq Nat
    BY <1>0, <1>3
  <2> HIDE DEF ups
  <2> QED BY <2>2, <2>3, <2>4
<1>5. ASSUME Overdue(t)
      PROVE  \E u \in ups : u <= now
  <2>1. PICK s \in StuckSince : SaturatingSub(now, s) >= t.giveUp
    BY <1>5 DEF Overdue
  <2>2. s \in GiveUpSince
    BY <2>1 DEF StuckSince, GiveUpSince, OldestOf
  <2>3. s \in Nat /\ s <= now
    BY <1>2, <2>1 DEF StuckSince, OldestOf, TimesPast
  <2>4. s + t.giveUp <= now
    BY <1>0, <2>1, <2>3 DEF SaturatingSub
  <2> QED BY <2>2, <2>4
<1>6. Held # {} => all # {}
  BY <1>3
<1> HIDE DEF ups
<1>7. Overdue(t) => all # {} /\ Min(all) <= now
  <2> SUFFICES ASSUME Overdue(t) PROVE all # {} /\ Min(all) <= now
    OBVIOUS
  <2>1. PICK u \in ups : u <= now
    BY <1>5
  <2>2. u \in all
    BY <2>1
  <2> HIDE DEF all
  <2>3. Min(all) \in all /\ Min(all) <= u
    <3>1. all # {}
      BY <2>2
    <3> QED BY <1>4, <2>2, <3>1, LeastTime, Zenon
  <2>4. Min(all) \in Nat /\ u \in Nat /\ now \in Nat
    BY <1>0, <1>4, <2>2, <2>3
  <2> DEFINE least == Min(all)
  <2>5. least \in Nat /\ least <= u /\ all # {}
    BY <2>2, <2>3, <2>4
  <2> HIDE DEF least
  <2>6. least <= now
    BY <2>1, <2>4, <2>5
  <2> QED BY <2>5, <2>6 DEF least
<1> QED BY <1>1, <1>6, <1>7

\* A caller that sleeps until `next_deadline` is never late for `expire`, and has a
\* deadline whenever something is held: for every timing, clock and sender.
THEOREM DeadlineInTime == Spec => []DeadlineNotLate
<1>1. Init => TimesPast
  BY DEF Init, TimesPast, Held
<1> QED BY <1>1, TimesStep, DeadlineIfPast, TypeCorrect, PTL DEF Spec

=============================================================================
