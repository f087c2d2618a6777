--------------------------- MODULE DecoderStream ----------------------------
(***************************************************************************)
(* What a reassembler promises its decoder, whatever the network does: each *)
(* frame is newer than everything settled before it, and a frame that       *)
(* depends on its predecessor (a P-frame) is handed over only when that     *)
(* predecessor is the frame handed over just before.                        *)
(***************************************************************************)
EXTENDS FrameIds

VARIABLES settled,   \* newest frame delivered or given up on
          handed     \* newest frame handed to the decoder

Frame == [id : Ids, key : BOOLEAN]

Advances(id) == settled = None \/ IsNewer(id, settled)

Init == settled = None /\ handed = None

\* Frames up to and including id are given up on.
Skip(id) == /\ Advances(id)
            /\ settled' = id
            /\ UNCHANGED handed

\* A keyframe needs nothing before it.
HandKeyframe(id) == /\ Advances(id)
                    /\ settled' = id
                    /\ handed' = [id |-> id, key |-> TRUE]

\* A P-frame needs the frame right before it.
HandDelta(id) == /\ handed # None
                 /\ settled = handed.id
                 /\ id = Succ(handed.id)
                 /\ settled' = id
                 /\ handed' = [id |-> id, key |-> FALSE]

Next == \E id \in Ids : Skip(id) \/ HandKeyframe(id) \/ HandDelta(id)

Spec == Init /\ [][Next]_<<settled, handed>>

=============================================================================
