------------------------------ MODULE FrameIds ------------------------------
(***************************************************************************)
(* Frame ids of the video stream: unsigned integers that wrap around, and  *)
(* the order on them that survives wrapping (crates/core/src/video.rs).    *)
(* The code's ids are 32 bits wide, that is Half = 2^31.                   *)
(***************************************************************************)
EXTENDS Integers

CONSTANTS Half,   \* half the number of ids
          None    \* Option::None

IdSpace == 2 * Half
Ids == 0 .. (IdSpace - 1)

ASSUME HalfAssumption == Half \in Nat /\ Half > 1
ASSUME NoneAssumption == None \notin Int /\ None \notin [id : Ids, key : BOOLEAN]

\* u32::wrapping_add(1), wrapping_sub(1) and wrapping_sub(b).
Succ(a) == IF a = IdSpace - 1 THEN 0 ELSE a + 1
Pred(a) == IF a = 0 THEN IdSpace - 1 ELSE a - 1
WrappingSub(a, b) == IF a >= b THEN a - b ELSE a - b + IdSpace

\* `(a.wrapping_sub(b) as i32) > 0`: at a distance of exactly Half neither id
\* is the newer one.
IsNewer(a, b) == WrappingSub(a, b) \in 1 .. (Half - 1)

\* `ids.reduce(|a, b| if is_newer(a, b) { b } else { a })`, and its opposite.
\* Both are singletons for a non-empty set of ids that lie within Half of each
\* other, which is when the fold does not depend on the order of the list.
OldestOf(S) == {a \in S : \A b \in S : ~IsNewer(a, b)}
NewestOf(S) == {a \in S : \A b \in S : ~IsNewer(b, a)}

=============================================================================
