------------------------------- MODULE Window -------------------------------
(***************************************************************************)
(* Times kept in a queue, the oldest first, and forgotten from the front   *)
(* once they are as old as a window: how the server's two tables of        *)
(* attempts keep theirs (server/src/accounts.rs, failed;                   *)
(* server/src/rendezvous.rs, attempt).                                     *)
(***************************************************************************)
EXTENDS Integers, Sequences

Aged(at, now, window) == now - at >= window

(* What is left when times are popped from the front while they are old. *)
PopOld(times, now, window) ==
    LET first == CHOOSE n \in 1 .. Len(times) + 1 :
                     /\ \A i \in 1 .. n - 1 : Aged(times[i], now, window)
                     /\ n <= Len(times) => ~Aged(times[n], now, window)
    IN SubSeq(times, first, Len(times))

=============================================================================
