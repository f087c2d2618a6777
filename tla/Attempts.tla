------------------------------ MODULE Attempts ------------------------------
(***************************************************************************)
(* The attempts an address may make (server/src/rendezvous.rs,             *)
(* Registry::attempt): a window of times for each address, kept only for   *)
(* addresses that have been there lately; and the requests it guards, the  *)
(* introductions, enrollments and listings of handle.                      *)
(***************************************************************************)
EXTENDS Window, FiniteSets, SequencesExt

CONSTANTS
    Addresses,   \* addresses requests come from
    TryLimit,    \* ATTEMPTS
    TryWindow,   \* ATTEMPT_WINDOW, in ticks
    TimeBound,   \* bound: ticks of time
    TryBound     \* bound: requests from one address

VARIABLES
    tries,    \* Registry::attempts: the table; an address not in it has none
    time,     \* the clock
    allowed,  \* times each address was let through, all of them
    tried     \* how often it asked

attemptVars == <<tries, time, allowed, tried>>

ASSUME AttemptsAssumption ==
    TryLimit \in Nat /\ TryWindow \in Nat \ {0} /\ TimeBound \in Nat /\ TryBound \in Nat

Old(at) == Aged(at, time, TryWindow)
LatelyBy(times) == PopOld(times, time, TryWindow)

(* The entries kept: of addresses whose last time is within the window. *)
Retained == [ip \in Addresses |->
    IF tries[ip] # <<>> /\ ~Old(Last(tries[ip])) THEN tries[ip] ELSE <<>>]

(* attempt: prune, look, and count only what is let through.  The clock is *)
(* read just before the lock is taken; a tick is longer than that wait.    *)
Attempt(ip) ==
    LET times == LatelyBy(Retained[ip])
        may == Len(times) < TryLimit
    IN
    /\ tried[ip] < TryBound
    /\ tried' = [tried EXCEPT ![ip] = @ + 1]
    /\ tries' = [Retained EXCEPT ![ip] = IF may THEN Append(times, time) ELSE times]
    /\ allowed' = [allowed EXCEPT ![ip] = IF may THEN Append(@, time) ELSE @]
    /\ UNCHANGED time

AttemptsTick ==
    /\ time < TimeBound
    /\ time' = time + 1
    /\ UNCHANGED <<tries, allowed, tried>>

AttemptsInit ==
    /\ tries = [ip \in Addresses |-> <<>>] /\ time = 0
    /\ allowed = [ip \in Addresses |-> <<>>] /\ tried = [ip \in Addresses |-> 0]

AttemptsNext == AttemptsTick \/ \E ip \in Addresses : Attempt(ip)

AttemptsSpec == AttemptsInit /\ [][AttemptsNext]_attemptVars

---------------------------------------------------------------------------
(* The table holds times that have been. *)
AttemptsTypeOK ==
    /\ tries \in [Addresses -> Seq(0..TimeBound)] /\ time \in 0..TimeBound
    /\ \A ip \in Addresses : \A i \in DOMAIN tries[ip] : tries[ip][i] <= time

(* In no stretch of time as long as the window is an address let through   *)
(* more than ATTEMPTS times, wherever the stretch begins.                  *)
LetThrough(ip, from, to) == {i \in DOMAIN allowed[ip] : allowed[ip][i] \in from .. to - 1}
WindowHolds ==
    \A ip \in Addresses, from \in 0..TimeBound :
        Cardinality(LetThrough(ip, from, from + TryWindow)) <= TryLimit

(* An address that keeps asking is not kept out by its refused attempts:   *)
(* it is refused only while the window really holds ATTEMPTS it was        *)
(* allowed.                                                                *)
RefusedOnlyWhenFull ==
    [][\A ip \in Addresses :
         tried'[ip] > tried[ip] /\ allowed'[ip] = allowed[ip] =>
             Cardinality({i \in DOMAIN allowed[ip] : ~Old(allowed[ip][i])}) = TryLimit
      ]_attemptVars

(* The table cannot grow without bound: after any attempt, every address   *)
(* in it has been let through within the window.                           *)
TableForgets ==
    [][\A ip \in Addresses : tried'[ip] > tried[ip] =>
         \A other \in Addresses : tries'[other] # <<>> =>
             time - Last(tries'[other]) < TryWindow]_attemptVars
====
