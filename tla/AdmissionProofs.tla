--------------------------- MODULE AdmissionProofs --------------------------
(***************************************************************************)
(* Proofs about the agent's admission, for any connections, configurations, *)
(* grants and limits.                                                       *)
(***************************************************************************)
EXTENDS Updates, SequenceTheorems, FiniteSetTheorems, TLAPS

\* The types of what the connections' tasks keep.
ConnTypeOK ==
    /\ config \in Configs /\ now \in Nat
    /\ phase \in [Conns -> Phases] /\ slot \in Conns \cup {None}
    /\ exchange \in [Conns -> [material : Nat, guess : Nat]]
    /\ granted \in [Conns -> Grants \cup {None}] /\ proved \subseteq Conns

\* The types of the two gates.
GateTypeOK ==
    /\ gate \in [current : Nat \ {0}, failures : Nat, lockedUntil : Nat]
    /\ config.gate # "Access" => gate.failures < MaxFailures
    /\ tries \in Seq(Nat) /\ Len(tries) = gate.current

\* The types of the grants' memory.
GrantTypeOK ==
    /\ seen \subseteq [nonce : Nonces, until : Nat]
    /\ taken \in [Nonces -> SUBSET Conns]

\* The types of the Host and its window.
HostTypeOK ==
    /\ host \in [request : Number \cup {None}, session : Number \cup {None},
                 next : Nat]
    /\ answer \in [Conns -> BOOLEAN \cup {None}]
    /\ painted \in Conns \cup {None}
    /\ consent \subseteq Conns

\* A password exchange is of a password drawn by now; of an earlier one only if
\* nobody has guessed at the one in use, and an access password stays the same.
Exchanging ==
    /\ config.gate # "OneTime" => gate.current = 1
    /\ \A c \in Conns : phase[c] = "proving" =>
          /\ config.gate # "None"
          /\ exchange[c].material \in 1 .. gate.current
          /\ exchange[c].material = gate.current \/ tries[gate.current] = 0

\* Only the connection that has the slot is served (accept_viewers).
OneHolder == \A c \in Conns : phase[c] \in Serving => slot = c

\* GuessesBounded, and what keeps it so: the password in use has met at most the
\* failures its gate counts, and the one an exchange runs with can take one more.
GuessesCounted ==
    config.gate = "OneTime" =>
        /\ \A p \in 1 .. gate.current : tries[p] <= MaxFailures
        /\ tries[gate.current] <= gate.failures
        /\ \A c \in Conns : phase[c] = "proving" => tries[exchange[c].material] < MaxFailures

\* GrantOnce, and what keeps it so: the nonce of a genuine grant that was taken is
\* remembered until the grant is no longer good.
NoncesKept ==
    /\ \A n \in Nonces : taken[n] = {} \/ \E c \in Conns : taken[n] = {c}
    /\ \A g \in Grants : g.genuine /\ taken[g.nonce] # {} =>
          \/ now > g.expires + ClockSkew
          \/ [nonce |-> g.nonce, until |-> g.expires + ClockSkew] \in seen

ByGrant(c) == granted[c] # None /\ c \in taken[granted[c].nonce]

\* On the way to AdmittedAsRequired: who is asked for a password still gave a
\* grant where both are required.
Vouched ==
    \A c \in Conns :
        /\ phase[c] = "granted" => Required = "Both" /\ ByGrant(c)
        /\ phase[c] = "proving" => PasswordIsEnough \/ (Required = "Both" /\ ByGrant(c))

\* OldSessionsSurvive, and what keeps it so: Host numbers only go up.
Marked ==
    /\ updater \in {"waiting", "fetching", "writing", "installing"}
    /\ mark \in Nat /\ mark <= host.next
    /\ updater \in {"writing", "installing"} /\ host.session # None
       => host.session.number > mark

\* TypeOK is these four.
LEMMA TypeParts ==
    TypeOK <=> ConnTypeOK /\ GateTypeOK /\ GrantTypeOK /\ HostTypeOK
PROOF BY DEF TypeOK, ConnTypeOK, GateTypeOK, GrantTypeOK, HostTypeOK

-----------------------------------------------------------------------------
(* Types *)

\* The doublings of a lockout are numbers: there are at most 16 of them.
LEMMA Doublings ==
    ASSUME NEW n \in 0 .. 16
    PROVE  2 ^ n \in Nat
PROOF
<1>1. \/ n = 0 \/ n = 1 \/ n = 2 \/ n = 3 \/ n = 4 \/ n = 5 \/ n = 6 \/ n = 7 \/ n = 8
      \/ n = 9 \/ n = 10 \/ n = 11 \/ n = 12 \/ n = 13 \/ n = 14 \/ n = 15 \/ n = 16
  OBVIOUS
<1>2. /\ 2 ^ 0 \in Nat /\ 2 ^ 1 \in Nat /\ 2 ^ 2 \in Nat /\ 2 ^ 3 \in Nat
      /\ 2 ^ 4 \in Nat /\ 2 ^ 5 \in Nat /\ 2 ^ 6 \in Nat /\ 2 ^ 7 \in Nat
      /\ 2 ^ 8 \in Nat /\ 2 ^ 9 \in Nat /\ 2 ^ 10 \in Nat /\ 2 ^ 11 \in Nat
      /\ 2 ^ 12 \in Nat /\ 2 ^ 13 \in Nat /\ 2 ^ 14 \in Nat /\ 2 ^ 15 \in Nat
      /\ 2 ^ 16 \in Nat
  OBVIOUS
<1> QED
  BY <1>1, <1>2

\* A lockout ends at some time (AccessPassword::lockout).
LEMMA LockoutEnds ==
    ASSUME now \in Nat, NEW n \in Nat
    PROVE  Lockout(n) \in Nat
PROOF
<1> DEFINE over == IF n - FreeFailures < 16 THEN n - FreeFailures ELSE 16
           doubled == FirstLockout * 2 ^ over
<1>1. CASE n < FreeFailures
  BY <1>1 DEF Lockout
<1>2. CASE ~(n < FreeFailures)
  <2>1. over \in 0 .. 16
    BY <1>2, GateAssumption
  <2> HIDE DEF over
  <2>2. 2 ^ over \in Nat
    BY <2>1, Doublings
  <2>3. doubled \in Nat
    BY <2>2, GateAssumption
  <2>4. Lockout(n) = now + (IF doubled < MaxLockout THEN doubled ELSE MaxLockout)
    BY <1>2 DEF Lockout, over
  <2> HIDE DEF doubled
  <2> QED
    BY <2>3, <2>4, GateAssumption
<1> QED
  BY <1>1, <1>2

\* How a connection may move.
LEMMA Moves ==
    ASSUME phase \in [Conns -> Phases], NEW c \in Conns, NEW from, NEW to \in Phases,
           Move(c, from, to)
    PROVE  /\ phase' \in [Conns -> Phases]
           /\ phase[c] \in from /\ phase'[c] = to
           /\ \A d \in Conns \ {c} : phase'[d] = phase[d]
PROOF BY DEF Move

\* Every step keeps the types of what the tasks keep.
LEMMA ConnTypes ==
    ASSUME TypeOK, [Next]_vars
    PROVE  ConnTypeOK'
PROOF
<1> USE TypeParts DEF ConnTypeOK, Phases, Move
<1>1. CASE UNCHANGED vars
  BY <1>1 DEF vars, connVars
<1>2. ASSUME NEW c \in Conns, TakeSlot(c) \/ TurnAway(c) \/ ReleaseSlot(c)
      PROVE  ConnTypeOK'
  BY <1>2 DEF TakeSlot, TurnAway, ReleaseSlot
<1>3. ASSUME NEW c \in Conns, Hello(c) \/ Fail(c) \/ StartUnseen(c) \/ EndSession(c)
      PROVE  ConnTypeOK'
  BY <1>3 DEF Hello, Fail, StartUnseen, EndSession
<1>4. ASSUME NEW c \in Conns, NEW g \in Grants, Present(c, g) \/ PresentRefused(c, g)
      PROVE  ConnTypeOK'
  BY <1>4 DEF Present, PresentRefused
<1>5. ASSUME NEW c \in Conns, NEW guess \in Guesses, AuthStart(c, guess)
      PROVE  ConnTypeOK'
  <2>1. guess \in Nat /\ gate.current \in Nat
    BY DEF Guesses, GateTypeOK
  <2>2. PICK m \in Material :
            exchange' = [exchange EXCEPT ![c] = [material |-> m, guess |-> guess]]
    BY <1>5 DEF AuthStart
  <2>3. m \in Nat
    BY <2>1 DEF Material
  <2> QED
    BY <1>5, <2>1, <2>2, <2>3 DEF AuthStart
<1>6. ASSUME NEW c \in Conns, AuthStartRefused(c) \/ ProveRight(c) \/ ProveWrong(c)
      PROVE  ConnTypeOK'
  BY <1>6 DEF AuthStartRefused, ProveRight, ProveWrong
<1>7. ASSUME NEW c \in Conns, Approve(c) \/ SessionOver(c)
      PROVE  ConnTypeOK'
  BY <1>7 DEF Approve, Ask, Decide, ClearRequest, SessionStarted, SessionOver
<1>8. ASSUME NEW allow \in BOOLEAN, Click(allow)
      PROVE  ConnTypeOK'
  BY <1>8 DEF Click, connVars
<1>9. CASE Paint \/ Renew \/ Tick
  BY <1>9 DEF Paint, Renew, Tick, connVars
<1> QED
  BY <1>1, <1>2, <1>3, <1>4, <1>5, <1>6, <1>7, <1>8, <1>9 DEF Next, Serve

\* Every step keeps the types of the gates: what is rejected is one failure more,
\* up to the limit of a one-time password.
LEMMA GateTypes ==
    ASSUME TypeOK, [Next]_vars, Exchanging
    PROVE  GateTypeOK'
PROOF
<1> USE TypeParts, GateAssumption DEF GateTypeOK
<1>0. DOMAIN tries = 1 .. gate.current
  OBVIOUS
<1>1. CASE UNCHANGED <<config, gateVars>>
  BY <1>1 DEF gateVars
<1>2. ASSUME NEW c \in Conns, ProveRight(c)
      PROVE  GateTypeOK'
  <2> DEFINE m == exchange[c].material
  <2>0. phase[c] = "proving"
    BY <1>2 DEF ProveRight, Move
  <2>1. m \in DOMAIN tries
    BY <1>0, <2>0 DEF Exchanging
  <2>2. gate' = [gate EXCEPT !.failures = 0, !.lockedUntil = 0] /\ config' = config
    BY <1>2 DEF ProveRight, Accepted
  <2>3. tries' = [tries EXCEPT ![m] = 0]
    BY <1>2, <2>2 DEF ProveRight, Recorded
  <2> HIDE DEF m
  <2>4. tries' \in Seq(Nat) /\ Len(tries') = Len(tries)
    BY <1>0, <2>1, <2>3, ExceptSeq
  <2>5. gate' = [current |-> gate.current, failures |-> 0, lockedUntil |-> 0]
    BY <2>2
  <2> QED
    BY <2>2, <2>4, <2>5
<1>3. ASSUME NEW c \in Conns, ProveWrong(c)
      PROVE  GateTypeOK'
  <2> DEFINE m == exchange[c].material
  <2>0. phase[c] = "proving" /\ now \in Nat
    BY <1>3 DEF ProveWrong, Move, ConnTypeOK
  <2>1. m \in DOMAIN tries
    BY <1>0, <2>0 DEF Exchanging
  <2>2. Lockout(gate.failures + 1) \in Nat
    <3>1. gate.failures + 1 \in Nat
      OBVIOUS
    <3> QED
      BY <2>0, <3>1, LockoutEnds
  <2>3. Rejected /\ config' = config /\ tries' = Recorded(tries[m] + 1, m)
    BY <1>3 DEF ProveWrong
  <2>4. tries[m] + 1 \in Nat
    BY <2>1, SMTT(30)
  <2> HIDE DEF m
  <2>7. /\ [tries EXCEPT ![m] = tries[m] + 1] \in Seq(Nat)
         /\ Len([tries EXCEPT ![m] = tries[m] + 1]) = Len(tries)
    BY <1>0, <2>1, <2>4, ExceptSeq
  <2>5. CASE gate'.current > gate.current
    <3>1. gate' = Draw /\ config.gate # "Access"
      BY <2>3, <2>5 DEF Rejected
    <3>2. tries' = Append([tries EXCEPT ![m] = tries[m] + 1], 0)
      BY <2>3, <2>5 DEF Recorded
    <3>4. tries' \in Seq(Nat) /\ Len(tries') = Len(tries) + 1
      BY <2>7, <3>2
    <3> QED
      BY <2>3, <3>1, <3>4 DEF Draw
  <2>6. CASE ~(gate'.current > gate.current)
    <3>1. gate' # Draw
      BY <2>6 DEF Draw
    <3>2. tries' = [tries EXCEPT ![m] = tries[m] + 1]
      BY <2>3, <2>6 DEF Recorded
    <3>3. tries' \in Seq(Nat) /\ Len(tries') = Len(tries)
      BY <2>7, <3>2
    <3>4. CASE config.gate = "Access"
      <4>1. gate' = [current |-> gate.current, failures |-> gate.failures + 1,
                     lockedUntil |-> Lockout(gate.failures + 1)]
        BY <2>3, <3>4 DEF Rejected
      <4> QED
        BY <2>2, <2>3, <3>3, <3>4, <4>1
    <3>5. CASE config.gate # "Access"
      <4>1. /\ gate.failures + 1 < MaxFailures
            /\ gate' = [current |-> gate.current, failures |-> gate.failures + 1,
                        lockedUntil |-> gate.lockedUntil]
        BY <2>3, <3>1, <3>5 DEF Rejected
      <4> QED
        BY <2>3, <3>3, <4>1
    <3> QED
      BY <3>4, <3>5
  <2> QED
    BY <2>5, <2>6
<1>4. CASE Renew
  BY <1>4 DEF Renew, Draw
<1> QED
  BY <1>1, <1>2, <1>3, <1>4 DEF Next, Serve, Approve, vars, TakeSlot, TurnAway,
     ReleaseSlot, Hello, Fail, Present, PresentRefused, AuthStart, AuthStartRefused,
     StartUnseen, Ask, Decide, ClearRequest, SessionStarted, EndSession, SessionOver,
     Paint, Click, Tick

\* Every step keeps the types of the grants' memory.
LEMMA GrantTypes ==
    ASSUME TypeOK, [Next]_vars
    PROVE  GrantTypeOK'
PROOF
<1> USE TypeParts DEF GrantTypeOK
<1>1. CASE UNCHANGED grantVars
  BY <1>1 DEF grantVars
<1>2. ASSUME NEW c \in Conns, NEW g \in Grants, Present(c, g)
      PROVE  GrantTypeOK'
  <2>1. g.nonce \in Nonces /\ g.expires + ClockSkew \in Nat
    BY GrantsAssumption, GateAssumption DEF Nonces, Grant
  <2> QED
    BY <1>2, <2>1 DEF Present, Retained
<1>3. ASSUME NEW c \in Conns, NEW g \in Grants, PresentRefused(c, g)
      PROVE  GrantTypeOK'
  BY <1>3 DEF PresentRefused, Retained
<1> QED
  BY <1>1, <1>2, <1>3 DEF Next, Serve, Approve, vars, TakeSlot, TurnAway,
     ReleaseSlot, Hello, Fail, AuthStart, AuthStartRefused, ProveRight, ProveWrong,
     StartUnseen, Ask, Decide, ClearRequest, SessionStarted, EndSession, SessionOver,
     Paint, Click, Renew, Tick

\* Every step keeps the types of the Host and its window.
LEMMA HostTypes ==
    ASSUME TypeOK, [Next]_vars
    PROVE  HostTypeOK'
PROOF
<1> USE TypeParts, NoneAssumption DEF HostTypeOK
<1>1. CASE UNCHANGED hostVars
  BY <1>1 DEF hostVars
<1>2. ASSUME NEW c \in Conns, Ask(c) \/ SessionStarted(c)
      PROVE  HostTypeOK'
  <2>1. Numbered(c) \in Number
    BY DEF Numbered, Number
  <2>2. host' \in [request : Number \cup {None}, session : Number \cup {None}, next : Nat]
    <3>1. CASE Ask(c)
      <4>1. host' = [request |-> Numbered(c), session |-> host.session,
                     next |-> host.next + 1]
        BY <3>1 DEF Ask
      <4> QED
        BY <2>1, <4>1
    <3>2. CASE SessionStarted(c)
      <4>1. host' = [request |-> host.request, session |-> Numbered(c),
                     next |-> host.next + 1]
        BY <3>2 DEF SessionStarted
      <4> QED
        BY <2>1, <4>1
    <3> QED
      BY <1>2, <3>1, <3>2
  <2>3. answer' \in [Conns -> BOOLEAN \cup {None}]
    BY <1>2 DEF Ask, SessionStarted
  <2> QED
    BY <1>2, <2>2, <2>3 DEF Ask, SessionStarted
<1>3. ASSUME NEW c \in Conns, Decide(c) \/ ClearRequest(c) \/ SessionOver(c)
      PROVE  HostTypeOK'
  BY <1>3 DEF Decide, ClearRequest, SessionOver
<1>4. Waiting \in Conns \cup {None}
  BY DEF Waiting, Number
<1>5. ASSUME NEW allow \in BOOLEAN, Click(allow)
      PROVE  HostTypeOK'
  BY <1>4, <1>5 DEF Click
<1>6. CASE Paint
  BY <1>4, <1>6 DEF Paint
<1> QED
  BY <1>1, <1>2, <1>3, <1>5, <1>6 DEF Next, Serve, Approve, vars, TakeSlot,
     TurnAway, ReleaseSlot, Hello, Fail, Present, PresentRefused, AuthStart,
     AuthStartRefused, ProveRight, ProveWrong, StartUnseen, EndSession, Renew, Tick

-----------------------------------------------------------------------------
(* The slot *)

\* A step keeps the slot with the one connection that is served.
LEMMA HolderStep ==
    ASSUME TypeOK, OneHolder, [Next]_vars
    PROVE  OneHolder'
PROOF
<1> USE TypeParts DEF ConnTypeOK, OneHolder, Serving, Phases, Move
<1>1. CASE UNCHANGED vars
  BY <1>1 DEF vars, connVars
<1>2. ASSUME NEW c \in Conns, TakeSlot(c) \/ TurnAway(c) \/ ReleaseSlot(c)
      PROVE  OneHolder'
  BY <1>2, NoneAssumption DEF TakeSlot, TurnAway, ReleaseSlot
<1>3. ASSUME NEW c \in Conns, Serve(c) \/ EndSession(c)
      PROVE  OneHolder'
  <2>1. slot' = slot /\ slot = c /\ \A d \in Conns \ {c} : phase'[d] = phase[d]
    BY <1>3 DEF Serve, Approve, Hello, Fail, Present, PresentRefused, AuthStart,
       AuthStartRefused, ProveRight, ProveWrong, StartUnseen, Ask, Decide,
       ClearRequest, SessionStarted, EndSession, SessionOver
  <2> QED
    BY <2>1
<1>4. CASE (\E allow \in BOOLEAN : Click(allow)) \/ Paint \/ Renew \/ Tick
  BY <1>4 DEF Click, Paint, Renew, Tick, connVars
<1> QED
  BY <1>1, <1>2, <1>3, <1>4 DEF Next

-----------------------------------------------------------------------------
(* The password *)

\* Nobody else runs an exchange beside one.
LEMMA OneExchange ==
    ASSUME TypeOK, OneHolder, NEW c \in Conns, phase[c] = "proving"
    PROVE  \A d \in Conns \ {c} : phase[d] # "proving"
PROOF BY DEF OneHolder, Serving, Phases

\* A step other than those of the exchange, which begins none and leaves the
\* gates as they are, keeps what is known of exchanges and lockouts.
LEMMA NoExchangeStep ==
    ASSUME TypeOK, UNCHANGED <<config, gateVars>>, now' \in {now, now + 1},
           \A c \in Conns : phase'[c] = "proving" =>
               phase[c] = "proving" /\ exchange'[c] = exchange[c]
    PROVE  /\ Exchanging => Exchanging'
           /\ GuessesCounted => GuessesCounted'
           /\ LockedMeansNoExchange => LockedMeansNoExchange'
PROOF
<1>1. Exchanging => Exchanging'
  BY DEF Exchanging, gateVars
<1>2. GuessesCounted => GuessesCounted'
  BY DEF GuessesCounted, gateVars
<1>3. LockedMeansNoExchange => LockedMeansNoExchange'
  BY TypeParts DEF LockedMeansNoExchange, gateVars, ConnTypeOK, GateTypeOK
<1> QED
  BY <1>1, <1>2, <1>3

\* Every other step is one of those.
LEMMA ExchangeCases ==
    ASSUME TypeOK, [Next]_vars
    PROVE  \/ \E c \in Conns : ProveRight(c) \/ ProveWrong(c)
           \/ \E c \in Conns, guess \in Guesses : AuthStart(c, guess)
           \/ Renew
           \/ /\ UNCHANGED <<config, gateVars>>
              /\ now' \in {now, now + 1}
              /\ \A c \in Conns : phase'[c] = "proving" =>
                    phase[c] = "proving" /\ exchange'[c] = exchange[c]
PROOF
<1> USE TypeParts DEF ConnTypeOK, Phases, Move
<1> DEFINE Idle == /\ UNCHANGED <<config, gateVars>>
                   /\ now' \in {now, now + 1}
                   /\ \A c \in Conns : phase'[c] = "proving" =>
                          phase[c] = "proving" /\ exchange'[c] = exchange[c]
<1>1. CASE UNCHANGED vars
  BY <1>1 DEF vars, connVars
<1>2. ASSUME NEW c \in Conns, TakeSlot(c) \/ TurnAway(c) \/ ReleaseSlot(c)
      PROVE  Idle
  BY <1>2 DEF TakeSlot, TurnAway, ReleaseSlot
<1>3. ASSUME NEW c \in Conns, Hello(c) \/ Fail(c) \/ StartUnseen(c) \/ EndSession(c)
      PROVE  Idle
  BY <1>3 DEF Hello, Fail, StartUnseen, EndSession
<1>4. ASSUME NEW c \in Conns, NEW g \in Grants, Present(c, g) \/ PresentRefused(c, g)
      PROVE  Idle
  BY <1>4 DEF Present, PresentRefused
<1>5. ASSUME NEW c \in Conns, AuthStartRefused(c) \/ Approve(c) \/ SessionOver(c)
      PROVE  Idle
  BY <1>5 DEF AuthStartRefused, Approve, Ask, Decide, ClearRequest, SessionStarted,
     SessionOver
<1>6. CASE (\E allow \in BOOLEAN : Click(allow)) \/ Paint \/ Tick
  BY <1>6 DEF Click, Paint, Tick, connVars
<1> QED
  BY <1>1, <1>2, <1>3, <1>4, <1>5, <1>6 DEF Next, Serve

\* What a proof does to the counts: its own password's is set, and a password
\* drawn because of it begins with none.
LEMMA Counted ==
    ASSUME TypeOK, Exchanging, NEW c \in Conns, phase[c] = "proving", NEW n \in Nat,
           tries' = Recorded(n, exchange[c].material),
           gate' \in [current : Nat \ {0}, failures : Nat, lockedUntil : Nat],
           gate'.current \in {gate.current, gate.current + 1}
    PROVE  /\ exchange[c].material \in 1 .. gate.current
           /\ \A p \in 1 .. gate.current :
                 tries'[p] = IF p = exchange[c].material THEN n ELSE tries[p]
           /\ gate'.current > gate.current => tries'[gate'.current] = 0
PROOF
<1> DEFINE m == exchange[c].material
           counted == [tries EXCEPT ![m] = n]
<1>1. m \in 1 .. gate.current
  BY DEF Exchanging
<1>2. tries \in Seq(Nat) /\ Len(tries) = gate.current /\ gate.current \in Nat
  BY TypeParts DEF GateTypeOK
<1>3. tries' = IF gate'.current > gate.current THEN Append(counted, 0) ELSE counted
  BY DEF Recorded
<1> HIDE DEF m
<1>4. /\ counted \in Seq(Nat) /\ Len(counted) = Len(tries)
      /\ \A p \in 1 .. gate.current : counted[p] = IF p = m THEN n ELSE tries[p]
  BY <1>1, <1>2, ExceptSeq
<1> HIDE DEF counted
<1>5. /\ \A p \in 1 .. gate.current : Append(counted, 0)[p] = counted[p]
      /\ Append(counted, 0)[gate.current + 1] = 0
  BY <1>2, <1>4
<1>6. CASE gate'.current > gate.current
  <2>1. tries' = Append(counted, 0)
    BY <1>3, <1>6
  <2>2. \A p \in 1 .. gate.current : tries'[p] = IF p = m THEN n ELSE tries[p]
    BY <1>4, <1>5, <2>1, Zenon
  <2>3. gate'.current = gate.current + 1
    BY <1>2, <1>6
  <2>4. tries'[gate'.current] = 0
    BY <1>5, <2>1, <2>3, Zenon
  <2> QED
    BY <1>1, <2>2, <2>4, Zenon DEF m
<1>7. CASE ~(gate'.current > gate.current)
  <2>1. tries' = counted
    BY <1>3, <1>7
  <2> QED
    BY <1>1, <1>4, <1>7, <2>1, Zenon DEF m
<1> QED
  BY <1>6, <1>7

\* What a rejected proof does to the gate.
LEMMA RejectedGate ==
    ASSUME TypeOK, Rejected
    PROVE  /\ gate' \in [current : Nat \ {0}, failures : Nat, lockedUntil : Nat]
           /\ config.gate = "Access" =>
                 gate'.current = gate.current /\ gate'.failures = gate.failures + 1
           /\ config.gate # "Access" =>
                 \/ /\ gate'.current = gate.current
                    /\ gate'.failures = gate.failures + 1
                 \/ gate'.current = gate.current + 1 /\ gate'.failures = 0
PROOF
<1> USE TypeParts DEF GateTypeOK
<1>1. gate.failures + 1 \in Nat /\ now \in Nat
  BY DEF ConnTypeOK
<1>2. Lockout(gate.failures + 1) \in Nat
  BY <1>1, LockoutEnds
<1>3. CASE config.gate = "Access"
  <2>1. gate' = [current |-> gate.current, failures |-> gate.failures + 1,
                 lockedUntil |-> Lockout(gate.failures + 1)]
    BY <1>3 DEF Rejected
  <2> QED
    BY <1>1, <1>2, <1>3, <2>1
<1>4. CASE config.gate # "Access" /\ gate.failures + 1 < MaxFailures
  <2>1. gate' = [current |-> gate.current, failures |-> gate.failures + 1,
                 lockedUntil |-> gate.lockedUntil]
    BY <1>4 DEF Rejected
  <2> QED
    BY <1>1, <1>4, <2>1
<1>5. CASE config.gate # "Access" /\ ~(gate.failures + 1 < MaxFailures)
  <2>1. gate' = Draw
    BY <1>5 DEF Rejected
  <2> QED
    BY <1>5, <2>1 DEF Draw
<1> QED
  BY <1>3, <1>4, <1>5

\* A proof, right or wrong, ends the exchange it is of, and no other runs.
LEMMA ProofEnds ==
    ASSUME TypeOK, OneHolder, NEW c \in Conns, ProveRight(c) \/ ProveWrong(c)
    PROVE  phase[c] = "proving" /\ \A d \in Conns : phase'[d] # "proving"
PROOF
<1>1. phase[c] = "proving" /\ phase \in [Conns -> Phases]
  BY TypeParts DEF ProveRight, ProveWrong, Move, ConnTypeOK
<1>2. \A d \in Conns \ {c} : phase[d] # "proving"
  BY <1>1, OneExchange
<1>3. phase'[c] # "proving" /\ \A d \in Conns \ {c} : phase'[d] = phase[d]
  BY <1>1 DEF ProveRight, ProveWrong, Move
<1> QED
  BY <1>1, <1>2, <1>3

\* A step keeps exchanges to passwords drawn by now, and the counts.
LEMMA GuessStep ==
    ASSUME TypeOK, OneHolder, Exchanging, GuessesCounted, [Next]_vars
    PROVE  Exchanging' /\ GuessesCounted'
PROOF
<1> DEFINE Goal == Exchanging' /\ GuessesCounted'
<1>0. /\ gate \in [current : Nat \ {0}, failures : Nat, lockedUntil : Nat]
      /\ tries \in Seq(Nat) /\ Len(tries) = gate.current
      /\ config.gate # "Access" => gate.failures < MaxFailures
      /\ exchange \in [Conns -> [material : Nat, guess : Nat]]
      /\ phase \in [Conns -> Phases] /\ MaxFailures \in Nat
  BY TypeParts, GateAssumption DEF GateTypeOK, ConnTypeOK
<1>5. /\ gate.current \in Nat \ {0} /\ gate.failures \in Nat /\ MaxFailures \in Nat
      /\ \A p \in 1 .. gate.current : tries[p] \in Nat
      /\ config.gate \in {"None", "OneTime", "Access"}
  BY <1>0, TypeParts, ConfigsAssumption DEF ConnTypeOK, Config
<1>1. ASSUME NEW c \in Conns, ProveRight(c)
      PROVE  Goal
  <2>1. phase[c] = "proving" /\ \A d \in Conns : phase'[d] # "proving"
    BY <1>1, ProofEnds
  <2>2. /\ gate' = [current |-> gate.current, failures |-> 0, lockedUntil |-> 0]
        /\ config' = config
    BY <1>0, <1>1 DEF ProveRight, Accepted
  <2>3. tries' = Recorded(0, exchange[c].material)
    BY <1>1 DEF ProveRight
  <2>4. /\ exchange[c].material \in 1 .. gate.current
        /\ \A p \in 1 .. gate.current :
              tries'[p] = IF p = exchange[c].material THEN 0 ELSE tries[p]
    BY <1>0, <2>1, <2>2, <2>3, Counted
  <2>5. exchange[c].material = gate.current \/ tries[gate.current] = 0
    BY <2>1 DEF Exchanging
  <2>6. gate'.current = gate.current /\ gate'.failures = 0
    BY <2>2
  <2>7. Exchanging'
    BY <2>1, <2>2, <2>6 DEF Exchanging
  <2>8. GuessesCounted'
    BY <1>5, <2>1, <2>2, <2>4, <2>5, <2>6 DEF GuessesCounted
  <2> QED
    BY <2>7, <2>8
<1>2. ASSUME NEW c \in Conns, ProveWrong(c)
      PROVE  Goal
  <2> DEFINE m == exchange[c].material
  <2>1. phase[c] = "proving" /\ \A d \in Conns : phase'[d] # "proving"
    BY <1>2, ProofEnds
  <2>2. Rejected /\ config' = config /\ tries' = Recorded(tries[m] + 1, m)
    BY <1>2 DEF ProveWrong
  <2>3. m \in 1 .. gate.current /\ (m = gate.current \/ tries[gate.current] = 0)
    BY <2>1 DEF Exchanging
  <2>4. tries[m] + 1 \in Nat
    BY <1>0, <2>3
  <2>5. /\ gate' \in [current : Nat \ {0}, failures : Nat, lockedUntil : Nat]
        /\ config.gate = "Access" =>
              gate'.current = gate.current /\ gate'.failures = gate.failures + 1
        /\ config.gate # "Access" =>
              \/ gate'.current = gate.current /\ gate'.failures = gate.failures + 1
              \/ gate'.current = gate.current + 1 /\ gate'.failures = 0
    BY <2>2, RejectedGate
  <2>6. /\ \A p \in 1 .. gate.current :
              tries'[p] = IF p = m THEN tries[m] + 1 ELSE tries[p]
        /\ gate'.current > gate.current => tries'[gate'.current] = 0
    BY <2>1, <2>2, <2>4, <2>5, Counted
  <2>7. config.gate # "None"
    BY <2>1 DEF Exchanging
  <2>8. Exchanging'
    BY <1>5, <2>1, <2>2, <2>5, <2>7 DEF Exchanging
  <2>9. ASSUME config.gate = "OneTime"
        PROVE  /\ tries[m] < MaxFailures
               /\ \A p \in 1 .. gate.current : tries[p] <= MaxFailures
               /\ tries[gate.current] <= gate.failures
    BY <2>1, <2>9 DEF GuessesCounted
  <2>10. GuessesCounted'
    <3> SUFFICES ASSUME config.gate = "OneTime"
                 PROVE  /\ \A p \in 1 .. gate'.current : tries'[p] <= MaxFailures
                        /\ tries'[gate'.current] <= gate'.failures
      BY <2>1, <2>2 DEF GuessesCounted
    <3>1. \A p \in 1 .. gate.current : tries'[p] \in Nat /\ tries'[p] <= MaxFailures
      BY <1>5, <2>4, <2>6, <2>9
    <3>2. CASE gate'.current = gate.current /\ gate'.failures = gate.failures + 1
      BY <1>5, <2>3, <2>6, <2>9, <3>1, <3>2
    <3>3. CASE gate'.current = gate.current + 1 /\ gate'.failures = 0
      BY <1>5, <2>6, <3>1, <3>3
    <3> QED
      BY <2>5, <3>2, <3>3
  <2> QED
    BY <2>8, <2>10
<1>3. ASSUME NEW c \in Conns, NEW guess \in Guesses, AuthStart(c, guess)
      PROVE  Goal
  <2>1. config.gate # "None" /\ UNCHANGED <<config, gateVars>>
    BY <1>3 DEF AuthStart, Material
  <2>2. exchange' = [exchange EXCEPT ![c] = [material |-> gate.current, guess |-> guess]]
    BY <1>3 DEF AuthStart, Material
  <2>3. phase' = [phase EXCEPT ![c] = "proving"]
    BY <1>3 DEF AuthStart, Move
  <2>4. \A d \in Conns \ {c} : phase'[d] = phase[d] /\ exchange'[d] = exchange[d]
    BY <1>0, <2>2, <2>3
  <2>5. exchange'[c].material = gate.current
    BY <1>0, <2>2
  <2>6. Exchanging'
    BY <1>5, <2>1, <2>4, <2>5 DEF Exchanging, gateVars
  <2>7. config.gate = "OneTime" => tries[gate.current] < MaxFailures
    BY <1>0, <1>5 DEF GuessesCounted
  <2>8. GuessesCounted'
    BY <1>5, <2>1, <2>4, <2>5, <2>7 DEF GuessesCounted, gateVars
  <2> QED
    BY <2>6, <2>8
<1>4. CASE Renew
  <2>1. UNCHANGED <<config, phase, exchange>> /\ config.gate = "OneTime"
    BY <1>4 DEF Renew, connVars
  <2>2. gate'.current = gate.current + 1 /\ gate'.failures = 0
    BY <1>4 DEF Renew, Draw
  <2>3. /\ tries'[gate.current + 1] = 0
        /\ \A p \in 1 .. gate.current : tries'[p] = tries[p]
    <3>1. tries' = Append(tries, 0) /\ Len(tries) = gate.current /\ tries \in Seq(Nat)
      BY <1>0, <1>4 DEF Renew
    <3>2. /\ Append(tries, 0)[Len(tries) + 1] = 0
          /\ \A p \in 1 .. Len(tries) : Append(tries, 0)[p] = tries[p]
      BY <3>1, AppendProperties
    <3> QED
      BY <3>1, <3>2
  <2>4. \A c \in Conns : phase[c] = "proving" => exchange[c].material \in 1 .. gate.current
    BY DEF Exchanging
  <2>5. Exchanging'
    BY <1>5, <2>1, <2>2, <2>3, <2>4 DEF Exchanging
  <2>6. GuessesCounted'
    BY <1>5, <2>1, <2>2, <2>3, <2>4 DEF GuessesCounted
  <2> QED
    BY <2>5, <2>6
<1> QED
  BY <1>1, <1>2, <1>3, <1>4, ExchangeCases, NoExchangeStep

\* A step keeps exchanges out of a lockout: the one proof that begins it ends the
\* only exchange there was.
LEMMA LockedStep ==
    ASSUME TypeOK, OneHolder, LockedMeansNoExchange, [Next]_vars
    PROVE  LockedMeansNoExchange'
PROOF
<1>1. ASSUME NEW c \in Conns, ProveRight(c) \/ ProveWrong(c)
      PROVE  LockedMeansNoExchange'
  BY <1>1, ProofEnds DEF LockedMeansNoExchange
<1>2. ASSUME NEW c \in Conns, NEW guess \in Guesses, AuthStart(c, guess)
      PROVE  LockedMeansNoExchange'
  BY <1>2 DEF AuthStart, Material, gateVars, LockedMeansNoExchange
<1>3. CASE Renew
  BY <1>3 DEF Renew, LockedMeansNoExchange
<1> QED
  BY <1>1, <1>2, <1>3, ExchangeCases, NoExchangeStep

-----------------------------------------------------------------------------
(* Grants *)

\* The lines of `seen` that stay are those still needed, and a nonce is remembered
\* as long as its grant is good.
LEMMA StaysRetained ==
    ASSUME TypeOK, NEW g \in Grants, now <= g.expires + ClockSkew,
           [nonce |-> g.nonce, until |-> g.expires + ClockSkew] \in seen
    PROVE  /\ [nonce |-> g.nonce, until |-> g.expires + ClockSkew] \in Retained
           /\ Used(g)
PROOF
<1> DEFINE r == [nonce |-> g.nonce, until |-> g.expires + ClockSkew]
<1>1. r.until = g.expires + ClockSkew /\ r.nonce = g.nonce /\ r \in seen
  OBVIOUS
<1>2. g.expires + ClockSkew >= now
  BY GrantsAssumption, GateAssumption, TypeParts DEF Grant, ConnTypeOK
<1> HIDE DEF r
<1>3. r \in Retained
  BY <1>1, <1>2 DEF Retained
<1> QED
  BY <1>1, <1>3 DEF Used, r

\* A step keeps the nonces of the grants taken.
LEMMA NonceStep ==
    ASSUME TypeOK, NoncesKept, [Next]_vars
    PROVE  NoncesKept'
PROOF
<1> DEFINE Line(g) == [nonce |-> g.nonce, until |-> g.expires + ClockSkew]
<1>0. /\ \A g \in Grants : g.nonce \in Nonces /\ g.expires + ClockSkew \in Nat
      /\ taken \in [Nonces -> SUBSET Conns] /\ now \in Nat
  BY GrantsAssumption, GateAssumption, TypeParts
     DEF Grant, Nonces, GrantTypeOK, ConnTypeOK
<1>1. CASE UNCHANGED grantVars /\ now' \in {now, now + 1}
  BY <1>0, <1>1 DEF NoncesKept, grantVars
<1>3. \A g \in Grants : g.genuine /\ taken[g.nonce] # {} =>
          now > g.expires + ClockSkew \/ Line(g) \in Retained
  BY <1>0, StaysRetained DEF NoncesKept
<1>4. ASSUME NEW c \in Conns, NEW g \in Grants, Present(c, g)
      PROVE  NoncesKept'
  <2>1. g.genuine /\ InTime(g) /\ ~Used(g) /\ now' = now
    BY <1>4 DEF Present
  <2>2. taken[g.nonce] = {}
    <3>1. ~(now > g.expires + ClockSkew)
      BY <1>0, <2>1 DEF InTime
    <3>2. Line(g) \in Retained => Used(g)
      BY DEF Used
    <3> QED
      BY <1>3, <2>1, <3>1, <3>2
  <2>3. /\ seen' = Retained \cup {Line(g)}
        /\ taken' = [taken EXCEPT ![g.nonce] = {c}]
    BY <1>4, <2>2 DEF Present
  <2>4. taken'[g.nonce] = {c} /\ \A n \in Nonces \ {g.nonce} : taken'[n] = taken[n]
    BY <1>0, <2>3
  <2>5. ASSUME NEW h \in Grants, h.genuine, taken'[h.nonce] # {}
        PROVE  now > h.expires + ClockSkew \/ Line(h) \in seen'
    <3>1. CASE h.nonce = g.nonce
      BY <2>1, <2>3, <2>5, <3>1, NoncesAssumption
    <3>2. CASE h.nonce # g.nonce
      BY <1>0, <1>3, <2>3, <2>4, <2>5, <3>2
    <3> QED
      BY <3>1, <3>2
  <2>6. \A n \in Nonces : taken'[n] = {} \/ \E d \in Conns : taken'[n] = {d}
    BY <2>4 DEF NoncesKept
  <2> QED
    BY <2>1, <2>5, <2>6 DEF NoncesKept
<1>5. ASSUME NEW c \in Conns, NEW g \in Grants, PresentRefused(c, g)
      PROVE  NoncesKept'
  <2>1. taken' = taken /\ now' = now /\ seen' \in {Retained, seen}
    BY <1>5 DEF PresentRefused
  <2> QED
    BY <1>3, <2>1 DEF NoncesKept
<1> QED
  BY <1>1, <1>4, <1>5 DEF Next, Serve, Approve, vars, TakeSlot, TurnAway,
     ReleaseSlot, Hello, Fail, AuthStart, AuthStartRefused, ProveRight, ProveWrong,
     StartUnseen, Ask, Decide, ClearRequest, SessionStarted, EndSession, SessionOver,
     Paint, Click, Renew, Tick

\* What GrantOnce says follows.
LEMMA KeptMeansOnce == NoncesKept => GrantOnce
PROOF
<1> SUFFICES ASSUME NoncesKept, NEW n \in Nonces
             PROVE  Cardinality(taken[n]) <= 1
  BY DEF GrantOnce
<1>1. CASE taken[n] = {}
  BY <1>1, FS_EmptySet
<1>2. ASSUME NEW c \in Conns, taken[n] = {c}
      PROVE  Cardinality(taken[n]) <= 1
  BY <1>2, FS_Singleton
<1> QED
  BY <1>1, <1>2 DEF NoncesKept

-----------------------------------------------------------------------------
(* Who is let in *)

\* AdmittedAsRequired, for one connection.
AdmittedProperly(c) ==
    phase[c] \in Admitted /\ (config.gate # "None" \/ config.grants) =>
        CASE Required = "Grant"    -> ByGrant(c)
          [] Required = "Password" -> c \in proved
          [] Required = "Either"   -> ByGrant(c) \/ c \in proved
          [] Required = "Both"     -> ByGrant(c) /\ c \in proved

VouchedFor(c) ==
    /\ phase[c] = "granted" => Required = "Both" /\ ByGrant(c)
    /\ phase[c] = "proving" => PasswordIsEnough \/ (Required = "Both" /\ ByGrant(c))

LEMMA OnePerConnection ==
    /\ AdmittedAsRequired <=> \A c \in Conns : AdmittedProperly(c)
    /\ Vouched <=> \A c \in Conns : VouchedFor(c)
PROOF BY DEF AdmittedAsRequired, AdmittedProperly, ByGrant, Vouched, VouchedFor

\* What a connection gave it keeps: neither a grant nor a proof is taken back, and
\* a configuration stays. So a connection whose phase stays, or moves on among the
\* admitted ones, is admitted as before.
LEMMA Kept ==
    ASSUME TypeOK, [Next]_vars, NEW c \in Conns
    PROVE  /\ config' = config
           /\ c \in proved => c \in proved'
           /\ phase'[c] \in Phases
           /\ (phase[c] # "auth" /\ ByGrant(c)) => ByGrant(c)'
PROOF
<1>1. TypeOK /\ phase'[c] \in Phases
  BY ConnTypes DEF ConnTypeOK
<1> USE TypeParts DEF ConnTypeOK, GrantTypeOK, Move
<1>2. CASE \E d \in Conns, g \in Grants : Present(d, g)
  <2>1. PICK d \in Conns, g \in Grants : Present(d, g)
    BY <1>2
  <2>2. /\ config' = config /\ proved' = proved
        /\ granted' = [granted EXCEPT ![d] = g]
        /\ \A n \in Nonces : taken[n] \subseteq taken'[n]
        /\ phase[d] = "auth"
    BY <2>1 DEF Present
  <2>3. \A e \in Conns : granted[e] # None => granted[e].nonce \in Nonces
    BY DEF Nonces
  <2> QED
    BY <1>1, <2>2, <2>3 DEF ByGrant
<1>3. CASE UNCHANGED <<config, granted, taken>> /\ proved \subseteq proved'
  BY <1>1, <1>3 DEF ByGrant
<1> QED
  BY <1>2, <1>3, ZenonT(30) DEF Next, Serve, Approve, vars, connVars, grantVars, TakeSlot,
     TurnAway, ReleaseSlot, Hello, Fail, PresentRefused, AuthStart,
     AuthStartRefused, ProveRight, ProveWrong, StartUnseen, Ask, Decide,
     ClearRequest, SessionStarted, EndSession, SessionOver, Paint, Click, Renew, Tick

\* How a step moves a connection on.
LEMMA PhaseCases ==
    ASSUME TypeOK, [Next]_vars, NEW c \in Conns
    PROVE  \/ phase'[c] = phase[c]
           \/ phase[c] \in Admitted /\ phase'[c] \in Admitted
           \/ phase'[c] \in {"hello", "auth", "closing", "gone"}
           \/ Hello(c) \/ ProveRight(c)
           \/ \E g \in Grants : Present(c, g)
           \/ \E guess \in Guesses : AuthStart(c, guess)
PROOF
<1> USE TypeParts DEF ConnTypeOK, Move, Phases, Admitted
<1>1. CASE UNCHANGED phase
  BY <1>1
<1>2. ASSUME NEW d \in Conns, d # c, \E from, to : Move(d, from, to)
      PROVE  phase'[c] = phase[c]
  BY <1>2
<1>3. CASE TakeSlot(c) \/ TurnAway(c) \/ ReleaseSlot(c) \/ Fail(c) \/ StartUnseen(c)
           \/ EndSession(c) \/ AuthStartRefused(c) \/ ProveWrong(c) \/ Approve(c)
           \/ SessionOver(c) \/ \E g \in Grants : PresentRefused(c, g)
  BY <1>3 DEF TakeSlot, TurnAway, ReleaseSlot, Fail, StartUnseen, EndSession,
     AuthStartRefused, ProveWrong, Approve, Ask, Decide, ClearRequest,
     SessionStarted, SessionOver, PresentRefused
<1> HIDE DEF Move, Phases, Admitted
<1>4. ASSUME NEW d \in Conns, d # c,
             TakeSlot(d) \/ TurnAway(d) \/ ReleaseSlot(d) \/ Serve(d) \/ EndSession(d)
      PROVE  phase'[c] = phase[c]
  <2>1. \E from, to : Move(d, from, to)
    BY <1>4 DEF Serve, Approve, TakeSlot, TurnAway, ReleaseSlot, Hello, Fail,
       Present, PresentRefused, AuthStart, AuthStartRefused, ProveRight,
       ProveWrong, StartUnseen, Ask, Decide, ClearRequest, SessionStarted,
       EndSession, SessionOver
  <2> QED
    BY <1>2, <1>4, <2>1
<1>5. CASE (\E allow \in BOOLEAN : Click(allow)) \/ Paint \/ Renew \/ Tick
  BY <1>1, <1>5 DEF Click, Paint, Renew, Tick, connVars
<1>6. CASE UNCHANGED vars
  BY <1>1, <1>6 DEF vars, connVars
<1> QED
  BY <1>3, <1>4, <1>5, <1>6 DEF Next, Serve

\* A step lets a connection on only as required.
LEMMA AdmittedStep ==
    ASSUME TypeOK, Vouched, AdmittedAsRequired, [Next]_vars
    PROVE  Vouched' /\ AdmittedAsRequired'
PROOF
<1> SUFFICES ASSUME NEW c \in Conns
             PROVE  VouchedFor(c)' /\ AdmittedProperly(c)'
  BY DEF AdmittedAsRequired, AdmittedProperly, ByGrant, Vouched, VouchedFor
<1>1. VouchedFor(c) /\ AdmittedProperly(c)
  BY OnePerConnection
<1>2. /\ config' = config
      /\ c \in proved => c \in proved'
      /\ (phase[c] # "auth" /\ ByGrant(c)) => ByGrant(c)'
  BY Kept
<1>3. Required' = Required /\ PasswordIsEnough' = PasswordIsEnough
  BY <1>2 DEF Required, PasswordIsEnough
<1>4. Required \in {"Grant", "Password", "Either", "Both"}
  BY DEF Required
<1>5. CASE phase'[c] = phase[c] \/ (phase[c] \in Admitted /\ phase'[c] \in Admitted)
  BY <1>1, <1>2, <1>3, <1>4, <1>5 DEF VouchedFor, AdmittedProperly, Admitted
<1>6. CASE phase'[c] \in {"hello", "auth", "closing", "gone"}
  BY <1>6 DEF VouchedFor, AdmittedProperly, Admitted
<1>7. CASE Hello(c)
  <2>1. phase'[c] = IF config.gate = "None" /\ ~config.grants THEN "approve" ELSE "auth"
    BY <1>7, TypeParts DEF Hello, Move, ConnTypeOK
  <2> QED
    BY <1>2, <2>1 DEF VouchedFor, AdmittedProperly, Admitted
<1>8. ASSUME NEW g \in Grants, Present(c, g)
      PROVE  VouchedFor(c)' /\ AdmittedProperly(c)'
  <2>1. phase'[c] = IF Required = "Both" THEN "granted" ELSE "approve"
    BY <1>8, TypeParts DEF Present, Move, ConnTypeOK
  <2>2. ByGrant(c)'
    <3>1. granted'[c] = g /\ g # None /\ g.nonce \in Nonces
      BY <1>8, TypeParts, NoneAssumption DEF Present, ConnTypeOK, Nonces
    <3>2. c \in taken'[g.nonce]
      BY <1>8, <3>1, TypeParts DEF Present, GrantTypeOK
    <3> QED
      BY <3>1, <3>2 DEF ByGrant
  <2>3. Required # "Password"
    BY <1>8 DEF Present, Required
  <2> QED
    BY <1>3, <1>4, <2>1, <2>2, <2>3 DEF VouchedFor, AdmittedProperly, Admitted
<1>9. ASSUME NEW guess \in Guesses, AuthStart(c, guess)
      PROVE  VouchedFor(c)' /\ AdmittedProperly(c)'
  <2>1. /\ phase[c] \in {"auth", "granted"} /\ phase'[c] = "proving"
        /\ phase[c] = "auth" => PasswordIsEnough
    BY <1>9, TypeParts DEF AuthStart, Move, ConnTypeOK
  <2> QED
    BY <1>1, <1>2, <1>3, <2>1 DEF VouchedFor, AdmittedProperly, Admitted
<1>10. CASE ProveRight(c)
  <2>1. phase[c] = "proving" /\ phase'[c] = "approve" /\ c \in proved'
    BY <1>10, TypeParts DEF ProveRight, Move, ConnTypeOK
  <2> QED
    BY <1>1, <1>2, <1>3, <2>1 DEF VouchedFor, AdmittedProperly, Admitted, PasswordIsEnough
<1> QED
  BY <1>5, <1>6, <1>7, <1>8, <1>9, <1>10, PhaseCases

-----------------------------------------------------------------------------
(* What the Host shows *)

\* A step keeps what the Host shows true.
LEMMA HostStep ==
    ASSUME TypeOK, OneHolder, HostShowsTruth, [Next]_vars
    PROVE  HostShowsTruth'
PROOF
<1>0. /\ phase \in [Conns -> Phases]
      /\ host \in [request : Number \cup {None}, session : Number \cup {None}, next : Nat]
      /\ \A n \in Number : n # None /\ n.conn \in Conns
      /\ config.host \in {"None", "Quiet", "Window"}
  BY TypeParts, NoneAssumption, ConfigsAssumption
     DEF ConnTypeOK, HostTypeOK, Number, Config
<1>1. ASSUME UNCHANGED <<config, host>>,
             \A d \in Conns : phase'[d] \in {"session", "ended"}
                              <=> phase[d] \in {"session", "ended"},
             \A d \in Conns : phase[d] \in {"asking", "decided"}
                              => phase'[d] \in {"asking", "decided"}
      PROVE  HostShowsTruth'
  BY <1>0, <1>1 DEF HostShowsTruth
<1>2. ASSUME NEW c \in Conns, phase[c] \in Serving
      PROVE  \A d \in Conns \ {c} : phase[d] \notin {"session", "ended", "asking", "decided"}
  BY <1>2 DEF OneHolder, Serving, Phases
<1>3. ASSUME NEW c \in Conns,
             \/ TakeSlot(c) \/ TurnAway(c) \/ ReleaseSlot(c) \/ Hello(c) \/ Fail(c)
             \/ AuthStartRefused(c) \/ ProveRight(c) \/ ProveWrong(c)
             \/ EndSession(c) \/ Decide(c)
             \/ \E g \in Grants : Present(c, g) \/ PresentRefused(c, g)
             \/ \E guess \in Guesses : AuthStart(c, guess)
      PROVE  HostShowsTruth'
  <2>1. UNCHANGED <<config, host>>
    BY <1>3 DEF TakeSlot, TurnAway, ReleaseSlot, Hello, Fail, AuthStartRefused,
       ProveRight, ProveWrong, EndSession, Decide, Present, PresentRefused,
       AuthStart, hostVars
  <2>2. /\ \A d \in Conns \ {c} : phase'[d] = phase[d]
        /\ phase'[c] \in {"session", "ended"} <=> phase[c] \in {"session", "ended"}
        /\ phase[c] \in {"asking", "decided"} => phase'[c] \in {"asking", "decided"}
    BY <1>0, <1>3 DEF TakeSlot, TurnAway, ReleaseSlot, Hello, Fail,
       AuthStartRefused, ProveRight, ProveWrong, EndSession, Decide, Present,
       PresentRefused, AuthStart, Move
  <2> QED
    BY <1>1, <2>1, <2>2
<1>4. ASSUME NEW c \in Conns, StartUnseen(c)
      PROVE  HostShowsTruth'
  <2>1. UNCHANGED <<config, host>> /\ config.host = "None"
    BY <1>4 DEF StartUnseen, hostVars
  <2>2. phase[c] = "approve" /\ \A d \in Conns \ {c} : phase'[d] = phase[d]
    BY <1>0, <1>4 DEF StartUnseen, Move
  <2> QED
    BY <1>0, <2>1, <2>2 DEF HostShowsTruth
<1>5. ASSUME NEW c \in Conns, Ask(c)
      PROVE  HostShowsTruth'
  <2>1. /\ config' = config /\ phase[c] = "approve" /\ phase'[c] = "asking"
        /\ \A d \in Conns \ {c} : phase'[d] = phase[d]
    BY <1>0, <1>5 DEF Ask, Move
  <2>2. host'.session = host.session /\ host'.request = Numbered(c)
    BY <1>0, <1>5 DEF Ask
  <2> QED
    BY <2>1, <2>2 DEF HostShowsTruth, Numbered
<1>6. ASSUME NEW c \in Conns, ClearRequest(c)
      PROVE  HostShowsTruth'
  <2>1. /\ config' = config /\ phase[c] = "decided" /\ phase'[c] \in {"allowed", "closing"}
        /\ \A d \in Conns \ {c} : phase'[d] = phase[d]
    BY <1>0, <1>6 DEF ClearRequest, Move
  <2>2. /\ host'.session = host.session
        /\ host'.request = IF host.request # None /\ host.request.conn = c
                           THEN None ELSE host.request
    BY <1>0, <1>6 DEF ClearRequest
  <2> QED
    BY <1>0, <2>1, <2>2 DEF HostShowsTruth
<1>7. ASSUME NEW c \in Conns, SessionStarted(c)
      PROVE  HostShowsTruth'
  <2>1. /\ config' = config /\ phase[c] \in {"approve", "allowed"} /\ phase'[c] = "session"
        /\ \A d \in Conns \ {c} : phase'[d] = phase[d]
    BY <1>0, <1>7 DEF SessionStarted, Move
  <2>2. host'.session = Numbered(c) /\ host'.request = host.request
    BY <1>0, <1>7 DEF SessionStarted
  <2>3. Numbered(c) # None /\ Numbered(c).conn = c
    BY <1>0 DEF Numbered, Number, HostTypeOK
  <2>4. \A d \in Conns \ {c} : phase[d] \notin {"session", "ended", "asking", "decided"}
    BY <1>2, <2>1 DEF Serving, Phases
  <2> QED
    BY <1>0, <2>1, <2>2, <2>3, <2>4 DEF HostShowsTruth
<1>8. ASSUME NEW c \in Conns, SessionOver(c)
      PROVE  HostShowsTruth'
  <2>1. /\ config' = config /\ phase[c] \in {"session", "ended"} /\ phase'[c] = "closing"
        /\ \A d \in Conns \ {c} : phase'[d] = phase[d]
    BY <1>0, <1>8 DEF SessionOver, Move
  <2>2. /\ host'.request = host.request
        /\ host'.session = IF host.session # None /\ host.session.conn = c
                           THEN None ELSE host.session
    BY <1>0, <1>8 DEF SessionOver
  <2>3. \A d \in Conns \ {c} : phase[d] \notin {"session", "ended", "asking", "decided"}
    BY <1>2, <2>1 DEF Serving, Phases
  <2> QED
    BY <1>0, <2>1, <2>2, <2>3 DEF HostShowsTruth
<1>9. ASSUME NEW allow \in BOOLEAN, Click(allow)
      PROVE  HostShowsTruth'
  <2>1. UNCHANGED <<config, phase>>
    BY <1>9 DEF Click, connVars
  <2>2. host'.session = host.session /\ host'.request = None
    BY <1>0, <1>9 DEF Click
  <2> QED
    BY <2>1, <2>2 DEF HostShowsTruth
<1>10. CASE Paint \/ Renew \/ Tick \/ UNCHANGED vars
  BY <1>10 DEF Paint, Renew, Tick, vars, connVars, hostVars, HostShowsTruth
<1> QED
  BY <1>3, <1>4, <1>5, <1>6, <1>7, <1>8, <1>9, <1>10 DEF Next, Serve, Approve

-----------------------------------------------------------------------------
(* What always holds of an agent that keeps running *)

\* The inductive invariant of one run of an agent, but for the nonces.
RunInv == /\ TypeOK /\ OneHolder /\ Exchanging /\ GuessesCounted
          /\ LockedMeansNoExchange /\ Vouched /\ AdmittedAsRequired /\ HostShowsTruth

LEMMA RunInit == Init => RunInv /\ NoncesKept
PROOF
<1> SUFFICES ASSUME Init
             PROVE  RunInv /\ NoncesKept
  OBVIOUS
<1> USE DEF Init
<1>1. ConnTypeOK /\ HostTypeOK /\ GrantTypeOK
  BY DEF ConnTypeOK, HostTypeOK, GrantTypeOK, Phases, Number
<1>2. GateTypeOK
  BY GateAssumption DEF GateTypeOK
<1>3. OneHolder /\ Vouched /\ AdmittedAsRequired /\ LockedMeansNoExchange
  BY DEF OneHolder, Serving, Vouched, AdmittedAsRequired, Admitted, LockedMeansNoExchange
<1>4. HostShowsTruth
  BY DEF HostShowsTruth
<1>5. Exchanging /\ GuessesCounted
  BY GateAssumption DEF Exchanging, GuessesCounted
<1>6. NoncesKept
  BY DEF NoncesKept, Nonces
<1> QED
  BY <1>1, <1>2, <1>3, <1>4, <1>5, <1>6, TypeParts DEF RunInv

LEMMA RunStep ==
    ASSUME RunInv, [Next]_vars
    PROVE  RunInv'
PROOF
<1> USE DEF RunInv
<1>1. TypeOK'
  <2>1. ConnTypeOK' /\ GateTypeOK' /\ GrantTypeOK' /\ HostTypeOK'
    BY ConnTypes, GateTypes, GrantTypes, HostTypes
  <2> QED
    BY <2>1 DEF TypeOK, ConnTypeOK, GateTypeOK, GrantTypeOK, HostTypeOK
<1> QED
  BY <1>1, HolderStep, GuessStep, LockedStep, AdmittedStep, HostStep

\* What GuessesBounded says follows.
LEMMA CountedMeansBounded == TypeOK /\ GuessesCounted => GuessesBounded
PROOF BY TypeParts DEF GuessesCounted, GuessesBounded, GateTypeOK

\* The one run of an agent keeps its invariant.
THEOREM RunInvariant == Spec => [](RunInv /\ NoncesKept)
PROOF
<1>1. Init => RunInv /\ NoncesKept
  BY RunInit
<1>2. RunInv /\ NoncesKept /\ [Next]_vars => (RunInv /\ NoncesKept)'
  BY RunStep, NonceStep DEF RunInv
<1> QED
  BY <1>1, <1>2, PTL DEF Spec

\* Every field of the session tasks, the gates, the grants and the Host keeps its
\* type, whatever viewers, the person and the clock do.
THEOREM TypeCorrect == Spec => []TypeOK
PROOF
<1>1. RunInv => TypeOK
  BY DEF RunInv
<1> QED
  BY <1>1, RunInvariant, PTL

\* No one-time password meets more than MAX_FAILURES wrong proofs in a row, for
\* any limit and any number of renewals (`prove`, Gate::rejected).
THEOREM GuessesAlwaysBounded == Spec => []GuessesBounded
PROOF
<1>1. RunInv => GuessesBounded
  BY CountedMeansBounded DEF RunInv
<1> QED
  BY <1>1, RunInvariant, PTL

\* No exchange is under way during a lockout, however long it is (Gate::material).
THEOREM LockoutAlwaysHolds == Spec => []LockedMeansNoExchange
PROOF
<1>1. RunInv => LockedMeansNoExchange
  BY DEF RunInv
<1> QED
  BY <1>1, RunInvariant, PTL

\* A grant lets one connection in, for any skew, expiry and number of grants
\* (Grants::check_at).
THEOREM GrantAlwaysOnce == Spec => []GrantOnce
PROOF
<1>1. NoncesKept => GrantOnce
  BY KeptMeansOnce
<1> QED
  BY <1>1, RunInvariant, PTL

\* Whoever is past `authenticate` gave what `required` asks for.
THEOREM AlwaysAdmittedAsRequired == Spec => []AdmittedAsRequired
PROOF
<1>1. RunInv => AdmittedAsRequired
  BY DEF RunInv
<1> QED
  BY <1>1, RunInvariant, PTL

\* The Host shows the session that is under way and no other, and only requests of
\* viewers still there.
THEOREM HostAlwaysTrue == Spec => []HostShowsTruth
PROOF
<1>1. RunInv => HostShowsTruth
  BY DEF RunInv
<1> QED
  BY <1>1, RunInvariant, PTL

-----------------------------------------------------------------------------
(* An agent that updates itself and is restarted *)

\* A restart forgets what was kept in memory, and nothing of that breaks what
\* holds of a run: only the nonces of grants are missed.
LEMMA RestartStep ==
    ASSUME RunInv, Restart
    PROVE  RunInv'
PROOF
<1> USE DEF RunInv, Restart
<1>0. TypeOK /\ \A c \in Conns : phase'[c] \in {"away", "gone"}
  OBVIOUS
<1>1. ConnTypeOK'
  BY <1>0, TypeParts DEF ConnTypeOK, Phases
<1>2. /\ gate'.current = 1 /\ gate'.failures = 0 /\ tries' = <<0>>
      /\ gate' \in [current : Nat \ {0}, failures : Nat, lockedUntil : Nat]
  BY TypeParts DEF GateTypeOK, Exchanging, Updating
<1>3. GateTypeOK'
  BY <1>2, GateAssumption DEF GateTypeOK
<1>4. GrantTypeOK' /\ HostTypeOK'
  BY TypeParts DEF GrantTypeOK, HostTypeOK
<1>5. Exchanging' /\ GuessesCounted' /\ LockedMeansNoExchange'
  BY <1>0, <1>2, GateAssumption
     DEF Exchanging, GuessesCounted, LockedMeansNoExchange, Updating
<1>6. OneHolder' /\ Vouched' /\ AdmittedAsRequired' /\ HostShowsTruth'
  BY <1>0 DEF OneHolder, Serving, Vouched, AdmittedAsRequired, Admitted, HostShowsTruth
<1> QED
  BY <1>1, <1>3, <1>4, <1>5, <1>6
     DEF TypeOK, ConnTypeOK, GateTypeOK, GrantTypeOK, HostTypeOK

\* The Host's numbers only go up, and a session gets the next one.
LEMMA Numbers ==
    ASSUME TypeOK, [Next]_vars
    PROVE  /\ host'.next \in Nat /\ host'.next >= host.next
           /\ \/ host'.session \in {host.session, None}
              \/ host'.session # None /\ host'.session.number = host.next + 1
PROOF
<1>0. host \in [request : Number \cup {None}, session : Number \cup {None}, next : Nat]
  BY TypeParts DEF HostTypeOK
<1>1. CASE UNCHANGED host
  BY <1>0, <1>1
<1>2. ASSUME NEW c \in Conns, Ask(c) \/ ClearRequest(c) \/ SessionOver(c)
      PROVE  /\ host'.next \in {host.next, host.next + 1}
             /\ host'.session \in {host.session, None}
  BY <1>0, <1>2 DEF Ask, ClearRequest, SessionOver
<1>3. ASSUME NEW c \in Conns, SessionStarted(c)
      PROVE  /\ host'.next = host.next + 1
             /\ host'.session = Numbered(c)
  BY <1>0, <1>3 DEF SessionStarted
<1>4. ASSUME NEW allow \in BOOLEAN, Click(allow)
      PROVE  host'.next = host.next /\ host'.session = host.session
  BY <1>0, <1>4 DEF Click
<1>5. ASSUME NEW c \in Conns
      PROVE  Numbered(c) # None /\ Numbered(c).number = host.next + 1
  <2>1. Numbered(c) \in Number
    BY <1>0, <1>5 DEF Numbered, Number
  <2> QED
    BY <2>1, NoneAssumption DEF Numbered
<1>6. host.next \in Nat
  BY <1>0
<1> QED
  BY <1>1, <1>2, <1>3, <1>4, <1>5, <1>6 DEF Next, Serve, Approve, vars, hostVars,
     TakeSlot, TurnAway, ReleaseSlot, Hello, Fail, Present, PresentRefused,
     AuthStart, AuthStartRefused, ProveRight, ProveWrong, StartUnseen, Decide,
     EndSession, Paint, Renew, Tick

LEMMA MarkStep ==
    ASSUME TypeOK, Marked, [UpdateNext]_allVars
    PROVE  Marked'
PROOF
<1>0. host.next \in Nat /\ host.session \in Number \cup {None}
  BY TypeParts DEF HostTypeOK
<1>1. CASE [Next]_vars /\ UNCHANGED updateVars
  <2>1. /\ host'.next \in Nat /\ host'.next >= host.next
        /\ \/ host'.session \in {host.session, None}
           \/ host'.session # None /\ host'.session.number = host.next + 1
    BY <1>1, Numbers
  <2> QED
    BY <1>0, <1>1, <2>1 DEF Marked, updateVars
<1>2. CASE FirstLook \/ NotInstalled \/ SecondLook \/ Install
  BY <1>0, <1>2 DEF FirstLook, NotInstalled, SecondLook, Install, NoSession, Marked,
     vars, hostVars
<1>3. CASE Restart
  BY <1>3 DEF Restart, Marked
<1> QED
  BY <1>1, <1>2, <1>3 DEF UpdateNext, allVars

LEMMA UpdateStep ==
    ASSUME RunInv, Marked, [UpdateNext]_allVars
    PROVE  RunInv' /\ Marked'
PROOF
<1>1. Marked'
  BY MarkStep DEF RunInv
<1>2. CASE [Next]_vars
  BY <1>1, <1>2, RunStep
<1>3. CASE Restart
  BY <1>1, <1>3, RestartStep
<1> QED
  BY <1>2, <1>3 DEF UpdateNext, allVars, FirstLook, NotInstalled, SecondLook, Install

\* Restarts included, the inductive invariant of an agent that updates itself.
THEOREM UpdateInvariant == UpdateSpec => [](RunInv /\ Marked)
PROOF
<1>1. UpdateInit => RunInv /\ Marked
  BY RunInit DEF UpdateInit, Init, Marked
<1>2. RunInv /\ Marked /\ [UpdateNext]_allVars => (RunInv /\ Marked)'
  BY UpdateStep
<1> QED
  BY <1>1, <1>2, PTL DEF UpdateSpec

\* A session that began before the second look of `once` is not ended by the
\* installer that look allows.
THEOREM OldSessionsAlwaysSurvive == UpdateSpec => []OldSessionsSurvive
PROOF
<1>1. Marked => OldSessionsSurvive
  BY DEF Marked, OldSessionsSurvive
<1> QED
  BY <1>1, UpdateInvariant, PTL

\* However often the service or the installer restarts the agent, the types, the
\* bounds on guesses, the lockouts of each run, who is let in and what the Host
\* shows stay right.
THEOREM SafeAcrossRestarts ==
    UpdateSpec => [](/\ TypeOK /\ GuessesBounded /\ LockedMeansNoExchange
                     /\ AdmittedAsRequired /\ HostShowsTruth)
PROOF
<1>1. RunInv => /\ TypeOK /\ GuessesBounded /\ LockedMeansNoExchange
                /\ AdmittedAsRequired /\ HostShowsTruth
  BY CountedMeansBounded DEF RunInv
<1> QED
  BY <1>1, UpdateInvariant, PTL
=============================================================================
