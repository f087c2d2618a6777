------------------------------ MODULE Admission -----------------------------
(***************************************************************************)
(* How an agent lets viewers in (crates/agent/src): the one slot they share *)
(* (main.rs), the messages up to the session (session.rs), the password     *)
(* gate (password.rs, access.rs), the server's grants (grants.rs) and the   *)
(* person at the machine (host.rs, window.rs).                              *)
(*                                                                         *)
(* Each connection is a task of its own. A step is what a task does between *)
(* two awaits, or between two locks another thread can get in between.      *)
(***************************************************************************)
EXTENDS Integers, Sequences, FiniteSets

CONSTANTS Conns,          \* connections, each used once
          None,           \* Option::None
          Configs,        \* the ways agents are set up
          Grants,         \* grants viewers may present
          MaxFailures,    \* MAX_FAILURES of the one-time password
          FreeFailures,   \* FREE_FAILURES of the access password
          FirstLockout, MaxLockout,
          ClockSkew,      \* CLOCK_SKEW_SECS
          MaxDraws,       \* bound on the one-time passwords drawn
          MaxClock        \* bound on the clock

\* gate: what SessionConfig.gate holds; grants: whether it takes grants; both:
\* password_with_grant; host: nobody, a Host without a window, or one with.
Config == [gate : {"None", "OneTime", "Access"}, grants : BOOLEAN,
           both : BOOLEAN, host : {"None", "Quiet", "Window"}]

\* `genuine`: signed by the pinned server, for this device.
Grant == [nonce : Nat, genuine : BOOLEAN, issued : Nat, expires : Nat]

ASSUME ConfigsAssumption == Configs \subseteq Config
ASSUME GrantsAssumption == Grants \subseteq Grant
ASSUME GateAssumption ==
    /\ MaxFailures \in Nat \ {0} /\ FreeFailures \in Nat \ {0}
    /\ FirstLockout \in Nat /\ MaxLockout \in Nat
    /\ ClockSkew \in Nat /\ MaxClock \in Nat /\ MaxDraws \in Nat

\* What Host shows and the requests it numbers.
Number == [number : Nat, conn : Conns]

ASSUME NoneAssumption ==
    None \notin Conns /\ None \notin Grants /\ None \notin BOOLEAN /\ None \notin Number

\* A server draws a nonce of 16 random bytes for every grant it signs
\* (server/src/grants.rs, `issue`), so no two of its grants share one.
ASSUME NoncesAssumption ==
    \A g, h \in Grants : g.genuine /\ h.genuine /\ g.nonce = h.nonce => g = h

VARIABLES
    config,    \* how this agent is set up
    now,       \* the clock
    phase,     \* how far each connection got
    slot,      \* the semaphore's one permit: the connection holding it
    exchange,  \* password exchange: the material it runs with and the guess
    granted,   \* the grant each connection was let in with
    proved,    \* the connections that proved the password
    gate,      \* password in use, failures in a row, end of a lockout
    seen,      \* nonces of grants taken, until they expire
    host,      \* Host: request waiting, session shown, next number
    answer,    \* what came back through each request's oneshot channel
    painted,   \* window: the connection whose request is on the screen
    tries,     \* history: wrong proofs in a row, by password drawn
    taken,     \* history: the connections let in by each nonce
    consent    \* history: the connections the person meant to allow

gateVars == <<gate, tries>>
grantVars == <<seen, taken>>
hostVars == <<host, answer, painted, consent>>
connVars == <<phase, slot, exchange, granted, proved>>
vars == <<config, now, connVars, gateVars, grantVars, hostVars>>

Nonces == {g.nonce : g \in Grants}

Phases == {"away", "hello", "auth", "granted", "proving", "approve", "asking",
           "decided", "allowed", "session", "ended", "closing", "gone"}
Serving == Phases \ {"away", "gone"}
Admitted == {"approve", "asking", "decided", "allowed", "session", "ended"}

Init == /\ config \in Configs
        /\ now = 0
        /\ phase = [c \in Conns |-> "away"] /\ slot = None
        /\ exchange = [c \in Conns |-> [material |-> 0, guess |-> 0]]
        /\ granted = [c \in Conns |-> None] /\ proved = {}
        /\ gate = [current |-> 1, failures |-> 0, lockedUntil |-> 0]
        /\ seen = {}
        /\ host = [request |-> None, session |-> None, next |-> 0]
        /\ answer = [c \in Conns |-> None] /\ painted = None
        /\ tries = <<0>> /\ taken = [n \in Nonces |-> {}] /\ consent = {}

Move(c, from, to) == phase[c] \in from /\ phase' = [phase EXCEPT ![c] = to]

Tick == /\ now < MaxClock
        /\ now' = now + 1
        /\ UNCHANGED <<config, connVars, gateVars, grantVars, hostVars>>

-----------------------------------------------------------------------------
(* accept_viewers *)

\* The mutant takes the slot without asking whether it is free.
TakeSlot_Shared(c) ==
    /\ Move(c, {"away"}, "hello")
    /\ slot' = c
    /\ UNCHANGED <<config, now, exchange, granted, proved, gateVars, grantVars,
                   hostVars>>

\* The viewer opened its control stream and there is no other viewer.
TakeSlot(c) ==
    /\ slot = None
    /\ Move(c, {"away"}, "hello")
    /\ slot' = c
    /\ UNCHANGED <<config, now, exchange, granted, proved, gateVars, grantVars,
                   hostVars>>

\* Another viewer is connected; or no control stream came in time.
TurnAway(c) ==
    /\ Move(c, {"away"}, "gone")
    /\ UNCHANGED <<config, now, slot, exchange, granted, proved, gateVars,
                   grantVars, hostVars>>

\* serve() returned: the task drops its permit.
ReleaseSlot(c) ==
    /\ Move(c, {"closing"}, "gone")
    /\ slot' = None
    /\ UNCHANGED <<config, now, exchange, granted, proved, gateVars, grantVars,
                   hostVars>>

-----------------------------------------------------------------------------
(* serve and authenticate *)

\* Hello is exchanged; an agent with neither gate nor grants asks for nothing.
Hello(c) ==
    /\ Move(c, {"hello"}, IF config.gate = "None" /\ ~config.grants
                          THEN "approve" ELSE "auth")
    /\ UNCHANGED <<config, now, slot, exchange, granted, proved, gateVars,
                   grantVars, hostVars>>

\* While a message is awaited or sent the connection is lost, or the viewer
\* sends another one: serve() returns an error. An exchange given up before its
\* proof counts as no failure.
Fail(c) ==
    /\ Move(c, {"hello", "auth", "granted", "proving", "approve"}, "closing")
    /\ UNCHANGED <<config, now, slot, exchange, granted, proved, gateVars,
                   grantVars, hostVars>>

\* required(), as what it asks for.
Required == IF config.gate = "None" THEN "Grant"
            ELSE IF ~config.grants THEN "Password"
            ELSE IF config.both THEN "Both" ELSE "Either"

\* The mutant lets the password alone in where both are asked for.
PasswordIsEnough_Always == config.gate # "None"

PasswordIsEnough == Required \in {"Either", "Password"}

\* Grants::check: within its validity, give or take the skew.
InTime(g) == now + ClockSkew >= g.issued /\ now <= g.expires + ClockSkew

\* The mutant forgets a nonce in the last second of its grant.
Retained_TooShort == {s \in seen : s.until > now}

Retained == {s \in seen : s.until >= now}

Used(g) == \E s \in Retained : s.nonce = g.nonce

\* Present, with a grant that is taken: its nonce is spent at once, also when
\* the password that must follow never comes.
Present(c, g) ==
    /\ config.grants
    /\ g.genuine /\ InTime(g) /\ ~Used(g)
    /\ Move(c, {"auth"}, IF Required = "Both" THEN "granted" ELSE "approve")
    /\ seen' = Retained \cup {[nonce |-> g.nonce, until |-> g.expires + ClockSkew]}
    /\ taken' = [taken EXCEPT ![g.nonce] = @ \cup {c}]
    /\ granted' = [granted EXCEPT ![c] = g]
    /\ UNCHANGED <<config, now, slot, exchange, proved, gateVars, hostVars>>

\* Present, with a grant that is refused. Old nonces are dropped only once the
\* grant's signature, device and validity were found right.
PresentRefused(c, g) ==
    /\ ~config.grants \/ ~g.genuine \/ ~InTime(g) \/ Used(g)
    /\ Move(c, {"auth"}, "closing")
    /\ seen' = IF config.grants /\ g.genuine /\ InTime(g) THEN Retained ELSE seen
    /\ UNCHANGED <<config, now, slot, exchange, granted, proved, gateVars, taken,
                   hostVars>>

-----------------------------------------------------------------------------
(* The password: prove and the two gates *)

\* The mutant runs exchanges during a lockout.
Material_Always == {gate.current}

\* Gate::material, as a set of at most one password.
Material == IF config.gate = "None" \/ (config.gate = "Access" /\ now < gate.lockedUntil)
            THEN {} ELSE {gate.current}

\* AuthStart, where the password has its turn: the exchange runs with the
\* password of this moment. Guess 0 is no password at all.
AuthStart(c, guess) ==
    /\ phase[c] = "auth" => PasswordIsEnough
    /\ Move(c, {"auth", "granted"}, "proving")
    /\ \E m \in Material :
          exchange' = [exchange EXCEPT ![c] = [material |-> m, guess |-> guess]]
    /\ UNCHANGED <<config, now, slot, granted, proved, gateVars, grantVars,
                   hostVars>>

\* There is no exchange just now, or the password is not enough.
AuthStartRefused(c) ==
    /\ Material = {} \/ (phase[c] = "auth" /\ ~PasswordIsEnough)
    /\ Move(c, {"auth", "granted"}, "closing")
    /\ UNCHANGED <<config, now, slot, exchange, granted, proved, gateVars,
                   grantVars, hostVars>>

\* Gate::accepted
Accepted == gate' = [gate EXCEPT !.failures = 0, !.lockedUntil = 0]

\* AccessPassword::lockout, as the time it ends; 0 for none.
Lockout(inARow) ==
    IF inARow < FreeFailures THEN 0
    ELSE LET over == IF inARow - FreeFailures < 16 THEN inARow - FreeFailures ELSE 16
             doubled == FirstLockout * 2 ^ over
         IN  now + (IF doubled < MaxLockout THEN doubled ELSE MaxLockout)

\* Six new digits; that a draw could repeat an earlier one is left out.
Draw == [current |-> gate.current + 1, failures |-> 0, lockedUntil |-> 0]

\* The mutant allows one failure more.
Rejected_OffByOne ==
    gate' = IF config.gate = "Access"
            THEN [gate EXCEPT !.failures = @ + 1,
                              !.lockedUntil = Lockout(gate.failures + 1)]
            ELSE IF gate.failures < MaxFailures
            THEN [gate EXCEPT !.failures = @ + 1]
            ELSE Draw

\* Gate::rejected: an access password locks out, a one-time one is replaced.
Rejected ==
    gate' = IF config.gate = "Access"
            THEN [gate EXCEPT !.failures = @ + 1,
                              !.lockedUntil = Lockout(gate.failures + 1)]
            ELSE IF gate.failures + 1 < MaxFailures
            THEN [gate EXCEPT !.failures = @ + 1]
            ELSE Draw

\* What was tried so far, with a password just drawn added to it.
Recorded(n, p) ==
    LET counted == [tries EXCEPT ![p] = n]
    IN  IF gate'.current > gate.current THEN Append(counted, 0) ELSE counted

\* AuthProve
ProveRight(c) ==
    LET e == exchange[c] IN
    /\ e.guess = e.material
    /\ Move(c, {"proving"}, "approve")
    /\ Accepted
    /\ tries' = Recorded(0, e.material)
    /\ proved' = proved \cup {c}
    /\ UNCHANGED <<config, now, slot, exchange, granted, grantVars, hostVars>>

ProveWrong(c) ==
    LET e == exchange[c] IN
    /\ e.guess # e.material
    /\ Move(c, {"proving"}, "closing")
    /\ Rejected
    /\ tries' = Recorded(tries[e.material] + 1, e.material)
    /\ UNCHANGED <<config, now, slot, exchange, granted, proved, grantVars,
                   hostVars>>

\* Password::renew, the window's "New" button.
Renew ==
    /\ config.gate = "OneTime" /\ config.host = "Window"
    /\ gate.current < MaxDraws
    /\ gate' = Draw
    /\ tries' = Append(tries, 0)
    /\ UNCHANGED <<config, now, connVars, grantVars, hostVars>>

-----------------------------------------------------------------------------
(* approve and the Host *)

Numbered(c) == [number |-> host.next + 1, conn |-> c]

\* Without a Host the session starts unseen.
StartUnseen(c) ==
    /\ config.host = "None"
    /\ Move(c, {"approve"}, "session")
    /\ UNCHANGED <<config, now, slot, exchange, granted, proved, gateVars,
                   grantVars, hostVars>>

\* Host::ask, with a window. A request still there loses its channel.
Ask(c) ==
    /\ config.host = "Window"
    /\ Move(c, {"approve"}, "asking")
    /\ host' = [host EXCEPT !.request = Numbered(c), !.next = @ + 1]
    /\ answer' = [d \in Conns |-> IF host.request # None /\ d = host.request.conn
                                  THEN FALSE ELSE answer[d]]
    /\ UNCHANGED <<config, now, slot, exchange, granted, proved, gateVars,
                   grantVars, painted, consent>>

\* The mutant has no timeout, and does not notice that the viewer left.
Decide_AnswerOnly(c) ==
    /\ answer[c] # None
    /\ Move(c, {"asking"}, "decided")
    /\ UNCHANGED <<config, now, slot, exchange, granted, proved, gateVars,
                   grantVars, hostVars>>

\* The select in `ask`: the answer, ASK_TIMEOUT, or the viewer leaving, whichever
\* it sees first.
Decide(c) ==
    /\ Move(c, {"asking"}, "decided")
    /\ \/ answer[c] # None /\ UNCHANGED answer
       \/ answer' = [answer EXCEPT ![c] = FALSE]
    /\ UNCHANGED <<config, now, slot, exchange, granted, proved, gateVars,
                   grantVars, host, painted, consent>>

\* The mutant leaves the request in place when it was not answered.
ClearRequest_Forgotten(c) ==
    /\ Move(c, {"decided"}, IF answer[c] = TRUE THEN "allowed" ELSE "closing")
    /\ UNCHANGED <<config, now, slot, exchange, granted, proved, gateVars,
                   grantVars, hostVars>>

\* The request goes away, unless it is another one's by now. (The code compares
\* numbers; a connection has one request and one session, so it stands for them.)
ClearRequest(c) ==
    /\ Move(c, {"decided"}, IF answer[c] = TRUE THEN "allowed" ELSE "closing")
    /\ host' = IF host.request # None /\ host.request.conn = c
               THEN [host EXCEPT !.request = None] ELSE host
    /\ UNCHANGED <<config, now, slot, exchange, granted, proved, gateVars,
                   grantVars, answer, painted, consent>>

\* Host::session_started
SessionStarted(c) ==
    /\ config.host # "None"
    /\ Move(c, IF config.host = "Quiet" THEN {"approve"} ELSE {"allowed"}, "session")
    /\ host' = [host EXCEPT !.session = Numbered(c), !.next = @ + 1]
    /\ UNCHANGED <<config, now, slot, exchange, granted, proved, gateVars,
                   grantVars, answer, painted, consent>>

\* Host::end_session: the connection shown is closed, and its task notices.
EndSession(c) ==
    /\ host.session # None /\ host.session.conn = c
    /\ Move(c, {"session"}, "ended")
    /\ UNCHANGED <<config, now, slot, exchange, granted, proved, gateVars,
                   grantVars, hostVars>>

\* The session is over: serve() returns and drops its InSession, which hides
\* the session if it is still the one shown.
SessionOver(c) ==
    /\ Move(c, {"session", "ended"}, "closing")
    /\ host' = IF host.session # None /\ host.session.conn = c
               THEN [host EXCEPT !.session = None] ELSE host
    /\ UNCHANGED <<config, now, slot, exchange, granted, proved, gateVars,
                   grantVars, answer, painted, consent>>

-----------------------------------------------------------------------------
(* The window *)

Waiting == IF host.request = None THEN None ELSE host.request.conn

\* A pass of the window that only draws.
Paint == /\ config.host = "Window"
         /\ painted # Waiting
         /\ painted' = Waiting
         /\ UNCHANGED <<config, now, connVars, gateVars, grantVars, host, answer,
                        consent>>

\* A pass in which a button was clicked. The person clicked on what the last
\* pass drew; Host::answer answers what is waiting now. An answer to a request
\* whose `ask` has decided already is lost.
Click(allow) ==
    /\ painted # None /\ host.request # None
    /\ answer' = IF phase[Waiting] = "asking"
                 THEN [answer EXCEPT ![Waiting] = allow] ELSE answer
    /\ host' = [host EXCEPT !.request = None]
    /\ consent' = IF allow THEN consent \cup {painted} ELSE consent
    /\ painted' = Waiting
    /\ UNCHANGED <<config, now, connVars, gateVars, grantVars>>

-----------------------------------------------------------------------------

Guesses == 0 .. gate.current

(* approve: the person at the machine is asked where it is set so, and then
   shown the session. *)
Approve(c) == Ask(c) \/ Decide(c) \/ ClearRequest(c) \/ SessionStarted(c)

Serve(c) == \/ Hello(c) \/ Fail(c)
            \/ \E g \in Grants : Present(c, g) \/ PresentRefused(c, g)
            \/ \E guess \in Guesses : AuthStart(c, guess)
            \/ AuthStartRefused(c) \/ ProveRight(c) \/ ProveWrong(c)
            \/ StartUnseen(c) \/ Approve(c) \/ SessionOver(c)

Next == \/ \E c \in Conns : \/ TakeSlot(c) \/ TurnAway(c) \/ ReleaseSlot(c)
                            \/ Serve(c) \/ EndSession(c)
        \/ \E allow \in BOOLEAN : Click(allow)
        \/ Paint \/ Renew \/ Tick

Spec == Init /\ [][Next]_vars

\* The timeout of a request passes, and a task that can run does.
FairSpec == /\ Spec
            /\ \A c \in Conns : /\ WF_vars(Decide(c)) /\ WF_vars(ClearRequest(c))
                                /\ WF_vars(SessionStarted(c))
                                /\ WF_vars(ReleaseSlot(c))

-----------------------------------------------------------------------------
(* Properties *)

\* Every field of the session task, the gates, `Grants` and `Host` keeps its
\* type; a one-time password never has MAX_FAILURES failures.
TypeOK ==
    /\ config \in Configs /\ now \in Nat
    /\ phase \in [Conns -> Phases] /\ slot \in Conns \cup {None}
    /\ exchange \in [Conns -> [material : Nat, guess : Nat]]
    /\ granted \in [Conns -> Grants \cup {None}] /\ proved \subseteq Conns
    /\ gate \in [current : Nat \ {0}, failures : Nat, lockedUntil : Nat]
    /\ config.gate # "Access" => gate.failures < MaxFailures
    /\ seen \subseteq [nonce : Nonces, until : Nat]
    /\ host \in [request : Number \cup {None}, session : Number \cup {None},
                 next : Nat]
    /\ answer \in [Conns -> BOOLEAN \cup {None}]
    /\ painted \in Conns \cup {None}
    /\ tries \in Seq(Nat) /\ Len(tries) = gate.current
    /\ taken \in [Nonces -> SUBSET Conns] /\ consent \subseteq Conns

\* The comment on `prove`, "a few wrong ones replace a one-time password": no
\* password drawn meets more than MAX_FAILURES wrong proofs in a row, though an
\* exchange keeps the password it began with across a renewal.
GuessesBounded ==
    config.gate = "OneTime" => \A p \in DOMAIN tries : tries[p] <= MaxFailures

\* "No exchange at all: a guess made now tells nothing", says `material` of a
\* lockout; but it looks only when an exchange begins. No exchange is under way
\* during a lockout.
LockedMeansNoExchange ==
    config.gate = "Access" /\ now < gate.lockedUntil
    => \A c \in Conns : phase[c] # "proving"

\* A grant lets one connection in, whenever its nonce is forgotten again
\* (`Grants::check_at`).
GrantOnce == \A n \in Nonces : Cardinality(taken[n]) <= 1

\* A viewer past `authenticate` gave what `required` asks for: a grant that was
\* taken from it, the password, either or both.
AdmittedAsRequired ==
    \A c \in Conns : phase[c] \in Admitted /\ (config.gate # "None" \/ config.grants) =>
        LET byGrant == granted[c] # None /\ c \in taken[granted[c].nonce]
        IN  CASE Required = "Grant"    -> byGrant
              [] Required = "Password" -> c \in proved
              [] Required = "Either"   -> byGrant \/ c \in proved
              [] Required = "Both"     -> byGrant /\ c \in proved

\* What `Host` shows is so: the session shown is the one under way, "from here
\* until the session ends", and a request shown is of a viewer still there.
HostShowsTruth ==
    /\ config.host # "None" =>
          \A c \in Conns : phase[c] \in {"session", "ended"}
                           <=> host.session # None /\ host.session.conn = c
    /\ host.request # None => phase[host.request.conn] \in {"asking", "decided"}

\* `ask` gives every viewer an answer, with nobody at the machine too, and a
\* viewer refused leaves the slot to others.
AskEnds == \A c \in Conns : phase[c] = "asking" ~> phase[c] \in {"session", "gone"}

\* `Host::ask` says "Whether the person at the host allows `viewer` in": whoever
\* is let in is who the person allowed.
ConsentGiven ==
    config.host = "Window" => \A c \in Conns : phase[c] = "session" => c \in consent

---------------------------------------------------------------------------
(* The configurations agents start with, and grants, for TLC. *)

Setup(gate_, grants, both, host_) ==
    [gate |-> gate_, grants |-> grants, both |-> both, host |-> host_]

\* portable.rs: the one-time password, with and without the window.
Portable == {Setup("OneTime", FALSE, FALSE, "Window"),
             Setup("OneTime", FALSE, FALSE, "Quiet")}

\* unattended.rs: the combinations it does not refuse to start with.
Unattended == {Setup("Access", FALSE, FALSE, "Quiet"),
               Setup("Access", TRUE, FALSE, "Quiet"),
               Setup("Access", TRUE, TRUE, "Quiet"),
               Setup("None", TRUE, FALSE, "Quiet")}

\* main.rs, `listen`: nothing is asked.
Listening == {Setup("None", FALSE, FALSE, "None")}

AllConfigs == Portable \cup Unattended \cup Listening
WindowOnly == {Setup("OneTime", FALSE, FALSE, "Window")}

\* A grant that is good until 1, skew included; one that is good later, and one
\* of another server.
SomeGrants == {[nonce |-> 1, genuine |-> TRUE, issued |-> 0, expires |-> 0],
               [nonce |-> 2, genuine |-> TRUE, issued |-> 2, expires |-> 2],
               [nonce |-> 3, genuine |-> FALSE, issued |-> 0, expires |-> 2]}

=============================================================================
