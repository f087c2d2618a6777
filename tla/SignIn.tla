------------------------------ MODULE SignIn ------------------------------
(***************************************************************************)
(* One account of the server: its password, its second factor and the      *)
(* console sessions it is signed in with (server/src/accounts.rs, totp.rs, *)
(* and the handlers of server/src/api.rs that call them).                  *)
(*                                                                         *)
(* A request is a task.  Every SQL statement is one step: the pool has     *)
(* eight connections and no request but the setup holds a transaction, so  *)
(* statements of different requests interleave.  A request whose client    *)
(* leaves is dropped at any of its awaits (Cut).                           *)
(*                                                                         *)
(* Passwords and secrets are numbers, a code is the secret and the         *)
(* 30-second step it was made for; nothing else of them is told apart.     *)
(***************************************************************************)
EXTENDS Window, FiniteSets, SequencesExt

CONSTANTS
    Clients,        \* requests under way at once
    SignInKeys,     \* what a sign-in is limited by: its address and the name
    Passwords,      \* passwords anyone tries; 1 is the account's at first
    Attempts,       \* accounts.rs: ATTEMPTS
    AttemptWindow,  \* ATTEMPT_WINDOW, in steps of the clock
    LoginLifetime,  \* LOGIN_LIFETIME, in steps of the clock
    SecretBound,    \* bound: how often a new secret is made
    AskBound,       \* bound: requests made in all
    ClockBound      \* bound: steps of the clock

ASSUME SignInAssumption ==
    /\ IsFiniteSet(Clients) /\ SignInKeys # {} /\ 1 \in Passwords
    /\ Attempts \in Nat \ {0} /\ AttemptWindow \in Nat \ {0} /\ LoginLifetime \in Nat
    /\ SecretBound \in Nat /\ AskBound \in Nat /\ ClockBound \in Nat \ {0}

VARIABLES
    account,    \* the row of the table `users`
    logins,     \* the table `logins`
    attempts,   \* Accounts::attempts, the times of wrong tries by key
    asking,     \* the requests under way
    clock,      \* the current 30-second step
    secrets,    \* how many secrets were made
    asked,      \* how many requests were made
    history     \* what happened, for the properties

signInVars == <<account, logins, attempts, asking, clock, secrets, asked, history>>

NoSecret == 0
NoStep == 0     \* totp_last_step NULL; the clock starts at 1
NoCode == <<0, 0>>

FirstRow == [password |-> 1, secret |-> NoSecret, pending |-> NoSecret, last |-> NoStep,
             disabled |-> FALSE]

(* What a request carries, its password and its code, matters first where  *)
(* it is compared with the row, and is chosen there.                       *)
NoRequest == [pc |-> "none", row |-> FirstRow, step |-> NoStep, stale |-> FALSE]

Codes == {NoCode} \cup (1..secrets) \X ((clock - 1)..(clock + 1))

(* totp::verify: the step a code is right for, one step either side of now. *)
Verify(secret, code) ==
    IF code[1] = secret /\ code[2] \in (clock - 1)..(clock + 1) THEN code[2] ELSE NoStep

(* session_user honours a login while it lasts and the user is enabled. *)
Honoured == {l \in logins : l.expires > clock /\ ~account.disabled}

(* Accounts::may_try, which first drops the keys whose last time is past. *)
Lapsed(times) == times # <<>> /\ Aged(Last(times), clock, AttemptWindow)
Kept == [key \in SignInKeys |-> IF Lapsed(attempts[key]) THEN <<>> ELSE attempts[key]]
MayTry(key) == Len(Kept[key]) < Attempts

(* Accounts::failed: of these keys, times past the window leave from the front. *)
Within(times) == PopOld(times, clock, AttemptWindow)
Failed == [key \in SignInKeys |-> Append(Within(attempts[key]), clock)]

---------------------------------------------------------------------------
(* How a request moves on. *)

UnderWay == {c \in Clients : asking[c].pc # "none"}

HoldsRow == {c \in Clients :
               asking[c].pc \in {"verify", "step", "login", "changing", "confirming", "turning off"}}

Asks(c, pc) ==
    /\ c \notin UnderWay
    /\ asked < AskBound
    /\ asked' = asked + 1
    /\ asking' = [asking EXCEPT ![c] = [NoRequest EXCEPT !.pc = pc]]

Goes(c, pc) == asking' = [asking EXCEPT ![c].pc = pc]
Ends(c) == asking' = [asking EXCEPT ![c] = NoRequest]

(* SELECT ... FROM users: what the request goes on with. *)
Reads(c, pc, step) ==
    asking' = [asking EXCEPT ![c] = [pc |-> pc, row |-> account, step |-> step, stale |-> FALSE]]

(* UPDATE users: those under way that read the row before hold an old copy. *)
Writes(c, row, next) ==
    /\ account' = row
    /\ asking' = [d \in Clients |->
                    IF d = c THEN next
                    ELSE [asking[d] EXCEPT !.stale = d \in HoldsRow]]

Raced(c) == history.raced \/ asking[c].stale

---------------------------------------------------------------------------
(* POST /login: sign_in. *)

Ask(c) ==
    /\ Asks(c, "try")
    /\ UNCHANGED <<account, logins, attempts, clock, secrets, history>>

SignInTry(c) ==
    /\ asking[c].pc = "try"
    /\ attempts' = Kept
    /\ IF \A key \in SignInKeys : MayTry(key) THEN Goes(c, "read") ELSE Ends(c)
    /\ UNCHANGED <<account, logins, clock, secrets, asked, history>>

SignInRead(c) ==
    /\ asking[c].pc = "read"
    /\ Reads(c, "verify", NoStep)
    /\ UNCHANGED <<account, logins, attempts, clock, secrets, asked, history>>

(* verify_password took its time; sign_in decides from the row it read. *)
SignInWrong(c) ==
    LET row == asking[c].row IN
    /\ asking[c].pc = "verify"
    /\ \/ \E p \in Passwords : p # row.password
       \/ /\ ~row.disabled /\ row.secret # NoSecret
          /\ \E code \in Codes \ {NoCode} : Verify(row.secret, code) <= row.last
    /\ attempts' = Failed
    /\ history' = [history EXCEPT !.wrong = Append(Within(@), clock)]
    /\ Ends(c)
    /\ UNCHANGED <<account, logins, clock, secrets, asked>>

(* The right password, but disabled, or the code is still to be asked for: *)
(* no attempt is counted.                                                  *)
SignInRefused(c) ==
    /\ asking[c].pc = "verify"
    /\ asking[c].row.disabled \/ asking[c].row.secret # NoSecret
    /\ Ends(c)
    /\ UNCHANGED <<account, logins, attempts, clock, secrets, asked, history>>

SignInRight(c) ==
    LET row == asking[c].row IN
    /\ asking[c].pc = "verify" /\ ~row.disabled
    /\ \/ row.secret = NoSecret /\ Goes(c, "login")
       \/ /\ row.secret # NoSecret
          /\ \E code \in Codes \ {NoCode} :
                /\ Verify(row.secret, code) > row.last
                /\ asking' = [asking EXCEPT ![c] = [@ EXCEPT !.pc = "step", !.step = code[2]]]
    /\ UNCHANGED <<account, logins, attempts, clock, secrets, asked, history>>

(* A mutant: the step a code was good for is not remembered. *)
SignInStep_NotRemembered(c) ==
    LET code == <<asking[c].row.secret, asking[c].step>> IN
    /\ asking[c].pc = "step"
    /\ Writes(c, account, [asking[c] EXCEPT !.pc = "login"])
    /\ history' = [history EXCEPT !.raced = Raced(c), !.used = @ \cup {code},
                                  !.twice = @ \/ code \in history.used]
    /\ UNCHANGED <<logins, attempts, clock, secrets, asked>>

(* UPDATE users SET totp_last_step *)
SignInStep(c) ==
    LET code == <<asking[c].row.secret, asking[c].step>> IN
    /\ asking[c].pc = "step"
    /\ Writes(c, [account EXCEPT !.last = asking[c].step], [asking[c] EXCEPT !.pc = "login"])
    /\ history' = [history EXCEPT !.raced = Raced(c), !.used = @ \cup {code},
                                  !.twice = @ \/ code \in history.used]
    /\ UNCHANGED <<logins, attempts, clock, secrets, asked>>

(* INSERT INTO logins *)
SignInLogin(c) ==
    /\ asking[c].pc = "login"
    /\ logins' = logins \cup {[password |-> asking[c].row.password,
                               expires |-> clock + LoginLifetime]}
    /\ history' = [history EXCEPT !.raced = Raced(c)]
    /\ Ends(c)
    /\ UNCHANGED <<account, attempts, clock, secrets, asked>>

(* POST /logout *)
SignedOut(l) == logins \ {l}
SignOut ==
    /\ \E l \in logins : logins' = SignedOut(l)
    /\ UNCHANGED <<account, attempts, asking, clock, secrets, asked, history>>

---------------------------------------------------------------------------
(* What a signed-in caller does.  api.rs takes an API token for the caller *)
(* as well, which outlasts every session, so only a disabled user may not. *)

MayCall == ~account.disabled

CallerAsks(c) ==
    /\ MayCall
    /\ \E pc \in {"change", "confirm", "off"} : Asks(c, pc)
    /\ UNCHANGED <<account, logins, attempts, clock, secrets, history>>

(* change_password: the row is read and the current password verified. *)
ChangeRead(c) ==
    /\ asking[c].pc = "change"
    /\ \E p \in Passwords :
          IF p = account.password THEN Reads(c, "changing", NoStep) ELSE Ends(c)
    /\ UNCHANGED <<account, logins, attempts, clock, secrets, asked, history>>

ChangeWrite(c) ==
    /\ asking[c].pc = "changing"
    /\ \E new \in Passwords :
          Writes(c, [account EXCEPT !.password = new],
                    [asking[c] EXCEPT !.pc = "logouts", !.stale = FALSE])
    /\ history' = [history EXCEPT !.raced = Raced(c)]
    /\ UNCHANGED <<logins, attempts, clock, secrets, asked>>

(* DELETE FROM logins WHERE user_id: of change_password, and of update_user *)
(* when it disables.                                                        *)
Logouts(c) ==
    /\ asking[c].pc = "logouts"
    /\ logins' = {}
    /\ Ends(c)
    /\ UNCHANGED <<account, attempts, clock, secrets, asked, history>>

(* totp_begin: one statement. *)
TotpBegin(c) ==
    /\ MayCall /\ c \notin UnderWay
    /\ secrets < SecretBound
    /\ secrets' = secrets + 1
    /\ Writes(c, [account EXCEPT !.pending = secrets + 1], NoRequest)
    /\ UNCHANGED <<logins, attempts, clock, asked, history>>

(* totp_confirm checks the code against the pending secret it reads ... *)
ConfirmRead(c) ==
    /\ asking[c].pc = "confirm"
    /\ \E code \in Codes :
          IF account.pending # NoSecret /\ Verify(account.pending, code) # NoStep
          THEN Reads(c, "confirming", code[2])
          ELSE Ends(c)
    /\ UNCHANGED <<account, logins, attempts, clock, secrets, asked, history>>

(* ... and puts in force whatever is pending when it writes. *)
ConfirmWrite(c) ==
    LET checked == asking[c].row.pending IN
    /\ asking[c].pc = "confirming"
    /\ Writes(c, [account EXCEPT !.secret = account.pending, !.pending = NoSecret,
                                 !.last = asking[c].step], NoRequest)
    /\ history' = [history EXCEPT !.raced = Raced(c), !.confirmed = @ \cup {checked},
                                  !.used = @ \cup {<<checked, asking[c].step>>}]
    /\ UNCHANGED <<logins, attempts, clock, secrets, asked>>

(* totp_disable: a code that is right now, used before or not. *)
OffRead(c) ==
    /\ asking[c].pc = "off"
    /\ \E code \in Codes :
          IF account.secret # NoSecret /\ Verify(account.secret, code) # NoStep
          THEN Reads(c, "turning off", NoStep)
          ELSE Ends(c)
    /\ UNCHANGED <<account, logins, attempts, clock, secrets, asked, history>>

OffWrite(c) ==
    /\ asking[c].pc = "turning off"
    /\ Writes(c, [account EXCEPT !.secret = NoSecret, !.last = NoStep], NoRequest)
    /\ history' = [history EXCEPT !.raced = Raced(c)]
    /\ UNCHANGED <<logins, attempts, clock, secrets, asked>>

---------------------------------------------------------------------------
(* An administrator's PATCH of `disabled` (Users models update_user whole). *)

SetDisabled(c) ==
    /\ c \notin UnderWay /\ asked < AskBound
    /\ asked' = asked + 1
    /\ \/ Writes(c, [account EXCEPT !.disabled = FALSE], NoRequest)
       \/ Writes(c, [account EXCEPT !.disabled = TRUE], [NoRequest EXCEPT !.pc = "logouts"])
    /\ UNCHANGED <<logins, attempts, clock, secrets, history>>

(* The client leaves: its handler is dropped where it waits. *)
Cut(c) ==
    /\ c \in UnderWay
    /\ Ends(c)
    /\ history' = [history EXCEPT !.cut = @ \/ asking[c].pc = "logouts"]
    /\ UNCHANGED <<account, logins, attempts, clock, secrets, asked>>

(* housekeeping::sweep *)
Sweep ==
    /\ \E l \in logins : l.expires < clock
    /\ logins' = {l \in logins : l.expires >= clock}
    /\ UNCHANGED <<account, attempts, asking, clock, secrets, asked, history>>

SignInTick ==
    /\ clock < ClockBound
    /\ clock' = clock + 1
    /\ UNCHANGED <<account, logins, attempts, asking, secrets, asked, history>>

---------------------------------------------------------------------------
SignInInit ==
    /\ account = FirstRow
    /\ logins = {}
    /\ attempts = [key \in SignInKeys |-> <<>>]
    /\ asking = [c \in Clients |-> NoRequest]
    /\ clock = 1
    /\ secrets = 0
    /\ asked = 0
    /\ history = [raced |-> FALSE, cut |-> FALSE, twice |-> FALSE, used |-> {},
                  confirmed |-> {}, wrong |-> <<>>]

(* The handlers of several steps. *)
Login(c) ==
    \/ SignInTry(c) \/ SignInRead(c) \/ SignInWrong(c) \/ SignInRefused(c)
    \/ SignInRight(c) \/ SignInStep(c) \/ SignInLogin(c)
ChangePassword(c) == ChangeRead(c) \/ ChangeWrite(c) \/ Logouts(c)
TotpConfirm(c) == ConfirmRead(c) \/ ConfirmWrite(c)
TotpDisable(c) == OffRead(c) \/ OffWrite(c)

SignInStepOf(c) ==
    Login(c) \/ ChangePassword(c) \/ TotpConfirm(c) \/ TotpDisable(c)

SignInNext ==
    \/ \E c \in Clients : Ask(c) \/ CallerAsks(c) \/ TotpBegin(c) \/ SetDisabled(c) \/ Cut(c)
    \/ \E c \in Clients : SignInStepOf(c)
    \/ SignOut \/ Sweep \/ SignInTick

SignInSpec == SignInInit /\ [][SignInNext]_signInVars

---------------------------------------------------------------------------
(* The fields of accounts.rs and of the schema keep their types. *)
SignInTypeOK ==
    /\ account \in [password : Passwords, secret : 0..SecretBound, pending : 0..SecretBound,
                    last : 0..(ClockBound + 1), disabled : BOOLEAN]
    /\ \A l \in logins : l.password \in Passwords /\ l.expires \in Nat
    /\ attempts \in [SignInKeys -> Seq(1..ClockBound)]
    /\ \A c \in Clients : asking[c].step \in 0..(ClockBound + 1) /\ asking[c].stale \in BOOLEAN
    /\ clock \in 1..ClockBound /\ secrets \in 0..SecretBound /\ asked \in 0..AskBound

(* Guessing is limited: may_try looks before the password is hashed and    *)
(* failed counts after it, so sign-ins that overlap may all get past the   *)
(* look, but however they interleave, the wrong tries within one window    *)
(* exceed ATTEMPTS by less than the number of sign-ins under way at once.  *)
GuessesLimited == Len(Within(history.wrong)) < Attempts + Cardinality(Clients)

(* Each code works once - the sign-ins after a confirmation or another     *)
(* sign-in with the same code are refused - as long as no request wrote    *)
(* over a row that had changed since it read it.                           *)
CodeOnceUnlessRaced == ~history.raced => ~history.twice

(* The secret in force is one that was confirmed with a code from it, as   *)
(* long as no request wrote over a changed row.                            *)
InForceConfirmed ==
    ~history.raced /\ account.secret # NoSecret => account.secret \in history.confirmed

(* Changing the password ends the sessions of whoever knew the old one,    *)
(* and disabling ends them all, so that enabling brings none back: once no *)
(* such change is between its two statements, every session was opened     *)
(* with the password the account has - as long as no request raced         *)
(* another and none was cut short between the statements.                  *)
OldSessionsGone ==
    ~history.raced /\ ~history.cut /\ (\A c \in Clients : asking[c].pc # "logouts") =>
        /\ \A l \in logins : l.password = account.password
        /\ account.disabled => logins = {}

(* The daily sweep changes nothing but the size of the file: no session    *)
(* that was honoured stops being honoured by it.                           *)
SweepHarmless == [][Sweep => Honoured' = Honoured]_signInVars

(* What accounts.rs says of TOTP: each code works once. *)
CodeWorksOnce == ~history.twice

(* What a sign-in promises, all of it: limited guessing, a code that works *)
(* once and a second factor that was confirmed unless requests raced, no   *)
(* session left behind by a changed password (server/src/accounts.rs).     *)
SignInSafe ==
    SignInTypeOK /\ GuessesLimited /\ CodeOnceUnlessRaced /\ InForceConfirmed /\ OldSessionsGone

====
