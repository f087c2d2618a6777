------------------------------- MODULE Users -------------------------------
(***************************************************************************)
(* The table of users, the API tokens that stand for them and the audit    *)
(* log of what they change (server/src/accounts.rs and audit.rs, through   *)
(* the handlers of server/src/api.rs and the start of server/src/main.rs). *)
(*                                                                         *)
(* A request is a task and a SQL statement is its step.  The caller is     *)
(* read once, when the request arrives, and trusted to its end.  Only the  *)
(* setup runs in a transaction: it reads a snapshot, and SQLite refuses    *)
(* its write once anyone else has written since.                           *)
(*                                                                         *)
(* Row ids are SQLite's: one more than the largest in the table, so that a *)
(* deleted last row's id is given again.                                   *)
(***************************************************************************)
EXTENDS Naturals, FiniteSets, FiniteSetsExt

CONSTANTS
    People,     \* who may become a user; a person is one user name
    Askers,     \* requests under way at once
    JobBound,   \* bound: requests made after the setup
    StartBound  \* bound: setup tokens made in all

ASSUME UsersAssumption == IsFiniteSet(Askers) /\ JobBound \in Nat /\ StartBound \in Nat

VARIABLES
    users,      \* the table `users`: id -> who it is, admin, disabled, and which insert made it
    apiTokens,  \* the table `api_tokens`: whose it is, and who was given it
    setupToken, \* whether `setup_tokens` holds a token
    job,        \* the requests under way
    jobs,       \* how many were made
    auditLog,   \* how many entries the table `audit_log` has
    past        \* what happened, for the properties

usersVars == <<users, apiTokens, setupToken, job, jobs, auditLog, past>>

UserIds == DOMAIN users
FreshId == IF UserIds = {} THEN 1 ELSE Max(UserIds) + 1
UserAt(person) == {i \in UserIds : users[i].person = person}
ActiveAdmins == {i \in UserIds : users[i].admin /\ ~users[i].disabled}

(* What update_user is asked to change: Some(true), Some(false) or None. *)
Choice == {"yes", "no", "keep"}
Chosen(choice, old) == IF choice = "keep" THEN old ELSE choice = "yes"

NoJob == [pc |-> "none", by |-> 0, who |-> 0, target |-> 0, active |-> FALSE,
          admin |-> "keep", disabled |-> "keep", stale |-> FALSE]

Busy == {a \in Askers : job[a].pc # "none"}
HasRead == {a \in Askers : job[a].pc \in {"setup", "count", "write", "deleting", "gone", "own"}}

JobGoes(a, pc) == job' = [job EXCEPT ![a].pc = pc]
JobEnds(a) == job' = [job EXCEPT ![a] = NoJob]

(* A row of `users` changes: whoever read before holds an old copy. *)
UsersWritten(a, rows, next) ==
    /\ users' = rows
    /\ job' = [b \in Askers |-> IF b = a THEN next
                                ELSE [job[b] EXCEPT !.stale = b \in HasRead]]

(* What is left of a request that made its change: to record it. *)
Done == [NoJob EXCEPT !.pc = "log"]
Changed(raced) == past' = [past EXCEPT !.raced = @ \/ raced, !.changes = @ + 1]

Inserted(p, adm) ==
    [i \in UserIds \cup {FreshId} |->
        IF i = FreshId
        THEN [person |-> p, admin |-> adm, disabled |-> FALSE, born |-> past.changes]
        ELSE users[i]]

---------------------------------------------------------------------------
(* serve and admin-link: a setup token while there are no users. *)
NewSetupToken ==
    /\ UserIds = {} /\ past.starts < StartBound
    /\ setupToken' = TRUE
    /\ past' = [past EXCEPT !.starts = @ + 1]
    /\ UNCHANGED <<users, apiTokens, job, jobs, auditLog>>

(* POST /setup *)
SetupRead(a) ==
    /\ a \notin Busy
    /\ setupToken /\ UserIds = {}
    /\ job' = [job EXCEPT ![a] = [NoJob EXCEPT !.pc = "setup"]]
    /\ UNCHANGED <<users, apiTokens, setupToken, jobs, auditLog, past>>

(* The snapshot is out of date: SQLite refuses the write. *)
SetupRefused(a) ==
    /\ job[a].pc = "setup" /\ job[a].stale
    /\ JobEnds(a)
    /\ UNCHANGED <<users, apiTokens, setupToken, jobs, auditLog, past>>

SetupWrite(a) ==
    /\ job[a].pc = "setup" /\ ~job[a].stale
    /\ \E p \in People : UsersWritten(a, Inserted(p, TRUE), Done)
    /\ setupToken' = FALSE
    /\ past' = [past EXCEPT !.setups = @ + 1, !.changes = @ + 1]
    /\ UNCHANGED <<apiTokens, jobs, auditLog>>

---------------------------------------------------------------------------
(* The extractors Caller and Admin: who is asking, read when the request  *)
(* arrives; a disabled user is nobody.                                    *)
JobAsked(a, i, pc) ==
    /\ a \notin Busy /\ jobs < JobBound
    /\ jobs' = jobs + 1
    /\ i \in UserIds /\ ~users[i].disabled
    /\ pc # "own" => users[i].admin
    /\ \E t \in (IF pc \in {"create", "own"} THEN {0} ELSE UserIds) :
          job' = [job EXCEPT ![a] =
                    IF pc = "own"
                    THEN [NoJob EXCEPT !.pc = pc, !.by = i, !.who = users[i].born]
                    ELSE [NoJob EXCEPT !.pc = pc, !.target = t]]
    /\ UNCHANGED <<users, apiTokens, setupToken, auditLog, past>>

(* create_user: the password is hashed before the row is inserted, and the *)
(* name is unique.                                                         *)
CreateUser(a) ==
    /\ job[a].pc = "create"
    /\ \E p \in People, adm \in BOOLEAN :
          IF UserAt(p) = {}
          THEN UsersWritten(a, Inserted(p, adm), Done) /\ Changed(FALSE)
          ELSE JobEnds(a) /\ UNCHANGED <<users, past>>
    /\ UNCHANGED <<apiTokens, setupToken, jobs, auditLog>>

(* update_user: the row is read ... *)
UpdateRead(a) ==
    /\ job[a].pc = "update"
    /\ \E adm \in Choice, dis \in Choice :
          /\ adm # "keep" \/ dis # "keep"
          /\ IF job[a].target \in UserIds
             THEN LET row == users[job[a].target]
                      losing == row.admin /\ ~row.disabled /\ (adm = "no" \/ dis = "yes")
                  IN job' = [job EXCEPT ![a] =
                        [@ EXCEPT !.pc = IF losing THEN "count" ELSE "write",
                                  !.admin = adm, !.disabled = dis, !.stale = FALSE]]
             ELSE JobEnds(a)
    /\ UNCHANGED <<users, apiTokens, setupToken, jobs, auditLog, past>>

(* A mutant: the one who is asked about is not counted as one of them. *)
UpdateCount_OffByOne(a) ==
    /\ job[a].pc = "count"
    /\ IF Cardinality(ActiveAdmins) <= 0 THEN JobEnds(a) ELSE JobGoes(a, "write")
    /\ UNCHANGED <<users, apiTokens, setupToken, jobs, auditLog, past>>

(* ... the active administrators are counted ... *)
UpdateCount(a) ==
    /\ job[a].pc = "count"
    /\ IF Cardinality(ActiveAdmins) <= 1 THEN JobEnds(a) ELSE JobGoes(a, "write")
    /\ UNCHANGED <<users, apiTokens, setupToken, jobs, auditLog, past>>

(* ... and the row is changed, `admin` and `disabled` in one statement each. *)
UpdateWrite(a) ==
    LET i == job[a].target
        both == job[a].admin # "keep" /\ job[a].disabled # "keep"
        field(row) == IF job[a].admin # "keep"
                      THEN [row EXCEPT !.admin = Chosen(job[a].admin, @)]
                      ELSE [row EXCEPT !.disabled = Chosen(job[a].disabled, @)]
    IN
    /\ job[a].pc = "write"
    /\ UsersWritten(a, [j \in UserIds |-> IF j = i THEN field(users[j]) ELSE users[j]],
                       CASE both -> [job[a] EXCEPT !.admin = "keep"]
                         [] ~both /\ i \in UserIds -> Done
                         [] OTHER -> NoJob)
    /\ past' = [past EXCEPT !.raced = @ \/ job[a].stale,
                            !.changes = IF ~both /\ i \in UserIds THEN @ + 1 ELSE @]
    /\ UNCHANGED <<apiTokens, setupToken, jobs, auditLog>>

(* delete_user: the same look first; the tokens go with the row. *)
DeleteRead(a) ==
    /\ job[a].pc = "delete"
    /\ IF job[a].target \in UserIds
       THEN job' = [job EXCEPT ![a] = [@ EXCEPT !.pc = "deleting", !.stale = FALSE,
                                                !.active = job[a].target \in ActiveAdmins]]
       ELSE JobEnds(a)
    /\ UNCHANGED <<users, apiTokens, setupToken, jobs, auditLog, past>>

DeleteCount(a) ==
    /\ job[a].pc = "deleting"
    /\ IF job[a].active /\ Cardinality(ActiveAdmins) <= 1
       THEN JobEnds(a)
       ELSE JobGoes(a, "gone")
    /\ UNCHANGED <<users, apiTokens, setupToken, jobs, auditLog, past>>

DeleteWrite(a) ==
    LET i == job[a].target IN
    /\ job[a].pc = "gone"
    /\ UsersWritten(a, [j \in UserIds \ {i} |-> users[j]], Done)
    /\ Changed(job[a].stale)
    /\ apiTokens' = {t \in apiTokens : t.owner # i}
    /\ UNCHANGED <<setupToken, jobs, auditLog>>

(* new_api_token: for the id the caller had when the request arrived; the *)
(* schema refuses one that is no row by now.                              *)
TokenFor(owner, person) == [owner |-> owner, for |-> person]
NewApiToken(a) ==
    /\ job[a].pc = "own"
    /\ IF job[a].by \in UserIds
       THEN /\ apiTokens' = apiTokens \cup {TokenFor(job[a].by, job[a].who)}
            /\ job' = [job EXCEPT ![a] = Done]
            /\ Changed(job[a].stale)
       ELSE JobEnds(a) /\ UNCHANGED <<apiTokens, past>>
    /\ UNCHANGED <<users, setupToken, jobs, auditLog>>

(* delete_api_token: only one's own. *)
OwnTokens(owner) == {t \in apiTokens : t.owner = owner}
DeleteApiToken(a) ==
    /\ job[a].pc = "own"
    /\ \E t \in OwnTokens(job[a].by) : apiTokens' = apiTokens \ {t}
    /\ job' = [job EXCEPT ![a] = Done]
    /\ Changed(FALSE)
    /\ UNCHANGED <<users, setupToken, jobs, auditLog>>

(* Audit::record, the last thing a handler does. *)
Record(a) ==
    /\ job[a].pc = "log"
    /\ auditLog' = auditLog + 1
    /\ JobEnds(a)
    /\ UNCHANGED <<users, apiTokens, setupToken, jobs, past>>

(* The client leaves and its handler is dropped, after a change or before. *)
JobCut(a) ==
    /\ a \in Busy
    /\ JobEnds(a)
    /\ past' = [past EXCEPT !.cut = TRUE]
    /\ UNCHANGED <<users, apiTokens, setupToken, jobs, auditLog>>

---------------------------------------------------------------------------
UsersInit ==
    /\ users = << >> /\ apiTokens = {} /\ setupToken = FALSE
    /\ job = [a \in Askers |-> NoJob] /\ jobs = 0 /\ auditLog = 0
    /\ past = [raced |-> FALSE, cut |-> FALSE, changes |-> 0, setups |-> 0, starts |-> 0]

(* The handlers of several steps. *)
UpdateUser(a) == UpdateRead(a) \/ UpdateCount(a) \/ UpdateWrite(a)
DeleteUser(a) == DeleteRead(a) \/ DeleteCount(a) \/ DeleteWrite(a)

JobStep(a) ==
    \/ SetupRefused(a) \/ SetupWrite(a) \/ CreateUser(a)
    \/ UpdateUser(a) \/ DeleteUser(a)
    \/ NewApiToken(a) \/ DeleteApiToken(a) \/ Record(a)

UsersNext ==
    \/ NewSetupToken
    \/ \E a \in Askers : SetupRead(a) \/ JobCut(a) \/ JobStep(a)
    \/ \E a \in Askers, i \in UserIds, pc \in {"create", "update", "delete", "own"} :
          JobAsked(a, i, pc)

UsersSpec == UsersInit /\ [][UsersNext]_usersVars

---------------------------------------------------------------------------
(* The tables and the requests keep their types. *)
UsersTypeOK ==
    /\ UserIds \subseteq 1..past.changes
    /\ \A i \in UserIds : users[i].person \in People /\ users[i].born \in 0..past.changes
    /\ \A t \in apiTokens : t.owner \in UserIds /\ t.for \in 0..past.changes
    /\ \A a \in Askers : job[a].stale \in BOOLEAN /\ job[a].target \in 0..past.changes
    /\ auditLog <= past.changes /\ jobs \in 0..JobBound

(* Someone is left to administer: once there are users, one is an active   *)
(* administrator, whatever is demoted, disabled or deleted and in whatever *)
(* order - as long as no change was made on a row read before another.     *)
AdminLeftUnlessRaced == UserIds # {} /\ ~past.raced => ActiveAdmins # {}

(* What update_user's comment says without the exception. *)
LastAdminStays == UserIds # {} => ActiveAdmins # {}

(* A setup token makes one administrator, however many requests use it at  *)
(* once: the transaction's snapshot lets one of them write.                *)
SetupOnce == past.setups <= past.starts

(* An API token acts for the person who was given it - also when ids are   *)
(* given again - as long as the caller's row had not changed meanwhile.    *)
TokensOnesOwn ==
    ~past.raced => \A t \in apiTokens : users[t.owner].born = t.for

(* Every change goes in the audit log, once its request is over - as long  *)
(* as no client left before the end of its request.                        *)
ChangesRecorded == ~past.cut /\ Busy = {} => auditLog = past.changes

(* What the account handlers promise between them: an administrator is     *)
(* left, the first one is made once, an API token is its owner's, and a    *)
(* change is in the audit log unless its request was cut short             *)
(* (server/src/accounts.rs, api.rs).                                       *)
UsersSafe == UsersTypeOK /\ AdminLeftUnlessRaced /\ SetupOnce /\ TokensOnesOwn /\ ChangesRecorded

====
