------------------------------ MODULE Releases ------------------------------
(***************************************************************************)
(* The agent releases a server holds, the one it offers and the packages   *)
(* it sends (server/src/releases.rs, the handlers of server/src/api.rs and *)
(* `update` of server/src/rendezvous.rs).  One product and platform.       *)
(*                                                                         *)
(* A release is a row and a file: the file is written first and deleted    *)
(* last, in steps of their own.  Offering is one transaction; it begins    *)
(* with a write, so it runs alone.  A package is a model value, its        *)
(* version a number; those not signed by the release key never get in.     *)
(***************************************************************************)
EXTENDS Naturals, FiniteSets

CONSTANTS
    Packages,    \* packages the release key signed
    VersionOf,   \* the version each is
    Uploaders,   \* administrators' requests under way at once
    Fetchers,    \* agents asking for an update
    Downloads,   \* rendezvous.rs: DOWNLOADS, packages sent at once
    ChangeBound  \* bound: administrators' requests made in all

ASSUME ReleasesAssumption ==
    /\ Packages # {} /\ VersionOf \in [Packages -> Nat]
    /\ Downloads \in Nat /\ ChangeBound \in Nat

VARIABLES
    held,     \* the table `releases`: packages with a row
    offered,  \* those of them with `offered` set
    files,    \* packages whose file is in the folder
    task,     \* administrators' requests under way
    made,     \* how many were made
    fetch,    \* how far each agent's update got
    given,    \* the package each agent was offered
    running,  \* the version each agent runs
    seen      \* what happened, for the properties

releaseVars == <<held, offered, files, task, made, fetch, given, running, seen>>

NoTask == [op |-> "none", package |-> CHOOSE p \in Packages : TRUE]

TaskBegins(w, op, p) ==
    /\ task[w].op = "none" /\ made < ChangeBound
    /\ made' = made + 1
    /\ task' = [task EXCEPT ![w] = [op |-> op, package |-> p]]
TaskGoes(w, from, to) ==
    /\ task[w].op = from
    /\ task' = [task EXCEPT ![w].op = to]
TaskEnds(w, from) ==
    /\ task[w].op = from
    /\ task' = [task EXCEPT ![w] = NoTask]

---------------------------------------------------------------------------
(* upload_release: signature and package checked, no row with its hash ... *)
AddCheck(w, p) ==
    /\ p \notin held
    /\ TaskBegins(w, "store", p)
    /\ UNCHANGED <<held, offered, files, fetch, given, running, seen>>

(* ... its file is written under another name and renamed ... *)
AddStore(w) ==
    /\ TaskGoes(w, "store", "insert")
    /\ files' = files \cup {task[w].package}
    /\ UNCHANGED <<held, offered, made, fetch, given, running, seen>>

(* ... and its row inserted; sha256 is unique. *)
AddInsert(w) ==
    /\ TaskEnds(w, "insert")
    /\ held' = held \cup {task[w].package}
    /\ UNCHANGED <<offered, files, made, fetch, given, running, seen>>

(* offer: the row is read, then the offer moves in one transaction. *)
OfferRead(w, p) ==
    /\ p \in held
    /\ TaskBegins(w, "offer", p)
    /\ UNCHANGED <<held, offered, files, fetch, given, running, seen>>

(* A mutant: the release offered before stays on offer. *)
OfferWrite_BothStay(w) ==
    /\ TaskEnds(w, "offer")
    /\ offered' = offered \cup ({task[w].package} \cap held)
    /\ seen' = [seen EXCEPT !.late = @ \cup {v \in Uploaders :
                   task[v].op = "delete" /\ task[v].package = task[w].package}]
    /\ UNCHANGED <<held, files, made, fetch, given, running>>

OfferWrite(w) ==
    /\ TaskEnds(w, "offer")
    /\ offered' = {task[w].package} \cap held
    /\ seen' = [seen EXCEPT !.late = @ \cup {v \in Uploaders :
                   task[v].op = "delete" /\ task[v].package = task[w].package}]
    /\ UNCHANGED <<held, files, made, fetch, given, running>>

Withdrawn(p) == offered \ {p}
Withdraw(w, p) ==
    /\ p \in held /\ made < ChangeBound /\ task[w].op = "none"
    /\ made' = made + 1
    /\ offered' = Withdrawn(p)
    /\ UNCHANGED <<held, files, task, fetch, given, running, seen>>

(* delete: not while it is offered, by the row read first; then the row,   *)
(* then the file.                                                          *)
DeleteCheck(w, p) ==
    /\ p \in held /\ p \notin offered
    /\ TaskBegins(w, "delete", p)
    /\ UNCHANGED <<held, offered, files, fetch, given, running, seen>>

DeleteRowOf(w) ==
    LET p == task[w].package IN
    /\ p \in held
    /\ TaskGoes(w, "delete", "unlink")
    /\ held' = held \ {p} /\ offered' = offered \ {p}
    /\ seen' = [seen EXCEPT !.deletedOffered = @ \/ p \in offered,
                            !.raced = @ \/ (p \in offered /\ w \notin seen.late),
                            !.late = @ \ {w}]
    /\ UNCHANGED <<files, made, fetch, given, running>>

(* Another request deleted the row first: fetch_one fails, the file is left. *)
DeleteFails(w) ==
    /\ task[w].package \notin held
    /\ TaskEnds(w, "delete")
    /\ seen' = [seen EXCEPT !.late = @ \ {w}]
    /\ UNCHANGED <<held, offered, files, made, fetch, given, running>>

Unlink(w) ==
    LET p == task[w].package IN
    /\ TaskEnds(w, "unlink")
    /\ files' = files \ {p}
    /\ seen' = [seen EXCEPT !.torn = IF p \in held \/ \E v \in Uploaders :
                   task[v] = [op |-> "insert", package |-> p] THEN @ \cup {p} ELSE @]
    /\ UNCHANGED <<held, offered, made, fetch, given, running>>

(* The handlers of several steps; p is what the first of them is asked for. *)
Upload(w, p) == AddCheck(w, p) \/ (task[w].package = p /\ (AddStore(w) \/ AddInsert(w)))
OfferRelease(w, p) == OfferRead(w, p) \/ (task[w].package = p /\ OfferWrite(w))
DeleteRelease(w, p) ==
    DeleteCheck(w, p) \/ (task[w].package = p /\ (DeleteRowOf(w) \/ DeleteFails(w) \/ Unlink(w)))

---------------------------------------------------------------------------
(* update: what an agent running `version` is offered, and a place among   *)
(* the packages being sent.                                                *)
Newer(a) == {p \in offered : VersionOf[p] > running[a]}
Sending == {a \in Fetchers : fetch[a] \in {"offered", "sending"}}

(* check_update: the agent is offered p, verifies it and holds the connection. *)
Offered(a, p) ==
    /\ fetch' = [fetch EXCEPT ![a] = "offered"]
    /\ given' = [given EXCEPT ![a] = p]

Offer(a) ==
    /\ fetch[a] = "idle"
    /\ \E p \in Newer(a) :
          IF Cardinality(Sending) < Downloads
          THEN Offered(a, p)
          ELSE UNCHANGED <<fetch, given>>              \* Refusal::Busy
    /\ UNCHANGED <<held, offered, files, task, made, running, seen>>

(* The agent asks for it within FIRST_MESSAGE, or does not. *)
Fetch(a) ==
    /\ fetch[a] = "offered"
    /\ fetch' = [fetch EXCEPT ![a] = "sending"]
    /\ UNCHANGED <<held, offered, files, task, made, given, running, seen>>

(* The connection goes, the agent declines or the sending takes too long. *)
FetchDropped(a) ==
    /\ a \in Sending
    /\ fetch' = [fetch EXCEPT ![a] = "idle"]
    /\ UNCHANGED <<held, offered, files, task, made, given, running, seen>>

(* The file is opened by its hash: an open that fails ends the connection. *)
FetchFails(a) ==
    /\ fetch[a] = "sending" /\ given[a] \notin files
    /\ fetch' = [fetch EXCEPT ![a] = "idle"]
    /\ UNCHANGED <<held, offered, files, task, made, given, running, seen>>

(* Sent whole: the agent installs it, and it is what it runs. *)
FetchSent(a) ==
    /\ fetch[a] = "sending" /\ given[a] \in files
    /\ fetch' = [fetch EXCEPT ![a] = "idle"]
    /\ running' = [running EXCEPT ![a] = VersionOf[given[a]]]
    /\ UNCHANGED <<held, offered, files, task, made, given, seen>>

---------------------------------------------------------------------------
ReleasesInit ==
    /\ held = {} /\ offered = {} /\ files = {}
    /\ task = [w \in Uploaders |-> NoTask] /\ made = 0
    /\ fetch = [a \in Fetchers |-> "idle"]
    /\ given = [a \in Fetchers |-> CHOOSE p \in Packages : TRUE]
    /\ running = [a \in Fetchers |-> 0]
    /\ seen = [late |-> {}, raced |-> FALSE, deletedOffered |-> FALSE, torn |-> {}]

ReleasesNext ==
    \/ \E w \in Uploaders, p \in Packages : \/ Upload(w, p) \/ OfferRelease(w, p)
                                            \/ Withdraw(w, p) \/ DeleteRelease(w, p)
    \/ \E a \in Fetchers : \/ Offer(a) \/ Fetch(a) \/ FetchDropped(a)
                           \/ FetchFails(a) \/ FetchSent(a)

ReleasesSpec == ReleasesInit /\ [][ReleasesNext]_releaseVars

---------------------------------------------------------------------------
(* The tables and the agents keep their types, and what is offered is held. *)
ReleasesTypeOK ==
    /\ offered \subseteq held /\ held \subseteq Packages /\ files \subseteq Packages
    /\ \A a \in Fetchers : fetch[a] \in {"idle", "offered", "sending"} /\ given[a] \in Packages

(* At most one release is on offer, whatever offers overlap: the unique    *)
(* index is never what stops one.                                          *)
OneOffered == Cardinality(offered) <= 1

(* A release that is held has its package on disk, except one uploaded     *)
(* again while its deletion had its row gone and its file still to delete. *)
HeldHasFile == \A p \in held : p \in files \/ p \in seen.torn

(* A release is deleted while on offer only by a request that looked       *)
(* before it was offered.                                                  *)
DeletedOfferedOnlyLate == ~seen.raced

(* At most DOWNLOADS packages are on their way at once. *)
SendingBounded == Cardinality(Sending) <= Downloads

(* Withdrawing and offering older releases never takes an agent back: what *)
(* an agent runs only ever gets newer.                                     *)
NeverOlder == [][\A a \in Fetchers : running'[a] >= running[a]]_releaseVars

(* What Releases::delete says: not while it is offered. *)
NeverDeletedOffered == ~seen.deletedOffered

(* What the packages on offer promise, with uploads, offers, deletions and *)
(* downloads under way at once (server/src/releases.rs).                   *)
ReleasesSafe ==
    ReleasesTypeOK /\ OneOffered /\ HeldHasFile /\ DeletedOfferedOnlyLate /\ SendingBounded

====
