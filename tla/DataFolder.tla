----------------------------- MODULE DataFolder -----------------------------
(***************************************************************************)
(* The server's data folder: the key agents pinned, the database and the   *)
(* HTTPS certificate, and the commands that make, read and copy them while *)
(* other commands run: serve and migrate (server/src/main.rs), doctor,     *)
(* backup, and a restore done as backup prints it.                         *)
(*                                                                         *)
(* A command is a process of its own, so its steps interleave with those   *)
(* of the others and a crash may fall between any two.  Writing a file is  *)
(* two steps: it is opened, which empties it, and then filled.  A file is  *)
(* known by who made its contents: 0 is no file, Torn one opened and not   *)
(* yet filled, n the n-th thing generated.  The database is a file and a   *)
(* write-ahead log beside it, of which the rows in each are counted.       *)
(***************************************************************************)
EXTENDS Integers, FiniteSets

CONSTANTS
    Procs,       \* processes that run a command
    MakeBound,   \* bound: keys and certificates generated
    WriteBound,  \* bound: rows written
    RunBound     \* bound: commands started

ASSUME FolderAssumption ==
    IsFiniteSet(Procs) /\ MakeBound \in Nat /\ WriteBound \in Nat /\ RunBound \in Nat

Torn == -1
Whole(file) == file > 0
Commands == {"serve", "migrate", "doctor", "backup"}

VARIABLES
    disk,    \* the files: key, its `.partial`, crt, crtKey, and the database
    proc,    \* each process: its command, where it is, the identity in memory
    port,    \* who is bound to the UDP port, or the empty set
    pinned,  \* the server keys agents have pinned
    copy,    \* the backup folder
    hist     \* what is counted, and what happened that the promises except

folderVars == <<disk, proc, port, pinned, copy, hist>>

Idle == [cmd |-> "none", at |-> "off", key |-> 0, new |-> 0, into |-> "partial"]
NoCopy == [state |-> "none", key |-> 0, rows |-> 0, since |-> 0, crt |-> 0, crtKey |-> 0]

At(p, where) == proc[p].at = where
MovesTo(p, where) == proc' = [proc EXCEPT ![p].at = where]
Exits(p) == proc' = [proc EXCEPT ![p] = Idle]

(* The rows the database holds: those in the file and those in its log. *)
Rows == disk.main + disk.wal
MakingKey == {p \in Procs : proc[p].at \in {"keyOpen", "keyFill", "keyRename"}}
MakingPair == {p \in Procs : proc[p].at \in {"pemKeyOpen", "pemKeyFill", "crtOpen", "crtFill"}}
Serving == {p \in Procs : proc[p].cmd = "serve" /\ proc[p].at = "up"}

(* Who has the database open: to write, from db::open to the process's end,
   or as a backup, while it copies it. *)
HasPool ==
    {p \in Procs : \/ proc[p].at = "rows"
                   \/ /\ proc[p].cmd = "serve"
                      /\ proc[p].at \in {"pair", "pemKeyOpen", "pemKeyFill", "crtOpen", "crtFill",
                                         "pairRead", "up"}}
Reading == {p \in Procs : At(p, "copyRows")}

(* pool.close().  SQLite moves the log into the file when the last to have
   the database open closes it, and leaves it when that is a backup, which
   only reads. *)
ClosesPool(p) ==
    /\ disk' = IF HasPool = {p} /\ Reading = {} THEN [disk EXCEPT !.main = Rows, !.wal = 0]
                                               ELSE disk
    /\ hist' = IF HasPool = {p} THEN [hist EXCEPT !.leftOpen = Reading # {}] ELSE hist

(* The pool is dropped and never closed: the process may be gone before its
   threads have closed the database, and the log stays. *)
DropsPool(p) ==
    \/ ClosesPool(p)
    \/ disk' = disk /\ hist' = [hist EXCEPT !.leftOpen = TRUE]

(* A command is started; serve and migrate make the folder first.  admin-link
   does to the folder what migrate does, and is one with it here. *)
RunsCommand(p, cmd) ==
    /\ At(p, "off") /\ hist.runs < RunBound /\ ~hist.lost
    /\ hist' = [hist EXCEPT !.runs = @ + 1]
    /\ disk' = IF cmd \in {"serve", "migrate"} THEN [disk EXCEPT !.there = TRUE] ELSE disk
    /\ proc' = [proc EXCEPT ![p] = [Idle EXCEPT !.cmd = cmd,
            !.at = CASE cmd = "serve" -> "keyRead" [] cmd = "migrate" -> "database"
                     [] cmd = "doctor" -> "pair" [] cmd = "backup" -> "copyKey"]]
    /\ UNCHANGED <<port, pinned, copy>>

(* Identity::load_or_create: the key is read, and made if there is none. *)
KeyRead(p) ==
    /\ At(p, "keyRead")
    /\ \/ /\ Whole(disk.key)
          /\ proc' = [proc EXCEPT ![p].at = "bind", ![p].key = disk.key]
       \/ /\ disk.key = Torn /\ Exits(p)
       \/ /\ disk.key = 0 /\ MovesTo(p, "keyOpen")
    /\ UNCHANGED <<disk, port, pinned, copy, hist>>

KeyOpen_InPlace(p) ==
    /\ At(p, "keyOpen") /\ hist.made < MakeBound
    /\ disk' = [disk EXCEPT !.key = Torn]
    /\ proc' = [proc EXCEPT ![p].at = "keyFill", ![p].new = hist.made + 1, ![p].into = "key"]
    /\ hist' = [hist EXCEPT !.made = @ + 1, !.keysRaced = @ \/ Cardinality(MakingKey) > 1]
    /\ UNCHANGED <<port, pinned, copy>>

(* It is written aside first ... *)
KeyOpen(p) ==
    /\ At(p, "keyOpen") /\ hist.made < MakeBound
    /\ disk' = [disk EXCEPT !.partial = Torn]
    /\ proc' = [proc EXCEPT ![p].at = "keyFill", ![p].new = hist.made + 1, ![p].into = "partial"]
    /\ hist' = [hist EXCEPT !.made = @ + 1, !.keysRaced = @ \/ Cardinality(MakingKey) > 1]
    /\ UNCHANGED <<port, pinned, copy>>

KeyFill(p) ==
    /\ At(p, "keyFill")
    /\ disk' = IF proc[p].into = "partial" THEN [disk EXCEPT !.partial = proc[p].new]
                                           ELSE [disk EXCEPT !.key = proc[p].new]
    /\ MovesTo(p, "keyRename")
    /\ UNCHANGED <<port, pinned, copy, hist>>

(* ... and renamed; whoever still writes that file writes on in the renamed
   one.  Without a file to rename it is an error. *)
KeyRename(p) ==
    /\ At(p, "keyRename")
    /\ \/ /\ disk.partial # 0
          /\ disk' = [disk EXCEPT !.key = disk.partial, !.partial = 0]
          /\ proc' = [q \in Procs |->
                CASE q = p -> [proc[q] EXCEPT !.at = "bind", !.key = proc[p].new]
                  [] q # p /\ proc[q].at = "keyFill" -> [proc[q] EXCEPT !.into = "key"]
                  [] OTHER -> proc[q]]
       \/ /\ disk.partial = 0 /\ Exits(p)
          /\ UNCHANGED disk
    /\ hist' = [hist EXCEPT !.keysRaced = @ \/ Cardinality(MakingKey) > 1]
    /\ UNCHANGED <<port, pinned, copy>>

(* Endpoint::server: the port is taken, or someone else has it. *)
Binds(p) ==
    /\ At(p, "bind")
    /\ \/ port = {} /\ port' = {p} /\ MovesTo(p, "database")
       \/ port # {} /\ Exits(p) /\ UNCHANGED port
    /\ UNCHANGED <<disk, pinned, copy, hist>>

(* db::open makes the database if it is missing, and reads a log that lies
   beside it as its own.  serve goes on to its certificate; what it writes,
   and what migrate and admin-link write, is WritesRow. *)
OpensDatabase(p) ==
    /\ At(p, "database")
    /\ disk' = [disk EXCEPT !.database = TRUE, !.mixed = @ \/ disk.stale, !.stale = FALSE]
    /\ MovesTo(p, IF proc[p].cmd = "serve" THEN "pair" ELSE "rows")
    /\ UNCHANGED <<port, pinned, copy, hist>>

(* migrate and admin-link return without closing the pool. *)
EndsUnclosed(p) ==
    /\ At(p, "rows")
    /\ DropsPool(p) /\ Exits(p)
    /\ UNCHANGED <<port, pinned, copy>>

(* https::self_signed: the pair in the folder, made if either is missing.
   Without a folder nothing can be written, and doctor only says so. *)
LooksForPair(p) ==
    /\ At(p, "pair")
    /\ MovesTo(p, CASE disk.crt # 0 /\ disk.crtKey # 0 -> "pairRead"
                 [] ~(disk.crt # 0 /\ disk.crtKey # 0) /\ disk.there -> "pemKeyOpen"
                 [] OTHER -> "tryPort")
    /\ UNCHANGED <<disk, port, pinned, copy, hist>>

PemKeyOpen_CertFirst(p) ==
    /\ At(p, "pemKeyOpen") /\ hist.made < MakeBound
    /\ disk' = [disk EXCEPT !.crtKey = Torn, !.crt = hist.made + 1]
    /\ proc' = [proc EXCEPT ![p].at = "pemKeyFill", ![p].new = hist.made + 1]
    /\ hist' = [hist EXCEPT !.made = @ + 1, !.pairsRaced = @ \/ Cardinality(MakingPair) > 1]
    /\ UNCHANGED <<port, pinned, copy>>

PemKeyOpen(p) ==
    /\ At(p, "pemKeyOpen") /\ hist.made < MakeBound
    /\ disk' = [disk EXCEPT !.crtKey = Torn]
    /\ proc' = [proc EXCEPT ![p].at = "pemKeyFill", ![p].new = hist.made + 1]
    /\ hist' = [hist EXCEPT !.made = @ + 1, !.pairsRaced = @ \/ Cardinality(MakingPair) > 1]
    /\ UNCHANGED <<port, pinned, copy>>

PemKeyFill(p) ==
    /\ At(p, "pemKeyFill")
    /\ disk' = [disk EXCEPT !.crtKey = proc[p].new]
    /\ MovesTo(p, "crtOpen")
    /\ UNCHANGED <<port, pinned, copy, hist>>

CrtOpen(p) ==
    /\ At(p, "crtOpen")
    /\ disk' = [disk EXCEPT !.crt = Torn]
    /\ MovesTo(p, "crtFill")
    /\ UNCHANGED <<port, pinned, copy, hist>>

CrtFill(p) ==
    /\ At(p, "crtFill")
    /\ disk' = [disk EXCEPT !.crt = proc[p].new]
    /\ MovesTo(p, "pairRead")
    /\ hist' = [hist EXCEPT !.pairsRaced = @ \/ Cardinality(MakingPair) > 1]
    /\ UNCHANGED <<port, pinned, copy>>

(* https::server_config reads both: serve returns with the error when they
   do not go together, the pool unclosed; doctor says so and tries the ports. *)
ReadsPair(p) ==
    /\ At(p, "pairRead")
    /\ \/ proc[p].cmd = "doctor" /\ MovesTo(p, "tryPort") /\ UNCHANGED <<disk, port, hist>>
       \/ /\ proc[p].cmd = "serve" /\ Whole(disk.crt) /\ disk.crt = disk.crtKey
          /\ MovesTo(p, "up") /\ UNCHANGED <<disk, port, hist>>
       \/ /\ proc[p].cmd = "serve" /\ ~(Whole(disk.crt) /\ disk.crt = disk.crtKey)
          /\ DropsPool(p) /\ Exits(p) /\ port' = {}
    /\ UNCHANGED <<pinned, copy>>

(* doctor::udp binds the port for the moment it takes to try it. *)
TriesPort(p) ==
    /\ At(p, "tryPort")
    /\ \/ port = {} /\ port' = {p} /\ MovesTo(p, "letPort")
       \/ port # {} /\ Exits(p) /\ UNCHANGED port
    /\ UNCHANGED <<disk, pinned, copy, hist>>

LetsPort(p) ==
    /\ At(p, "letPort")
    /\ port' = {} /\ Exits(p)
    /\ UNCHANGED <<disk, pinned, copy, hist>>

(* What a process that has the database open does to it: rows go into the
   log (migrations, the setup token, housekeeping, every request of a server
   that is up), and SQLite moves the log into the file now and then. *)
WritesRow ==
    /\ HasPool # {} /\ Rows < WriteBound
    /\ disk' = [disk EXCEPT !.wal = @ + 1]
    /\ UNCHANGED <<proc, port, pinned, copy, hist>>

Checkpoints ==
    /\ HasPool # {} /\ disk.wal > 0
    /\ disk' = [disk EXCEPT !.main = Rows, !.wal = 0]
    /\ UNCHANGED <<proc, port, pinned, copy, hist>>

(* An agent is set up with the fingerprint the server printed. *)
Pins ==
    /\ \E p \in Serving : pinned' = pinned \cup {proc[p].key}
    /\ UNCHANGED <<disk, proc, port, copy, hist>>

StopsServing_PoolLeft(p) ==
    /\ p \in Serving
    /\ Exits(p) /\ port' = {}
    /\ UNCHANGED <<disk, pinned, copy, hist>>

(* A stop that was asked for, or the rendezvous' end: the pool is closed. *)
StopsServing(p) ==
    /\ p \in Serving
    /\ ClosesPool(p) /\ Exits(p) /\ port' = {}
    /\ UNCHANGED <<pinned, copy>>

(* The API's task ended by itself: serve returns before it closes the pool. *)
ServingFails(p) ==
    /\ p \in Serving
    /\ DropsPool(p) /\ Exits(p) /\ port' = {}
    /\ UNCHANGED <<pinned, copy>>

(* A crash, or the power goes, wherever the process is. *)
ProcessDies(p) ==
    /\ ~At(p, "off")
    /\ Exits(p) /\ port' = port \ {p}
    /\ hist' = [hist EXCEPT !.cutCrt = @ \/ At(p, "crtFill"), !.leftOpen = @ \/ p \in HasPool]
    /\ UNCHANGED <<disk, pinned, copy>>

(* backup::run: never into a folder that exists; the key, ... *)
CopiesKey(p) ==
    /\ At(p, "copyKey")
    /\ \/ copy.state # "none" /\ Exits(p) /\ UNCHANGED copy
       \/ /\ copy.state = "none" /\ disk.key = 0
          /\ Exits(p) /\ copy' = [copy EXCEPT !.state = "part"]
       \/ /\ copy.state = "none" /\ disk.key # 0
          /\ copy' = [copy EXCEPT !.state = "part", !.key = disk.key, !.since = Rows]
          /\ MovesTo(p, "copyRows")
    /\ UNCHANGED <<disk, port, pinned, hist>>

CopiesRows_FileOnly(p) ==
    /\ At(p, "copyRows")
    /\ copy' = [copy EXCEPT !.rows = disk.main]
    /\ MovesTo(p, "copyCrt")
    /\ UNCHANGED <<disk, port, pinned, hist>>

(* ... the database with VACUUM INTO, which reads through the log, ... *)
CopiesRows(p) ==
    /\ At(p, "copyRows")
    /\ copy' = IF disk.database THEN [copy EXCEPT !.rows = Rows] ELSE copy
    /\ MovesTo(p, "copyCrt")
    /\ UNCHANGED <<disk, port, pinned, hist>>

(* ... and the certificate and its key, each if it exists. *)
CopiesCrt(p) ==
    /\ At(p, "copyCrt")
    /\ copy' = [copy EXCEPT !.crt = disk.crt]
    /\ MovesTo(p, "copyCrtKey")
    /\ UNCHANGED <<disk, port, pinned, hist>>

CopiesCrtKey(p) ==
    /\ At(p, "copyCrtKey")
    /\ copy' = [copy EXCEPT !.crtKey = disk.crtKey, !.state = "done"]
    /\ Exits(p)
    /\ UNCHANGED <<disk, port, pinned, hist>>

NoDisk == [there |-> FALSE, key |-> 0, partial |-> 0, crt |-> 0, crtKey |-> 0,
           database |-> FALSE, main |-> 0, wal |-> 0, stale |-> FALSE, mixed |-> FALSE]

(* The folder is lost with everything in it, after a backup was taken. *)
LosesDisk ==
    /\ copy.state = "done" /\ disk.there /\ ~hist.lost
    /\ disk' = NoDisk
    /\ proc' = [p \in Procs |-> Idle] /\ port' = {}
    /\ hist' = [hist EXCEPT !.lost = TRUE, !.leftOpen = FALSE]
    /\ UNCHANGED <<pinned, copy>>

(* A restore as the backup's words have it: nothing runs, and the files are
   put into the folder.  The copy has no log of its own: one that was left
   there now lies beside a database it does not belong to. *)
Restores ==
    /\ copy.state = "done" /\ \A p \in Procs : At(p, "off")
    /\ disk' = [disk EXCEPT !.there = TRUE, !.key = copy.key, !.database = TRUE, !.main = copy.rows,
            !.stale = disk.wal > 0,
            !.crt = IF copy.crt # 0 THEN copy.crt ELSE @,
            !.crtKey = IF copy.crtKey # 0 THEN copy.crtKey ELSE @]
    /\ hist' = [hist EXCEPT !.lost = FALSE, !.pairsRaced = @ \/ copy.crt # copy.crtKey,
            !.restoredOver = @ \/ hist.leftOpen]
    /\ UNCHANGED <<proc, port, pinned, copy>>

ServeSteps(p) ==
    \/ KeyRead(p) \/ KeyOpen(p) \/ KeyFill(p) \/ KeyRename(p) \/ Binds(p) \/ OpensDatabase(p)
    \/ LooksForPair(p) \/ PemKeyOpen(p) \/ PemKeyFill(p) \/ CrtOpen(p) \/ CrtFill(p) \/ ReadsPair(p)

FolderInit ==
    /\ disk = NoDisk /\ proc = [p \in Procs |-> Idle] /\ port = {} /\ pinned = {} /\ copy = NoCopy
    /\ hist = [runs |-> 0, made |-> 0, keysRaced |-> FALSE, pairsRaced |-> FALSE,
               cutCrt |-> FALSE, leftOpen |-> FALSE, restoredOver |-> FALSE, lost |-> FALSE]

FolderNext ==
    \/ \E p \in Procs :
        \/ \E cmd \in Commands : RunsCommand(p, cmd)
        \/ ServeSteps(p) \/ TriesPort(p) \/ LetsPort(p) \/ EndsUnclosed(p)
        \/ StopsServing(p) \/ ServingFails(p) \/ ProcessDies(p)
        \/ CopiesKey(p) \/ CopiesRows(p) \/ CopiesCrt(p) \/ CopiesCrtKey(p)
    \/ WritesRow \/ Checkpoints \/ Pins \/ LosesDisk \/ Restores

FolderSpec == FolderInit /\ [][FolderNext]_folderVars

FolderTypeOK ==
    /\ disk.key \in -1..MakeBound /\ disk.partial \in -1..MakeBound
    /\ disk.crt \in -1..MakeBound /\ disk.crtKey \in -1..MakeBound
    /\ disk.main \in 0..(2 * WriteBound) /\ disk.wal \in 0..WriteBound
    /\ Cardinality(port) <= 1 /\ pinned \subseteq 1..MakeBound

(* The key on disk is whole whatever crashed, and it is the one every agent
   pinned, through crashes, backups, restores and the loss of the folder --
   unless two commands were making a first key at the same time
   (Identity::load_or_create has no lock). *)
ServerKeyKept ==
    hist.keysRaced \/ hist.lost \/ (disk.key # Torn /\ pinned \subseteq {disk.key})

(* A backup that was reported as made holds the key and every row written
   before it began, those still in the write-ahead log too. *)
BackupWhole ==
    (copy.state = "done" /\ ~hist.keysRaced) =>
        /\ Whole(copy.key) /\ copy.rows >= copy.since
        /\ pinned \subseteq {copy.key}

(* A certificate and a key on disk go together, so that the server starts
   again, unless a crash cut the certificate's own write short or two
   commands made a pair at the same time. *)
PairGoesTogether ==
    (/\ ~hist.cutCrt /\ ~hist.pairsRaced /\ MakingPair = {}
     /\ disk.crt # 0 /\ disk.crtKey # 0) => (Whole(disk.crt) /\ disk.crt = disk.crtKey)

(* What the database holds is one database, never the pages of one with the
   log of another, unless a restore was done over one left open: the last
   process that could have closed it was killed, failed, was a migrate or an
   admin-link, or closed it while a backup was reading.  A server stopped as
   the backup's words ask, with no backup under way, leaves no log, whatever
   was killed or left unclosed before it started and whatever ran beside it. *)
MixedOnlyIfLeftOpen == disk.mixed => hist.restoredOver

(* doctor "does not ... change anything on disk" (doctor.rs:9-10). *)
DoctorChangesNothing ==
    [][\A p \in Procs : (proc[p].cmd = "doctor" /\ proc'[p] # proc[p]) => disk' = disk]_folderVars
=============================================================================
