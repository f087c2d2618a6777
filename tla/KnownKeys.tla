----------------------------- MODULE KnownKeys -----------------------------
(***************************************************************************)
(* The device keys a person's viewers have seen: one file that every       *)
(* viewer process reads, checks a device's key against, and writes anew    *)
(* through known.partial (viewer/src/known.rs; remember in direct.rs; the  *)
(* forget command in main.rs).  Each process runs one command at a time.   *)
(***************************************************************************)
EXTENDS Naturals

CONSTANTS
    Viewers,      \* viewer processes of one person
    Devices,
    Prints,       \* fingerprints a device may answer with
    TroubleBound  \* bound: crashes, failed reads and failed writes

NoPrint == 0
Anything == 100

ASSUME KnownAssumption == Prints \subseteq 1 .. Anything - 1

VARIABLES
    file,     \* the known devices on disk, by device
    aside,    \* the .partial file, or Absent
    step,     \* where each process is in its command
    mem,      \* Known::devices of each process
    handle,   \* where each process's open file is now
    stale,    \* another process has written since this one read
    pin,      \* history: the print last saved for each device, or Anything
    troubles  \* history

knownVars == <<file, aside, step, mem, handle, stale, pin, troubles>>

Empty == [d \in Devices |-> NoPrint]
Absent == [d \in Devices |-> NoPrint - 1]   \* no file of that name
Saving == {"write", "writing", "rename"}
AtRest == [at |-> "idle", dev |-> CHOOSE d \in Devices : TRUE, key |-> NoPrint, lost |-> FALSE,
           trust |-> FALSE]

Trouble == troubles < TroubleBound /\ troubles' = troubles + 1

---------------------------------------------------------------------------
(* A mutant: a key that changed is taken like a first one. *)
Continuity_NeverChanged(known, d, k) == IF known[d] = k THEN "same" ELSE "first"

(* check *)
Continuity(known, d, k) ==
    CASE known[d] = NoPrint -> "first"
      [] known[d] = k -> "same"
      [] OTHER -> "changed"

OthersStale(v) ==
    stale' = [w \in Viewers |-> step'[w].at \in Saving /\ (stale[w] \/ w # v)]

(* What the process holds after reading: the file, or nothing where it     *)
(* could not be read (load; lost: what it holds is not what was there).    *)
Loads(v, readable) ==
    /\ IF readable THEN UNCHANGED troubles ELSE Trouble
    /\ stale' = [stale EXCEPT ![v] = FALSE]

(* remember (direct.rs): a device answered with k.  The same key needs no  *)
(* writing; another one ends the session unless --trust-new-key was given. *)
Meets(v, d, k, trust, readable) ==
    LET known == IF readable THEN file ELSE Empty
        met == Continuity(known, d, k)
    IN /\ step[v].at = "idle"
       /\ Loads(v, readable)
       /\ mem' = [mem EXCEPT ![v] = IF met = "first" \/ (met = "changed" /\ trust)
                                     THEN [known EXCEPT ![d] = k] ELSE Empty]
       /\ step' = [step EXCEPT ![v] =
             [at |-> CASE met = "same" -> "session"
                       [] met = "changed" /\ ~trust -> "refused"
                       [] OTHER -> "write",
              dev |-> d, key |-> k, lost |-> ~readable, trust |-> trust]]
       /\ UNCHANGED <<file, aside, handle, pin>>

(* forget: a file that cannot be read is an error here. *)
Forgets(v, d) ==
    /\ step[v].at = "idle" /\ file[d] # NoPrint
    /\ Loads(v, TRUE)
    /\ mem' = [mem EXCEPT ![v] = [file EXCEPT ![d] = NoPrint]]
    /\ step' = [step EXCEPT ![v] =
          [at |-> "write", dev |-> d, key |-> NoPrint, lost |-> FALSE,
           trust |-> FALSE]]
    /\ UNCHANGED <<file, aside, handle, pin>>

---------------------------------------------------------------------------
(* save *)

(* A mutant: straight into the file. *)
OpensPartial_InPlace(v) ==
    /\ step[v].at = "write"
    /\ step' = [step EXCEPT ![v].at = "writing"]
    /\ file' = Empty /\ aside' = Empty
    /\ handle' = [handle EXCEPT ![v] = "file"]
    /\ OthersStale(v)
    /\ UNCHANGED <<mem, pin, troubles>>

(* fs::write opens the partial file and cuts it to nothing, ... *)
OpensPartial(v) ==
    /\ step[v].at = "write"
    /\ step' = [step EXCEPT ![v].at = "writing"]
    /\ aside' = Empty
    /\ handle' = [handle EXCEPT ![v] = "aside"]
    /\ OthersStale(v)
    /\ UNCHANGED <<file, mem, pin, troubles>>

(* ... then writes to_text into what it opened, wherever that is by now.   *)
FillsPartial(v) ==
    /\ step[v].at = "writing"
    /\ step' = [step EXCEPT ![v].at = "rename"]
    /\ aside' = IF handle[v] = "aside" THEN mem[v] ELSE aside
    /\ file' = IF handle[v] = "file" THEN mem[v] ELSE file
    /\ handle' = [handle EXCEPT ![v] = "none"]
    /\ OthersStale(v)
    /\ UNCHANGED <<mem, pin, troubles>>

(* Another save was under way since this process read the file, or is.     *)
Overlaps(v) == stale[v] \/ \E w \in Viewers \ {v} : step[w].at = "writing"

(* The partial file becomes the file.  One that is gone already is an      *)
(* error, which is logged; the session goes on.                            *)
Renames(v) ==
    /\ step[v].at = "rename"
    /\ step' = [step EXCEPT ![v] = IF step[v].key = NoPrint THEN AtRest ELSE [@ EXCEPT !.at = "session"]]
    /\ mem' = [mem EXCEPT ![v] = Empty]
    /\ OthersStale(v)
    /\ pin' = IF Overlaps(v) \/ step[v].lost THEN [d \in Devices |-> Anything]
              ELSE [pin EXCEPT ![step[v].dev] = step[v].key]
    /\ IF aside = Absent
       THEN UNCHANGED <<file, aside, handle>>
       ELSE /\ file' = aside /\ aside' = Absent
            /\ handle' = [w \in Viewers |-> CASE handle[w] = "aside" -> "file"
                                              [] handle[w] = "file" -> "gone"
                                              [] OTHER -> handle[w]]
    /\ UNCHANGED troubles

(* The disk is full, or the folder cannot be written: worth saying, not    *)
(* worth refusing the session over.                                        *)
SaveFails(v) ==
    /\ step[v].at \in {"write", "rename"} /\ Trouble
    /\ step' = [step EXCEPT ![v] = IF step[v].key = NoPrint THEN AtRest ELSE [@ EXCEPT !.at = "session"]]
    /\ mem' = [mem EXCEPT ![v] = Empty]
    /\ UNCHANGED <<file, aside, handle, stale, pin>>

(* The command or the session is over; or the process dies on the way.     *)
Finishes(v) ==
    /\ step[v].at \in {"session", "refused"}
    /\ step' = [step EXCEPT ![v] = AtRest]
    /\ UNCHANGED <<file, aside, mem, handle, stale, pin, troubles>>
Dies(v) ==
    /\ step[v].at \in Saving /\ Trouble
    /\ step' = [step EXCEPT ![v] = AtRest] /\ mem' = [mem EXCEPT ![v] = Empty]
    /\ handle' = [handle EXCEPT ![v] = "none"]
    /\ UNCHANGED <<file, aside, stale, pin>>

KnownInit ==
    /\ file = Empty /\ aside = Absent
    /\ step = [v \in Viewers |-> AtRest] /\ mem = [v \in Viewers |-> Empty]
    /\ handle = [v \in Viewers |-> "none"] /\ stale = [v \in Viewers |-> FALSE]
    /\ pin = Empty /\ troubles = 0

KnownNext ==
    \E v \in Viewers :
        \/ \E d \in Devices, k \in Prints, trust, readable \in BOOLEAN :
               Meets(v, d, k, trust, readable)
        \/ \E d \in Devices : Forgets(v, d)
        \/ OpensPartial(v) \/ FillsPartial(v) \/ Renames(v) \/ SaveFails(v)
        \/ Finishes(v) \/ Dies(v)

KnownSpec == KnownInit /\ [][KnownNext]_knownVars

---------------------------------------------------------------------------
(* Every variable keeps its type. *)
KnownTypeOK ==
    /\ file \in [Devices -> Prints \cup {NoPrint}]
    /\ aside = Absent \/ aside \in [Devices -> Prints \cup {NoPrint}]
    /\ handle \in [Viewers -> {"none", "aside", "file", "gone"}]

(* The file holds the key last saved for every device, whatever crashed or *)
(* failed on the way of another save ("an interrupted write cannot leave   *)
(* half a file behind"): only two viewers saving at once, or one that      *)
(* could not read the file, loses it.                                      *)
PinsHold == \A d \in Devices : pin[d] \in {Anything, file[d]}

(* A session without --trust-new-key never goes on under another key than  *)
(* the one last saved, unless that was lost as above.                      *)
KeyKept ==
    [][\A v \in Viewers :
          (step[v].at = "idle" /\ step'[v].at \in {"session", "write"} /\ step'[v].key # NoPrint)
             => LET d == step'[v].dev IN
                \/ pin[d] \in {NoPrint, Anything, step'[v].key}
                \/ step'[v].lost \/ step'[v].trust]_knownVars

(* What known.rs says: the whole fingerprint is written down the first     *)
(* time, and every time after the key must be the same one.  Two viewers   *)
(* started at once lose one of the two keys.                               *)
EveryTimeAfter ==
    [][\A v \in Viewers :
          (step[v].at = "rename" /\ step'[v].at = "session" /\ ~step[v].lost)
             => file'[step[v].dev] = step[v].key]_knownVars
====
