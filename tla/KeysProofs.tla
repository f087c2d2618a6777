----------------------------- MODULE KeysProofs -----------------------------
(***************************************************************************)
(* Proofs about what identifies the server and the devices, for any number *)
(* of pages, viewers, devices, commands and processes.                     *)
(***************************************************************************)
EXTENDS MCServer, FiniteSetTheorems, TLAPS

-----------------------------------------------------------------------------
(* The certificate browsers are shown. *)

PageState == [state : {"away", "asked", "in", "out"}, hash : Nat, begun : Nat]

(* How long a certificate made now is good for. *)
GoodFor == Lifetime - Slack

CertTypes ==
    /\ hour \in Nat /\ shown \in [number : Nat, until : Nat] /\ hash \in Nat
    /\ renewal \in {"asleep", "telling"} /\ nextRenew \in Nat /\ failed \in Nat
    /\ page \in [Pages -> PageState]

(* When the certificate shown ends, by how many renewals failed since: the *)
(* renewal that made it was one interval before the one that is due, or    *)
(* two when one failed.                                                    *)
CertEnds ==
    /\ hour <= nextRenew
    /\ renewal = "telling" => shown.until = hour + GoodFor
    /\ renewal = "asleep" /\ failed = 0 => nextRenew + GoodFor = shown.until + RenewEvery
    /\ renewal = "asleep" /\ failed = 1 => nextRenew + GoodFor = shown.until + 2 * RenewEvery

CertHashed ==
    /\ renewal = "asleep" => hash = shown.number
    /\ renewal = "telling" => hash + 1 = shown.number

CertInv == CertTypes /\ CertEnds /\ CertHashed

LEMMA CertStart == CertInit => CertInv
PROOF
<1> SUFFICES ASSUME CertInit PROVE CertInv
  OBVIOUS
<1>1. GoodFor \in Nat
  BY CertAssumption DEF GoodFor
<1>2. Away \in PageState
  BY DEF Away, PageState
<1>3. CertTypes
  BY CertAssumption, <1>1, <1>2 DEF CertInit, CertTypes, GoodFor
<1> QED
  BY CertAssumption, <1>1, <1>3 DEF CertInit, CertInv, CertEnds, CertHashed, GoodFor

LEMMA CertStep == CertInv /\ [CertNext]_certVars => CertInv'
PROOF
<1> SUFFICES ASSUME CertInv, [CertNext]_certVars PROVE CertInv'
  OBVIOUS
<1>0. CertTypes /\ CertEnds /\ CertHashed
  BY DEF CertInv
<1>g. /\ GoodFor \in Nat /\ RenewEvery \in Nat /\ 2 * RenewEvery < GoodFor
      /\ NewCertificate = [number |-> shown.number + 1, until |-> hour + GoodFor]
  BY CertAssumption, <1>0 DEF GoodFor, NewCertificate, CertTypes
<1>n. shown.number \in Nat /\ shown.until \in Nat
  BY <1>0 DEF CertTypes
<1>1. CASE RenewFails
  BY <1>0, <1>g, <1>n, <1>1, SMTT(30) DEF CertInv, CertTypes, CertEnds, CertHashed, RenewFails
<1>2. CASE RenewShows
  <2>1. shown' = [number |-> shown.number + 1, until |-> hour + GoodFor]
    BY <1>2, <1>g DEF RenewShows
  <2>2. shown'.number = shown.number + 1 /\ shown'.until = hour + GoodFor
    BY <2>1
  <2>3. shown' \in [number : Nat, until : Nat]
    BY <2>1, <1>0, <1>n, <1>g DEF CertTypes
  <2> QED
    BY <1>0, <1>g, <1>n, <1>2, <2>2, <2>3, SMTT(30)
    DEF CertInv, CertTypes, CertEnds, CertHashed, RenewShows
<1>3. CASE RenewTells
  BY <1>0, <1>g, <1>n, <1>3, SMTT(30) DEF CertInv, CertTypes, CertEnds, CertHashed, RenewTells
<1>4. CASE HourPasses
  <2>1. PICK later \in {hour + 1, nextRenew} : hour' = later
    BY <1>4 DEF HourPasses
  <2>2. hour' \in Nat /\ hour' <= nextRenew
    BY <2>1, <1>4, <1>0 DEF HourPasses, CertTypes
  <2> QED
    BY <1>0, <1>g, <1>n, <1>4, <2>2, SMTT(30)
    DEF CertInv, CertTypes, CertEnds, CertHashed, HourPasses
<1>5. ASSUME NEW p \in Pages, PageAsks(p) \/ PageConnects(p) PROVE CertInv'
  <2>1. page' \in [Pages -> PageState]
    <3>1. CASE PageAsks(p)
      <4>1. [state |-> "asked", hash |-> hash, begun |-> shown.number] \in PageState
        BY <1>0, <1>n DEF CertTypes, PageState
      <4> QED
        BY <3>1, <4>1, <1>0 DEF PageAsks, CertTypes
    <3>2. CASE PageConnects(p)
      <4>1. PICK became \in {"in", "out"} : page' = [page EXCEPT ![p].state = became]
        BY <3>2 DEF PageConnects
      <4> QED
        BY <4>1, <1>0 DEF CertTypes, PageState
    <3> QED
      BY <1>5, <3>1, <3>2
  <2> QED
    BY <1>0, <1>5, <2>1 DEF CertInv, CertTypes, CertEnds, CertHashed, PageAsks, PageConnects
<1>6. CASE UNCHANGED certVars
  BY <1>0, <1>6 DEF CertInv, CertTypes, CertEnds, CertHashed, certVars
<1> QED
  BY <1>1, <1>2, <1>3, <1>4, <1>5, <1>6 DEF CertNext

LEMMA CertInvValid == CertInv => CertTypeOK /\ StillValid
PROOF
<1> SUFFICES ASSUME CertInv PROVE CertTypeOK /\ StillValid
  OBVIOUS
<1>1. /\ GoodFor \in Nat /\ RenewEvery \in Nat /\ 2 * RenewEvery < GoodFor
      /\ shown.number \in Nat /\ shown.until \in Nat
  BY CertAssumption DEF GoodFor, CertInv, CertTypes
<1>2. CertTypeOK
  BY DEF CertInv, CertTypes, CertHashed, CertTypeOK
<1>3. StillValid
  BY <1>1, SMTT(30) DEF CertInv, CertTypes, CertEnds, StillValid
<1> QED
  BY <1>2, <1>3

\* A browser is told of the certificate it is shown but for the moment between
\* a renewal's two steps, and that certificate is still good when one renewal
\* in a row failed (webtransport.rs: LIFETIME, RENEW_EVERY, keep_renewing).
THEOREM CertificateAlwaysGood == CertSpec => [](CertTypeOK /\ StillValid)
PROOF BY CertStart, CertStep, CertInvValid, PTL DEF CertSpec

\* A page is turned away only by a renewal it met on its way, or when renewals
\* failed again and again (webtransport.rs: Web::renew; api.rs: webtransport).
THEOREM PagesTurnedAwayByRenewal == CertSpec => TurnedAwayByRenewal
PROOF
<1> DEFINE Why(p) == page[p].state = "asked" /\ page'[p].state = "out" =>
                        failed > 1 \/ page[p].begun # shown.number \/ page[p].hash # page[p].begun
<1>1. CertInv /\ [CertNext]_certVars => [\A p \in Pages : Why(p)]_certVars
  <2> SUFFICES ASSUME CertInv, CertNext, NEW p \in Pages,
                      page[p].state = "asked", page'[p].state = "out"
               PROVE  failed > 1 \/ page[p].begun # shown.number \/ page[p].hash # page[p].begun
    OBVIOUS
  <2>0. CertTypes /\ StillValid
    BY CertInvValid DEF CertInv
  <2>1. PICK q \in Pages : PageAsks(q) \/ PageConnects(q)
    BY DEF CertNext, RenewFails, RenewShows, RenewTells, HourPasses
  <2>2. q = p /\ PageConnects(p)
    BY <2>0, <2>1 DEF CertTypes, PageAsks, PageConnects
  <2>3. ~(page[p].hash = shown.number /\ hour < shown.until)
    BY <2>0, <2>2 DEF CertTypes, PageConnects, Resolved
  <2> QED
    BY <2>0, <2>3 DEF CertTypes, StillValid
<1> QED
  BY <1>1, CertStart, CertStep, PTL DEF CertSpec, TurnedAwayByRenewal

-----------------------------------------------------------------------------
(* The device keys a person's viewers wrote down. *)

KeyFile == [Devices -> Prints \cup {NoPrint}]
CommandStep ==
    [at : {"idle", "session", "refused"} \cup Saving, dev : Devices \cup {AtRest.dev},
     key : Prints \cup {NoPrint}, lost : BOOLEAN, trust : BOOLEAN]

KnownTypes ==
    /\ file \in KeyFile /\ aside \in KeyFile \cup {Absent}
    /\ step \in [Viewers -> CommandStep] /\ mem \in [Viewers -> KeyFile]
    /\ handle \in [Viewers -> {"none", "aside", "file", "gone"}]
    /\ stale \in [Viewers -> BOOLEAN]
    /\ pin \in [Devices -> Prints \cup {NoPrint, Anything}]

(* A process that saves, while nobody else has written since it read the   *)
(* file, holds the file with the one key it met or forgets, and what it    *)
(* has written aside is still there.                                       *)
Undisturbed(v) ==
    step[v].at \in Saving /\ ~stale[v] =>
        /\ step[v].lost \/ mem[v] = [file EXCEPT ![step[v].dev] = step[v].key]
        /\ step[v].at = "writing" => handle[v] = "aside"
        /\ step[v].at = "rename" => aside = mem[v]

(* A process has a file open only while it writes; if that has become the  *)
(* known devices themselves, what they hold is anyone's guess.             *)
Opened(v) ==
    /\ handle[v] \in {"aside", "file"} => step[v].at = "writing"
    /\ handle[v] = "file" => \A d \in Devices : pin[d] = Anything

ForADevice(v) == step[v].at # "idle" => step[v].dev \in Devices

KnownInv ==
    /\ KnownTypes /\ PinsHold
    /\ \A v \in Viewers : Undisturbed(v) /\ Opened(v) /\ ForADevice(v)

LEMMA EmptyFiles == Empty \in KeyFile /\ AtRest \in CommandStep /\ AtRest.at = "idle"
PROOF BY DEF Empty, KeyFile, AtRest, CommandStep, NoPrint

LEMMA KnownStart == KnownInit => KnownInv
PROOF
<1> SUFFICES ASSUME KnownInit PROVE KnownInv
  OBVIOUS
<1>1. KnownTypes
  BY EmptyFiles DEF KnownInit, KnownTypes, KeyFile, Empty
<1>2. PinsHold
  BY DEF KnownInit, PinsHold
<1>3. \A v \in Viewers : step[v].at = "idle" /\ handle[v] = "none"
  BY EmptyFiles DEF KnownInit
<1> QED
  BY <1>1, <1>2, <1>3 DEF KnownInv, Undisturbed, Opened, ForADevice, Saving

(* A process sets out to save what it holds, or has nothing to save. *)
LEMMA SetsOut ==
    ASSUME KnownInv, NEW v \in Viewers, NEW holds \in KeyFile, NEW now \in CommandStep,
           now.dev \in Devices, now.at \in {"session", "refused", "write"},
           now.at = "write" => now.lost \/ holds = [file EXCEPT ![now.dev] = now.key],
           step[v].at = "idle",
           mem' = [mem EXCEPT ![v] = holds], step' = [step EXCEPT ![v] = now],
           stale' = [stale EXCEPT ![v] = FALSE], UNCHANGED <<file, aside, handle, pin>>
    PROVE  KnownInv'
PROOF
<1>0. KnownTypes /\ PinsHold
  BY DEF KnownInv
<1>1. KnownTypes' /\ PinsHold'
  BY <1>0 DEF KnownTypes, PinsHold
<1>2. ASSUME NEW w \in Viewers PROVE (Undisturbed(w) /\ Opened(w) /\ ForADevice(w))'
  <2>1. Undisturbed(w) /\ Opened(w) /\ ForADevice(w)
    BY DEF KnownInv
  <2>2. CASE w = v
    <3>1. step'[w] = now /\ mem'[w] = holds /\ handle'[w] = handle[w]
      BY <1>0, <2>2 DEF KnownTypes
    <3>2. handle[w] \notin {"aside", "file"}
      BY <2>1, <2>2 DEF Opened
    <3> QED
      BY <3>1, <3>2 DEF Undisturbed, Opened, ForADevice, Saving
  <2>3. CASE w # v
    <3>1. step'[w] = step[w] /\ mem'[w] = mem[w] /\ handle'[w] = handle[w] /\ stale'[w] = stale[w]
      BY <1>0, <2>3 DEF KnownTypes
    <3> QED
      BY <2>1, <3>1 DEF Undisturbed, Opened, ForADevice
  <2> QED
    BY <2>2, <2>3
<1> QED
  BY <1>1, <1>2 DEF KnownInv

(* A process that no longer saves leaves the others as they are. *)
LEMMA GivesUp ==
    ASSUME KnownInv, NEW v \in Viewers, NEW now \in CommandStep, now.at \notin Saving,
           ForADevice(v), now = AtRest \/ now.dev \in Devices,
           step' = [step EXCEPT ![v] = now], mem' \in {mem, [mem EXCEPT ![v] = Empty]},
           \/ handle' = [handle EXCEPT ![v] = "none"]
           \/ handle' = handle /\ step[v].at # "writing",
           UNCHANGED <<file, aside, stale, pin>>
    PROVE  KnownInv'
PROOF
<1>0. KnownTypes /\ PinsHold
  BY DEF KnownInv
<1>1. KnownTypes' /\ PinsHold'
  BY <1>0, EmptyFiles DEF KnownTypes, PinsHold
<1>2. ASSUME NEW w \in Viewers PROVE (Undisturbed(w) /\ Opened(w) /\ ForADevice(w))'
  <2>1. Undisturbed(w) /\ Opened(w) /\ ForADevice(w)
    BY DEF KnownInv
  <2>2. CASE w = v
    <3>1. step'[w] = now
      BY <1>0, <2>2 DEF KnownTypes
    <3>2. handle'[w] \notin {"aside", "file"}
      BY <1>0, <2>1, <2>2 DEF Opened, KnownTypes
    <3> QED
      BY <3>1, <3>2, EmptyFiles DEF Undisturbed, Opened, ForADevice
  <2>3. CASE w # v
    <3>1. step'[w] = step[w] /\ mem'[w] = mem[w] /\ handle'[w] = handle[w] /\ stale'[w] = stale[w]
      BY <1>0, <2>3 DEF KnownTypes
    <3> QED
      BY <2>1, <3>1 DEF Undisturbed, Opened, ForADevice
  <2> QED
    BY <2>2, <2>3
<1> QED
  BY <1>1, <1>2 DEF KnownInv

(* Whoever saves while another process writes is disturbed from then on. *)
LEMMA OthersDisturbed ==
    ASSUME KnownTypes, NEW v \in Viewers, OthersStale(v)
    PROVE  /\ stale' \in [Viewers -> BOOLEAN]
           /\ \A w \in Viewers \ {v} : step'[w].at \in Saving => stale'[w]
           /\ step'[v].at \in Saving => stale'[v] = stale[v]
PROOF BY DEF KnownTypes, OthersStale

LEMMA KnownOpens ==
    ASSUME KnownInv, NEW v \in Viewers, OpensPartial(v) PROVE KnownInv'
PROOF
<1>0. KnownTypes /\ PinsHold /\ Undisturbed(v) /\ ForADevice(v) /\ step[v] \in CommandStep
  BY DEF KnownInv, KnownTypes
<1>1. /\ stale' \in [Viewers -> BOOLEAN]
      /\ \A w \in Viewers \ {v} : step'[w].at \in Saving => stale'[w]
      /\ step'[v].at \in Saving => stale'[v] = stale[v]
  BY <1>0, OthersDisturbed DEF OpensPartial
<1>2. /\ step'[v] = [step[v] EXCEPT !.at = "writing"]
      /\ \A w \in Viewers \ {v} : step'[w] = step[w]
      /\ step' \in [Viewers -> CommandStep]
  <2>1. [step[v] EXCEPT !.at = "writing"] \in CommandStep
    BY <1>0 DEF CommandStep, Saving
  <2> QED
    BY <1>0, <2>1 DEF OpensPartial, KnownTypes
<1>3. /\ step'[v].at = "writing" /\ step'[v].dev = step[v].dev /\ step'[v].key = step[v].key
      /\ step'[v].lost = step[v].lost
  BY <1>0, <1>2 DEF CommandStep
<1>4. KnownTypes' /\ PinsHold'
  BY <1>0, <1>1, <1>2, EmptyFiles DEF KnownTypes, PinsHold, OpensPartial
<1>5. ASSUME NEW w \in Viewers PROVE (Undisturbed(w) /\ Opened(w) /\ ForADevice(w))'
  <2>1. CASE w = v
    BY <2>1, <1>0, <1>1, <1>3 DEF OpensPartial, KnownTypes, Undisturbed, Opened, ForADevice, Saving
  <2>2. CASE w # v
    <3>1. Opened(w) /\ ForADevice(w) /\ handle'[w] = handle[w]
      BY <2>2, <1>0 DEF KnownInv, KnownTypes, OpensPartial
    <3> QED
      BY <2>2, <1>1, <1>2, <3>1 DEF OpensPartial, Undisturbed, Opened, ForADevice
  <2> QED
    BY <2>1, <2>2
<1> QED
  BY <1>4, <1>5 DEF KnownInv

LEMMA KnownFills ==
    ASSUME KnownInv, NEW v \in Viewers, FillsPartial(v) PROVE KnownInv'
PROOF
<1>0. /\ KnownTypes /\ PinsHold /\ Undisturbed(v) /\ Opened(v) /\ ForADevice(v)
      /\ step[v] \in CommandStep
  BY DEF KnownInv, KnownTypes
<1>1. /\ stale' \in [Viewers -> BOOLEAN]
      /\ \A w \in Viewers \ {v} : step'[w].at \in Saving => stale'[w]
      /\ step'[v].at \in Saving => stale'[v] = stale[v]
  BY <1>0, OthersDisturbed DEF FillsPartial
<1>2. /\ step'[v] = [step[v] EXCEPT !.at = "rename"]
      /\ \A w \in Viewers \ {v} : step'[w] = step[w]
      /\ step' \in [Viewers -> CommandStep]
  <2>1. [step[v] EXCEPT !.at = "rename"] \in CommandStep
    BY <1>0 DEF CommandStep, Saving
  <2> QED
    BY <1>0, <2>1 DEF FillsPartial, KnownTypes
<1>3. /\ step'[v].at = "rename" /\ step'[v].dev = step[v].dev /\ step'[v].key = step[v].key
      /\ step'[v].lost = step[v].lost
  BY <1>0, <1>2 DEF CommandStep
<1>4. /\ file' \in KeyFile /\ aside' \in KeyFile \cup {Absent}
      /\ handle' = [handle EXCEPT ![v] = "none"] /\ UNCHANGED <<mem, pin>>
  BY <1>0 DEF FillsPartial, KnownTypes
<1>5. KnownTypes' /\ PinsHold'
  <2>1. KnownTypes'
    BY <1>0, <1>1, <1>2, <1>4 DEF KnownTypes
  <2>2. ASSUME handle[v] = "file" PROVE PinsHold'
    BY <2>2, <1>0, <1>4 DEF Opened, PinsHold
  <2>3. ASSUME handle[v] # "file" PROVE PinsHold'
    BY <2>3, <1>0, <1>4 DEF FillsPartial, PinsHold
  <2> QED
    BY <2>1, <2>2, <2>3
<1>6. ASSUME NEW w \in Viewers PROVE (Undisturbed(w) /\ Opened(w) /\ ForADevice(w))'
  <2>1. CASE w = v
    <3>1. handle'[v] = "none"
      BY <1>0, <1>4 DEF KnownTypes
    <3>2. ~stale[v] => handle[v] = "aside" /\ file' = file /\ aside' = mem[v]
      BY <1>0 DEF FillsPartial, Undisturbed, Saving
    <3> QED
      BY <2>1, <1>0, <1>1, <1>3, <1>4, <3>1, <3>2
      DEF FillsPartial, Undisturbed, Opened, ForADevice, Saving
  <2>2. CASE w # v
    <3>1. Opened(w) /\ ForADevice(w) /\ handle'[w] = handle[w]
      BY <2>2, <1>0, <1>4 DEF KnownInv, KnownTypes
    <3> QED
      BY <2>2, <1>1, <1>2, <1>4, <3>1 DEF Undisturbed, Opened, ForADevice
  <2> QED
    BY <2>1, <2>2
<1> QED
  BY <1>5, <1>6 DEF KnownInv

LEMMA KnownRenames ==
    ASSUME KnownInv, NEW v \in Viewers, Renames(v) PROVE KnownInv'
PROOF
<1>0. /\ KnownTypes /\ PinsHold /\ Undisturbed(v) /\ Opened(v) /\ ForADevice(v)
      /\ step[v] \in CommandStep /\ step[v].at = "rename" /\ step[v].dev \in Devices
  BY DEF KnownInv, KnownTypes, Renames, ForADevice
<1>1. /\ stale' \in [Viewers -> BOOLEAN]
      /\ \A w \in Viewers \ {v} : step'[w].at \in Saving => stale'[w]
  BY <1>0, OthersDisturbed DEF Renames
<1>2. PICK now \in CommandStep : /\ step' = [step EXCEPT ![v] = now]
                                 /\ now.at \in {"idle", "session"}
                                 /\ now.at # "idle" => now.dev \in Devices
  <2>1. CASE step[v].key = NoPrint
    BY <2>1, EmptyFiles DEF Renames
  <2>2. CASE step[v].key # NoPrint
    <3>1. /\ [step[v] EXCEPT !.at = "session"] \in CommandStep
          /\ [step[v] EXCEPT !.at = "session"].at = "session"
          /\ [step[v] EXCEPT !.at = "session"].dev = step[v].dev
      BY <1>0 DEF CommandStep
    <3>2. step' = [step EXCEPT ![v] = [step[v] EXCEPT !.at = "session"]]
      BY <2>2, <1>0 DEF Renames, KnownTypes
    <3> QED
      BY <1>0, <3>1, <3>2
  <2> QED
    BY <2>1, <2>2
<1>3. /\ step'[v] = now /\ \A w \in Viewers \ {v} : step'[w] = step[w]
      /\ step' \in [Viewers -> CommandStep]
  BY <1>0, <1>2 DEF KnownTypes
<1>4. mem' \in [Viewers -> KeyFile]
  BY <1>0, EmptyFiles DEF Renames, KnownTypes
<1>5. /\ file' \in KeyFile /\ aside' \in KeyFile \cup {Absent}
      /\ handle' \in [Viewers -> {"none", "aside", "file", "gone"}]
  BY <1>0 DEF Renames, KnownTypes
<1>6. /\ pin' \in [Devices -> Prints \cup {NoPrint, Anything}]
      /\ Overlaps(v) \/ step[v].lost => \A d \in Devices : pin'[d] = Anything
      /\ ~(Overlaps(v) \/ step[v].lost) => pin' = [pin EXCEPT ![step[v].dev] = step[v].key]
  <2>1. step[v].key \in Prints \cup {NoPrint}
    BY <1>0 DEF CommandStep
  <2> QED
    BY <1>0, <2>1 DEF Renames, KnownTypes
<1>7. PinsHold'
  <2>1. CASE Overlaps(v) \/ step[v].lost
    BY <2>1, <1>6 DEF PinsHold
  <2>2. CASE ~(Overlaps(v) \/ step[v].lost)
    <3>1. aside = mem[v] /\ mem[v] = [file EXCEPT ![step[v].dev] = step[v].key]
      BY <2>2, <1>0 DEF Overlaps, Undisturbed, Saving
    <3>2. mem[v] # Absent
      <4>1. mem[v][step[v].dev] \in Prints \cup {NoPrint}
        BY <1>0 DEF KnownTypes, KeyFile
      <4>2. mem[v][step[v].dev] # NoPrint - 1
        BY <4>1, KnownAssumption DEF NoPrint, Anything
      <4>3. Absent[step[v].dev] = NoPrint - 1
        BY <1>0 DEF Absent
      <4> QED
        BY <4>2, <4>3
    <3>3. file' = [file EXCEPT ![step[v].dev] = step[v].key]
      BY <3>1, <3>2 DEF Renames
    <3> QED
      BY <2>2, <3>3, <1>0, <1>6 DEF PinsHold, KnownTypes, KeyFile
  <2> QED
    BY <2>1, <2>2
<1>8. ASSUME NEW w \in Viewers PROVE (Undisturbed(w) /\ Opened(w) /\ ForADevice(w))'
  <2>0. Opened(w) /\ ForADevice(w)
    BY DEF KnownInv
  <2>1. \/ handle'[w] = handle[w]
        \/ handle[w] = "aside" /\ handle'[w] = "file"
        \/ handle'[w] = "gone"
    BY <1>0 DEF Renames, KnownTypes
  <2>2. CASE w = v
    <3>1. handle'[w] \notin {"aside", "file"}
      BY <2>0, <2>1, <2>2, <1>0 DEF Opened
    <3> QED
      BY <2>2, <1>2, <1>3, <3>1 DEF Undisturbed, Opened, ForADevice, Saving
  <2>3. CASE w # v
    <3>1. step'[w] = step[w] /\ (step'[w].at \in Saving => stale'[w])
      BY <2>3, <1>1, <1>3
    <3>2. handle'[w] \in {"aside", "file"} => step[w].at = "writing"
      BY <2>0, <2>1 DEF Opened
    <3>3. handle'[w] = "file" => \A d \in Devices : pin'[d] = Anything
      BY <2>3, <3>2, <1>6 DEF Overlaps
    <3> QED
      BY <2>0, <3>1, <3>2, <3>3 DEF Undisturbed, Opened, ForADevice
  <2> QED
    BY <2>2, <2>3
<1> QED
  BY <1>1, <1>3, <1>4, <1>5, <1>6, <1>7, <1>8 DEF KnownInv, KnownTypes

LEMMA KnownMeets ==
    ASSUME KnownInv, NEW v \in Viewers, NEW d \in Devices, NEW k \in Prints,
           NEW trust \in BOOLEAN, NEW readable \in BOOLEAN, Meets(v, d, k, trust, readable)
    PROVE  KnownInv'
PROOF
<1> DEFINE known == IF readable THEN file ELSE Empty
           met == Continuity(known, d, k)
           holds == IF met = "first" \/ (met = "changed" /\ trust)
                    THEN [known EXCEPT ![d] = k] ELSE Empty
           where == CASE met = "same" -> "session"
                      [] met = "changed" /\ ~trust -> "refused"
                      [] OTHER -> "write"
           now == [at |-> where, dev |-> d, key |-> k, lost |-> ~readable, trust |-> trust]
<1>0. KnownTypes /\ step[v].at = "idle"
  BY DEF KnownInv, Meets
<1>1. known \in KeyFile
  BY <1>0, EmptyFiles DEF KnownTypes
<1>2. met \in {"first", "same", "changed"}
  BY DEF Continuity
<1>3. holds \in KeyFile
  BY <1>1, EmptyFiles DEF KeyFile
<1>4. where \in {"session", "refused", "write"} /\ (where = "write" => holds = [known EXCEPT ![d] = k])
  BY <1>2
<1>5. /\ mem' = [mem EXCEPT ![v] = holds] /\ step' = [step EXCEPT ![v] = now]
      /\ stale' = [stale EXCEPT ![v] = FALSE] /\ UNCHANGED <<file, aside, handle, pin>>
  BY DEF Meets, Loads
<1>6. PICK to : to = where
  OBVIOUS
<1>7. PICK has : has = holds
  OBVIOUS
<1>8. PICK rec : rec = [at |-> to, dev |-> d, key |-> k, lost |-> ~readable, trust |-> trust]
  OBVIOUS
<1>9. /\ rec \in CommandStep /\ rec.at = to /\ rec.dev = d /\ rec.key = k /\ rec.lost = ~readable
      /\ rec = now
  BY <1>4, <1>6, <1>8 DEF CommandStep, Saving
<1>10. to = "write" => rec.lost \/ has = [file EXCEPT ![rec.dev] = rec.key]
  BY <1>4, <1>6, <1>7, <1>9
<1>11. /\ has \in KeyFile /\ rec.dev \in Devices /\ rec.at \in {"session", "refused", "write"}
       /\ rec.at = "write" => rec.lost \/ has = [file EXCEPT ![rec.dev] = rec.key]
       /\ mem' = [mem EXCEPT ![v] = has] /\ step' = [step EXCEPT ![v] = rec]
  BY <1>3, <1>4, <1>5, <1>6, <1>7, <1>9, <1>10
<1> HIDE DEF known, met, holds, where, now
<1> QED
  BY <1>0, <1>5, <1>9, <1>11, SetsOut, ZenonT(30)

LEMMA KnownForgets ==
    ASSUME KnownInv, NEW v \in Viewers, NEW d \in Devices, Forgets(v, d) PROVE KnownInv'
PROOF
<1> DEFINE now == [at |-> "write", dev |-> d, key |-> NoPrint, lost |-> FALSE, trust |-> FALSE]
           holds == [file EXCEPT ![d] = NoPrint]
<1>1. KnownTypes /\ step[v].at = "idle"
  BY DEF KnownInv, Forgets
<1>2. /\ now \in CommandStep /\ now.at = "write" /\ now.dev = d /\ now.key = NoPrint
      /\ holds = [file EXCEPT ![now.dev] = now.key]
  BY DEF CommandStep, Saving
<1>3. holds \in KeyFile
  BY <1>1 DEF KnownTypes, KeyFile
<1>4. /\ mem' = [mem EXCEPT ![v] = holds] /\ step' = [step EXCEPT ![v] = now]
      /\ stale' = [stale EXCEPT ![v] = FALSE] /\ UNCHANGED <<file, aside, handle, pin>>
  BY DEF Forgets, Loads
<1> HIDE DEF now, holds
<1> QED
  BY <1>1, <1>2, <1>3, <1>4, SetsOut

LEMMA KnownEnds ==
    ASSUME KnownInv, NEW v \in Viewers, SaveFails(v) \/ Finishes(v) \/ Dies(v)
    PROVE  KnownInv'
PROOF
<1>0. KnownTypes /\ step[v] \in CommandStep /\ ForADevice(v) /\ step[v].at # "idle"
  BY DEF KnownInv, KnownTypes, SaveFails, Finishes, Dies, Saving
<1>1. AtRest \in CommandStep /\ AtRest.at \notin Saving
  BY EmptyFiles DEF Saving
<1>2. CASE SaveFails(v)
  <2>1. CASE step[v].key = NoPrint
    BY <1>0, <1>1, <1>2, <2>1, GivesUp DEF SaveFails
  <2>2. CASE step[v].key # NoPrint
    <3>1. PICK now : now = [step[v] EXCEPT !.at = "session"]
      OBVIOUS
    <3>2. now \in CommandStep /\ now.at = "session" /\ now.dev = step[v].dev
      BY <1>0, <3>1 DEF CommandStep
    <3>3. step' = [step EXCEPT ![v] = now]
      BY <1>0, <1>2, <2>2, <3>1 DEF SaveFails, KnownTypes
    <3>4. now.at \notin Saving /\ now.dev \in Devices
      BY <1>0, <3>2 DEF Saving, ForADevice
    <3> QED
      BY <1>0, <1>2, <3>2, <3>3, <3>4, GivesUp DEF SaveFails
  <2> QED
    BY <2>1, <2>2
<1>3. CASE Finishes(v)
  BY <1>0, <1>1, <1>3, GivesUp DEF Finishes
<1>4. CASE Dies(v)
  BY <1>0, <1>1, <1>4, GivesUp DEF Dies
<1> QED
  BY <1>2, <1>3, <1>4

LEMMA KnownStep == KnownInv /\ [KnownNext]_knownVars => KnownInv'
PROOF
<1> SUFFICES ASSUME KnownInv, [KnownNext]_knownVars PROVE KnownInv'
  OBVIOUS
<1>1. CASE UNCHANGED knownVars
  BY <1>1 DEF knownVars, KnownInv, KnownTypes, PinsHold, Undisturbed, Opened, ForADevice
<1>2. CASE KnownNext
  BY <1>2, KnownMeets, KnownForgets, KnownOpens, KnownFills, KnownRenames, KnownEnds DEF KnownNext
<1> QED
  BY <1>1, <1>2

LEMMA KnownInvKeeps == KnownInv => KnownTypeOK /\ PinsHold
PROOF BY DEF KnownInv, KnownTypes, KnownTypeOK, KeyFile

\* The file holds the key last saved for every device through crashes and
\* failed writes of any number of viewers; only saves that overlap, or one
\* that could not read the file, lose a key (viewer/src/known.rs: save).
THEOREM PinsAlwaysHold == KnownSpec => [](KnownTypeOK /\ PinsHold)
PROOF BY KnownStart, KnownStep, KnownInvKeeps, PTL DEF KnownSpec

\* No session goes on under another key than the one last saved, unless the
\* user said --trust-new-key (known.rs: check; direct.rs: remember).
THEOREM KeysAlwaysKept == KnownSpec => KeyKept
PROOF
<1> DEFINE KeptBy(v) ==
        (step[v].at = "idle" /\ step'[v].at \in {"session", "write"} /\ step'[v].key # NoPrint)
           => \/ pin[step'[v].dev] \in {NoPrint, Anything, step'[v].key}
              \/ step'[v].lost \/ step'[v].trust
<1>1. KnownInv /\ [KnownNext]_knownVars => [\A v \in Viewers : KeptBy(v)]_knownVars
  <2> SUFFICES ASSUME KnownInv, KnownNext, NEW v \in Viewers,
                      step[v].at = "idle", step'[v].at \in {"session", "write"},
                      step'[v].key # NoPrint
               PROVE  \/ pin[step'[v].dev] \in {NoPrint, Anything, step'[v].key}
                      \/ step'[v].lost \/ step'[v].trust
    OBVIOUS
  <2>0. KnownTypes /\ PinsHold /\ step \in [Viewers -> CommandStep]
    BY DEF KnownInv, KnownTypes
  <2>1. \/ \E d \in Devices, k \in Prints, trust, readable \in BOOLEAN :
               Meets(v, d, k, trust, readable)
        \/ \E d \in Devices : Forgets(v, d)
    <3>1. PICK w \in Viewers :
        \/ \E d \in Devices, k \in Prints, trust, readable \in BOOLEAN :
               Meets(w, d, k, trust, readable)
        \/ \E d \in Devices : Forgets(w, d)
        \/ OpensPartial(w) \/ FillsPartial(w) \/ Renames(w) \/ SaveFails(w)
        \/ Finishes(w) \/ Dies(w)
      BY DEF KnownNext
    <3>2. step'[v] # step[v]
      OBVIOUS
    <3>3. w = v
      BY <3>1, <3>2, <2>0, ZenonT(30)
      DEF Meets, Forgets, OpensPartial, FillsPartial, Renames, SaveFails, Finishes, Dies
    <3> QED
      BY <3>1, <3>3 DEF OpensPartial, FillsPartial, Renames, SaveFails, Finishes, Dies, Saving
  <2>2. ASSUME NEW d \in Devices, Forgets(v, d) PROVE FALSE
    <3>1. step'[v] = [at |-> "write", dev |-> d, key |-> NoPrint, lost |-> FALSE, trust |-> FALSE]
      BY <2>0, <2>2 DEF Forgets
    <3> QED
      BY <3>1
  <2>3. ASSUME NEW d \in Devices, NEW k \in Prints, NEW trust \in BOOLEAN,
               NEW readable \in BOOLEAN, Meets(v, d, k, trust, readable)
        PROVE  \/ pin[step'[v].dev] \in {NoPrint, Anything, step'[v].key}
               \/ step'[v].lost \/ step'[v].trust
    <3> DEFINE known == IF readable THEN file ELSE Empty
               met == Continuity(known, d, k)
    <3>1. PICK where : /\ where = CASE met = "same" -> "session"
                                    [] met = "changed" /\ ~trust -> "refused"
                                    [] OTHER -> "write"
                       /\ step'[v] = [at |-> where, dev |-> d, key |-> k, lost |-> ~readable,
                                      trust |-> trust]
      BY <2>0, <2>3 DEF Meets
    <3>2. /\ step'[v].at = where /\ step'[v].dev = d /\ step'[v].key = k
          /\ step'[v].lost = ~readable /\ step'[v].trust = trust
      BY <3>1
    <3>3. met = "first" \/ met = "same" \/ trust
      BY <3>1, <3>2 DEF Continuity
    <3>4. readable /\ ~trust => file[d] \in {NoPrint, k}
      BY <3>3 DEF Continuity
    <3> QED
      BY <3>2, <3>4, <2>0 DEF PinsHold
  <2> QED
    BY <2>1, <2>2, <2>3
<1> QED
  BY <1>1, KnownStart, KnownStep, PTL DEF KnownSpec, KeyKept

-----------------------------------------------------------------------------
(* The data folder and the commands that work on it. *)

FileId == -1 .. MakeBound
Places == {"off", "keyRead", "keyOpen", "keyFill", "keyRename", "bind", "database", "rows", "pair",
           "pairRead", "pemKeyOpen", "pemKeyFill", "crtOpen", "crtFill", "up", "tryPort",
           "letPort", "copyKey", "copyRows", "copyCrt", "copyCrtKey"}
DiskType ==
    [there : BOOLEAN, key : FileId, partial : FileId, crt : FileId, crtKey : FileId,
     database : BOOLEAN, main : Nat, wal : Nat, stale : BOOLEAN, mixed : BOOLEAN]
ProcType ==
    [cmd : Commands \cup {"none"}, at : Places, key : 0 .. MakeBound, new : 0 .. MakeBound,
     into : {"partial", "key"}]
CopyType ==
    [state : {"none", "part", "done"}, key : FileId, rows : Nat, since : Nat, crt : FileId,
     crtKey : FileId]
HistType ==
    [runs : Nat, made : 0 .. MakeBound, keysRaced : BOOLEAN, pairsRaced : BOOLEAN,
     cutCrt : BOOLEAN, leftOpen : BOOLEAN, restoredOver : BOOLEAN, lost : BOOLEAN]

FolderTypes ==
    /\ disk \in DiskType /\ proc \in [Procs -> ProcType]
    /\ port = {} \/ \E p \in Procs : port = {p}
    /\ pinned \subseteq 1 .. MakeBound /\ copy \in CopyType /\ hist \in HistType

(* What a process has by where it is: a key of its own from the moment it  *)
(* generated one, the server's from then on, a database once it is open.   *)
Equipped(p) ==
    /\ proc[p].at = "off" => proc[p] = Idle
    /\ proc[p].at \in {"keyFill", "keyRename", "pemKeyFill", "crtOpen", "crtFill"} => proc[p].new > 0
    /\ proc[p].cmd = "serve" /\ proc[p].at \in {"bind", "database", "pair", "pairRead",
            "pemKeyOpen", "pemKeyFill", "crtOpen", "crtFill", "up"} => proc[p].key > 0
    /\ proc[p].cmd = "serve" /\ proc[p].at \in {"pair", "pairRead", "pemKeyOpen",
            "pemKeyFill", "crtOpen", "crtFill", "up"} => disk.database
    /\ proc[p].at = "rows" => disk.database
    /\ proc[p].cmd = "serve" => disk.there
    /\ hist.lost => proc[p].at = "off"

Copying == {"copyRows", "copyCrt", "copyCrtKey"}

(* One backup at most is under way, and it goes into a folder it made. *)
OneCopies(p) ==
    proc[p].at \in Copying =>
        /\ copy.state = "part" /\ copy.key # 0
        /\ \A q \in Procs : proc[q].at \in Copying => q = p
        /\ proc[p].at = "copyRows" => copy.since <= disk.main + disk.wal
        /\ proc[p].at # "copyRows" => copy.since <= copy.rows

(* The rows: as many as were written until something is restored, and      *)
(* those of a log that is left when nobody has the database open are those *)
(* of a process that left it open.                                         *)
RowsCounted ==
    /\ disk.wal <= WriteBound /\ copy.rows <= WriteBound
    /\ disk.main + disk.wal <= 2 * WriteBound
    /\ copy.state # "done" => disk.main + disk.wal <= WriteBound
    /\ ~disk.database => disk.main + disk.wal = 0
    /\ copy.state = "done" => copy.since <= copy.rows
LogLeft ==
    /\ HasPool = {} /\ disk.wal > 0 => hist.leftOpen
    /\ disk.stale \/ disk.mixed => hist.restoredOver

(* The server's key, unless two processes made a first one at once. *)
KeyMakers == {p \in Procs : proc[p].at \in {"keyFill", "keyRename"}}
OneKey ==
    ~hist.keysRaced =>
        /\ \A p, q \in KeyMakers : p = q
        /\ \A p \in KeyMakers : /\ proc[p].into = "partial"
                                /\ proc[p].at = "keyRename" => disk.partial = proc[p].new
        /\ MakingKey # {} => disk.key = 0
        /\ \A p \in Procs : proc[p].key \in {0, disk.key}
        /\ ~hist.lost => /\ disk.key # Torn /\ pinned \subseteq {disk.key}
                         /\ copy.key \in {0, disk.key}
        /\ copy.state = "done" => Whole(copy.key) /\ pinned \subseteq {copy.key}

(* The certificate and its key, unless two processes made a pair at once   *)
(* or the certificate's write was cut short.                               *)
PairMakers == {p \in Procs : proc[p].at \in {"pemKeyFill", "crtOpen", "crtFill"}}
CrtFillers == {p \in Procs : proc[p].at = "crtFill"}
OnePair ==
    ~hist.cutCrt /\ ~hist.pairsRaced =>
        /\ \A p, q \in PairMakers : p = q
        /\ \A p \in PairMakers : proc[p].at # "pemKeyFill" => disk.crtKey = proc[p].new
        /\ CrtFillers = {} => /\ disk.crt = 0 \/ (Whole(disk.crt) /\ disk.crt = disk.crtKey)
                              /\ MakingPair # {} => disk.crt = 0
        /\ \A p \in Procs : proc[p].at = "copyCrtKey" /\ copy.crt # 0 => disk.crt # 0
        /\ copy.state = "done" /\ copy.crt = copy.crtKey => copy.crt = 0 \/ Whole(copy.crt)

FolderInv ==
    /\ FolderTypes /\ RowsCounted /\ LogLeft /\ OneKey /\ OnePair
    /\ \A p \in Procs : Equipped(p) /\ OneCopies(p)

LEMMA IdleProc == Idle \in ProcType /\ Idle.at = "off" /\ Idle.key = 0 /\ Idle.cmd = "none"
PROOF BY FolderAssumption DEF Idle, ProcType, Places

LEMMA FolderStart == FolderInit => FolderInv
PROOF
<1> SUFFICES ASSUME FolderInit PROVE FolderInv
  OBVIOUS
<1>1. /\ disk = [there |-> FALSE, key |-> 0, partial |-> 0, crt |-> 0, crtKey |-> 0,
                 database |-> FALSE, main |-> 0, wal |-> 0, stale |-> FALSE, mixed |-> FALSE]
      /\ copy = [state |-> "none", key |-> 0, rows |-> 0, since |-> 0, crt |-> 0, crtKey |-> 0]
      /\ hist = [runs |-> 0, made |-> 0, keysRaced |-> FALSE, pairsRaced |-> FALSE,
                 cutCrt |-> FALSE, leftOpen |-> FALSE, restoredOver |-> FALSE, lost |-> FALSE]
      /\ port = {} /\ pinned = {}
  BY DEF FolderInit, NoDisk, NoCopy
<1>2. \A p \in Procs : proc[p] = Idle /\ proc[p].at = "off" /\ proc[p].key = 0 /\ proc[p].cmd = "none"
  BY IdleProc DEF FolderInit
<1>3. FolderTypes
  <2>1. disk \in DiskType
    BY FolderAssumption, <1>1 DEF DiskType, FileId
  <2>2. copy \in CopyType
    BY FolderAssumption, <1>1 DEF CopyType, FileId
  <2>3. hist \in HistType
    BY FolderAssumption, <1>1 DEF HistType
  <2> QED
    BY <1>1, IdleProc, <2>1, <2>2, <2>3 DEF FolderInit, FolderTypes
<1>4. RowsCounted
  BY FolderAssumption, <1>1 DEF RowsCounted
<1>5. LogLeft
  BY <1>1 DEF LogLeft
<1>6. KeyMakers = {} /\ MakingKey = {} /\ PairMakers = {} /\ MakingPair = {}
  BY <1>2 DEF KeyMakers, MakingKey, PairMakers, MakingPair
<1>7. OneKey
  BY <1>1, <1>2, <1>6 DEF OneKey, Torn
<1>8. OnePair
  BY <1>1, <1>2, <1>6 DEF OnePair
<1>9. \A p \in Procs : Equipped(p) /\ OneCopies(p)
  BY <1>1, <1>2 DEF Equipped, OneCopies, Copying
<1> QED
  BY <1>3, <1>4, <1>5, <1>7, <1>8, <1>9 DEF FolderInv

(* Of the processes that do something, none is another than p. *)
LEMMA Alone ==
    ASSUME NEW S \in SUBSET Procs, NEW p \in S, ~(Cardinality(S) > 1)
    PROVE  S = {p}
PROOF
<1> SUFFICES ASSUME NEW q \in S, q # p PROVE FALSE
  OBVIOUS
<1>1. IsFiniteSet(S) /\ IsFiniteSet({p, q}) /\ {p, q} \subseteq S
  BY FolderAssumption, FS_Subset
<1>2. Cardinality({p, q}) = 2
  <2>1. IsFiniteSet({p}) /\ Cardinality({p}) = 1
    BY FS_Singleton
  <2>2. Cardinality({p} \cup {q}) = Cardinality({p}) + 1
    BY <2>1, FS_AddElement
  <2>3. {p} \cup {q} = {p, q}
    OBVIOUS
  <2> QED
    BY <2>1, <2>2, <2>3
<1>3. Cardinality({p, q}) <= Cardinality(S) /\ Cardinality(S) \in Nat
  BY <1>1, FS_Subset, FS_CardinalityType
<1> QED
  BY <1>2, <1>3

-----------------------------------------------------------------------------
(* What the larger steps change, field by field. *)

(* A key or a pair is begun: it has the next number. *)
LEMMA Generates ==
    ASSUME FolderTypes, hist.made < MakeBound, NEW raced \in BOOLEAN,
           \/ hist' = [hist EXCEPT !.made = hist.made + 1, !.keysRaced = raced]
           \/ hist' = [hist EXCEPT !.made = hist.made + 1, !.pairsRaced = raced]
    PROVE  /\ hist.made + 1 \in 1 .. MakeBound /\ hist' \in HistType
           /\ hist'.lost = hist.lost /\ hist'.leftOpen = hist.leftOpen
           /\ hist'.restoredOver = hist.restoredOver /\ hist'.cutCrt = hist.cutCrt
PROOF
<1>1. PICK n \in 1 .. MakeBound : n = hist.made + 1
  BY FolderAssumption DEF FolderTypes, HistType
<1>2. n \in 0 .. MakeBound /\ hist \in HistType
  BY <1>1 DEF FolderTypes
<1>3. CASE hist' = [hist EXCEPT !.made = n, !.keysRaced = raced]
  BY <1>1, <1>2, <1>3 DEF HistType
<1>4. CASE hist' = [hist EXCEPT !.made = n, !.pairsRaced = raced]
  BY <1>1, <1>2, <1>4 DEF HistType
<1> QED
  BY <1>1, <1>3, <1>4

LEMMA KeyOpened ==
    ASSUME FolderTypes, NEW p \in Procs, KeyOpen(p)
    PROVE  /\ proc[p].at = "keyOpen" /\ proc' \in [Procs -> ProcType]
           /\ proc'[p].at = "keyFill" /\ proc'[p].into = "partial" /\ proc'[p].key = proc[p].key
           /\ \A q \in Procs \ {p} : proc'[q] = proc[q]
           /\ disk' \in DiskType /\ disk'.key = disk.key /\ disk'.partial = Torn
           /\ hist' \in HistType /\ UNCHANGED <<port, pinned, copy>>
           /\ hist'.keysRaced = (hist.keysRaced \/ Cardinality(MakingKey) > 1)
           /\ hist'.lost = hist.lost
PROOF
<1>1. PICK raced \in BOOLEAN : raced = (hist.keysRaced \/ Cardinality(MakingKey) > 1)
  OBVIOUS
<1>2. hist' = [hist EXCEPT !.made = hist.made + 1, !.keysRaced = raced] /\ hist.made < MakeBound
  BY <1>1 DEF KeyOpen
<1>3. hist.made + 1 \in 1 .. MakeBound /\ hist' \in HistType /\ hist'.lost = hist.lost
  BY <1>2, Generates
<1>4. hist'.keysRaced = raced
  BY <1>2 DEF FolderTypes, HistType
<1>5. disk' \in DiskType /\ disk'.key = disk.key /\ disk'.partial = Torn
  BY FolderAssumption DEF KeyOpen, FolderTypes, DiskType, FileId, Torn
<1>6. PICK n \in 0 .. MakeBound : n = hist.made + 1
  BY <1>3
<1>7. PICK now : now = [proc[p] EXCEPT !.at = "keyFill", !.new = n, !.into = "partial"]
  OBVIOUS
<1>8. now \in ProcType /\ now.at = "keyFill" /\ now.into = "partial" /\ now.key = proc[p].key
  <2>1. proc[p] \in ProcType
    BY DEF FolderTypes
  <2> QED
    BY <1>7, <2>1 DEF ProcType, Places
<1>9. proc' = [proc EXCEPT ![p] = now]
  BY <1>6, <1>7 DEF KeyOpen, FolderTypes
<1> QED
  BY <1>1, <1>3, <1>4, <1>5, <1>8, <1>9, ZenonT(30) DEF KeyOpen, At, FolderTypes

LEMMA PemKeyOpened ==
    ASSUME FolderTypes, NEW p \in Procs, PemKeyOpen(p)
    PROVE  /\ proc[p].at = "pemKeyOpen" /\ proc' \in [Procs -> ProcType]
           /\ proc'[p].at = "pemKeyFill" /\ \A q \in Procs \ {p} : proc'[q] = proc[q]
           /\ disk' \in DiskType /\ disk'.crt = disk.crt
           /\ hist' \in HistType /\ UNCHANGED <<port, pinned, copy>>
           /\ hist'.pairsRaced = (hist.pairsRaced \/ Cardinality(MakingPair) > 1)
           /\ hist'.cutCrt = hist.cutCrt
PROOF
<1>1. PICK raced \in BOOLEAN : raced = (hist.pairsRaced \/ Cardinality(MakingPair) > 1)
  OBVIOUS
<1>2. hist' = [hist EXCEPT !.made = hist.made + 1, !.pairsRaced = raced] /\ hist.made < MakeBound
  BY <1>1 DEF PemKeyOpen
<1>3. hist.made + 1 \in 1 .. MakeBound /\ hist' \in HistType /\ hist'.cutCrt = hist.cutCrt
  BY <1>2, Generates
<1>4. hist'.pairsRaced = raced
  BY <1>2 DEF FolderTypes, HistType
<1>5. disk' \in DiskType /\ disk'.crt = disk.crt
  BY FolderAssumption DEF PemKeyOpen, FolderTypes, DiskType, FileId, Torn
<1>6. PICK n \in 0 .. MakeBound : n = hist.made + 1
  BY <1>3
<1>7. PICK now : now = [proc[p] EXCEPT !.at = "pemKeyFill", !.new = n]
  OBVIOUS
<1>8. now \in ProcType /\ now.at = "pemKeyFill"
  <2>1. proc[p] \in ProcType
    BY DEF FolderTypes
  <2> QED
    BY <1>7, <2>1 DEF ProcType, Places
<1>9. proc' = [proc EXCEPT ![p] = now]
  BY <1>6, <1>7 DEF PemKeyOpen, FolderTypes
<1> QED
  BY <1>1, <1>3, <1>4, <1>5, <1>8, <1>9 DEF PemKeyOpen, At, FolderTypes

LEMMA KeyRenamed ==
    ASSUME FolderTypes, NEW p \in Procs, KeyRename(p)
    PROVE  /\ proc[p].at = "keyRename" /\ proc' \in [Procs -> ProcType]
           /\ \/ /\ disk.partial # 0 /\ proc'[p].at = "bind" /\ proc'[p].cmd = proc[p].cmd
                 /\ proc'[p].key = proc[p].new
                 /\ disk' = [disk EXCEPT !.key = disk.partial, !.partial = 0]
              \/ /\ disk.partial = 0 /\ proc'[p] = Idle /\ disk' = disk
           /\ disk' \in DiskType
           /\ \A q \in Procs \ {p} :
                 /\ proc[q].at # "keyFill" => proc'[q] = proc[q]
                 /\ proc'[q].cmd = proc[q].cmd /\ proc'[q].at = proc[q].at
                 /\ proc'[q].key = proc[q].key /\ proc'[q].new = proc[q].new
           /\ hist' \in HistType /\ UNCHANGED <<port, pinned, copy>>
           /\ hist'.keysRaced = (hist.keysRaced \/ Cardinality(MakingKey) > 1)
           /\ hist'.pairsRaced = hist.pairsRaced /\ hist'.cutCrt = hist.cutCrt
           /\ hist'.leftOpen = hist.leftOpen /\ hist'.restoredOver = hist.restoredOver
           /\ hist'.lost = hist.lost
PROOF
<1>1. PICK raced \in BOOLEAN : raced = (hist.keysRaced \/ Cardinality(MakingKey) > 1)
  OBVIOUS
<1>2. hist' = [hist EXCEPT !.keysRaced = raced]
  BY <1>1 DEF KeyRename
<1>3. /\ hist' \in HistType /\ hist'.keysRaced = raced /\ hist'.pairsRaced = hist.pairsRaced
      /\ hist'.cutCrt = hist.cutCrt
      /\ hist'.leftOpen = hist.leftOpen /\ hist'.restoredOver = hist.restoredOver
      /\ hist'.lost = hist.lost
  BY <1>2 DEF FolderTypes, HistType
<1>4. proc[p] \in ProcType /\ \A q \in Procs : proc[q] \in ProcType
  BY DEF FolderTypes
<1>5. ASSUME disk.partial # 0
      PROVE  /\ proc' \in [Procs -> ProcType]
             /\ proc'[p].at = "bind" /\ proc'[p].cmd = proc[p].cmd /\ proc'[p].key = proc[p].new
             /\ disk' = [disk EXCEPT !.key = disk.partial, !.partial = 0]
             /\ \A q \in Procs \ {p} :
                 /\ proc[q].at # "keyFill" => proc'[q] = proc[q]
                 /\ proc'[q].cmd = proc[q].cmd /\ proc'[q].at = proc[q].at
                 /\ proc'[q].key = proc[q].key /\ proc'[q].new = proc[q].new
  <2>1. /\ disk' = [disk EXCEPT !.key = disk.partial, !.partial = 0]
        /\ proc' = [q \in Procs |->
                CASE q = p -> [proc[q] EXCEPT !.at = "bind", !.key = proc[p].new]
                  [] q # p /\ proc[q].at = "keyFill" -> [proc[q] EXCEPT !.into = "key"]
                  [] OTHER -> proc[q]]
    BY <1>5 DEF KeyRename
  <2>2. proc'[p] = [proc[p] EXCEPT !.at = "bind", !.key = proc[p].new]
    BY <2>1
  <2>3. /\ proc'[p] \in ProcType /\ proc'[p].at = "bind" /\ proc'[p].cmd = proc[p].cmd
        /\ proc'[p].key = proc[p].new
    BY <1>4, <2>2 DEF ProcType, Places
  <2>4. ASSUME NEW q \in Procs \ {p}
        PROVE  /\ proc'[q] \in ProcType
               /\ proc[q].at # "keyFill" => proc'[q] = proc[q]
               /\ proc'[q].cmd = proc[q].cmd /\ proc'[q].at = proc[q].at
               /\ proc'[q].key = proc[q].key /\ proc'[q].new = proc[q].new
    <3>1. CASE proc[q].at = "keyFill"
      <4>1. proc'[q] = [proc[q] EXCEPT !.into = "key"]
        BY <2>1, <3>1
      <4> QED
        BY <1>4, <3>1, <4>1 DEF ProcType
    <3>2. CASE proc[q].at # "keyFill"
      BY <2>1, <3>2, <1>4
    <3> QED
      BY <3>1, <3>2
  <2>5. proc' \in [Procs -> ProcType]
    BY <2>1, <2>3, <2>4
  <2> QED
    BY <2>1, <2>3, <2>4, <2>5
<1>6. ASSUME disk.partial = 0
      PROVE  /\ proc' \in [Procs -> ProcType] /\ proc'[p] = Idle /\ disk' = disk
             /\ \A q \in Procs \ {p} : proc'[q] = proc[q]
  BY <1>6, IdleProc DEF KeyRename, Exits, FolderTypes
<1>7. disk' \in DiskType
  <2>1. disk.partial \in FileId /\ 0 \in FileId
    BY FolderAssumption DEF FolderTypes, DiskType, FileId
  <2>2. [disk EXCEPT !.key = disk.partial, !.partial = 0] \in DiskType
    BY <2>1 DEF FolderTypes, DiskType
  <2> QED
    BY <1>5, <1>6, <2>2 DEF FolderTypes
<1> QED
  BY <1>1, <1>3, <1>5, <1>6, <1>7 DEF KeyRename, At

LEMMA CrtFilled ==
    ASSUME FolderTypes, NEW p \in Procs, CrtFill(p)
    PROVE  /\ proc[p].at = "crtFill" /\ disk' = [disk EXCEPT !.crt = proc[p].new]
           /\ disk' \in DiskType
           /\ proc' = [proc EXCEPT ![p].at = "pairRead"] /\ proc' \in [Procs -> ProcType]
           /\ hist' \in HistType /\ UNCHANGED <<port, pinned, copy>>
           /\ hist'.pairsRaced = (hist.pairsRaced \/ Cardinality(MakingPair) > 1)
           /\ hist'.keysRaced = hist.keysRaced /\ hist'.cutCrt = hist.cutCrt
           /\ hist'.leftOpen = hist.leftOpen /\ hist'.restoredOver = hist.restoredOver
           /\ hist'.lost = hist.lost
PROOF
<1>1. PICK raced \in BOOLEAN : raced = (hist.pairsRaced \/ Cardinality(MakingPair) > 1)
  OBVIOUS
<1>2. hist' = [hist EXCEPT !.pairsRaced = raced]
  BY <1>1 DEF CrtFill
<1>3. /\ hist' \in HistType /\ hist'.pairsRaced = raced /\ hist'.keysRaced = hist.keysRaced
      /\ hist'.cutCrt = hist.cutCrt
      /\ hist'.leftOpen = hist.leftOpen /\ hist'.restoredOver = hist.restoredOver
      /\ hist'.lost = hist.lost
  BY <1>2 DEF FolderTypes, HistType
<1>4. proc[p].new \in FileId
  BY FolderAssumption DEF FolderTypes, ProcType, FileId
<1>5. disk' = [disk EXCEPT !.crt = proc[p].new] /\ disk' \in DiskType
  BY <1>4 DEF CrtFill, FolderTypes, DiskType
<1>6. proc' = [proc EXCEPT ![p].at = "pairRead"] /\ proc' \in [Procs -> ProcType]
  BY DEF CrtFill, MovesTo, FolderTypes, ProcType, Places
<1> QED
  BY <1>1, <1>3, <1>5, <1>6 DEF CrtFill, At

LEMMA ProcessDied ==
    ASSUME FolderTypes, NEW p \in Procs, ProcessDies(p)
    PROVE  /\ proc' = [proc EXCEPT ![p] = Idle] /\ proc' \in [Procs -> ProcType]
           /\ hist' \in HistType /\ UNCHANGED <<disk, pinned, copy>>
           /\ port' = {} \/ port' = port
           /\ hist'.cutCrt = (hist.cutCrt \/ proc[p].at = "crtFill")
           /\ hist'.leftOpen = (hist.leftOpen \/ p \in HasPool)
           /\ hist'.restoredOver = hist.restoredOver
           /\ hist'.keysRaced = hist.keysRaced /\ hist'.pairsRaced = hist.pairsRaced
           /\ hist'.lost = hist.lost
PROOF
<1>1. PICK cut \in BOOLEAN : cut = (hist.cutCrt \/ proc[p].at = "crtFill")
  OBVIOUS
<1>2. PICK left \in BOOLEAN : left = (hist.leftOpen \/ p \in HasPool)
  OBVIOUS
<1>3. hist' = [hist EXCEPT !.cutCrt = cut, !.leftOpen = left]
  BY <1>1, <1>2 DEF ProcessDies, At
<1>4. /\ hist' \in HistType /\ hist'.cutCrt = cut /\ hist'.leftOpen = left
      /\ hist'.restoredOver = hist.restoredOver
      /\ hist'.keysRaced = hist.keysRaced /\ hist'.pairsRaced = hist.pairsRaced
      /\ hist'.lost = hist.lost
  BY <1>3 DEF FolderTypes, HistType
<1>5. proc' = [proc EXCEPT ![p] = Idle] /\ proc' \in [Procs -> ProcType]
  BY IdleProc DEF ProcessDies, Exits, FolderTypes
<1>6. port' = {} \/ port' = port
  BY DEF ProcessDies, FolderTypes
<1> QED
  BY <1>1, <1>2, <1>4, <1>5, <1>6 DEF ProcessDies

(* The log is moved into the file: no row is lost, and nothing else moves. *)
LEMMA LogMoved ==
    ASSUME FolderTypes, disk' = [disk EXCEPT !.main = Rows, !.wal = 0]
    PROVE  /\ disk' \in DiskType /\ disk'.main = disk.main + disk.wal /\ disk'.wal = 0
           /\ disk'.there = disk.there /\ disk'.mixed = disk.mixed /\ disk'.stale = disk.stale
           /\ disk'.key = disk.key /\ disk'.partial = disk.partial /\ disk'.crt = disk.crt
           /\ disk'.crtKey = disk.crtKey /\ disk'.database = disk.database
PROOF
<1>1. PICK all \in Nat : all = disk.main + disk.wal
  BY DEF FolderTypes, DiskType
<1>2. disk' = [disk EXCEPT !.main = all, !.wal = 0]
  BY <1>1 DEF Rows
<1>3. disk' \in DiskType
  <2>1. disk \in DiskType /\ 0 \in Nat
    BY DEF FolderTypes
  <2> QED
    BY <1>2, <2>1 DEF DiskType
<1>4. /\ disk'.main = all /\ disk'.wal = 0 /\ disk'.there = disk.there
      /\ disk'.mixed = disk.mixed /\ disk'.stale = disk.stale
      /\ disk'.key = disk.key /\ disk'.partial = disk.partial /\ disk'.crt = disk.crt
      /\ disk'.crtKey = disk.crtKey /\ disk'.database = disk.database
  BY <1>2 DEF FolderTypes, DiskType
<1> QED
  BY <1>1, <1>3, <1>4

(* A process that has the database ends, and closes it or does not. *)
LetsGo(p) ==
    /\ p \in HasPool /\ DropsPool(p) /\ Exits(p) /\ UNCHANGED <<pinned, copy>>
    /\ proc[p].at \in {"rows", "pairRead", "up"} /\ (port' = port \/ port' = {})
(* The pair was read, and the process goes on. *)
ReadsOn(p) ==
    /\ proc[p].at = "pairRead" /\ UNCHANGED <<disk, port, pinned, copy, hist>>
    /\ \/ proc[p].cmd = "doctor" /\ MovesTo(p, "tryPort")
       \/ proc[p].cmd = "serve" /\ MovesTo(p, "up")

LEMMA WaysToGo ==
    ASSUME NEW p \in Procs,
           EndsUnclosed(p) \/ StopsServing(p) \/ ServingFails(p) \/ ReadsPair(p),
           FolderTypes, Equipped(p)
    PROVE  LetsGo(p) \/ ReadsOn(p)
PROOF
<1>1. CASE EndsUnclosed(p)
  <2>1. p \in HasPool
    BY <1>1 DEF EndsUnclosed, HasPool, Equipped, At
  <2> QED
    BY <1>1, <2>1 DEF EndsUnclosed, LetsGo, At
<1>2. CASE StopsServing(p)
  BY <1>2 DEF StopsServing, Serving, HasPool, DropsPool, LetsGo
<1>3. CASE ServingFails(p)
  BY <1>3 DEF ServingFails, Serving, HasPool, LetsGo
<1>4. CASE ReadsPair(p)
  BY <1>4 DEF ReadsPair, At, HasPool, LetsGo, ReadsOn
<1> QED
  BY <1>1, <1>2, <1>3, <1>4

(* No row is lost when a process lets the database go, and a log that is   *)
(* left after the last of them is known to be.                             *)
LEMMA PoolGone ==
    ASSUME FolderTypes, NEW p \in Procs, LetsGo(p)
    PROVE  /\ disk' \in DiskType /\ hist' \in HistType /\ p \in HasPool
           /\ proc' = [proc EXCEPT ![p] = Idle] /\ proc' \in [Procs -> ProcType]
           /\ UNCHANGED <<pinned, copy>> /\ (port' = port \/ port' = {})
           /\ proc[p].at \in {"rows", "pairRead", "up"} /\ disk'.there = disk.there
           /\ disk'.main + disk'.wal = disk.main + disk.wal /\ disk'.wal <= disk.wal
           /\ disk'.mixed = disk.mixed /\ disk'.stale = disk.stale
           /\ disk'.key = disk.key /\ disk'.partial = disk.partial /\ disk'.crt = disk.crt
           /\ disk'.crtKey = disk.crtKey /\ disk'.database = disk.database
           /\ hist'.keysRaced = hist.keysRaced /\ hist'.pairsRaced = hist.pairsRaced
           /\ hist'.cutCrt = hist.cutCrt /\ hist'.lost = hist.lost
           /\ hist'.restoredOver = hist.restoredOver
           /\ HasPool = {p} /\ disk'.wal > 0 => hist'.leftOpen
PROOF
<1>1. disk \in DiskType /\ hist \in HistType /\ disk.main \in Nat /\ disk.wal \in Nat
  BY DEF FolderTypes, DiskType
<1>2. /\ p \in HasPool /\ UNCHANGED <<pinned, copy>> /\ (port' = port \/ port' = {})
      /\ proc' = [proc EXCEPT ![p] = Idle] /\ proc' \in [Procs -> ProcType]
      /\ proc[p].at \in {"rows", "pairRead", "up"}
  BY IdleProc DEF LetsGo, Exits, FolderTypes
<1>3. CASE HasPool = {p} /\ Reading = {} /\ ClosesPool(p)
  <2>1. disk' = [disk EXCEPT !.main = Rows, !.wal = 0] /\ hist' = [hist EXCEPT !.leftOpen = FALSE]
    BY <1>3 DEF ClosesPool
  <2>2. /\ hist' \in HistType
        /\ hist'.keysRaced = hist.keysRaced /\ hist'.pairsRaced = hist.pairsRaced
        /\ hist'.cutCrt = hist.cutCrt /\ hist'.lost = hist.lost
        /\ hist'.restoredOver = hist.restoredOver
    BY <1>1, <2>1 DEF HistType
  <2> QED
    BY <1>1, <1>2, <2>1, <2>2, LogMoved
<1>4. CASE disk' = disk /\ hist' = [hist EXCEPT !.leftOpen = TRUE]
  <2>1. /\ hist' \in HistType /\ hist'.leftOpen
        /\ hist'.keysRaced = hist.keysRaced /\ hist'.pairsRaced = hist.pairsRaced
        /\ hist'.cutCrt = hist.cutCrt /\ hist'.lost = hist.lost
        /\ hist'.restoredOver = hist.restoredOver
    BY <1>1, <1>4 DEF HistType
  <2> QED
    BY <1>1, <1>2, <1>4, <2>1
<1>5. CASE HasPool # {p} /\ disk' = disk /\ hist' = hist
  BY <1>1, <1>2, <1>5
<1> QED
  BY <1>3, <1>4, <1>5 DEF LetsGo, DropsPool, ClosesPool

LEMMA KeyCopied ==
    ASSUME FolderTypes, NEW p \in Procs, CopiesKey(p)
    PROVE  /\ proc[p].at = "copyKey" /\ proc' \in [Procs -> ProcType] /\ copy' \in CopyType
           /\ UNCHANGED <<disk, port, pinned, hist>>
           /\ \A q \in Procs \ {p} : proc'[q] = proc[q]
           /\ copy'.rows = copy.rows /\ copy'.crt = copy.crt /\ copy'.crtKey = copy.crtKey
           /\ \/ proc'[p] = Idle /\ copy' = copy
              \/ proc'[p] = Idle /\ copy.state = "none" /\ copy'.state = "part"
                    /\ copy'.key = copy.key /\ copy'.since = copy.since
              \/ /\ proc'[p].at = "copyRows" /\ proc'[p].key = proc[p].key
                 /\ copy.state = "none" /\ copy'.state = "part" /\ disk.key # 0
                 /\ copy'.key = disk.key /\ copy'.since = disk.main + disk.wal
PROOF
<1>1. copy \in CopyType /\ disk.key \in FileId /\ disk.main + disk.wal \in Nat /\ proc[p] \in ProcType
  BY DEF FolderTypes, DiskType
<1>2. CASE Exits(p) /\ copy' = copy
  BY <1>1, <1>2, IdleProc DEF CopiesKey, Exits, FolderTypes, At
<1>3. CASE Exits(p) /\ copy.state = "none" /\ copy' = [copy EXCEPT !.state = "part"]
  <2>1. /\ copy' \in CopyType /\ copy'.state = "part" /\ copy'.key = copy.key
        /\ copy'.since = copy.since /\ copy'.rows = copy.rows /\ copy'.crt = copy.crt
        /\ copy'.crtKey = copy.crtKey
    BY <1>1, <1>3 DEF CopyType
  <2> QED
    BY <1>1, <1>3, <2>1, IdleProc DEF CopiesKey, Exits, FolderTypes, At
<1>4. CASE /\ MovesTo(p, "copyRows") /\ copy.state = "none" /\ disk.key # 0
           /\ copy' = [copy EXCEPT !.state = "part", !.key = disk.key, !.since = Rows]
  <2>0. PICK all \in Nat : all = disk.main + disk.wal
    BY <1>1
  <2>1. /\ copy' \in CopyType /\ copy'.state = "part" /\ copy'.key = disk.key
        /\ copy'.since = all /\ copy'.rows = copy.rows /\ copy'.crt = copy.crt
        /\ copy'.crtKey = copy.crtKey
    BY <1>1, <1>4, <2>0 DEF CopyType, Rows
  <2>2. PICK now : now = [proc[p] EXCEPT !.at = "copyRows"]
    OBVIOUS
  <2>3. now \in ProcType /\ now.at = "copyRows" /\ now.key = proc[p].key
    BY <1>1, <2>2 DEF ProcType, Places
  <2>4. proc' = [proc EXCEPT ![p] = now]
    BY <1>4, <2>2 DEF MovesTo, FolderTypes
  <2> QED
    BY <1>1, <1>4, <2>0, <2>1, <2>3, <2>4 DEF CopiesKey, FolderTypes, At
<1> QED
  BY <1>2, <1>3, <1>4 DEF CopiesKey

LEMMA FolderRestored ==
    ASSUME FolderTypes, \A p \in Procs : Equipped(p), Restores
    PROVE  /\ copy.state = "done" /\ disk' \in DiskType /\ hist' \in HistType
           /\ \A p \in Procs : proc[p] = Idle
           /\ disk'.key = copy.key /\ disk'.database = TRUE /\ disk'.main = copy.rows
           /\ disk'.wal = disk.wal /\ disk'.stale = (disk.wal > 0) /\ disk'.mixed = disk.mixed
           /\ copy.crt # 0 => disk'.crt = copy.crt
           /\ copy.crt = 0 => disk'.crt = disk.crt
           /\ copy.crtKey # 0 => disk'.crtKey = copy.crtKey
           /\ copy.crtKey = 0 => disk'.crtKey = disk.crtKey
           /\ hist'.lost = FALSE /\ hist'.pairsRaced = (hist.pairsRaced \/ copy.crt # copy.crtKey)
           /\ hist'.keysRaced = hist.keysRaced /\ hist'.cutCrt = hist.cutCrt
           /\ hist'.leftOpen = hist.leftOpen
           /\ hist'.restoredOver = (hist.restoredOver \/ hist.leftOpen)
           /\ UNCHANGED <<proc, port, pinned, copy>>
PROOF
<1>1. /\ copy \in CopyType /\ disk \in DiskType /\ hist \in HistType /\ copy.key \in FileId
      /\ copy.rows \in Nat /\ copy.crt \in FileId /\ copy.crtKey \in FileId
  BY DEF FolderTypes, CopyType
<1>2. PICK left \in BOOLEAN : left = (disk.wal > 0)
  <2>1. (disk.wal > 0) \in BOOLEAN
    BY <1>1 DEF DiskType
  <2> QED
    BY <2>1, Zenon
<1>3. PICK crt \in FileId : crt = IF copy.crt # 0 THEN copy.crt ELSE disk.crt
  BY <1>1 DEF DiskType
<1>4. PICK pem \in FileId : pem = IF copy.crtKey # 0 THEN copy.crtKey ELSE disk.crtKey
  BY <1>1 DEF DiskType
<1>5. disk' = [disk EXCEPT !.there = TRUE, !.key = copy.key, !.database = TRUE, !.main = copy.rows,
                          !.stale = left, !.crt = crt, !.crtKey = pem]
  BY <1>1, <1>2, <1>3, <1>4 DEF Restores
<1>6. /\ disk' \in DiskType /\ disk'.key = copy.key /\ disk'.database = TRUE
      /\ disk'.main = copy.rows /\ disk'.wal = disk.wal /\ disk'.stale = left
      /\ disk'.mixed = disk.mixed /\ disk'.crt = crt /\ disk'.crtKey = pem
  BY <1>1, <1>5 DEF DiskType
<1>7. PICK raced \in BOOLEAN : raced = (hist.pairsRaced \/ copy.crt # copy.crtKey)
  OBVIOUS
<1>13. PICK over \in BOOLEAN : over = (hist.restoredOver \/ hist.leftOpen)
  OBVIOUS
<1>8. hist' = [hist EXCEPT !.lost = FALSE, !.pairsRaced = raced, !.restoredOver = over]
  BY <1>7, <1>13 DEF Restores
<1>9. /\ hist' \in HistType /\ hist'.lost = FALSE /\ hist'.pairsRaced = raced
      /\ hist'.keysRaced = hist.keysRaced /\ hist'.cutCrt = hist.cutCrt
      /\ hist'.leftOpen = hist.leftOpen /\ hist'.restoredOver = over
  BY <1>1, <1>8 DEF HistType
<1>10. copy.state = "done" /\ UNCHANGED <<proc, port, pinned, copy>>
  BY DEF Restores
<1>11. \A p \in Procs : proc[p] = Idle
  BY DEF Restores, At, Equipped
<1>12. /\ copy.crt # 0 => disk'.crt = copy.crt
       /\ copy.crt = 0 => disk'.crt = disk.crt
       /\ copy.crtKey # 0 => disk'.crtKey = copy.crtKey
       /\ copy.crtKey = 0 => disk'.crtKey = disk.crtKey
  BY <1>3, <1>4, <1>6
<1> QED
  BY <1>2, <1>6, <1>7, <1>9, <1>10, <1>11, <1>12, <1>13

LEMMA FolderLost ==
    ASSUME FolderTypes, LosesDisk
    PROVE  /\ disk' \in DiskType /\ hist' \in HistType /\ copy.state = "done"
           /\ disk' = [there |-> FALSE, key |-> 0, partial |-> 0, crt |-> 0, crtKey |-> 0,
                       database |-> FALSE, main |-> 0, wal |-> 0, stale |-> FALSE, mixed |-> FALSE]
           /\ proc' \in [Procs -> ProcType] /\ \A p \in Procs : proc'[p] = Idle
           /\ hist'.lost = TRUE /\ hist'.pairsRaced = hist.pairsRaced
           /\ hist'.keysRaced = hist.keysRaced /\ hist'.cutCrt = hist.cutCrt
           /\ hist'.leftOpen = FALSE /\ hist'.restoredOver = hist.restoredOver
           /\ port' = {} /\ UNCHANGED <<pinned, copy>>
PROOF
<1>1. disk' = [there |-> FALSE, key |-> 0, partial |-> 0, crt |-> 0, crtKey |-> 0,
               database |-> FALSE, main |-> 0, wal |-> 0, stale |-> FALSE, mixed |-> FALSE]
  BY DEF LosesDisk, NoDisk
<1>2. disk' \in DiskType
  BY <1>1, FolderAssumption DEF DiskType, FileId
<1>3. /\ hist' \in HistType /\ hist'.lost = TRUE /\ hist'.pairsRaced = hist.pairsRaced
      /\ hist'.keysRaced = hist.keysRaced /\ hist'.cutCrt = hist.cutCrt
      /\ hist'.leftOpen = FALSE /\ hist'.restoredOver = hist.restoredOver
  BY DEF LosesDisk, FolderTypes, HistType
<1>4. proc' \in [Procs -> ProcType] /\ \A p \in Procs : proc'[p] = Idle
  BY IdleProc DEF LosesDisk
<1> QED
  BY <1>1, <1>2, <1>3, <1>4 DEF LosesDisk

-----------------------------------------------------------------------------
(* Every step keeps every part of the invariant. *)

(* The files, the processes, the copy and the history keep their types. *)
LEMMA TypesKept ==
    ASSUME FolderTypes, \A q \in Procs : Equipped(q), FolderNext
    PROVE  FolderTypes'
PROOF
<1> USE FolderAssumption DEF At, MovesTo, Exits
<1>1. ASSUME NEW p \in Procs, NEW cmd \in Commands, RunsCommand(p, cmd) PROVE FolderTypes'
  <2>1. PICK n \in Nat : n = hist.runs + 1
    BY DEF FolderTypes, HistType
  <2>2. hist' = [hist EXCEPT !.runs = n]
    BY <1>1, <2>1 DEF RunsCommand
  <2>3. hist' \in HistType
    BY <2>2 DEF FolderTypes, HistType
  <2>4. disk' \in DiskType
    BY <1>1 DEF RunsCommand, FolderTypes, DiskType
  <2>5. PICK where \in Places : proc' = [proc EXCEPT ![p] = [Idle EXCEPT !.cmd = cmd, !.at = where]]
    BY <1>1 DEF RunsCommand, Commands, Places
  <2>6. [Idle EXCEPT !.cmd = cmd, !.at = where] \in ProcType
    BY IdleProc DEF ProcType
  <2> QED
    BY <1>1, <2>3, <2>4, <2>5, <2>6 DEF RunsCommand, FolderTypes
<1>2. ASSUME NEW p \in Procs, KeyRead(p) PROVE FolderTypes'
  BY <1>2 DEF KeyRead, FolderTypes, ProcType, Places, Idle
<1>3. ASSUME NEW p \in Procs, KeyOpen(p) PROVE FolderTypes'
  BY <1>3, KeyOpened DEF FolderTypes
<1>4. ASSUME NEW p \in Procs, KeyFill(p) PROVE FolderTypes'
  BY <1>4 DEF KeyFill, FolderTypes, DiskType, ProcType, FileId, Places
<1>5. ASSUME NEW p \in Procs, KeyRename(p) PROVE FolderTypes'
  BY <1>5, KeyRenamed DEF FolderTypes
<1>6. ASSUME NEW p \in Procs, Binds(p) PROVE FolderTypes'
  BY <1>6 DEF Binds, FolderTypes, ProcType, Places, Idle
<1>7. ASSUME NEW p \in Procs, OpensDatabase(p) PROVE FolderTypes'
  <2>1. disk' \in DiskType
    BY <1>7 DEF OpensDatabase, FolderTypes, DiskType
  <2>2. proc' \in [Procs -> ProcType]
    BY <1>7, IdleProc DEF OpensDatabase, FolderTypes, ProcType, Places
  <2> QED
    BY <1>7, <2>1, <2>2 DEF OpensDatabase, FolderTypes
<1>8. ASSUME NEW p \in Procs, LooksForPair(p) PROVE FolderTypes'
  BY <1>8 DEF LooksForPair, FolderTypes, ProcType, Places
<1>9. ASSUME NEW p \in Procs, PemKeyOpen(p) PROVE FolderTypes'
  BY <1>9, PemKeyOpened DEF FolderTypes
<1>10. ASSUME NEW p \in Procs, PemKeyFill(p) PROVE FolderTypes'
  BY <1>10 DEF PemKeyFill, FolderTypes, DiskType, ProcType, FileId, Places
<1>11. ASSUME NEW p \in Procs, CrtOpen(p) PROVE FolderTypes'
  BY <1>11 DEF CrtOpen, FolderTypes, DiskType, ProcType, FileId, Places, Torn
<1>12. ASSUME NEW p \in Procs, CrtFill(p) PROVE FolderTypes'
  BY <1>12, CrtFilled DEF FolderTypes
<1>13. ASSUME NEW p \in Procs, ReadsOn(p) PROVE FolderTypes'
  BY <1>13 DEF ReadsOn, FolderTypes, ProcType, Places, Idle
<1>14. ASSUME NEW p \in Procs, TriesPort(p) PROVE FolderTypes'
  BY <1>14 DEF TriesPort, FolderTypes, ProcType, Places, Idle
<1>15. ASSUME NEW p \in Procs, LetsPort(p) PROVE FolderTypes'
  BY <1>15 DEF LetsPort, FolderTypes, ProcType, Places, Idle
<1>16. ASSUME NEW p \in Procs, LetsGo(p) PROVE FolderTypes'
  BY <1>16, PoolGone DEF FolderTypes
<1>17. ASSUME NEW p \in Procs, ProcessDies(p) PROVE FolderTypes'
  BY <1>17, ProcessDied DEF FolderTypes
<1>18. ASSUME NEW p \in Procs, CopiesKey(p) PROVE FolderTypes'
  BY <1>18, KeyCopied DEF FolderTypes
<1>19. ASSUME NEW p \in Procs, CopiesRows(p) PROVE FolderTypes'
  BY <1>19 DEF CopiesRows, FolderTypes, DiskType, ProcType, CopyType, Places, Rows
<1>20. ASSUME NEW p \in Procs, CopiesCrt(p) PROVE FolderTypes'
  BY <1>20 DEF CopiesCrt, FolderTypes, DiskType, ProcType, CopyType, Places
<1>21. ASSUME NEW p \in Procs, CopiesCrtKey(p) PROVE FolderTypes'
  <2>1. disk.crtKey \in FileId
    BY DEF FolderTypes, DiskType
  <2>2. copy' \in CopyType
    BY <1>21, <2>1 DEF CopiesCrtKey, FolderTypes, CopyType
  <2> QED
    BY <1>21, <2>2, IdleProc DEF CopiesCrtKey, FolderTypes
<1>22. CASE WritesRow
  BY <1>22 DEF WritesRow, FolderTypes, DiskType
<1>23. CASE Checkpoints
  <2>1. disk' \in DiskType
    BY <1>23, LogMoved DEF Checkpoints
  <2> QED
    BY <1>23, <2>1 DEF Checkpoints, FolderTypes
<1>24. CASE Pins
  <2>1. PICK p \in Serving : pinned' = pinned \cup {proc[p].key}
    BY <1>24 DEF Pins
  <2>2. proc[p].key \in 0 .. MakeBound /\ proc[p].key > 0
    BY <2>1 DEF Serving, Equipped, FolderTypes, ProcType
  <2>3. proc[p].key \in 1 .. MakeBound
    BY <2>2
  <2> QED
    BY <1>24, <2>1, <2>3 DEF Pins, FolderTypes
<1>25. CASE LosesDisk
  BY <1>25, FolderLost DEF FolderTypes
<1>26. CASE Restores
  BY <1>26, FolderRestored DEF FolderTypes
<1> QED
  BY <1>1, <1>2, <1>3, <1>4, <1>5, <1>6, <1>7, <1>8, <1>9, <1>10, <1>11, <1>12, <1>13,
    <1>14, <1>15, <1>16, <1>17, <1>18, <1>19, <1>20, <1>21, <1>22, <1>23, <1>24, <1>25,
    <1>26, WaysToGo DEF FolderNext, ServeSteps

(* No row is lost or counted twice. *)
LEMMA RowsKept ==
    ASSUME FolderTypes, \A q \in Procs : Equipped(q), \A q \in Procs : OneCopies(q),
    RowsCounted, FolderNext
    PROVE  RowsCounted'
PROOF
<1> USE FolderAssumption DEF At, MovesTo, Exits
<1>1. ASSUME NEW p \in Procs, NEW cmd \in Commands, RunsCommand(p, cmd) PROVE RowsCounted'
  BY <1>1 DEF RunsCommand, FolderTypes, Commands, RowsCounted
<1>2. ASSUME NEW p \in Procs, KeyRead(p) PROVE RowsCounted'
  BY <1>2 DEF KeyRead, FolderTypes, RowsCounted
<1>3. ASSUME NEW p \in Procs, KeyOpen(p) PROVE RowsCounted'
  BY <1>3 DEF KeyOpen, FolderTypes, RowsCounted
<1>4. ASSUME NEW p \in Procs, KeyFill(p) PROVE RowsCounted'
  BY <1>4 DEF KeyFill, FolderTypes, RowsCounted
<1>5. ASSUME NEW p \in Procs, KeyRename(p) PROVE RowsCounted'
  <2>1. disk'.main = disk.main /\ disk'.wal = disk.wal /\ disk'.database = disk.database
    BY <1>5, KeyRenamed DEF FolderTypes, DiskType
  <2> QED
    BY <1>5, <2>1 DEF KeyRename, RowsCounted
<1>6. ASSUME NEW p \in Procs, Binds(p) PROVE RowsCounted'
  BY <1>6 DEF Binds, FolderTypes, RowsCounted
<1>7. ASSUME NEW p \in Procs, OpensDatabase(p) PROVE RowsCounted'
  BY <1>7 DEF OpensDatabase, FolderTypes, RowsCounted
<1>8. ASSUME NEW p \in Procs, LooksForPair(p) PROVE RowsCounted'
  BY <1>8 DEF LooksForPair, FolderTypes, RowsCounted
<1>9. ASSUME NEW p \in Procs, PemKeyOpen(p) PROVE RowsCounted'
  BY <1>9 DEF PemKeyOpen, FolderTypes, RowsCounted
<1>10. ASSUME NEW p \in Procs, PemKeyFill(p) PROVE RowsCounted'
  BY <1>10 DEF PemKeyFill, FolderTypes, RowsCounted
<1>11. ASSUME NEW p \in Procs, CrtOpen(p) PROVE RowsCounted'
  BY <1>11 DEF CrtOpen, FolderTypes, RowsCounted
<1>12. ASSUME NEW p \in Procs, CrtFill(p) PROVE RowsCounted'
  BY <1>12 DEF CrtFill, FolderTypes, RowsCounted
<1>13. ASSUME NEW p \in Procs, ReadsOn(p) PROVE RowsCounted'
  BY <1>13 DEF ReadsOn, FolderTypes, RowsCounted
<1>14. ASSUME NEW p \in Procs, TriesPort(p) PROVE RowsCounted'
  BY <1>14 DEF TriesPort, FolderTypes, RowsCounted
<1>15. ASSUME NEW p \in Procs, LetsPort(p) PROVE RowsCounted'
  BY <1>15 DEF LetsPort, FolderTypes, RowsCounted
<1>16. ASSUME NEW p \in Procs, LetsGo(p) PROVE RowsCounted'
  BY <1>16, PoolGone DEF FolderTypes, DiskType, RowsCounted
<1>17. ASSUME NEW p \in Procs, ProcessDies(p) PROVE RowsCounted'
  BY <1>17 DEF ProcessDies, FolderTypes, RowsCounted
<1>18. ASSUME NEW p \in Procs, CopiesKey(p) PROVE RowsCounted'
  <2>1. /\ copy'.rows = copy.rows /\ disk' = disk
        /\ copy'.state = "done" => copy' = copy
    BY <1>18, KeyCopied
  <2>2. copy.state # "done" \/ copy' = copy
    BY <1>18, KeyCopied
  <2> QED
    BY <1>18, <2>1, <2>2 DEF RowsCounted
<1>19. ASSUME NEW p \in Procs, CopiesRows(p) PROVE RowsCounted'
  BY <1>19 DEF CopiesRows, FolderTypes, Commands, Rows, NoDisk, Copying, RowsCounted, OneCopies
<1>20. ASSUME NEW p \in Procs, CopiesCrt(p) PROVE RowsCounted'
  BY <1>20 DEF CopiesCrt, FolderTypes, RowsCounted
<1>21. ASSUME NEW p \in Procs, CopiesCrtKey(p) PROVE RowsCounted'
  BY <1>21 DEF CopiesCrtKey, FolderTypes, Commands, NoDisk, Copying, RowsCounted, OneCopies
<1>22. CASE WritesRow
  BY <1>22 DEF WritesRow, FolderTypes, DiskType, Rows, HasPool, RowsCounted, Equipped
<1>23. CASE Checkpoints
  BY <1>23 DEF Checkpoints, FolderTypes, DiskType, Rows, RowsCounted
<1>24. CASE Pins
  BY <1>24 DEF Pins, FolderTypes, RowsCounted
<1>25. CASE LosesDisk
  BY <1>25 DEF LosesDisk, FolderTypes, NoDisk, RowsCounted
<1>26. CASE Restores
  BY <1>26 DEF Restores, FolderTypes, DiskType, CopyType, RowsCounted
<1> QED
  BY <1>1, <1>2, <1>3, <1>4, <1>5, <1>6, <1>7, <1>8, <1>9, <1>10, <1>11, <1>12, <1>13,
    <1>14, <1>15, <1>16, <1>17, <1>18, <1>19, <1>20, <1>21, <1>22, <1>23, <1>24, <1>25,
    <1>26, WaysToGo DEF FolderNext, ServeSteps

(* Only a process that left the database open leaves a log. *)
LEMMA LogKept ==
    ASSUME FolderTypes, \A q \in Procs : Equipped(q), LogLeft, FolderNext
    PROVE  LogLeft'
PROOF
<1> USE FolderAssumption DEF At, MovesTo, Exits
<1>1. ASSUME NEW p \in Procs, NEW cmd \in Commands, RunsCommand(p, cmd) PROVE LogLeft'
  BY <1>1 DEF RunsCommand, FolderTypes, Commands, HasPool, LogLeft
<1>2. ASSUME NEW p \in Procs, KeyRead(p) PROVE LogLeft'
  BY <1>2 DEF KeyRead, FolderTypes, HasPool, LogLeft
<1>3. ASSUME NEW p \in Procs, KeyOpen(p) PROVE LogLeft'
  BY <1>3 DEF KeyOpen, FolderTypes, HasPool, LogLeft
<1>4. ASSUME NEW p \in Procs, KeyFill(p) PROVE LogLeft'
  BY <1>4 DEF KeyFill, FolderTypes, HasPool, LogLeft
<1>5. ASSUME NEW p \in Procs, KeyRename(p) PROVE LogLeft'
  <2>1. HasPool' = HasPool
    BY <1>5, KeyRenamed, IdleProc DEF HasPool
  <2>2. /\ disk'.wal = disk.wal /\ disk'.stale = disk.stale /\ disk'.mixed = disk.mixed
        /\ hist'.leftOpen = hist.leftOpen /\ hist'.restoredOver = hist.restoredOver
    BY <1>5, KeyRenamed DEF FolderTypes, DiskType
  <2> QED
    BY <2>1, <2>2 DEF LogLeft
<1>6. ASSUME NEW p \in Procs, Binds(p) PROVE LogLeft'
  BY <1>6 DEF Binds, FolderTypes, HasPool, LogLeft
<1>7. ASSUME NEW p \in Procs, OpensDatabase(p) PROVE LogLeft'
  <2>1. PICK mix \in BOOLEAN : mix = (disk.mixed \/ disk.stale)
    OBVIOUS
  <2>2. disk' = [disk EXCEPT !.database = TRUE, !.mixed = mix, !.stale = FALSE]
    BY <1>7, <2>1 DEF OpensDatabase
  <2>3. disk'.mixed = mix /\ disk'.stale = FALSE
    BY <2>2 DEF FolderTypes, DiskType
  <2>4. p \in HasPool'
    BY <1>7 DEF OpensDatabase, FolderTypes, ProcType, HasPool
  <2> QED
    BY <1>7, <2>1, <2>3, <2>4 DEF OpensDatabase, LogLeft
<1>8. ASSUME NEW p \in Procs, LooksForPair(p) PROVE LogLeft'
  <2>0. PICK where : where = CASE disk.crt # 0 /\ disk.crtKey # 0 -> "pairRead"
                               [] ~(disk.crt # 0 /\ disk.crtKey # 0) /\ disk.there -> "pemKeyOpen"
                               [] OTHER -> "tryPort"
    OBVIOUS
  <2>1. /\ proc' = [proc EXCEPT ![p].at = where] /\ proc[p].at = "pair"
        /\ where \in {"pairRead", "pemKeyOpen", "tryPort"}
        /\ proc[p].cmd = "serve" => where # "tryPort"
    BY <1>8, <2>0 DEF LooksForPair, Equipped
  <2>2. HasPool' = HasPool
    BY <2>1 DEF FolderTypes, ProcType, HasPool
  <2> QED
    BY <1>8, <2>2 DEF LooksForPair, LogLeft
<1>9. ASSUME NEW p \in Procs, PemKeyOpen(p) PROVE LogLeft'
  BY <1>9 DEF PemKeyOpen, FolderTypes, HasPool, LogLeft
<1>10. ASSUME NEW p \in Procs, PemKeyFill(p) PROVE LogLeft'
  BY <1>10 DEF PemKeyFill, FolderTypes, HasPool, LogLeft
<1>11. ASSUME NEW p \in Procs, CrtOpen(p) PROVE LogLeft'
  BY <1>11 DEF CrtOpen, FolderTypes, HasPool, LogLeft
<1>12. ASSUME NEW p \in Procs, CrtFill(p) PROVE LogLeft'
  BY <1>12 DEF CrtFill, FolderTypes, HasPool, LogLeft
<1>13. ASSUME NEW p \in Procs, ReadsOn(p) PROVE LogLeft'
  <2>1. HasPool' = HasPool
    BY <1>13 DEF ReadsOn, FolderTypes, ProcType, HasPool
  <2> QED
    BY <1>13, <2>1 DEF ReadsOn, LogLeft
<1>14. ASSUME NEW p \in Procs, TriesPort(p) PROVE LogLeft'
  BY <1>14 DEF TriesPort, FolderTypes, HasPool, LogLeft
<1>15. ASSUME NEW p \in Procs, LetsPort(p) PROVE LogLeft'
  BY <1>15 DEF LetsPort, FolderTypes, HasPool, LogLeft
<1>16. ASSUME NEW p \in Procs, LetsGo(p) PROVE LogLeft'
  BY <1>16, PoolGone, IdleProc DEF FolderTypes, HasPool, LogLeft
<1>17. ASSUME NEW p \in Procs, ProcessDies(p) PROVE LogLeft'
  BY <1>17 DEF ProcessDies, FolderTypes, DiskType, HistType, HasPool, LogLeft, Equipped
<1>18. ASSUME NEW p \in Procs, CopiesKey(p) PROVE LogLeft'
  BY <1>18 DEF CopiesKey, FolderTypes, HasPool, LogLeft
<1>19. ASSUME NEW p \in Procs, CopiesRows(p) PROVE LogLeft'
  BY <1>19 DEF CopiesRows, FolderTypes, HasPool, LogLeft
<1>20. ASSUME NEW p \in Procs, CopiesCrt(p) PROVE LogLeft'
  BY <1>20 DEF CopiesCrt, FolderTypes, HasPool, LogLeft
<1>21. ASSUME NEW p \in Procs, CopiesCrtKey(p) PROVE LogLeft'
  BY <1>21 DEF CopiesCrtKey, FolderTypes, HasPool, LogLeft
<1>22. CASE WritesRow
  BY <1>22 DEF WritesRow, FolderTypes, HasPool, LogLeft
<1>23. CASE Checkpoints
  BY <1>23 DEF Checkpoints, FolderTypes, DiskType, LogLeft
<1>24. CASE Pins
  BY <1>24 DEF Pins, FolderTypes, HasPool, LogLeft
<1>25. CASE LosesDisk
  BY <1>25 DEF LosesDisk, FolderTypes, NoDisk, LogLeft
<1>26. CASE Restores
  BY <1>26 DEF Restores, FolderTypes, DiskType, HasPool, LogLeft
<1> QED
  BY <1>1, <1>2, <1>3, <1>4, <1>5, <1>6, <1>7, <1>8, <1>9, <1>10, <1>11, <1>12, <1>13,
    <1>14, <1>15, <1>16, <1>17, <1>18, <1>19, <1>20, <1>21, <1>22, <1>23, <1>24, <1>25,
    <1>26, WaysToGo DEF FolderNext, ServeSteps

(* The key on disk is the one every process, agent and backup has. *)
LEMMA KeyStaysOne ==
    ASSUME FolderTypes, \A q \in Procs : Equipped(q), \A q \in Procs : OneCopies(q), OneKey,
    FolderNext
    PROVE  OneKey'
PROOF
<1> USE FolderAssumption DEF At, MovesTo, Exits
<1>1. ASSUME NEW p \in Procs, NEW cmd \in Commands, RunsCommand(p, cmd) PROVE OneKey'
  BY <1>1 DEF RunsCommand, FolderTypes, Commands, Idle, OneKey, KeyMakers, MakingKey
<1>2. ASSUME NEW p \in Procs, KeyRead(p) PROVE OneKey'
  <2>1. ~hist.lost
    BY <1>2 DEF KeyRead, Equipped
  <2> QED
    BY <1>2, <2>1, IdleProc DEF KeyRead, FolderTypes, ProcType, OneKey, KeyMakers, MakingKey
<1>3. ASSUME NEW p \in Procs, KeyOpen(p) PROVE OneKey'
  <2> SUFFICES ASSUME ~hist'.keysRaced PROVE OneKey'
    BY DEF OneKey
  <2>1. /\ ~hist.keysRaced /\ ~(Cardinality(MakingKey) > 1) /\ p \in MakingKey
        /\ MakingKey \in SUBSET Procs
    BY <1>3, KeyOpened DEF MakingKey
  <2>2. MakingKey = {p}
    BY <2>1, Alone
  <2>3. /\ disk'.key = disk.key /\ disk'.partial = Torn /\ proc'[p].at = "keyFill"
        /\ proc'[p].into = "partial" /\ proc'[p].key = proc[p].key
        /\ \A q \in Procs \ {p} : proc'[q] = proc[q]
    BY <1>3, KeyOpened
  <2>4. MakingKey' = {p} /\ KeyMakers' = {p}
    BY <2>2, <2>3 DEF MakingKey, KeyMakers
  <2>5. hist'.lost = hist.lost /\ UNCHANGED <<pinned, copy>>
    BY <1>3, KeyOpened
  <2> QED
    BY <2>1, <2>2, <2>3, <2>4, <2>5 DEF OneKey
<1>4. ASSUME NEW p \in Procs, KeyFill(p) PROVE OneKey'
  BY <1>4 DEF KeyFill, FolderTypes, OneKey, KeyMakers, MakingKey
<1>5. ASSUME NEW p \in Procs, KeyRename(p) PROVE OneKey'
  <2> SUFFICES ASSUME ~hist'.keysRaced PROVE OneKey'
    BY DEF OneKey
  <2>1. /\ ~hist.keysRaced /\ ~(Cardinality(MakingKey) > 1) /\ p \in MakingKey
        /\ MakingKey \in SUBSET Procs
    BY <1>5, KeyRenamed DEF MakingKey
  <2>2. MakingKey = {p}
    BY <2>1, Alone
  <2>3. hist'.lost = hist.lost /\ UNCHANGED <<pinned, copy>> /\ proc[p].at = "keyRename"
    BY <1>5, KeyRenamed
  <2>4. disk.partial = proc[p].new /\ proc[p].new > 0 /\ disk.key = 0
    BY <2>1, <2>3 DEF OneKey, KeyMakers, Equipped
  <2>5. /\ proc'[p].at = "bind" /\ proc'[p].key = proc[p].new
        /\ disk' = [disk EXCEPT !.key = disk.partial, !.partial = 0]
        /\ \A q \in Procs \ {p} : proc'[q].at = proc[q].at /\ proc'[q].key = proc[q].key
    BY <1>5, <2>4, KeyRenamed
  <2>6. disk'.key = proc[p].new
    BY <2>4, <2>5 DEF FolderTypes, DiskType
  <2>7. MakingKey' = {} /\ KeyMakers' = {}
    BY <2>2, <2>5 DEF MakingKey, KeyMakers
  <2>8. pinned = {} \/ hist.lost
    <3>1. pinned \subseteq {0} \/ hist.lost
      BY <2>1, <2>4 DEF OneKey
    <3> QED
      BY <3>1 DEF FolderTypes
  <2>9. ~hist.lost
    BY <2>3 DEF Equipped
  <2>10. copy.key = 0 /\ copy.state # "done" /\ \A q \in Procs : proc[q].key = 0
    BY <2>1, <2>4, <2>9 DEF OneKey, Whole
  <2> QED
    BY <2>1, <2>3, <2>4, <2>5, <2>6, <2>7, <2>8, <2>9, <2>10 DEF OneKey, Torn
<1>6. ASSUME NEW p \in Procs, Binds(p) PROVE OneKey'
  BY <1>6 DEF Binds, FolderTypes, ProcType, Idle, OneKey, KeyMakers, MakingKey
<1>7. ASSUME NEW p \in Procs, OpensDatabase(p) PROVE OneKey'
  BY <1>7 DEF OpensDatabase, FolderTypes, ProcType, Idle, OneKey, KeyMakers, MakingKey, Equipped
<1>8. ASSUME NEW p \in Procs, LooksForPair(p) PROVE OneKey'
  BY <1>8 DEF LooksForPair, FolderTypes, OneKey, KeyMakers, MakingKey
<1>9. ASSUME NEW p \in Procs, PemKeyOpen(p) PROVE OneKey'
  BY <1>9 DEF PemKeyOpen, FolderTypes, OneKey, KeyMakers, MakingKey
<1>10. ASSUME NEW p \in Procs, PemKeyFill(p) PROVE OneKey'
  BY <1>10 DEF PemKeyFill, FolderTypes, OneKey, KeyMakers, MakingKey
<1>11. ASSUME NEW p \in Procs, CrtOpen(p) PROVE OneKey'
  BY <1>11 DEF CrtOpen, FolderTypes, OneKey, KeyMakers, MakingKey
<1>12. ASSUME NEW p \in Procs, CrtFill(p) PROVE OneKey'
  BY <1>12 DEF CrtFill, FolderTypes, OneKey, KeyMakers, MakingKey
<1>13. ASSUME NEW p \in Procs, ReadsOn(p) PROVE OneKey'
  BY <1>13 DEF ReadsOn, FolderTypes, ProcType, Idle, OneKey, KeyMakers, MakingKey
<1>14. ASSUME NEW p \in Procs, TriesPort(p) PROVE OneKey'
  BY <1>14 DEF TriesPort, FolderTypes, ProcType, Idle, OneKey, KeyMakers, MakingKey
<1>15. ASSUME NEW p \in Procs, LetsPort(p) PROVE OneKey'
  BY <1>15 DEF LetsPort, FolderTypes, Idle, OneKey, KeyMakers, MakingKey
<1>16. ASSUME NEW p \in Procs, LetsGo(p) PROVE OneKey'
  <2>1. /\ disk'.key = disk.key /\ disk'.partial = disk.partial /\ UNCHANGED <<pinned, copy>>
        /\ hist'.keysRaced = hist.keysRaced /\ hist'.lost = hist.lost
        /\ proc'[p] = Idle /\ \A q \in Procs \ {p} : proc'[q] = proc[q]
    BY <1>16, PoolGone DEF FolderTypes
  <2>2. /\ KeyMakers' \subseteq KeyMakers /\ MakingKey' \subseteq MakingKey
        /\ p \notin KeyMakers' /\ proc'[p].key = 0
    BY <2>1, IdleProc DEF KeyMakers, MakingKey
  <2> QED
    BY <2>1, <2>2 DEF OneKey, KeyMakers
<1>17. ASSUME NEW p \in Procs, ProcessDies(p) PROVE OneKey'
  BY <1>17 DEF ProcessDies, FolderTypes, Idle, OneKey, KeyMakers, MakingKey
<1>18. ASSUME NEW p \in Procs, CopiesKey(p) PROVE OneKey'
  <2> SUFFICES ASSUME ~hist'.keysRaced PROVE OneKey'
    BY DEF OneKey
  <2>1. /\ UNCHANGED <<disk, pinned, hist>> /\ \A q \in Procs \ {p} : proc'[q] = proc[q]
        /\ proc[p].at = "copyKey"
    BY <1>18, KeyCopied
  <2>2. proc'[p].at \in {"off", "copyRows"} /\ proc'[p].key \in {0, proc[p].key}
    BY <1>18, KeyCopied, IdleProc
  <2>3. MakingKey' = MakingKey /\ KeyMakers' = KeyMakers
    BY <2>1, <2>2 DEF MakingKey, KeyMakers
  <2>4. \/ copy' = copy
        \/ copy'.state = "part" /\ copy'.key \in {copy.key, disk.key}
    BY <1>18, KeyCopied
  <2> QED
    BY <2>1, <2>2, <2>3, <2>4 DEF OneKey, KeyMakers
<1>19. ASSUME NEW p \in Procs, CopiesRows(p) PROVE OneKey'
  BY <1>19 DEF CopiesRows, FolderTypes, OneKey, KeyMakers, MakingKey
<1>20. ASSUME NEW p \in Procs, CopiesCrt(p) PROVE OneKey'
  BY <1>20 DEF CopiesCrt, FolderTypes, OneKey, KeyMakers, MakingKey
<1>21. ASSUME NEW p \in Procs, CopiesCrtKey(p) PROVE OneKey'
  BY <1>21 DEF CopiesCrtKey, FolderTypes, DiskType, FileId, Commands, Idle, NoDisk, Torn, Whole,
    Copying, OneKey, KeyMakers, MakingKey, Equipped, OneCopies
<1>22. CASE WritesRow
  BY <1>22 DEF WritesRow, FolderTypes, OneKey, KeyMakers, MakingKey
<1>23. CASE Checkpoints
  BY <1>23 DEF Checkpoints, FolderTypes, OneKey, KeyMakers, MakingKey
<1>24. CASE Pins
  <2> SUFFICES ASSUME ~hist'.keysRaced PROVE OneKey'
    BY DEF OneKey
  <2>1. PICK p \in Serving : pinned' = pinned \cup {proc[p].key}
    BY <1>24 DEF Pins
  <2>2. proc[p].key > 0 /\ ~hist.lost
    BY <2>1 DEF Serving, Equipped
  <2>3. ~hist.keysRaced /\ UNCHANGED <<disk, proc, copy, hist>>
    BY <1>24 DEF Pins
  <2>4. proc[p].key = disk.key
    BY <2>1, <2>2, <2>3 DEF OneKey, Serving
  <2>5. copy.state = "done" => copy.key = disk.key
    BY <2>2, <2>3 DEF OneKey, Whole
  <2>6. MakingKey' = MakingKey /\ KeyMakers' = KeyMakers
    BY <2>3 DEF MakingKey, KeyMakers
  <2> QED
    BY <2>1, <2>2, <2>3, <2>4, <2>5, <2>6 DEF OneKey, KeyMakers
<1>25. CASE LosesDisk
  BY <1>25 DEF LosesDisk, FolderTypes, Idle, NoDisk, OneKey, KeyMakers, MakingKey
<1>26. CASE Restores
  BY <1>26 DEF Restores, FolderTypes, Commands, Idle, NoDisk, Torn, Whole, OneKey, KeyMakers,
    MakingKey, Equipped
<1> QED
  BY <1>1, <1>2, <1>3, <1>4, <1>5, <1>6, <1>7, <1>8, <1>9, <1>10, <1>11, <1>12, <1>13,
    <1>14, <1>15, <1>16, <1>17, <1>18, <1>19, <1>20, <1>21, <1>22, <1>23, <1>24, <1>25,
    <1>26, WaysToGo DEF FolderNext, ServeSteps

(* The certificate and its key stay a pair. *)
LEMMA PairStaysOne ==
    ASSUME FolderTypes, \A q \in Procs : Equipped(q), \A q \in Procs : OneCopies(q),
    OnePair, FolderNext
    PROVE  OnePair'
PROOF
<1> USE FolderAssumption DEF At, MovesTo, Exits
<1>1. ASSUME NEW p \in Procs, NEW cmd \in Commands, RunsCommand(p, cmd) PROVE OnePair'
  BY <1>1 DEF RunsCommand, FolderTypes, Commands, OnePair, PairMakers, CrtFillers, MakingPair
<1>2. ASSUME NEW p \in Procs, KeyRead(p) PROVE OnePair'
  BY <1>2 DEF KeyRead, FolderTypes, ProcType, Commands, Idle, NoDisk, OnePair, PairMakers,
    CrtFillers, MakingPair
<1>3. ASSUME NEW p \in Procs, KeyOpen(p) PROVE OnePair'
  BY <1>3 DEF KeyOpen, FolderTypes, OnePair, PairMakers, CrtFillers, MakingPair
<1>4. ASSUME NEW p \in Procs, KeyFill(p) PROVE OnePair'
  BY <1>4 DEF KeyFill, FolderTypes, OnePair, PairMakers, CrtFillers, MakingPair
<1>5. ASSUME NEW p \in Procs, KeyRename(p) PROVE OnePair'
  <2> SUFFICES ASSUME ~hist'.cutCrt, ~hist'.pairsRaced PROVE OnePair'
    BY DEF OnePair

  <2>1. /\ ~hist.cutCrt /\ ~hist.pairsRaced /\ copy' = copy
        /\ disk'.crt = disk.crt /\ disk'.crtKey = disk.crtKey
        /\ proc[p].at = "keyRename" /\ proc'[p].at \in {"bind", "off"}
        /\ \A q \in Procs \ {p} : proc'[q].at = proc[q].at /\ proc'[q].new = proc[q].new
    BY <1>5, KeyRenamed, IdleProc, ZenonT(30) DEF FolderTypes, DiskType
  <2>2. PairMakers' = PairMakers /\ CrtFillers' = CrtFillers /\ MakingPair' = MakingPair
    BY <2>1 DEF PairMakers, CrtFillers, MakingPair
  <2> QED
    BY <2>1, <2>2 DEF OnePair, PairMakers, Whole
<1>6. ASSUME NEW p \in Procs, Binds(p) PROVE OnePair'
  BY <1>6
  DEF Binds, FolderTypes, ProcType, CopyType, Places, Idle, OnePair, PairMakers, CrtFillers,
    MakingPair
<1>7. ASSUME NEW p \in Procs, OpensDatabase(p) PROVE OnePair'
  <2> SUFFICES ASSUME ~hist'.cutCrt, ~hist'.pairsRaced PROVE OnePair'
    BY DEF OnePair

  <2>1. /\ ~hist.cutCrt /\ ~hist.pairsRaced /\ copy' = copy
        /\ disk'.crt = disk.crt /\ disk'.crtKey = disk.crtKey
        /\ proc[p].at = "database" /\ proc'[p].at \in {"pair", "rows"}
        /\ \A q \in Procs \ {p} : proc'[q] = proc[q]
    BY <1>7, IdleProc DEF OpensDatabase, FolderTypes, DiskType, ProcType
  <2>2. PairMakers' = PairMakers /\ CrtFillers' = CrtFillers /\ MakingPair' = MakingPair
    BY <2>1 DEF PairMakers, CrtFillers, MakingPair
  <2> QED
    BY <2>1, <2>2 DEF OnePair, PairMakers, Whole
<1>8. ASSUME NEW p \in Procs, LooksForPair(p) PROVE OnePair'
  BY <1>8 DEF LooksForPair, FolderTypes, OnePair, PairMakers, CrtFillers, MakingPair
<1>9. ASSUME NEW p \in Procs, PemKeyOpen(p) PROVE OnePair'
  <2> SUFFICES ASSUME ~hist'.cutCrt, ~hist'.pairsRaced PROVE OnePair'
    BY DEF OnePair

  <2>1. /\ ~hist.cutCrt /\ ~hist.pairsRaced /\ ~(Cardinality(MakingPair) > 1) /\ p \in MakingPair
        /\ MakingPair \in SUBSET Procs /\ copy' = copy
    BY <1>9, PemKeyOpened DEF MakingPair
  <2>2. MakingPair = {p}
    BY <2>1, Alone
  <2>3. /\ disk'.crt = disk.crt /\ proc[p].at = "pemKeyOpen" /\ proc'[p].at = "pemKeyFill"
        /\ \A q \in Procs \ {p} : proc'[q] = proc[q]
    BY <1>9, PemKeyOpened
  <2>4. PairMakers' = {p} /\ CrtFillers' = {} /\ CrtFillers = {}
    BY <2>2, <2>3 DEF PairMakers, CrtFillers, MakingPair
  <2>5. disk.crt = 0
    BY <2>1, <2>4 DEF OnePair
  <2> QED
    BY <2>1, <2>3, <2>4, <2>5 DEF OnePair
<1>10. ASSUME NEW p \in Procs, PemKeyFill(p) PROVE OnePair'
  BY <1>10 DEF PemKeyFill, FolderTypes, OnePair, PairMakers, CrtFillers, MakingPair
<1>11. ASSUME NEW p \in Procs, CrtOpen(p) PROVE OnePair'
  BY <1>11 DEF CrtOpen, FolderTypes, OnePair, PairMakers, CrtFillers, MakingPair
<1>12. ASSUME NEW p \in Procs, CrtFill(p) PROVE OnePair'
  <2> SUFFICES ASSUME ~hist'.cutCrt, ~hist'.pairsRaced PROVE OnePair'
    BY DEF OnePair

  <2>1. /\ ~hist.cutCrt /\ ~hist.pairsRaced /\ ~(Cardinality(MakingPair) > 1) /\ p \in MakingPair
        /\ MakingPair \in SUBSET Procs /\ copy' = copy
    BY <1>12, CrtFilled DEF MakingPair
  <2>2. MakingPair = {p}
    BY <2>1, Alone
  <2>3. /\ disk'.crt = proc[p].new /\ disk'.crtKey = disk.crtKey /\ proc[p].at = "crtFill"
        /\ proc'[p].at = "pairRead" /\ \A q \in Procs \ {p} : proc'[q] = proc[q]
    BY <1>12, CrtFilled DEF FolderTypes, DiskType, ProcType
  <2>4. MakingPair' = {} /\ PairMakers' = {} /\ CrtFillers' = {}
    BY <2>2, <2>3 DEF PairMakers, CrtFillers, MakingPair
  <2>5. disk.crtKey = proc[p].new /\ proc[p].new > 0
    BY <2>1, <2>3 DEF OnePair, PairMakers, Equipped
  <2> QED
    BY <2>1, <2>3, <2>4, <2>5 DEF OnePair, Whole
<1>13. ASSUME NEW p \in Procs, ReadsOn(p) PROVE OnePair'
  BY <1>13
  DEF ReadsOn, FolderTypes, ProcType, Idle, OnePair, PairMakers, CrtFillers, MakingPair
<1>14. ASSUME NEW p \in Procs, TriesPort(p) PROVE OnePair'
  BY <1>14
  DEF TriesPort, FolderTypes, ProcType, Idle, OnePair, PairMakers, CrtFillers, MakingPair
<1>15. ASSUME NEW p \in Procs, LetsPort(p) PROVE OnePair'
  BY <1>15 DEF LetsPort, FolderTypes, Idle, OnePair, PairMakers, CrtFillers, MakingPair
<1>16. ASSUME NEW p \in Procs, LetsGo(p) PROVE OnePair'
  <2>1. /\ disk'.crt = disk.crt /\ disk'.crtKey = disk.crtKey /\ copy' = copy
        /\ hist'.cutCrt = hist.cutCrt /\ hist'.pairsRaced = hist.pairsRaced
        /\ proc'[p] = Idle /\ \A q \in Procs \ {p} : proc'[q] = proc[q]
        /\ proc[p].at \notin {"crtFill", "pemKeyFill", "crtOpen", "pemKeyOpen"}
    BY <1>16, PoolGone DEF FolderTypes
  <2>2. /\ PairMakers' = PairMakers /\ MakingPair' = MakingPair /\ CrtFillers' = CrtFillers
        /\ p \notin PairMakers' /\ proc'[p].at # "copyCrtKey"
    BY <2>1, IdleProc DEF PairMakers, MakingPair, CrtFillers
  <2> QED
    BY <2>1, <2>2 DEF OnePair, PairMakers
<1>17. ASSUME NEW p \in Procs, ProcessDies(p) PROVE OnePair'
  <2> SUFFICES ASSUME ~hist'.cutCrt, ~hist'.pairsRaced PROVE OnePair'
    BY DEF OnePair

  <2>1. /\ ~hist.cutCrt /\ ~hist.pairsRaced /\ proc[p].at # "crtFill" /\ UNCHANGED <<disk, copy>>
        /\ proc'[p] = Idle /\ \A q \in Procs \ {p} : proc'[q] = proc[q]
    BY <1>17, ProcessDied DEF FolderTypes
  <2>2. /\ PairMakers' \subseteq PairMakers /\ CrtFillers' = CrtFillers
        /\ MakingPair' \subseteq MakingPair /\ p \notin PairMakers'
    BY <2>1, IdleProc DEF PairMakers, CrtFillers, MakingPair
  <2>3. \A q \in Procs : proc'[q].at = "copyCrtKey" => proc[q].at = "copyCrtKey"
    BY <2>1, IdleProc
  <2>4. \A q \in PairMakers' : proc'[q] = proc[q]
    BY <2>1, <2>2 DEF PairMakers
  <2> QED
    BY <2>1, <2>2, <2>3, <2>4 DEF OnePair
<1>18. ASSUME NEW p \in Procs, CopiesKey(p) PROVE OnePair'
  <2> SUFFICES ASSUME ~hist'.cutCrt, ~hist'.pairsRaced PROVE OnePair'
    BY DEF OnePair

  <2>1. /\ UNCHANGED <<disk, hist>> /\ \A q \in Procs \ {p} : proc'[q] = proc[q]
        /\ proc[p].at = "copyKey" /\ copy'.crt = copy.crt /\ copy'.crtKey = copy.crtKey
    BY <1>18, KeyCopied
  <2>2. proc'[p].at \in {"off", "copyRows"}
    BY <1>18, KeyCopied, IdleProc
  <2>3. PairMakers' = PairMakers /\ CrtFillers' = CrtFillers /\ MakingPair' = MakingPair
    BY <2>1, <2>2 DEF PairMakers, CrtFillers, MakingPair
  <2>4. copy'.state = "done" => copy' = copy
    BY <1>18, KeyCopied
  <2> QED
    BY <2>1, <2>2, <2>3, <2>4 DEF OnePair, PairMakers, Whole
<1>19. ASSUME NEW p \in Procs, CopiesRows(p) PROVE OnePair'
  BY <1>19 DEF CopiesRows, FolderTypes, OnePair, PairMakers, CrtFillers, MakingPair
<1>20. ASSUME NEW p \in Procs, CopiesCrt(p) PROVE OnePair'
  BY <1>20
  DEF CopiesCrt, FolderTypes, Commands, NoDisk, Copying, OnePair, PairMakers, CrtFillers,
    MakingPair, OneCopies
<1>21. ASSUME NEW p \in Procs, CopiesCrtKey(p) PROVE OnePair'
  BY <1>21
  DEF CopiesCrtKey, FolderTypes, ProcType, Idle, Whole, OnePair, PairMakers, CrtFillers,
    MakingPair
<1>22. CASE WritesRow
  BY <1>22 DEF WritesRow, FolderTypes, OnePair, PairMakers, CrtFillers, MakingPair
<1>23. CASE Checkpoints
  BY <1>23 DEF Checkpoints, FolderTypes, OnePair, PairMakers, CrtFillers, MakingPair
<1>24. CASE Pins
  BY <1>24 DEF Pins, FolderTypes, OnePair, PairMakers, CrtFillers, MakingPair
<1>25. CASE LosesDisk
  BY <1>25 DEF LosesDisk, FolderTypes, Idle, NoDisk, OnePair, PairMakers, CrtFillers, MakingPair
<1>26. CASE Restores
  <2> SUFFICES ASSUME ~hist'.cutCrt, ~hist'.pairsRaced PROVE OnePair'
    BY DEF OnePair

  <2>1. /\ ~hist.cutCrt /\ ~hist.pairsRaced /\ copy.crt = copy.crtKey /\ copy.state = "done"
        /\ UNCHANGED <<proc, copy>> /\ \A q \in Procs : proc[q] = Idle
        /\ copy.crt # 0 => disk'.crt = copy.crt
        /\ copy.crt = 0 => disk'.crt = disk.crt
        /\ copy.crtKey # 0 => disk'.crtKey = copy.crtKey
        /\ copy.crtKey = 0 => disk'.crtKey = disk.crtKey
    BY <1>26, FolderRestored
  <2>2. /\ PairMakers' = {} /\ CrtFillers' = {} /\ CrtFillers = {} /\ MakingPair' = {}
        /\ \A q \in Procs : proc'[q].at # "copyCrtKey"
    BY <2>1, IdleProc DEF PairMakers, CrtFillers, MakingPair
  <2>3. /\ disk.crt = 0 \/ (Whole(disk.crt) /\ disk.crt = disk.crtKey)
        /\ copy.crt = 0 \/ Whole(copy.crt)
    BY <2>1, <2>2 DEF OnePair
  <2>4. disk'.crt = 0 \/ (Whole(disk'.crt) /\ disk'.crt = disk'.crtKey)
    BY <2>1, <2>3
  <2> QED
    BY <2>1, <2>2, <2>3, <2>4 DEF OnePair, Whole
<1> QED
  BY <1>1, <1>2, <1>3, <1>4, <1>5, <1>6, <1>7, <1>8, <1>9, <1>10, <1>11, <1>12, <1>13,
    <1>14, <1>15, <1>16, <1>17, <1>18, <1>19, <1>20, <1>21, <1>22, <1>23, <1>24, <1>25,
    <1>26, WaysToGo DEF FolderNext, ServeSteps

(* A process has what the way it came gave it. *)
LEMMA EquippedKept ==
    ASSUME FolderTypes, \A q \in Procs : Equipped(q), FolderNext
    PROVE  (\A q \in Procs : Equipped(q))'
PROOF
<1> USE FolderAssumption DEF At, MovesTo, Exits
<1>1. ASSUME NEW p \in Procs, NEW cmd \in Commands, RunsCommand(p, cmd) PROVE (\A q \in Procs : Equipped(q))'
  BY <1>1 DEF RunsCommand, FolderTypes, Commands, Equipped
<1>2. ASSUME NEW p \in Procs, KeyRead(p) PROVE (\A q \in Procs : Equipped(q))'
  BY <1>2 DEF KeyRead, FolderTypes, ProcType, Idle, Whole, Equipped
<1>3. ASSUME NEW p \in Procs, KeyOpen(p) PROVE (\A q \in Procs : Equipped(q))'
  BY <1>3 DEF KeyOpen, FolderTypes, HistType, Equipped
<1>4. ASSUME NEW p \in Procs, KeyFill(p) PROVE (\A q \in Procs : Equipped(q))'
  BY <1>4 DEF KeyFill, FolderTypes, Equipped
<1>5. ASSUME NEW p \in Procs, KeyRename(p) PROVE (\A q \in Procs : Equipped(q))'
  <2>1. /\ proc[p].at = "keyRename" /\ disk'.database = disk.database /\ hist'.lost = hist.lost
        /\ disk'.there = disk.there
        /\ \/ /\ proc'[p].at = "bind" /\ proc'[p].key = proc[p].new
              /\ proc'[p].cmd = proc[p].cmd
           \/ proc'[p] = Idle
        /\ \A q \in Procs \ {p} :
                 /\ proc[q].at # "keyFill" => proc'[q] = proc[q]
                 /\ proc'[q].cmd = proc[q].cmd /\ proc'[q].at = proc[q].at
                 /\ proc'[q].key = proc[q].key /\ proc'[q].new = proc[q].new
    BY <1>5, KeyRenamed DEF FolderTypes, DiskType
  <2>2. Equipped(p)'
    BY <2>1, IdleProc DEF Equipped
  <2>3. ASSUME NEW q \in Procs \ {p} PROVE Equipped(q)'
    BY <2>1, <2>3 DEF Equipped
  <2> QED
    BY <2>2, <2>3
<1>6. ASSUME NEW p \in Procs, Binds(p) PROVE (\A q \in Procs : Equipped(q))'
  BY <1>6 DEF Binds, FolderTypes, ProcType, Idle, Equipped
<1>7. ASSUME NEW p \in Procs, OpensDatabase(p) PROVE (\A q \in Procs : Equipped(q))'
  BY <1>7 DEF OpensDatabase, FolderTypes, ProcType, Idle, Equipped
<1>8. ASSUME NEW p \in Procs, LooksForPair(p) PROVE (\A q \in Procs : Equipped(q))'
  BY <1>8 DEF LooksForPair, FolderTypes, Equipped
<1>9. ASSUME NEW p \in Procs, PemKeyOpen(p) PROVE (\A q \in Procs : Equipped(q))'
  BY <1>9 DEF PemKeyOpen, FolderTypes, HistType, Equipped
<1>10. ASSUME NEW p \in Procs, PemKeyFill(p) PROVE (\A q \in Procs : Equipped(q))'
  BY <1>10 DEF PemKeyFill, FolderTypes, Equipped
<1>11. ASSUME NEW p \in Procs, CrtOpen(p) PROVE (\A q \in Procs : Equipped(q))'
  BY <1>11 DEF CrtOpen, FolderTypes, Equipped
<1>12. ASSUME NEW p \in Procs, CrtFill(p) PROVE (\A q \in Procs : Equipped(q))'
  BY <1>12 DEF CrtFill, FolderTypes, Equipped
<1>13. ASSUME NEW p \in Procs, ReadsOn(p) PROVE (\A q \in Procs : Equipped(q))'
  BY <1>13 DEF ReadsOn, FolderTypes, ProcType, Idle, Equipped
<1>14. ASSUME NEW p \in Procs, TriesPort(p) PROVE (\A q \in Procs : Equipped(q))'
  BY <1>14 DEF TriesPort, FolderTypes, ProcType, Idle, Equipped
<1>15. ASSUME NEW p \in Procs, LetsPort(p) PROVE (\A q \in Procs : Equipped(q))'
  BY <1>15 DEF LetsPort, FolderTypes, Idle, Equipped
<1>16. ASSUME NEW p \in Procs, LetsGo(p) PROVE (\A q \in Procs : Equipped(q))'
  BY <1>16, PoolGone, IdleProc DEF FolderTypes, Equipped
<1>17. ASSUME NEW p \in Procs, ProcessDies(p) PROVE (\A q \in Procs : Equipped(q))'
  BY <1>17 DEF ProcessDies, FolderTypes, Idle, Equipped
<1>18. ASSUME NEW p \in Procs, CopiesKey(p) PROVE (\A q \in Procs : Equipped(q))'
  BY <1>18 DEF CopiesKey, FolderTypes, ProcType, Idle, Equipped
<1>19. ASSUME NEW p \in Procs, CopiesRows(p) PROVE (\A q \in Procs : Equipped(q))'
  BY <1>19 DEF CopiesRows, FolderTypes, Equipped
<1>20. ASSUME NEW p \in Procs, CopiesCrt(p) PROVE (\A q \in Procs : Equipped(q))'
  BY <1>20 DEF CopiesCrt, FolderTypes, Equipped
<1>21. ASSUME NEW p \in Procs, CopiesCrtKey(p) PROVE (\A q \in Procs : Equipped(q))'
  BY <1>21 DEF CopiesCrtKey, FolderTypes, Idle, Equipped
<1>22. CASE WritesRow
  BY <1>22 DEF WritesRow, FolderTypes, Equipped
<1>23. CASE Checkpoints
  BY <1>23 DEF Checkpoints, FolderTypes, Equipped
<1>24. CASE Pins
  BY <1>24 DEF Pins, FolderTypes, Equipped
<1>25. CASE LosesDisk
  BY <1>25 DEF LosesDisk, FolderTypes, Idle, NoDisk, Equipped
<1>26. CASE Restores
  BY <1>26 DEF Restores, FolderTypes, Equipped
<1> QED
  BY <1>1, <1>2, <1>3, <1>4, <1>5, <1>6, <1>7, <1>8, <1>9, <1>10, <1>11, <1>12, <1>13,
    <1>14, <1>15, <1>16, <1>17, <1>18, <1>19, <1>20, <1>21, <1>22, <1>23, <1>24, <1>25,
    <1>26, WaysToGo DEF FolderNext, ServeSteps

(* A backup is made by one process, of all that was there when it began. *)
LEMMA CopyStaysOne ==
    ASSUME FolderTypes, RowsCounted, \A q \in Procs : Equipped(q), \A q \in Procs : OneCopies(q),
           FolderNext
    PROVE  (\A q \in Procs : OneCopies(q))'
PROOF
<1> USE FolderAssumption DEF At, MovesTo, Exits
<1>1. ASSUME NEW p \in Procs, NEW cmd \in Commands, RunsCommand(p, cmd) PROVE (\A q \in Procs : OneCopies(q))'
  BY <1>1 DEF RunsCommand, FolderTypes, Commands, Copying, OneCopies
<1>2. ASSUME NEW p \in Procs, KeyRead(p) PROVE (\A q \in Procs : OneCopies(q))'
  BY <1>2 DEF KeyRead, FolderTypes, ProcType, Places, Idle, Copying, OneCopies
<1>3. ASSUME NEW p \in Procs, KeyOpen(p) PROVE (\A q \in Procs : OneCopies(q))'
  BY <1>3 DEF KeyOpen, FolderTypes, Copying, OneCopies
<1>4. ASSUME NEW p \in Procs, KeyFill(p) PROVE (\A q \in Procs : OneCopies(q))'
  BY <1>4 DEF KeyFill, FolderTypes, Copying, OneCopies
<1>5. ASSUME NEW p \in Procs, KeyRename(p) PROVE (\A q \in Procs : OneCopies(q))'
  <2>1. /\ disk'.main = disk.main /\ disk'.wal = disk.wal /\ copy' = copy
        /\ proc'[p].at \notin Copying /\ \A q \in Procs \ {p} : proc'[q].at = proc[q].at
    BY <1>5, KeyRenamed, IdleProc, ZenonT(30) DEF FolderTypes, DiskType, Copying
  <2> QED
    BY <2>1 DEF OneCopies
<1>6. ASSUME NEW p \in Procs, Binds(p) PROVE (\A q \in Procs : OneCopies(q))'
  BY <1>6 DEF Binds, FolderTypes, ProcType, Idle, Copying, OneCopies
<1>7. ASSUME NEW p \in Procs, OpensDatabase(p) PROVE (\A q \in Procs : OneCopies(q))'
  BY <1>7 DEF OpensDatabase, FolderTypes, ProcType, Idle, Copying, OneCopies
<1>8. ASSUME NEW p \in Procs, LooksForPair(p) PROVE (\A q \in Procs : OneCopies(q))'
  BY <1>8 DEF LooksForPair, FolderTypes, Copying, OneCopies
<1>9. ASSUME NEW p \in Procs, PemKeyOpen(p) PROVE (\A q \in Procs : OneCopies(q))'
  BY <1>9 DEF PemKeyOpen, FolderTypes, Copying, OneCopies
<1>10. ASSUME NEW p \in Procs, PemKeyFill(p) PROVE (\A q \in Procs : OneCopies(q))'
  BY <1>10 DEF PemKeyFill, FolderTypes, Copying, OneCopies
<1>11. ASSUME NEW p \in Procs, CrtOpen(p) PROVE (\A q \in Procs : OneCopies(q))'
  BY <1>11 DEF CrtOpen, FolderTypes, Copying, OneCopies
<1>12. ASSUME NEW p \in Procs, CrtFill(p) PROVE (\A q \in Procs : OneCopies(q))'
  BY <1>12 DEF CrtFill, FolderTypes, Copying, OneCopies
<1>13. ASSUME NEW p \in Procs, ReadsOn(p) PROVE (\A q \in Procs : OneCopies(q))'
  BY <1>13 DEF ReadsOn, FolderTypes, ProcType, Idle, Copying, OneCopies
<1>14. ASSUME NEW p \in Procs, TriesPort(p) PROVE (\A q \in Procs : OneCopies(q))'
  BY <1>14 DEF TriesPort, FolderTypes, ProcType, Idle, Copying, OneCopies
<1>15. ASSUME NEW p \in Procs, LetsPort(p) PROVE (\A q \in Procs : OneCopies(q))'
  BY <1>15 DEF LetsPort, FolderTypes, Idle, Copying, OneCopies
<1>16. ASSUME NEW p \in Procs, LetsGo(p) PROVE (\A q \in Procs : OneCopies(q))'
  BY <1>16, PoolGone, IdleProc DEF FolderTypes, Copying, OneCopies
<1>17. ASSUME NEW p \in Procs, ProcessDies(p) PROVE (\A q \in Procs : OneCopies(q))'
  BY <1>17 DEF ProcessDies, FolderTypes, Idle, Copying, OneCopies
<1>18. ASSUME NEW p \in Procs, CopiesKey(p) PROVE (\A q \in Procs : OneCopies(q))'
  <2>1. disk' = disk /\ \A q \in Procs \ {p} : proc'[q] = proc[q]
    BY <1>18, KeyCopied
  <2>2. CASE proc'[p] = Idle /\ copy' = copy
    BY <2>1, <2>2, IdleProc DEF OneCopies, Copying
  <2>3. CASE copy.state = "none" /\ proc'[p] = Idle
    BY <2>1, <2>3, IdleProc DEF OneCopies, Copying
  <2>4. CASE /\ proc'[p].at = "copyRows"
             /\ copy.state = "none" /\ copy'.state = "part" /\ disk.key # 0
             /\ copy'.key = disk.key /\ copy'.since = disk.main + disk.wal
    <3>1. disk.main + disk.wal \in Nat
      BY DEF FolderTypes, DiskType
    <3>2. \A q \in Procs \ {p} : proc'[q].at \notin Copying
      BY <2>1, <2>4 DEF OneCopies
    <3>3. OneCopies(p)'
      BY <2>1, <2>4, <3>1, <3>2 DEF OneCopies
    <3> QED
      BY <3>2, <3>3 DEF OneCopies
  <2> QED
    BY <1>18, <2>2, <2>3, <2>4, KeyCopied
<1>19. ASSUME NEW p \in Procs, CopiesRows(p) PROVE (\A q \in Procs : OneCopies(q))'
  BY <1>19 DEF CopiesRows, FolderTypes, CopyType, Rows, Copying, OneCopies, RowsCounted
<1>20. ASSUME NEW p \in Procs, CopiesCrt(p) PROVE (\A q \in Procs : OneCopies(q))'
  BY <1>20 DEF CopiesCrt, FolderTypes, Copying, OneCopies
<1>21. ASSUME NEW p \in Procs, CopiesCrtKey(p) PROVE (\A q \in Procs : OneCopies(q))'
  BY <1>21 DEF CopiesCrtKey, FolderTypes, Idle, Copying, OneCopies
<1>22. CASE WritesRow
  BY <1>22 DEF WritesRow, FolderTypes, DiskType, CopyType, OneCopies
<1>23. CASE Checkpoints
  BY <1>23 DEF Checkpoints, FolderTypes, DiskType, Rows, OneCopies
<1>24. CASE Pins
  BY <1>24 DEF Pins, FolderTypes, OneCopies
<1>25. CASE LosesDisk
  BY <1>25 DEF LosesDisk, FolderTypes, Idle, NoDisk, Copying, OneCopies
<1>26. CASE Restores
  BY <1>26 DEF Restores, FolderTypes, OneCopies
<1> QED
  BY <1>1, <1>2, <1>3, <1>4, <1>5, <1>6, <1>7, <1>8, <1>9, <1>10, <1>11, <1>12, <1>13,
    <1>14, <1>15, <1>16, <1>17, <1>18, <1>19, <1>20, <1>21, <1>22, <1>23, <1>24, <1>25,
    <1>26, WaysToGo DEF FolderNext, ServeSteps

LEMMA FolderStep == FolderInv /\ [FolderNext]_folderVars => FolderInv'
PROOF
<1> SUFFICES ASSUME FolderInv, [FolderNext]_folderVars PROVE FolderInv'
  OBVIOUS
<1>0. /\ FolderTypes /\ RowsCounted /\ LogLeft /\ OneKey /\ OnePair
      /\ (\A q \in Procs : Equipped(q)) /\ (\A q \in Procs : OneCopies(q))
  BY DEF FolderInv
<1>1. CASE FolderNext
  BY <1>0, <1>1, TypesKept, RowsKept, LogKept, KeyStaysOne, PairStaysOne, EquippedKept, CopyStaysOne
  DEF FolderInv
<1>2. CASE UNCHANGED folderVars
  BY <1>0, <1>2
  DEF folderVars, FolderInv, FolderTypes, RowsCounted, LogLeft, HasPool, OneKey, KeyMakers,
      MakingKey, OnePair, PairMakers, CrtFillers, MakingPair, Equipped, OneCopies
<1> QED
  BY <1>1, <1>2

LEMMA FolderInvSafe ==
    FolderInv => /\ FolderTypeOK /\ ServerKeyKept /\ BackupWhole
                 /\ PairGoesTogether /\ MixedOnlyIfLeftOpen
PROOF
<1> SUFFICES ASSUME FolderInv
             PROVE  /\ FolderTypeOK /\ ServerKeyKept /\ BackupWhole
                    /\ PairGoesTogether /\ MixedOnlyIfLeftOpen
  OBVIOUS
<1>0. /\ FolderTypes /\ RowsCounted /\ LogLeft /\ OneKey /\ OnePair
      /\ disk \in DiskType /\ copy \in CopyType
  BY DEF FolderInv, FolderTypes
<1>1. FolderTypeOK
  <2>1. disk.main \in 0 .. (2 * WriteBound) /\ disk.wal \in 0 .. WriteBound
    BY <1>0, FolderAssumption DEF RowsCounted, DiskType
  <2>2. Cardinality(port) <= 1
    <3>1. CASE port = {}
      BY <3>1, FS_EmptySet
    <3>2. ASSUME NEW p \in Procs, port = {p} PROVE Cardinality(port) <= 1
      <4>1. Cardinality({p}) = 1
        BY FS_Singleton
      <4> QED
        BY <3>2, <4>1
    <3> QED
      BY <1>0, <3>1, <3>2 DEF FolderTypes
  <2> QED
    BY <1>0, <2>1, <2>2 DEF FolderTypes, DiskType, FileId, FolderTypeOK
<1>2. ServerKeyKept
  BY <1>0 DEF OneKey, ServerKeyKept
<1>3. BackupWhole
  BY <1>0 DEF OneKey, RowsCounted, BackupWhole, CopyType
<1>4. PairGoesTogether
  <2>1. MakingPair = {} => CrtFillers = {}
    BY DEF MakingPair, CrtFillers
  <2> QED
    BY <1>0, <2>1 DEF OnePair, PairGoesTogether
<1>5. MixedOnlyIfLeftOpen
  BY <1>0 DEF LogLeft, MixedOnlyIfLeftOpen
<1> QED
  BY <1>1, <1>2, <1>3, <1>4, <1>5

\* The key agents pinned, the rows of a backup and the certificate with its
\* key survive crashes, restores and the loss of the folder, whatever commands
\* overlap; only two processes that make a first key or a pair at once, or a
\* crash in the certificate's own write, break them.  And no database meets the
\* log of another unless a restore was done over one that was left open
\* (transport/src/lib.rs: Identity::load_or_create; backup.rs: run; https.rs:
\* self_signed; main.rs: main, serve).
THEOREM FolderAlwaysSafe ==
    FolderSpec => [](/\ FolderTypeOK /\ ServerKeyKept /\ BackupWhole
                     /\ PairGoesTogether /\ MixedOnlyIfLeftOpen)
PROOF BY FolderStart, FolderStep, FolderInvSafe, PTL DEF FolderSpec

=============================================================================
