--------------------------- MODULE WebCertificate ---------------------------
(***************************************************************************)
(* The certificate browsers are shown on the QUIC port when the server     *)
(* signs its own, and the hash the console's pages tell them to accept     *)
(* (server/src/webtransport.rs: Web; server/src/api.rs: webtransport).     *)
(* Time is in hours.  A renewal shows the new certificate first and then   *)
(* changes the hash, under two locks.                                      *)
(***************************************************************************)
EXTENDS Naturals

CONSTANTS
    Lifetime,    \* LIFETIME: 13 days
    RenewEvery,  \* RENEW_EVERY: 6 days
    Slack,       \* not_before is this long ago
    Pages,       \* browsers' pages
    HourBound    \* bound: hours the server runs

(* Two renewals fall due while a certificate is still good. *)
ASSUME CertAssumption ==
    /\ Lifetime \in Nat /\ RenewEvery \in Nat /\ Slack \in Nat /\ HourBound \in Nat
    /\ 2 * RenewEvery + Slack < Lifetime

VARIABLES
    hour,      \* the time
    shown,     \* WebCertificate: the certificate shown, and until when
    hash,      \* Web::hash: of which certificate
    renewal,   \* where keep_renewing is
    nextRenew, \* when it wakes
    failed,    \* renewals that failed since the last that did not
    page       \* each page's hash, the renewals it met, and what came of it

certVars == <<hour, shown, hash, renewal, nextRenew, failed, page>>

Away == [state |-> "away", hash |-> 0, begun |-> 0]
NewCertificate == [number |-> shown.number + 1, until |-> hour + Lifetime - Slack]

(* self_signed may fail; the loop sleeps again. *)
RenewFails ==
    /\ renewal = "asleep" /\ hour = nextRenew
    /\ nextRenew' = hour + RenewEvery
    /\ failed' = failed + 1
    /\ UNCHANGED <<hour, shown, hash, renewal, page>>

RenewShows ==
    /\ renewal = "asleep" /\ hour = nextRenew
    /\ shown' = NewCertificate   \* WebCertificate::set
    /\ renewal' = "telling"
    /\ UNCHANGED <<hour, hash, nextRenew, failed, page>>

RenewTells ==
    /\ renewal = "telling"
    /\ hash' = shown.number
    /\ renewal' = "asleep"
    /\ nextRenew' = hour + RenewEvery
    /\ failed' = 0
    /\ UNCHANGED <<hour, shown, page>>

(* GET /webtransport, and then the connection with that hash. *)
PageAsks(p) ==
    /\ page[p].state # "asked"
    /\ page' = [page EXCEPT ![p] = [state |-> "asked", hash |-> hash, begun |-> shown.number]]
    /\ UNCHANGED <<hour, shown, hash, renewal, nextRenew, failed>>

(* ByAlpn: a browser gets the web certificate shown now. *)
Resolved == shown
PageConnects(p) ==
    /\ page[p].state = "asked"
    /\ page' = [page EXCEPT ![p].state =
                  IF page[p].hash = Resolved.number /\ hour < Resolved.until THEN "in" ELSE "out"]
    /\ UNCHANGED <<hour, shown, hash, renewal, nextRenew, failed>>

(* Time passes up to the next renewal, which is not put off. *)
HourPasses ==
    /\ hour < HourBound /\ hour < nextRenew /\ renewal = "asleep"
    /\ \E later \in {hour + 1, nextRenew} : hour' = later
    /\ UNCHANGED <<shown, hash, renewal, nextRenew, failed, page>>

CertInit ==
    /\ hour = 0 /\ shown = [number |-> 1, until |-> Lifetime - Slack] /\ hash = 1
    /\ renewal = "asleep" /\ nextRenew = RenewEvery /\ failed = 0
    /\ page = [p \in Pages |-> Away]

CertNext == \/ RenewFails \/ RenewShows \/ RenewTells \/ HourPasses
            \/ \E p \in Pages : PageAsks(p) \/ PageConnects(p)

CertSpec == CertInit /\ [][CertNext]_certVars

---------------------------------------------------------------------------
(* The hash is of the certificate shown, or of the one before while a      *)
(* renewal is between its two steps.                                       *)
CertTypeOK == hash = shown.number \/ (renewal = "telling" /\ hash + 1 = shown.number)

(* A browser takes a certificate by its hash only if it is valid for at    *)
(* most two weeks, and it must be valid: one renewal may fail and the      *)
(* certificate shown is still good when the next is due.                   *)
StillValid == failed < 2 => hour < shown.until

(* A page is turned away only by a renewal that its connection met, or     *)
(* after renewals failed: a new certificate needs no warning.              *)
TurnedAwayByRenewal ==
    [][\A p \in Pages : page[p].state = "asked" /\ page'[p].state = "out" =>
         failed > 1 \/ page[p].begun # shown.number \/ page[p].hash # page[p].begun]_certVars
====
