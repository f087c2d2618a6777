----------------------------- MODULE MCServer ------------------------------
(***************************************************************************)
(* The server's parts that share nothing but the process, for TLC: the     *)
(* accounts, the fleet, the releases, the relay's tunnel, the addresses'   *)
(* attempts, the certificate of the web transport, the data folder with    *)
(* the commands that work on it, and the file of known keys that a viewer  *)
(* keeps. `part` says which of them a behaviour is of; the others stay as  *)
(* they began, so the reachable states of the parts add up instead of      *)
(* multiplying.                                                            *)
(***************************************************************************)
EXTENDS SignIn, Users, Fleet, Releases, Tunnel, Attempts, WebCertificate, DataFolder, KnownKeys

VARIABLE part

serverVars == <<part, signInVars, usersVars, fleetVars, releaseVars, tunnelVars, attemptVars,
                certVars, folderVars, knownVars>>

SameVersions == [p \in {1, 2} |-> p]

(* The two clients, askers, uploaders, fetchers, addresses, processes and
   viewers have the same two names, so that one swap turns them all around. *)
Alike == Permutations(Clients)

ServerInit ==
    /\ part \in {"sign-in", "users", "fleet", "releases", "tunnel", "attempts", "certificate",
                 "folder", "known"}
    /\ SignInInit /\ UsersInit /\ FleetInit /\ ReleasesInit /\ TunnelInit /\ AttemptsInit
    /\ CertInit /\ FolderInit /\ KnownInit

(* The parts that are not at work. *)
Others ==
    /\ UNCHANGED part
    /\ IF part = "sign-in" THEN TRUE ELSE UNCHANGED signInVars
    /\ IF part = "users" THEN TRUE ELSE UNCHANGED usersVars
    /\ IF part = "fleet" THEN TRUE ELSE UNCHANGED fleetVars
    /\ IF part = "releases" THEN TRUE ELSE UNCHANGED releaseVars
    /\ IF part = "tunnel" THEN TRUE ELSE UNCHANGED tunnelVars
    /\ IF part = "attempts" THEN TRUE ELSE UNCHANGED attemptVars
    /\ IF part = "certificate" THEN TRUE ELSE UNCHANGED certVars
    /\ IF part = "folder" THEN TRUE ELSE UNCHANGED folderVars
    /\ IF part = "known" THEN TRUE ELSE UNCHANGED knownVars

ServerNext ==
    \/ part = "sign-in" /\ SignInNext /\ Others
    \/ part = "users" /\ UsersNext /\ Others
    \/ part = "fleet" /\ FleetNext /\ Others
    \/ part = "releases" /\ ReleasesNext /\ Others
    \/ part = "tunnel" /\ TunnelNext /\ Others
    \/ part = "attempts" /\ AttemptsNext /\ Others
    \/ part = "certificate" /\ CertNext /\ Others
    \/ part = "folder" /\ FolderNext /\ Others
    \/ part = "known" /\ KnownNext /\ Others

ServerSpec == ServerInit /\ [][ServerNext]_serverVars

---------------------------------------------------------------------------
(* The relay and its limits: no session beyond its ceiling whichever of    *)
(* its two tasks counts first, no packet to another session's viewer, and  *)
(* in no stretch as long as the window more attempts of an address than    *)
(* allowed (server/src/rendezvous.rs Ceiling, tunnel, attempt).            *)
RelaySafe == TunnelTypeOK /\ CeilingHolds /\ NoCrosstalk /\ AttemptsTypeOK /\ WindowHolds

(* What identifies the server and the devices survives crashes, restores   *)
(* and commands that overlap: the key agents pinned, the certificate that  *)
(* goes with its key, the rows of a backup, the certificate a browser is   *)
(* shown, and the device keys a viewer wrote down (server/src/main.rs,     *)
(* backup.rs, https.rs, webtransport.rs; transport/src/lib.rs;             *)
(* viewer/src/known.rs).                                                   *)
KeysSafe ==
    /\ FolderTypeOK /\ ServerKeyKept /\ BackupWhole /\ PairGoesTogether /\ MixedOnlyIfLeftOpen
    /\ CertTypeOK /\ StillValid
    /\ KnownTypeOK /\ PinsHold

(* What no step may do: a sweep that ends a session, a new row that gives  *)
(* access, an agent taken back to an older release, a packet past the      *)
(* ceiling or to a closed tunnel, an address refused for having been       *)
(* refused, a table that remembers for ever, a page turned away by a       *)
(* certificate it was told of, a session under a key that changed.         *)
ServerSteps ==
    /\ SweepHarmless /\ NewRowsReachNothing /\ NeverOlder
    /\ CeilingStays /\ ClosedGetsNothing /\ RefusedOnlyWhenFull /\ TableForgets
    /\ TurnedAwayByRenewal /\ KeyKept

=============================================================================
