------------------------------- MODULE MCWire -------------------------------
(***************************************************************************)
(* What the two ends of a session each make of what the other sent, for    *)
(* TLC: the simulated network the server's tests run over, the proof of a  *)
(* password, the messages of a stream, the clocks, the units of the video  *)
(* and its decoder. They share nothing, so `part` says which of them a     *)
(* behaviour is of; the others stay as they began.                         *)
(***************************************************************************)
EXTENDS Nat, PasswordProof, Streams, ClockOffset, Decoder

VARIABLE part

wireVars == <<part, netVars, pakeVars, streamVars, clockVars, annexVars, decVars>>

(* Two hosts behind a NAT of the stricter kinds, one behind one of the
   looser. *)
TwoAndOne == [h \in {"a1", "a2", "b"} |-> IF h = "b" THEN "B" ELSE "A"]
StrictAndLoose ==
    [n \in {"A", "B"} |-> IF n = "A" THEN {"port restricted", "symmetric"}
                          ELSE {"full cone", "address restricted"}]

(* A password typed with spaces and without, and another one. *)
SpacedOrNot == {<<1, TRUE>>, <<1, FALSE>>, <<2, FALSE>>}

WireInit ==
    /\ part \in {"net", "proof", "streams", "clock", "units", "decoder"}
    /\ StreamInit /\ ClockInit
    /\ NetInit /\ (part = "net" \/ (nats["A"].kind = "symmetric" /\ nats["B"].kind = "full cone"))
    /\ IF part = "proof" THEN PakeInit
       ELSE /\ ends = [e \in Ends2 |-> End("one time", <<1, TRUE>>, 1)]
            /\ pakes = {} /\ proofs = {}
    /\ AnnexInit /\ (part = "units" \/ stream3 = <<>>)
    /\ DecInit /\ (part = "decoder" \/ lag = 0)

(* The parts that are not at work. *)
Others ==
    /\ UNCHANGED part
    /\ IF part = "net" THEN TRUE ELSE UNCHANGED netVars
    /\ IF part = "proof" THEN TRUE ELSE UNCHANGED pakeVars
    /\ IF part = "streams" THEN TRUE ELSE UNCHANGED streamVars
    /\ IF part = "clock" THEN TRUE ELSE UNCHANGED clockVars
    /\ IF part = "units" THEN TRUE ELSE UNCHANGED annexVars
    /\ IF part = "decoder" THEN TRUE ELSE UNCHANGED decVars

WireNext ==
    \/ part = "net" /\ NetNext /\ Others
    \/ part = "proof" /\ PakeNext /\ Others
    \/ part = "streams" /\ StreamNext /\ Others
    \/ part = "clock" /\ ClockNext /\ Others
    \/ part = "units" /\ AnnexNext /\ Others
    \/ part = "decoder" /\ DecNext /\ Others

WireSpec == WireInit /\ [][WireNext]_wireVars

---------------------------------------------------------------------------
(* What goes over a link comes out as it went in: an address reaches only  *)
(* the host that had it and a punched hole stays open; only the two ends   *)
(* of one connection with one password let each other in; a picture is     *)
(* shown with a time that is not later than its own, against a clock as    *)
(* good as its best round trip (server/src/netsim.rs; core/src/access.rs,  *)
(* clock.rs; codec/src/mediafoundation/decoder.rs).                        *)
WireSafe ==
    /\ NetTypeOK /\ NeverMisdelivered /\ PunchGetsThrough /\ NoSleepOverPackets
    /\ PakeTypeOK /\ AdmittedMet /\ ViewerMet /\ RightPasswordWorks
    /\ ClockTypeOK /\ OffsetWithin
    /\ DecTypeOK /\ TimeNeverNewer

(* However bytes were cut up, what is read is what was written: both       *)
(* readers of a stream get the messages sent, in order and whole, and the  *)
(* units of the video are those the encoder wrote (core/src/wire.rs;       *)
(* transport/src/lib.rs; web-viewer/src/session.rs; codec/src/h264.rs).    *)
ReadersSafe ==
    /\ StreamTypeOK /\ InOrderWhole /\ CleanMeansAll
    /\ UnitsComeBack

=============================================================================
