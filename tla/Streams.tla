------------------------------ MODULE Streams ------------------------------
(***************************************************************************)
(* Messages on one of the agent's own streams (pointer, clipboard): framed *)
(* by core/src/wire.rs, sent by send_all in transport/src/lib.rs, and read *)
(* by two readers that were written separately: recv_message, which waits  *)
(* for exactly the bytes it wants (the desktop viewer), and take over a    *)
(* buffer of whatever came (the browser's, web-viewer/src/session.rs).     *)
(* Here both read the same bytes, cut up differently by the network.       *)
(*                                                                         *)
(* A message is [id, len, valid]; a cell of the stream is a part of its    *)
(* length prefix (HeaderLen cells) or of its body (len cells).             *)
(***************************************************************************)
EXTENDS Integers, Sequences, SequencesExt

CONSTANTS
    HeaderLen,   \* wire::HEADER_LEN
    MaxLen,      \* wire::MAX_MESSAGE_LEN
    Lens,        \* the lengths messages may have; some beyond MaxLen
    SendMost     \* bound: messages sent

ASSUME StreamsAssumption == HeaderLen \in Nat \ {0} /\ MaxLen \in Nat /\ Lens \subseteq Nat

VARIABLES
    written,      \* the messages written to the stream, the stream's kind first
    stream,    \* its cells
    finished,  \* the sender finished it
    native,    \* the desktop reader: cells taken, what it waits for, what it took, its end
    web        \* the browser's: cells taken, its buffer, what it took, its end

streamVars == <<written, stream, finished, native, web>>

Kind == [id |-> 0, len |-> 1, valid |-> TRUE]
Messages == {[id |-> i, len |-> l, valid |-> v] : i \in 1..SendMost, l \in Lens, v \in BOOLEAN}

(* wire::encode: the prefix with the length in it, then the body. *)
Encode(m) ==
    [i \in 1..(HeaderLen + m.len) |->
        IF i <= HeaderLen THEN [part |-> "len", n |-> m.len, of |-> m]
                          ELSE [part |-> "body", n |-> i - HeaderLen, of |-> m]]

(* wire::body_len *)
BodyLen(cells) == cells[1].n

(* wire::decode: the body of one whole message, or nothing sensible. *)
DecodeBody(cells) ==
    IF /\ cells # <<>>
       /\ \A i \in DOMAIN cells : cells[i].part = "body" /\ cells[i].of = cells[1].of /\ cells[i].n = i
       /\ Len(cells) = cells[1].of.len
    THEN cells[1].of
    ELSE [id |-> -1, len |-> 0, valid |-> FALSE]

(* send_all: the stream is opened with the first message and says what kind
   it is first; a message too large to encode ends it. *)
SendAll(m) ==
    /\ ~finished /\ Len(written) <= SendMost /\ m.id = (IF written = <<>> THEN 1 ELSE Len(written))
    /\ IF m.len > MaxLen
       THEN /\ finished' = TRUE
            /\ written' = (IF written = <<>> THEN <<Kind>> ELSE written)
            /\ stream' = (IF written = <<>> THEN Encode(Kind) ELSE stream)
       ELSE /\ written' = (IF written = <<>> THEN <<Kind, m>> ELSE Append(written, m))
            /\ stream' = stream \o (IF written = <<>> THEN Encode(Kind) \o Encode(m) ELSE Encode(m))
            /\ UNCHANGED finished
    /\ UNCHANGED <<native, web>>

(* The channel closes: the session is over. *)
SendEnds ==
    /\ ~finished /\ finished' = TRUE
    /\ UNCHANGED <<written, stream, native, web>>

(* More of the stream arrives at the desktop viewer. *)
NativeArrives ==
    /\ native.arrived < Len(stream)
    /\ \E n \in (native.arrived + 1)..Len(stream) : native' = [native EXCEPT !.arrived = n]
    /\ UNCHANGED <<written, stream, finished, web>>

(* recv_message's first read_exact: the prefix. *)
NativeHeader ==
    /\ native.end = "open" /\ native.want = 0
    /\ \/ /\ native.arrived - native.taken >= HeaderLen
          /\ native' = [native EXCEPT !.taken = @ + HeaderLen,
                !.want = BodyLen(SubSeq(stream, native.taken + 1, native.taken + HeaderLen))]
       \/ /\ finished /\ native.arrived = Len(stream) /\ native.taken = native.arrived
          /\ native' = [native EXCEPT !.end = "clean"]
    /\ UNCHANGED <<written, stream, finished, web>>

(* The second: the body, decoded and given on; read_cursor closes the
   connection over a shape that is not what it claims. *)
NativeBody ==
    /\ native.end = "open" /\ native.want > 0
    /\ native.arrived - native.taken >= native.want
    /\ LET m == DecodeBody(SubSeq(stream, native.taken + 1, native.taken + native.want))
       IN  native' = [native EXCEPT !.taken = @ + native.want, !.want = 0,
                !.took = Append(@, m), !.end = IF m.valid THEN "open" ELSE "closed"]
    /\ UNCHANGED <<written, stream, finished, web>>

(* Whether a buffer holds a whole message, and what take makes of it. *)
HoldsOne(buffer) ==
    Len(buffer) >= HeaderLen /\ Len(buffer) >= HeaderLen + BodyLen(buffer)

TakeOne_KeepsHeader(state) ==
    [state EXCEPT !.took = Append(@, DecodeBody(SubSeq(state.buffer, HeaderLen + 1, HeaderLen + BodyLen(state.buffer)))),
                  !.buffer = SubSeq(@, BodyLen(state.buffer) + 1, Len(@))]

(* take: one message off the front of the buffer. *)
TakeOne(state) ==
    [state EXCEPT !.took = Append(@, DecodeBody(SubSeq(state.buffer, HeaderLen + 1, HeaderLen + BodyLen(state.buffer)))),
                  !.buffer = SubSeq(@, HeaderLen + BodyLen(state.buffer) + 1, Len(@))]

TakeAll_Once(state) == IF HoldsOne(state.buffer) THEN TakeOne(state) ELSE state

(* read_incoming's loop: every whole message there is. *)
TakeAll(state) ==
    FoldLeft(LAMBDA s, i : IF HoldsOne(s.buffer) THEN TakeOne(s) ELSE s,
             state, [i \in 1..(SendMost + 1) |-> i])

(* read and read_incoming: whatever has come is put behind what is left of
   before; a finished stream is forgotten with what its buffer holds. *)
WebReads ==
    /\ web.end = "open"
    /\ \E n \in web.taken..Len(stream) :
        LET more == [web EXCEPT !.taken = n, !.buffer = @ \o SubSeq(stream, web.taken + 1, n)]
            ends == finished /\ n = Len(stream)
        IN  /\ n > web.taken \/ ends
            /\ web' = [TakeAll(more) EXCEPT !.end = IF ends THEN "clean" ELSE "open"]
    /\ UNCHANGED <<written, stream, finished, native>>

StreamInit ==
    /\ written = <<>> /\ stream = <<>> /\ finished = FALSE
    /\ native = [arrived |-> 0, taken |-> 0, want |-> 0, took |-> <<>>, end |-> "open"]
    /\ web = [taken |-> 0, buffer |-> <<>>, took |-> <<>>, end |-> "open"]

StreamNext ==
    \/ \E m \in Messages : SendAll(m)
    \/ SendEnds \/ NativeArrives \/ NativeHeader \/ NativeBody \/ WebReads

StreamSpec == StreamInit /\ [][StreamNext]_streamVars

StreamTypeOK ==
    /\ Len(written) <= SendMost + 1 /\ finished \in BOOLEAN
    /\ native.taken <= native.arrived /\ native.arrived <= Len(stream)
    /\ web.taken <= Len(stream) /\ Len(web.buffer) <= Len(stream)

(* However the bytes were cut up on the way, each reader gets whole messages,
   the ones sent, in the order they were sent. *)
InOrderWhole == IsPrefix(native.took, written) /\ IsPrefix(web.took, written)

(* A stream that ended cleanly was read to its last message by both. *)
CleanMeansAll ==
    /\ native.end = "clean" => native.took = written
    /\ web.end = "clean" => web.took = written
=============================================================================
