----------------------------- MODULE Clipboard -----------------------------
(***************************************************************************)
(* Clipboard text kept in step between two machines: one ClipboardSync on  *)
(* each side (clipboard/src/lib.rs) over the Windows clipboard (win32.rs), *)
(* the streams that carry its texts in order (read_clipboard and           *)
(* start_clipboard in viewer/src/direct.rs, the same in agent session.rs), *)
(* the people copying, and programs that write back what they find.        *)
(***************************************************************************)
EXTENDS Naturals, Sequences

CONSTANTS
    Sides,     \* the viewer's machine and the agent's
    Copyable,  \* what people copy, of Contents
    CopyBound, \* bound: copies made
    SlipBound  \* bound: times the clipboard is held open by another program

ASSUME ClipAssumption ==
    /\ \E s, t \in Sides : s # t /\ Sides = {s, t}
    /\ Copyable \subseteq {"a", "b", "crcrlf", "crlf", "long", "image"}

VARIABLES
    holdsText, \* what each clipboard holds
    made,      \* whether a person put it there, or ClipboardSync did
    unset,     \* history: the text received last could not be set
    seq,       \* GetClipboardSequenceNumber
    seenSeq,   \* seen
    lastText,  \* last
    doing,     \* where each run is
    now,       \* its now
    pasted,    \* the text it is setting
    ahead,     \* texts on their way to each side: stream, task and channel
    copies,    \* history
    clean,     \* history: nothing crossed the last copy, and nothing failed
    slips      \* history

clipVars == <<holdsText, made, unset, seq, seenSeq, lastText, doing, now, pasted, ahead,
              copies, clean, slips>>

(* Clipboard contents: texts, one of them with a CR before a line's end,   *)
(* one longer than MAX_TEXT, and something that is no text.                *)
Contents == {"a", "b", "crcrlf", "crlf", "long", "image"}
None == "none"
OtherSide(s) == CHOOSE t \in Sides : t # s

(* to_lf and to_crlf, on these. *)
ToLf(text) == CASE text = "crcrlf" -> "crlf" [] text = "crlf" -> "lf" [] OTHER -> text
ToCrlf(text) == IF text = "lf" THEN "crlf" ELSE text

(* Texts on their way to the other side, and taken off it. *)
Sent(s, text) == [ahead EXCEPT ![OtherSide(s)] = Append(@, text)]
Taken(s) == [ahead EXCEPT ![s] = Tail(@)]

Slip == slips < SlipBound /\ slips' = slips + 1

---------------------------------------------------------------------------
(* run *)

(* recv_timeout: a text from the other side, ... *)
Receives(s) ==
    /\ doing[s] = "wait" /\ ahead[s] # <<>>
    /\ doing' = [doing EXCEPT ![s] = "received"]
    /\ pasted' = [pasted EXCEPT ![s] = Head(ahead[s])]
    /\ ahead' = Taken(s)
    /\ UNCHANGED <<holdsText, made, unset, seq, seenSeq, lastText, now, copies, clean, slips>>

(* ... which is set, ... *)
Sets(s) ==
    /\ doing[s] = "received"
    /\ holdsText' = [holdsText EXCEPT ![s] = ToCrlf(pasted[s])]
    /\ made' = [made EXCEPT ![s] = FALSE] /\ unset' = [unset EXCEPT ![s] = FALSE]
    /\ seq' = [seq EXCEPT ![s] = @ + 1]
    /\ doing' = [doing EXCEPT ![s] = "set"]
    /\ UNCHANGED <<seenSeq, lastText, now, pasted, ahead, copies, clean, slips>>

(* ... or not, the clipboard perhaps emptied; last is the text anyway.     *)
SetFails(s) ==
    /\ doing[s] = "received" /\ Slip
    /\ \/ UNCHANGED <<holdsText, made, seq>>
       \/ /\ holdsText' = [holdsText EXCEPT ![s] = "image"]
          /\ made' = [made EXCEPT ![s] = FALSE]
          /\ seq' = [seq EXCEPT ![s] = @ + 1]
    /\ lastText' = [lastText EXCEPT ![s] = pasted[s]]
    /\ pasted' = [pasted EXCEPT ![s] = None]
    /\ doing' = [doing EXCEPT ![s] = "poll"]
    /\ clean' = FALSE /\ unset' = [unset EXCEPT ![s] = TRUE]
    /\ UNCHANGED <<seenSeq, now, ahead, copies>>

(* A mutant: the side's own write looks like a change. *)
SeesOwnWrite_Not(s) ==
    /\ doing[s] = "set"
    /\ doing' = [doing EXCEPT ![s] = "poll"]
    /\ pasted' = [pasted EXCEPT ![s] = None]
    /\ UNCHANGED <<holdsText, made, unset, seq, seenSeq, lastText, now, ahead, copies, clean, slips>>

(* "Our own write is not a local change": by then a person's copy may have *)
(* changed the number too.                                                 *)
SeesOwnWrite(s) ==
    /\ doing[s] = "set"
    /\ seenSeq' = [seenSeq EXCEPT ![s] = seq[s]]
    /\ lastText' = [lastText EXCEPT ![s] = pasted[s]]
    /\ pasted' = [pasted EXCEPT ![s] = None]
    /\ doing' = [doing EXCEPT ![s] = "poll"]
    /\ UNCHANGED <<holdsText, made, unset, seq, now, ahead, copies, clean, slips>>

(* The timeout, and the number looked at. *)
Polls(s) ==
    /\ doing[s] = "poll" \/ (doing[s] = "wait" /\ ahead[s] = <<>> /\ seq[s] # seenSeq[s])
    /\ now' = [now EXCEPT ![s] = IF seq[s] = seenSeq[s] THEN 0 ELSE seq[s]]
    /\ doing' = [doing EXCEPT ![s] = IF seq[s] = seenSeq[s] THEN "wait" ELSE "read"]
    /\ UNCHANGED <<holdsText, made, unset, seq, seenSeq, lastText, pasted, ahead, copies, clean, slips>>

(* A mutant: only a text counts as seen. *)
Reads_TextOnly(s) ==
    /\ doing[s] = "read" /\ doing' = [doing EXCEPT ![s] = "wait"] /\ now' = [now EXCEPT ![s] = 0]
    /\ LET text == ToLf(holdsText[s]) IN
       IF text \in {"image", "long", lastText[s]}
       THEN /\ UNCHANGED <<lastText, ahead>>
            /\ seenSeq' = IF text = "image" THEN seenSeq ELSE [seenSeq EXCEPT ![s] = now[s]]
       ELSE /\ seenSeq' = [seenSeq EXCEPT ![s] = now[s]]
            /\ lastText' = [lastText EXCEPT ![s] = text]
            /\ ahead' = Sent(s, text)
    /\ UNCHANGED <<holdsText, made, unset, seq, pasted, copies, clean, slips>>

(* The text is read and, where it is new, sent: on_change. *)
Reads(s) ==
    /\ doing[s] = "read" /\ doing' = [doing EXCEPT ![s] = "wait"]
    /\ seenSeq' = [seenSeq EXCEPT ![s] = now[s]] /\ now' = [now EXCEPT ![s] = 0]
    /\ LET text == ToLf(holdsText[s]) IN
       IF text \in {"image", "long", lastText[s]}
       THEN UNCHANGED <<lastText, ahead>>
       ELSE /\ lastText' = [lastText EXCEPT ![s] = text]
            /\ ahead' = Sent(s, text)
    /\ UNCHANGED <<holdsText, made, unset, seq, pasted, copies, clean, slips>>

(* A mutant: a change that could not be read is taken for seen. *)
ReadFails_Seen(s) ==
    /\ doing[s] = "read" /\ Slip
    /\ doing' = [doing EXCEPT ![s] = "wait"] /\ now' = [now EXCEPT ![s] = 0]
    /\ seenSeq' = [seenSeq EXCEPT ![s] = now[s]]
    /\ UNCHANGED <<holdsText, made, unset, seq, lastText, pasted, ahead, copies, clean>>

(* Another program has the clipboard open: the next poll tries again. *)
ReadFails(s) ==
    /\ doing[s] = "read" /\ Slip
    /\ doing' = [doing EXCEPT ![s] = "wait"] /\ now' = [now EXCEPT ![s] = 0]
    /\ UNCHANGED <<holdsText, made, unset, seq, seenSeq, lastText, pasted, ahead, copies, clean>>

---------------------------------------------------------------------------
(* A person copies.  Nothing crosses the copy if the other side has no     *)
(* news for this one, and this side is not between its own write and the   *)
(* look at the number after it; and it is not the text that crossed last,  *)
(* which this side takes for known to the other.                           *)
Copies(s, content) ==
    /\ copies < CopyBound /\ copies' = copies + 1
    /\ holdsText' = [holdsText EXCEPT ![s] = content]
    /\ made' = [made EXCEPT ![s] = TRUE]
    /\ seq' = [seq EXCEPT ![s] = @ + 1]
    /\ LET t == OtherSide(s) IN
       clean' = /\ content \in {"a", "b"} \ {lastText[s]} /\ doing[s] \notin {"received", "set"}
                /\ ahead[s] = <<>> /\ seq[t] = seenSeq[t] /\ doing[t] # "set"
    /\ UNCHANGED <<unset, seenSeq, lastText, doing, now, pasted, ahead, slips>>

(* A clipboard manager writes the same again: news, if it went unnoticed.  *)
Rewrites(s) ==
    /\ Slip
    /\ seq' = [seq EXCEPT ![s] = @ + 1]
    /\ clean' = (clean /\ (\/ seq[s] # seenSeq[s]
                           \/ ToLf(holdsText[s]) \in {lastText[s], "image", "long"}))
    /\ UNCHANGED <<holdsText, made, unset, seenSeq, lastText, doing, now, pasted, ahead, copies>>

ClipInit ==
    /\ holdsText = [s \in Sides |-> "image"] /\ made = [s \in Sides |-> TRUE]
    /\ seq = [s \in Sides |-> 1] /\ seenSeq = [s \in Sides |-> 1]
    /\ lastText = [s \in Sides |-> None] /\ doing = [s \in Sides |-> "wait"]
    /\ now = [s \in Sides |-> 0] /\ pasted = [s \in Sides |-> None]
    /\ unset = [s \in Sides |-> FALSE]
    /\ ahead = [s \in Sides |-> <<>>] /\ copies = 0 /\ clean = FALSE /\ slips = 0

Runs(s) == Receives(s) \/ Sets(s) \/ SeesOwnWrite(s) \/ Polls(s) \/ Reads(s)

ClipNext ==
    \E s \in Sides :
        \/ Runs(s) \/ SetFails(s) \/ ReadFails(s) \/ Rewrites(s)
        \/ \E content \in Copyable : Copies(s, content)

(* Each side's thread goes on. *)
ClipFairness == \A s \in Sides : WF_clipVars(Runs(s))

ClipSpec == ClipInit /\ [][ClipNext]_clipVars /\ ClipFairness

---------------------------------------------------------------------------
(* Every variable keeps its type. *)
ClipTypeOK ==
    /\ holdsText \in [Sides -> Contents]
    /\ doing \in [Sides -> {"wait", "received", "set", "poll", "read"}]
    /\ \A s \in Sides : seenSeq[s] \in 1 .. seq[s] /\ now[s] \in 0 .. seq[s]

Quiet ==
    \A s \in Sides : doing[s] = "wait" /\ ahead[s] = <<>> /\ seq[s] = seenSeq[s]

(* Once both have nothing to do, a copy that nothing crossed is on both    *)
(* sides, whatever was copied before it on either, and whichever reads     *)
(* failed on the way.                                                      *)
InStep ==
    clean /\ Quiet => \A s, t \in Sides : holdsText[s] = holdsText[t]

(* What a side sends, somebody copied there: a value just pasted does not  *)
(* go straight back, also when another program writes it again.  (A text   *)
(* with a CR before a line's end, which the conversion does not keep, may; *)
(* and one left in place by the next, which could not be set: that one is  *)
(* remembered instead.)                                                    *)
NoEcho ==
    [][\A s \in Sides :
          (doing[s] = "read" /\ doing'[s] = "wait" /\ Len(ahead'[OtherSide(s)]) > Len(ahead[OtherSide(s)]))
             => made[s] \/ unset[s] \/ lastText[s] = "crlf"]_clipVars

(* The two come to rest: no text goes to and fro for ever. *)
ComesToRest == <>[]Quiet

(* What lib.rs says: clipboard text is kept in step between viewer and     *)
(* agent.  Two copies that cross leave each side with the other's.         *)
KeptInStep ==
    (copies > 0 /\ slips = 0 /\ Quiet /\ \A s \in Sides : holdsText[s] \in {"a", "b"})
        => \A s, t \in Sides : holdsText[s] = holdsText[t]
====
