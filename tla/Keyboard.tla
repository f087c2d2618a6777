------------------------------ MODULE Keyboard ------------------------------
(***************************************************************************)
(* Keys from the viewer's window to the host: the window's Forwarder       *)
(* (viewer/src/present/input.rs), the input stream of each session         *)
(* (send_input, read_input) and the agent's input thread, one per session  *)
(* (agent/src/input.rs, input/src/win32.rs), each end with its Held        *)
(* (core/src/held.rs).                                                     *)
(*                                                                         *)
(* The window outlives the connection: what it produces while there is no  *)
(* session waits in its channel for the next one.  An input thread ends on *)
(* its own, and no session waits for the one before.                       *)
(***************************************************************************)
EXTENDS Integers, Sequences, FiniteSets, SequencesExt

CONSTANTS
    Keys,      \* keys and buttons, as HID usages and numbers
    Links,     \* the sessions of the viewer, one after another: 1..n
    Extent,    \* the width of the monitor watched, in pixels
    Desk,      \* the width of the virtual desktop, all monitors together
    Place,     \* where in it the monitor begins
    EventBound \* bound: what the user does

ASSUME KeyboardAssumption ==
    /\ Extent \in Nat \ {0} /\ Place \in Nat /\ Desk \in Nat
    /\ Place + Extent <= Desk /\ Desk <= 32768
    /\ Links \subseteq Nat \ {0} /\ EventBound \in Nat

VARIABLES
    pressed,  \* what the user holds
    focused,  \* the window's focus, as the Forwarder has it
    kept,     \* Forwarder::held
    channel,  \* events the window produced and no session took
    aim,      \* history: the pixel the user last pointed at
    did,      \* bound: what the user did
    current,  \* the session connected, or 0
    lastLink, \* the last one that began
    taking,   \* events each input thread has queued
    holders,  \* who holds a sender of each thread's channel
    input,    \* each input thread
    held,     \* SendInputInjector::held of each
    down,     \* keys down on the host
    pointer,  \* the host's pointer, a pixel of the virtual desktop
    refused   \* history: Windows refused input

userVars == <<pressed, focused, kept, channel, aim, did>>
hostVars == <<held, down, pointer, refused>>
kbVars == <<userVars, hostVars, current, lastLink, taking, holders, input>>

NoAim == -1
Top == 65535

---------------------------------------------------------------------------
(* Coordinates. *)

(* The pixel under the pointer on the video, as 0..=65535 (normalise). *)
Normalise(pixel) == IF Extent = 1 THEN 0 ELSE (pixel * Top) \div (Extent - 1)

Denormalise_Truncated(value) == (value * (Extent - 1)) \div Top

(* denormalise, rounding to the nearest pixel. *)
Denormalise(value) == (value * (Extent - 1) + Top \div 2) \div Top

DeskPoint_Edge(pixel) == (pixel * 65536) \div Desk

(* A pixel of the virtual desktop as SendInput's 0..=65535, aimed at its    *)
(* centre (virtual_desk_point; the clamp leaves a pixel of the desktop as   *)
(* it is).                                                                  *)
DeskPoint(pixel) == ((2 * pixel + 1) * 65536) \div (2 * Desk)

(* External: the pixel Windows takes such a point for.                      *)
PixelAt(point) == (point * Desk) \div 65536

(* Where SendInput puts the pointer for a move. *)
Lands(value) == PixelAt(DeskPoint(Place + Denormalise(value)))

---------------------------------------------------------------------------
(* The window (Forwarder). *)

Event(kind, key) == [kind |-> kind, key |-> key, x |-> 0]
Text == Event("text", "")
Char == Event("char", "")
Enter == <<Event("down", "Enter"), Event("up", "Enter")>>

Does == did < EventBound /\ did' = did + 1

(* A press or a release while the window has the focus (key, button): a    *)
(* press is sent again for every repeat, a release only of a key whose     *)
(* press was sent.                                                         *)
Presses(k) ==
    /\ Does /\ focused
    /\ pressed' = pressed \cup {k} /\ kept' = kept \cup {k}
    /\ channel' = Append(channel, Event("down", k))
    /\ UNCHANGED <<focused, aim>>
LetsGo(k) ==
    /\ Does /\ k \in pressed
    /\ pressed' = pressed \ {k} /\ kept' = IF focused THEN kept \ {k} ELSE kept
    /\ channel' = IF focused /\ k \in kept THEN Append(channel, Event("up", k)) ELSE channel
    /\ UNCHANGED <<focused, aim>>

(* release_held, before what follows it. *)
ReleaseHeld(then) ==
    /\ kept' = {}
    /\ channel' = channel \o SetToSeq({Event("up", k) : k \in kept}) \o then

LosesFocus_KeysKept ==
    /\ Does /\ focused /\ focused' = FALSE
    /\ UNCHANGED <<pressed, aim, kept, channel>>

(* focus: what is held now is released into another window. *)
LosesFocus ==
    /\ Does /\ focused /\ focused' = FALSE
    /\ ReleaseHeld(<<>>)
    /\ UNCHANGED <<pressed, aim>>
GetsFocus ==
    /\ Does /\ ~focused /\ focused' = TRUE
    /\ UNCHANGED <<pressed, kept, channel, aim>>

TypesText_KeysKept ==
    /\ Does /\ focused
    /\ channel' = channel \o <<Text>> \o Enter
    /\ UNCHANGED <<pressed, focused, aim, kept>>

(* The shortcut that types the clipboard (type_text, keystrokes): text with *)
(* a line break in it.                                                      *)
TypesText ==
    /\ Does /\ focused
    /\ ReleaseHeld(<<Text>> \o Enter)
    /\ UNCHANGED <<pressed, focused, aim>>

(* A key without a position to send goes as the character it gives (key);   *)
(* what is held stays held: a Shift or an AltGr is part of it.              *)
TypesCharacter ==
    /\ Does /\ focused
    /\ channel' = Append(channel, Char)
    /\ UNCHANGED <<pressed, focused, aim, kept>>

(* cursor *)
PointsAt(pixel) ==
    /\ Does /\ focused
    /\ aim' = pixel
    /\ channel' = Append(channel, [kind |-> "move", key |-> "", x |-> Normalise(pixel)])
    /\ UNCHANGED <<pressed, focused, kept>>

User ==
    /\ \/ \E k \in Keys : Presses(k) \/ LetsGo(k)
       \/ LosesFocus \/ GetsFocus \/ TypesText \/ TypesCharacter
       \/ \E pixel \in {Extent - 1, Extent \div 3} : PointsAt(pixel)
    /\ UNCHANGED <<hostVars, current, lastLink, taking, holders, input>>

---------------------------------------------------------------------------
(* The input stream. *)

(* The viewer connects again, and the agent starts an input thread for the *)
(* session (Injection::start), whose channel the tasks that accept and read *)
(* its streams hold too.                                                    *)
Begins(n) ==
    /\ current = 0 /\ n = lastLink + 1
    /\ current' = n /\ lastLink' = n
    /\ input' = [input EXCEPT ![n] = "run"]
    /\ holders' = [holders EXCEPT ![n] = {"session", "streams"}]
    /\ UNCHANGED <<userVars, hostVars, taking>>

(* A move with another right behind it. *)
Superseded(batch, i) ==
    i < Len(batch) /\ batch[i].kind = "move" /\ batch[i + 1].kind = "move"

Coalesced_Backwards(batch) ==
    LET left == {i \in 1..Len(batch) :
                    ~(i > 1 /\ batch[i].kind = "move" /\ batch[i - 1].kind = "move")}
        nth(j) == CHOOSE i \in left : Cardinality({m \in left : m <= i}) = j
    IN  [j \in 1..Cardinality(left) |-> batch[nth(j)]]

(* What is left of a batch without the moves superseded, in its order. *)
Coalesced(batch) ==
    LET left == {i \in 1..Len(batch) : ~Superseded(batch, i)}
        nth(j) == CHOOSE i \in left : Cardinality({m \in left : m <= i}) = j
    IN  [j \in 1..Cardinality(left) |-> batch[nth(j)]]

(* send_input and read_input: what has queued up, in one go, read into the  *)
(* session's channel; the time that takes is time in the window's channel.  *)
SendInput(n) ==
    /\ current = n /\ "streams" \in holders[n] /\ channel # <<>>
    /\ taking' = [taking EXCEPT ![n] = @ \o Coalesced(channel)] /\ channel' = <<>>
    /\ UNCHANGED <<pressed, focused, kept, aim, did, hostVars, current, lastLink, holders, input>>

(* The connection is lost or closed, and with it what is left of the batch  *)
(* being sent.                                                              *)
Drops(n) ==
    /\ current = n /\ current' = 0
    /\ \/ UNCHANGED <<channel, taking, aim>>
       \/ \E read \in 0..(Len(Coalesced(channel)) - 1) :
             /\ taking' = [taking EXCEPT ![n] = @ \o SubSeq(Coalesced(channel), 1, read)]
             /\ channel' = <<>> /\ aim' = NoAim
    /\ UNCHANGED <<pressed, focused, kept, did, hostVars, lastLink, holders, input>>

HolderGoes_StaysOpen(n, who) ==
    /\ current # n /\ who \in holders[n] \ {"streams"}
    /\ holders' = [holders EXCEPT ![n] = @ \ {who}]
    /\ UNCHANGED <<userVars, hostVars, current, lastLink, taking, input>>

(* The tasks of a session whose connection is gone end, each in its time. *)
HolderGoes(n, who) ==
    /\ current # n /\ who \in holders[n]
    /\ holders' = [holders EXCEPT ![n] = @ \ {who}]
    /\ UNCHANGED <<userVars, hostVars, current, lastLink, taking, input>>

---------------------------------------------------------------------------
(* The input thread (run, inject). *)

Held(keys, event) ==
    IF event.kind = "down" THEN keys \cup {event.key}
    ELSE IF event.kind = "up" THEN keys \ {event.key} ELSE keys

Inject_HeldFirst(n) ==
    LET event == Head(taking[n]) IN
    /\ input[n] = "run" /\ taking[n] # <<>>
    /\ taking' = [taking EXCEPT ![n] = Tail(@)]
    /\ held' = [held EXCEPT ![n] = Held(@, event)]
    /\ \/ /\ down' = Held(down, event)
          /\ pointer' = IF event.kind = "move" THEN Lands(event.x) ELSE pointer
          /\ UNCHANGED refused
       \/ /\ refused' = TRUE
          /\ UNCHANGED <<down, pointer>>
    /\ UNCHANGED <<userVars, current, lastLink, holders, input>>

(* One event: SendInput puts it to the desktop the thread followed to and   *)
(* Held records it; or, tried again after following once more if it moved,  *)
(* it is refused and dropped.                                               *)
Inject(n) ==
    LET event == Head(taking[n]) IN
    /\ input[n] = "run" /\ taking[n] # <<>>
    /\ taking' = [taking EXCEPT ![n] = Tail(@)]
    /\ \/ /\ down' = Held(down, event)
          /\ held' = [held EXCEPT ![n] = Held(@, event)]
          /\ pointer' = IF event.kind = "move" THEN Lands(event.x) ELSE pointer
          /\ UNCHANGED refused
       \/ /\ refused' = TRUE
          /\ UNCHANGED <<down, held, pointer>>
    /\ UNCHANGED <<userVars, current, lastLink, holders, input>>

(* Every sender is gone and the channel is empty: release_all lets go of    *)
(* what is held, in one batch, which may be refused; the thread ends.       *)
ReleaseAll(n) ==
    /\ input[n] = "run" /\ holders[n] = {} /\ taking[n] = <<>>
    /\ input' = [input EXCEPT ![n] = "gone"] /\ held' = [held EXCEPT ![n] = {}]
    /\ \/ down' = down \ held[n] /\ UNCHANGED refused
       \/ held[n] # {} /\ refused' = TRUE /\ UNCHANGED down
    /\ UNCHANGED <<userVars, current, lastLink, taking, holders, pointer>>

---------------------------------------------------------------------------
KbInit ==
    /\ pressed = {} /\ focused = TRUE /\ kept = {} /\ channel = <<>> /\ aim = NoAim /\ did = 0
    /\ current = 0 /\ lastLink = 0
    /\ taking = [n \in Links |-> <<>>] /\ holders = [n \in Links |-> {}]
    /\ input = [n \in Links |-> "none"] /\ held = [n \in Links |-> {}]
    /\ down = {} /\ pointer = 0 /\ refused = FALSE

KbNext ==
    \/ User
    \/ \E n \in Links : Begins(n) \/ SendInput(n) \/ Drops(n) \/ Inject(n) \/ ReleaseAll(n)
    \/ \E n \in Links, who \in {"session", "streams"} : HolderGoes(n, who)

(* The runtime runs every task that can go on, and the input thread is a    *)
(* thread of its own.                                                       *)
KbFairness ==
    \A n \in Links :
        /\ WF_kbVars(Inject(n)) /\ WF_kbVars(ReleaseAll(n))
        /\ \A who \in {"session", "streams"} : WF_kbVars(HolderGoes(n, who))

KbSpec == KbInit /\ [][KbNext]_kbVars /\ KbFairness

---------------------------------------------------------------------------
KbTypeOK ==
    /\ pressed \subseteq Keys /\ kept \subseteq Keys /\ focused \in BOOLEAN /\ did \in 0..EventBound
    /\ aim \in {NoAim} \cup 0..(Extent - 1) /\ pointer \in 0..(Desk - 1)
    /\ current \in Links \cup {0} /\ lastLink \in Links \cup {0} /\ refused \in BOOLEAN
    /\ input \in [Links -> {"none", "run", "gone"}]
    /\ down \subseteq Keys \cup {"Enter"} /\ \A n \in Links : held[n] \subseteq Keys \cup {"Enter"}

(* A key down on the host is one some input thread still running has in its *)
(* Held, and will release, until Windows refuses a release                  *)
(* (agent/src/input.rs: "The thread releases every key and button the       *)
(* viewer still holds").  A refused event changes neither, so input refused *)
(* in a session alone breaks nothing.                                       *)
Owned ==
    \/ down \subseteq UNION {held[n] : n \in {m \in Links : input[m] = "run"}}
    \/ refused /\ \E n \in Links : input[n] = "gone"

Old(n) == n # current /\ input[n] = "run"
Settled ==
    /\ current # 0 /\ channel = <<>> /\ ~refused
    /\ taking[current] = <<>> /\ ~\E n \in Links : Old(n)

(* Once everything sent has been applied, the host has down only what the   *)
(* user holds in the window, and nothing while the window is out of focus   *)
(* (held.rs: "the viewer releases what it has sent when its window loses    *)
(* focus"), also across a reconnection.                                     *)
LetGo == Settled => down \subseteq kept /\ kept \subseteq pressed /\ (~focused => down = {})

(* And in a viewer's first session its pointer is on the very pixel pointed *)
(* at, whatever was coalesced and wherever the monitor lies: neither the    *)
(* rounding of the wire nor the one of SendInput moves it (input.rs,        *)
(* normalise: "which the agent maps back to exactly that pixel"; win32.rs:  *)
(* "so rounding cannot land on its neighbour").                             *)
PointerThere == Settled /\ lastLink = 1 /\ aim # NoAim => pointer = Place + aim

(* Text typed out by the shortcut meets no key held down: the shortcut's    *)
(* own keys are released first and nothing is put between (type_text).  An  *)
(* input thread of an earlier session may still hold one.  A character of a *)
(* key without a position is not such text: it goes under what is held.     *)
TypedPlain ==
    \A n \in Links :
        /\ input[n] = "run" /\ taking[n] # <<>> /\ Head(taking[n]).kind = "text"
        /\ ~refused /\ ~\E m \in Links \ {n} : input[m] = "run"
        => down = {}

(* The input threads of sessions whose connection is gone end, having let   *)
(* go of what they held.                                                    *)
LeftInputs == {n \in Links : input[n] = "run" /\ current # n}
InputEnds == LeftInputs # {} ~> LeftInputs = {}

=============================================================================
