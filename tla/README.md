# Nearhand in TLA+

Nearhand is a remote desktop: an *agent* on the machine to be seen, a *viewer*
on the machine that looks (a program, or a page in a browser), and a *server*
that introduces them and relays when they cannot reach each other. This
directory holds TLA+ models of it, the TLC configurations that check them and
TLAPS proofs of what matters most.

`PROJECT.json` lists the components, the runs, the correspondence between
definitions and source lines, the hazards the properties are about, the mutants,
what was found, and the theorems.

## The system

| part | source (`src/crates/`) | state it keeps | operations | what is hard about it |
|---|---|---|---|---|
| video reassembler | `core/src/video.rs` | frames being collected, the last settled id, remembered gaps, whether a keyframe is awaited or wanted | `push`, `pop`, `nacks`, `expire`, `next_deadline` | chunks in any order, ids that wrap around, a bounded buffer, loops inside calls |
| video link | `agent/src/pipeline.rs`, `agent/src/session.rs` (`send_video`, `Sent`), `viewer/src/direct.rs` (`talk`) | frame queue, frames kept for repair, the viewer's select loop | encode, send, resend, restart, receive, ask | losses, repairs racing expiry, an idle desktop |
| admission | `agent/src/{main,session,password,access,grants,host,window}.rs` | the one slot, failures and lockouts, nonces seen, the request and the session shown | accept, authenticate, approve, end | awaits between looking and acting, a person who clicks on what was drawn a moment ago |
| password proof | `core/src/access.rs` | an exchange at either end | begin, answer, prove, check | messages of several exchanges spliced together |
| updates | `agent/src/{update,unattended}.rs` | when to look, what is offered | look, fetch, look again, install, restart | a session that starts in between, memory lost in a restart |
| agent session | `agent/src/session.rs` (`serve`) | the stream's thread and sender, the restart that is due | control messages, restarts, the end | stopping order, a thread blocked on a full queue, backoff |
| input | `agent/src/input.rs`, `input/src/win32.rs`, `viewer/src/present/input.rs`, `core/src/held.rs` | keys held at either end | forward, inject, release | keys left down, threads that outlive their session |
| rate control | `agent/src/rate.rs` | bitrate, frame rate, hold-offs | update, adapt, apply | oscillation, limits |
| capture and encoding | `capture/src/{dxgi,desktop}.rs`, `codec/src/mediafoundation/{encoder,software}.rs`, `agent/src/pipeline.rs` | the duplication, the texture ring, outputs due | capture, recover, encode, fall back | desktops that change, late outputs, lost devices |
| decoding and presentation | `codec/src/{h264.rs,mediafoundation/decoder.rs}`, `viewer/src/present/*` | capture times in flight, a ring of slots, fences | decode, show, draw, resize | two threads and two GPU queues |
| agent service and installation | `agent/src/{service,setup,machine,enroll,unattended,logfile}.rs` | the agent process, `agent.toml`, the token that waits, the log | tend, move, stop; configure, enroll, forget | several processes, one file, crashes |
| rendezvous server | `server/src/{rendezvous,webtransport}.rs` | the registry by device ID, sessions waiting for an agent, tunnels, attempts, the web certificate | register, introduce, enroll, relay, remove, renew | connections that linger, keys that share an ID, two tasks on one ceiling |
| rendezvous client | `transport/src/{rendezvous,relay,lib}.rs`, `agent/src/portable.rs` | registration, backoff, the race of direct and relayed connections | `stay_registered`, `introduce`, `prefer_direct` | late answers, both ways succeeding |
| viewer sessions | `viewer/src/{direct,main,known}.rs` | what happened to the last connection, the file of known keys | run, session, judge, come back | its own dead session in the agent's slot |
| web viewer | `web-viewer/src/session.rs`, `server/web/view.js` | a session state machine under a page | connect, pump, come back | grants that work once, packets and timers in any order |
| clipboard, clock | `clipboard/src/{lib,win32}.rs`, `core/src/clock.rs` | last text, sequence seen; samples | poll, paste; ping, pong | echo between two sides; clocks that drift |
| accounts, devices, grants, releases | `server/src/{accounts,totp,devices,grants,releases,audit,api}.rs` | SQLite tables and package files | sign in, second factor, enroll, grant, offer | statements of concurrent requests interleave, row ids are given again, clients leave half way |
| data folder | `server/src/{main,backup,doctor,https}.rs` | the server's key, certificate and database | serve, migrate, doctor, backup, restore | commands that overlap, crashes, the write-ahead log |
| simulated network | `server/src/netsim.rs` | NAT mappings, inboxes | send, deliver, forget | tests rest on it |

The agent registers with the server and keeps that connection; a viewer asks the
server for a device ID, the server tells the agent, both try to reach each
other, and fall back to datagrams relayed by the server. Inside the resulting
connection the viewer is admitted (a one-time password, an access password, a
grant signed by the server, a person clicking Allow); then the agent streams
video in datagrams and the viewer sends input, repairs and keyframe requests on
a reliable stream. Server and agents share nothing but these connections; the
server's requests share its database.

## Modules

| module | models | checked by |
|---|---|---|
| `FrameIds` | wrapping ids: successor, `is_newer`, oldest and newest of a set | through `Reassembler` |
| `DecoderStream` | abstract: what the decoder is promised | refined by `Reassembler` |
| `Reassembler` | `video.rs`, every public call and every loop iteration inside them | itself; proofs in `ReassemblerProofs` |
| `VideoLink` | pipeline, sender, network, viewer loop around a `Reassembler` | itself |
| `Admission` | slot, authentication, gates, grants, the person at the machine | itself; proofs in `AdmissionProofs` |
| `Updates` | an agent that updates itself and is restarted, on `Admission` | itself; proofs in `AdmissionProofs` |
| `Rendezvous` | the registry, enrollment and introductions | itself; proofs in `RendezvousProofs` |
| `SignIn`, `Users`, `Fleet`, `Releases` | accounts and sign-in; users, tokens and audit; groups, grants, devices and enrollment; releases | `MCServer`; proofs in `ServerProofs` |
| `Window`, `Tunnel`, `Attempts` | times popped from a queue's front; the relay and its ceiling; attempts of an address | `MCServer`; proofs in `ServerProofs` |
| `WebCertificate`, `DataFolder`, `KnownKeys` | the certificate browsers are shown; the server's files and commands; the viewer's file of device keys | `MCServer`; proofs in `KeysProofs` |
| `Nat`, `PasswordProof` | simulated NATs; the password exchange | `MCWire`; proofs in `WireProofs` |
| `Streams` | message framing and its two readers | `MCWire` |
| `ClockOffset`, `Decoder` | the offset between clocks; H.264 units, the decoder's times and batches | `MCWire`; proofs (not of the units) in `WireProofs` |
| `Session`, `Keyboard`, `RateControl` | a session's threads; keys held; the rate over a link | `MCAgent`; proofs in `AgentProofs` |
| `Registration`, `Service`, `Installation` | staying registered; the Windows service; `agent.toml` and its writers, the log file | `MCAgent`; proofs in `AgentProofs` |
| `Screen`, `Presenter` | capture and encoder; the window's ring and fences | `MCViewer`; proofs in `ViewerProofs` |
| `Introduce`, `ViewerSession`, `WebViewer`, `Clipboard` | the race of the ways to a device; coming back; the page; both clipboards | `MCViewer`; proofs in `ViewerProofs` |

`MCServer`, `MCWire`, `MCAgent` and `MCViewer` put modules that share no state
into one specification: a constant variable `part` says which of them a
behaviour is of, and the others stay as they began, so the reachable states of the parts
add up instead of multiplying. An invariant of such a run (`SignInSafe`,
`RelaySafe`, `HostSafe`, ...) is the conjunction of its modules' named invariants, each
stated and commented where it belongs. Since `part` never changes, a leads-to
between disjunctions over the parts (`AgentLives`, `ViewerLives`) is one leads-to for
each part.

Operators whose names end in a suffix after an underscore (`Lost_ChainKept`) are
mutants: the definition as a plausible bug would have it. The one named in
`PROJECT.json` for a property makes that property fail when it takes the place of the original.
The modules carry further ones, next to what they mutate, for the conjuncts of the
properties that stand for several modules.

### Reassembler

`pending`, `ready`, `lastSettled`, `gapNacks`, `waiting` and `wanted` are the
fields of the struct. `push` and `expire` call `drain`, which loops; each
iteration is a step, with `pc`, `ret` and `arg` for where the call is and what
it was called with, so that an endless loop is a behaviour and not a model that
cannot be written. A chunk carries its frame's id, its place and whether the
frame is a keyframe; payload bytes and the loss statistics are left out.
`handed` (the last frame popped or made ready) is history. `DecoderPromise` is
the refinement of `DecoderStream`: frames strictly newer each time, and a
P-frame only right after its predecessor.

Ids are taken modulo `2 * Half` as the code takes them modulo 2^32; the frames in
flight span less than half of that, as `is_newer` presumes.

### VideoLink

One action per thing the pipeline thread, the sender task, the agent's control
task and the viewer's select do between two awaits. The viewer runs one branch
at a time (`view`), in the code's order: push, deliver, ask for repairs; or ask,
expire, deliver; then the keyframe request, throttled, and kept in `needed` until
it may go out. `content` numbers encoded frames, so that "the frame it was
encoded against" can be stated. Abstracted: an encoder gives one output per
input (one that buffers and returns nothing is not modelled); time is "always
due", so every timer may fire at any time; chunk sizes.

### Admission and Updates

Every connection is a task whose `phase` is the await it has reached. The
SPAKE2 exchange is a proof that succeeds exactly if the guess equals the material
the exchange began with (`exchange`); signatures are the flag `genuine`. The
password drawn anew is always a new one. A connection asks at most once and has
at most one session, so it stands for the `Host`'s request and session
numbers. `painted` is what the window drew last: the person decides on that,
while `Host::answer` answers whatever is waiting. `config` is any of the set-ups
that `portable.rs`, `unattended.rs` and `listen` can start with.

`Updates` adds `Updates::once` with its two looks for a session and a restart of
the process, which forgets failures and nonces.

### Rendezvous

Every agent connection is a task with a `phase`, every viewer one with a `step`. A
step is one lock held, or what lies between two awaits: the database lookup,
the claim (looked up and inserted under one lock), closing a displaced
stranger, telling the agent, serving it, removing it. `alive` is what the server
knows of a connection. A viewer keeps the copy of the entry it found (`found`),
as the code clones `Agent`. A connection registers or asks once, so it stands
for its registration or session number. The attempts an address may make are
`Attempts` (here `NotFound` may always happen), the ceiling of a relayed session
and the carriers of browsers are `Tunnel` (`RelayEnds` may always happen), update
downloads are `Releases`; listings only read.

### The server's accounts and fleet: SignIn, Users, Fleet, Releases

A request is a task and every SQL statement a step: the pool has eight
connections and, but for the setup and offering a release, no request holds a transaction. A
client that leaves drops its request at any await (`Cut`). The caller is read
once, when the request arrives. Row ids are SQLite's, one more than the largest
in the table, so a deleted last row's id is given again; `Fleet` gives every row
and reference a serial number the database does not have, to tell the row that
was meant from the one that has its id now. Passwords, secrets and codes are numbers and pairs; hashing is a
comparison. A release is a row and a file, written and deleted in steps of their
own. The audit record is the last step of each handler, as in `api.rs`.

What holds: wrong tries within a window exceed `ATTEMPTS` by less than the
sign-ins under way at once, a code works once and the secret in force was confirmed
unless requests raced, no session outlives a password change that ran to its end
(`SignInSafe`); an administrator is left unless requests raced, a setup token
makes one, an API token is its owner's, a change is in the audit log unless its
request was cut (`UsersSafe`); a row that gets a deleted row's id inherits
nothing, a token enrolls no more often than it says, an agent is told the truth (`FleetSafe`); at most one release
is on offer, a release held has its file unless it was uploaded during its
deletion (`ReleasesSafe`). Where the code lets an overlap through, the invariant
says exactly which: `history`, `past`, `fleetPast` and `seen` record the
overlap, and nothing else may cause the exception.

### Relay, attempts, certificate: Tunnel, Attempts, WebCertificate

Two tasks of the server carry a session, the viewer's loop and the reader of the
agent's tunnel, and count against one ceiling; queues and the client's inbox drop at
their limits. `Attempts` is the sliding window with its pruning, against a
reference that remembers everything; `Window` has the loop that pops old times
from the front, as its result, for the attempts and for the failed sign-ins alike.
The clock is read just before the lock is taken and the two are one step: a tick
is longer than that wait. `WebCertificate` renews the certificate
and then its hash under two locks; a page turned away came in between.

### Files: DataFolder, KnownKeys, Installation

Every command is a process. Writing a file is two steps (emptied, filled), a
rename is one, and a crash may fall anywhere; contents are known by who made
them. `DataFolder` has the write-ahead log as rows the database file alone does
not have. Who has the database open decides what becomes of it: the last writer to
close its pool moves the log into the file, unless a backup is reading; a server
that was asked to stop closes its pool, while `migrate`, `admin-link`, a failed API task
(`main.rs:246`) and a bad certificate (`main.rs:205`) only drop it, and a crash
does neither. So the log may stay after all of these, and a restore done over it mixes two
databases: `MixedOnlyIfLeftOpen` says that nothing else does, a server stopped as
the backup's words ask among it. `KnownKeys` and `Installation` write through one `.partial` file that several
processes share. At the log file (the end of `Installation`) Windows may refuse any rename or open, or the length of
the file that was opened: then it is taken for empty, and may grow once more by the limit. Its
length (`logSize`) is kept beside its events, as the file system does.

### Wire: Nat, PasswordProof, Streams, ClockOffset, Decoder

`Nat` is the four kinds of NAT that `netsim.rs` simulates. In `PasswordProof`
cryptography is symbolic: a SPAKE2 message says who made it from what material, a MAC
covers the transcript and the connection's binding, and anything sent may turn
up late, twice, elsewhere or back. `Streams` cuts one byte stream up
in two ways, for the reader that waits for what it wants and the one that keeps a
buffer. `Decoder` takes apart every stream that an encoder can put together from
short units (Annex B), and `UnitsComeBack` compares with what was put in; its other half is the
queue of capture times beside a decoder that holds frames back, drops and refuses.

### Agent: Session, Keyboard, RateControl, Registration, Service

`Session` has the threads, tasks and channels of the code: a pipeline blocks on a
full queue, ends when its queue's reader or every sender of its commands is
gone, and is joined; joining before the queue's reader is gone would be the deadlock.
`Keyboard` goes from the window's forwarder to `SendInput`, with one input thread per
session, each ending on its own; a batch without its superseded moves is given by rank (the
n-th of the places left). A pixel is converted three times: to 65536 steps of the
picture, back to a pixel of the monitor (`Denormalise`), and to the centre of that pixel in `SendInput`'s
65536 steps of the whole desktop (`DeskPoint`), from which Windows takes the pixel again
(`PixelAt`, external); the run has the monitor to the right of another. Text comes in two ways: the
typing shortcut lets go of all keys first, while the character of a key without a position
(`TypesCharacter`, and `WebCharacter` of the page) goes as it is under whatever is held, of which
`TypedPlain` and `KeysFollow` claim nothing. `RateControl` closes the controller over a
link with a queue, half a second per step; floating-point factors are integer
ones, and round trip and loss appear as the verdicts they lead to. The sender looks at the backlog before it takes
a frame and then puts in the whole of it, up to `FrameMost`; what a viewer asked for
again, up to `RepairMost` in an interval, goes in unlooked; a full buffer drops its oldest.
`Registration` is the loop with its backoff and the relay endpoint of each server
connection. `Service` keeps one agent in the session that has the console,
while processes outlive the service that started them.

### Viewer: Screen, Presenter, Introduce, ViewerSession, WebViewer, Clipboard

In `Screen` Windows is external: which desktop is in front, when a duplication
loses access, when the hardware encoder wants input or has output. A session that refuses a new
rate (`RateRefused`) goes on at its old one while the configuration has the new:
`RateKept` is claimed of the others. `Presenter`
has two threads and two GPU queues that execute later and in order, with fences
between them. `Introduce` races every address and the relay against the agent's
one slot. `ViewerSession` judges how a connection ended and comes back for a
while; `WebViewer` does the same for the page, whose turn (a packet or a timer,
then `pump`) is one step; its leave button works from the first session on, while the page comes
back too. `Clipboard` has people copying, programs that write back
what they find, and the conversion of line ends; `made` and `unset` are history: who put there what a
side holds, and whether the text it received last could not be set. A text the clipboard refuses is remembered as the last all the
same (`clipboard/src/lib.rs:106`), so what the side still holds, pasted earlier, is sent back once another program
writes it again. That takes two slips, which is why the run allows two, and `NoEcho` names the case.

## Runs

Passing:

| run | instance | what it shows |
|---|---|---|
| `reassembler_tight` | all orders of chunks of five frames of up to two chunks, ids 12, 13, 0, 1, 2 of 14, room for two | types, remembered gaps are gaps, the refinement of `DecoderStream`, whatever is skipped asks for a keyframe |
| `reassembler_timed` | three frames, room for three, four ticks of time | sleeping until `next_deadline` is never too late; only frames after the settled one are held; calls return; no frame is held for ever |
| `video_link` | four frames sent, three changes of the desktop, one restart, two losses | P-frames meet the frame they were encoded against; only a newest frame of which nothing arrived leaves a viewer without a picture |
| `admission` | three connections, seven set-ups, three grants, a clock from 0 to 2 | guesses bounded, no exchange during a lockout, a grant is taken once, everyone let in gave what is required, the window shows the truth, `ask` ends |
| `updates` | two restarts at most | a session under way at the second look is not ended by the installer |
| `rendezvous` | a managed device on two connections, a stranger with the same ID, a viewer | types, the newest registration keeps the ID, managed devices outrank strangers, no relay before the agent is ready, served agents leave no entry |
| `server` | two clients everywhere (symmetric), 840 000 states | `SignInSafe`, `UsersSafe`, `FleetSafe`, `ReleasesSafe`, `RelaySafe`, `KeysSafe`; and what no step may do (`ServerSteps`): end a session by sweeping, give access with a new row, take an agent back to an older release, pass the ceiling, count a refusal as an attempt, remember addresses for ever, turn a page away but by a renewal, carry on under a changed key |
| `wire` | three hosts behind two NATs, three exchange ends, two messages of up to four cells, four ticks of clock, units of three bytes, six frames; 640 000 states | `WireSafe`: nothing reaches the wrong host, punched holes stay open, only ends of one connection with one password admit each other, the offset is within its bound, no picture has a time later than its own; `ReadersSafe`: both readers of a stream get the same whole messages, units come back as they were |
| `agent` | three streams, two links of input, two consoles, three dials, two crashes or refusals each; 330 000 states | `SessionSafe`, `HostSafe`, `AgentSteps`; and `AgentLives`: sessions and input threads end, the rate returns, the service stops, tokens are used up, video, console and registration come back |
| `viewer` | two turns of the desktop, a ring of two slots, two addresses and the relay, three endings, two copies, two slips; 350 000 states | `ScreenSafe`, `ViewerSafe`, `ViewerSteps`; and `ViewerLives`: keyframes come, slots come back, races settle with nothing left open, a lost session is back or over, clipboards come to rest |

Bounds. Two frames of room and five frames let the buffer overflow, be drained
past its newest member and wrap around, all in one behaviour; one loss and one
repair are enough for every cause of giving up, and a second lets a repair be
lost too. Three connections are one that holds the slot, one that waits and one
that comes between two steps. Two connections of one key and one of another are
the smallest registry in which a reconnect and a takeover overlap. On the server
every race is between two requests, and a third request, after they are done,
shows what they left; the fleet needs a row deleted, made again and referred to,
which is three serials. Limits that count (uses, ceilings, windows, the log's size) are
small and reached; backoffs have a first value and a cap two doublings away. The link
of the rate is free for three intervals: the first sample, an overuse, and a keyframe or a repair
that meets a full buffer (`Buffer` is small enough to overflow). Deadlock
checking is off where the bounds end all behaviour (connections are used once,
frames run out) or a part may simply idle.

Violations, each against a sentence of the repository:

| run | what happens |
|---|---|
| `video_link_endless` | With the buffer full, the arrival of a repaired keyframe gives up on that very frame, drains past it, and inserts it all the same. It is held although settled, `drain` "jumps" to it without getting any further, and the call never returns. |
| `admission_stale_click` | A viewer gives up while its request is on the screen; another viewer's request takes its place before the window is drawn again, and gets the click meant for the first. |

### Statements that do not hold

The modules also state, in the words of a comment or a document, what the code does
not keep. No run above checks them; checking one under
the specification of its module's run shows the behaviour (`LostAreOffline`,
which is temporal, under `Rendezvous!FairSpec`).

| definition | what happens instead |
|---|---|
| `VideoLink!NeverStuck` | The first frame on an idle desktop is lost as a whole: nothing tells the viewer, and the agent has nothing new to send. |
| `Updates!NeverDuringSession` | A viewer is admitted after the second look, while the package is written; the installer ends its session. |
| `GrantOnce` across `Updates`' restart | An agent restarted within a grant's validity has forgotten its nonce and takes the grant again. |
| `Rendezvous!LostAreOffline` | An agent lost between its claim and the server's answer stays in the registry: `register` returns the error past `remove`. |
| `SignIn!CodeWorksOnce` | Two sign-ins with one code both read the last step before either writes it. |
| `Users!LastAdminStays` | Two administrators demote each other; each counted the other. |
| `Releases!NeverDeletedOffered` | A release is offered between the look of its deletion and the deletion. |
| `DataFolder!DoctorChangesNothing` | `doctor` makes the HTTPS certificate and its key where they are missing (`doctor.rs:9-10`). |
| `KnownKeys!EveryTimeAfter` | Two viewers save at once and one of two new keys is lost. |
| `Decoder!SurfaceStillLent` | A batch whose last frame gives no picture shows the one before it, whose surface went back to the decoder. |
| `Decoder!PairedInOrder` | After a frame that never comes out, pictures are shown with the time of an earlier one; never of a later one. |
| `ClockOffset!HalfTheRoundTrip` | An odd round trip puts the offset off by one microsecond more. |
| `Presenter!NeverOverwritten`, `HeldBackShown` | A slot drawn a second time may be written meanwhile; a picture held back for a larger ring may be dropped. |
| `Service!OneAgentAlways` | An agent that does not stop in three seconds is terminated and not waited for, or outlives its service: the next starts beside it. |
| `Installation!WholeOrNotAtAll` | Two writers share `agent.partial`; one renames what the other has just emptied. |
| `Registration!Promptly` | Only a stream the server ended starts the wait over; a connection that is lost is an error, and the wait goes on from where earlier failures left it. |
| `ViewerSession!LostComesBack` | A viewer coming back is told BUSY by its own session, not yet known to be dead, and takes the first such answer for final. |
| `WebViewer!ForAWhile` | A page that lost its session again while coming back stops. |
| `Clipboard!KeptInStep` | Two copies that cross leave each side with the other's text. |
| `Screen!BlockedIsTemporary` | A stream started while the secure desktop is in front fails instead of waiting. |

Smaller things seen on the way: `push` may hold one frame
more than `MAX_PENDING`, since giving up on a frame of which nothing arrived
frees no room (`video.rs:230`); a password exchange begun before the person
renews the password still lets its viewer in with the old one (`session.rs:603`);
the window gives up after 10 s (`viewer/src/main.rs:408`) while the person at the
device has 30 s to allow it (`agent/src/host.rs:17`); nothing limits how long a viewer may
hold the slot before it is admitted (`session.rs:522`); the repair timer is set anew
after every event, at least a millisecond away (`viewer/src/direct.rs:546`).

### Fairness

* `Reassembler`: a call that has begun runs on; the caller pops what is ready,
  and calls `expire` once a deadline passes. `Tick` is strongly fair because
  calls interrupt it, while real time passes during them too. Chunks stop
  arriving at `LastArrival`; nothing forces them to arrive at all.
* `VideoLink`: threads and tasks run; the select's branches and the throttle on
  keyframe requests are strongly fair, since tokio's `select!` picks a ready
  branch at random and intervals end. Losses and changes of the desktop are not
  forced and are bounded: the claim is about the time after the last loss.
* `Admission`: the request's timeout passes, and tasks that can run do. Viewers
  are not forced to send anything.
* `agent`: threads, tasks and timers go on; a registration that the server could take
  again and again, and an agent process that could be started again and again, do succeed in the
  end (strong fairness), once the bounded faults are spent. The viewer, the server, Windows'
  session changes, crashes and the administrator are never forced. The rate's
  claims are about a link that no longer changes.
* `viewer`: threads, both GPU queues, timers and connections that were closed go on; a viewer
  without a picture keeps asking (strong fairness: the code repeats its request at
  intervals). Desktop changes, losses and people are not forced.
* `server`, `wire`, `rendezvous`: only safety is checked; no fairness. `Rendezvous!FairSpec`
  (a task that can go on does, a read on a lost connection returns) is for
  `LostAreOffline`.

## Proofs

TLAPS checks what follows for every value of the constants that satisfies their
assumptions: any number of connections, requests, packages, frames, keys and
processes, any limit. Each safety theorem goes the same way: an invariant `...Inv`
that holds at first, is kept by every step and implies the property; TLC checked the ones
that are not evident before they were proved.

**`ReassemblerProofs`.** `TypeCorrect`; `ChainAlwaysIntact`: while no keyframe is
awaited, the frame handed over last is the one settled last, or `drain` has just
jumped and a complete keyframe comes next. The abstract condition alone (the last
frame is older) is not preserved by the jump, which settles an id nobody was
handed. From it `ImplementsDecoderStream`: each step is a delivery, a skip or a
stutter of the abstract stream. `GapsAlwaysGaps`: remembered gaps are ahead, not held
and within `MAX_GAP_NACKS` of the expected frame, hence the eviction in `nacks` is
dead code; its strengthening says that a frame about to be inserted is no
remembered gap. `DeadlineInTime`: no time remembered is later than the clock (`TimesPast`), so the earliest
deadline is a minimum over times that are there, and `expire` acts on nothing before it.

**`RendezvousProofs`.** `TypeCorrect`; `LatestAlwaysRegistered` (only connections whose
key gives an ID claim it); `ServedAlwaysRemoved`; `ManagedAlwaysOutranks` (the flag of
an entry, and what a task read from the database, are never more than the database
held at some time); `RelayedOnlyOnceReady`: what an agent answers is for the
session it was told of, so a late answer never opens another.

**`AdmissionProofs`**, for `Admission` and for `Updates`. One connection at most is
between `hello` and `closing`, the one that holds the slot (`OneHolder`). Hence a password
exchange under way is against the password in force or one renewed since
(`Exchanging`), and each password's wrong proofs are the failures counted
against it (`GuessesCounted`): `GuessesAlwaysBounded`, `LockoutAlwaysHolds`. The
grant a connection goes in by was taken by it (`Vouched`): `AlwaysAdmittedAsRequired`. A nonce
taken is remembered until the last moment its grant could be taken
(`NoncesKept`, which rests on nonces being drawn once): `GrantAlwaysOnce`. `HostAlwaysTrue` ties
the window's request and session to the phases. `OldSessionsAlwaysSurvive` is the updater's. `SafeAcrossRestarts` says
that a restart keeps all of this but `GrantOnce`: the nonces seen are in memory, so
the theorem about grants is about one run of the agent.

**`ServerProofs`**, for the composed server and for each of its parts.
`ReleasesAlwaysSafe` and `AgentsNeverOlder` (a request about to delete what is on
offer looked before it was; what an agent fetches is newer than what it runs).
`TunnelAlwaysSafe`, `TunnelStepsSafe` (what a session let through is part of what it
was asked to carry). `WindowAlwaysHolds`, `AttemptStepsSafe`: the table holds the last of
the times an address was let through, and any `ATTEMPTS` + 1 of them in a row take as
long as the window; counting a stretch follows by an injection into `ATTEMPTS` places. `FleetAlwaysSafe`,
`NewRowsGiveNothing`: every reference is to a row that is there, hence an id
given again is referred to by nothing. `UsersAlwaysSafe`: what a request read is
true until a row changes under it, and then its race is on record. `SignInAlwaysSafe`:
every sign-in past `may_try` is counted before it can go wrong, so wrong tries
exceed the limit by less than the sign-ins under way. `SweepAlwaysHarmless`.
Then `AccountsAlwaysSafe` (`SignInSafe`, `UsersSafe`, `FleetSafe`, `ReleasesSafe`), `RelayAlwaysSafe`,
`KeysAlwaysSafe` and `ServerStepsSafe` for `ServerSpec` itself: a step of the server is a
step of each part or leaves it alone.

**`KeysProofs`.** `CertificateAlwaysGood`, `PagesTurnedAwayByRenewal`; `PinsAlwaysHold`,
`KeysAlwaysKept` (a process that is to rename holds in its memory all that the file
held when it read it, or a save came in between and is on record);
`FolderAlwaysSafe` (who made each file, which processes are between emptying and filling one).

**`AgentProofs`.** For each part of the agent, and then `AgentSessionSafe`,
`AgentHostSafe` and `AgentStepsRight` for `AgentSpec`:

* `OneAgentWorks`: a process at work is of the service now running, and then the one it tends, or
  of one that failed, and each service has at most one; so the processes at work map one to one
  into the services there have been.
* `OneWayAlways`: the current dial's endpoint is open from the connection until the loop
  hears of its end, and no other is.
* `OnePipelineAlways`, `FrameIdsRunOn`: threads and senders at work are those of the last stream
  started; the number of the next frame is with its sender until that is joined, else with the session.
* `RateUnderCeiling`: for every capacity and demand, by cases of `update`; the backlog by the look before
  each frame: it is over its limit by one frame at most, and by what was resent since it last was
  within it (`resent`), for frames, repairs and buffers of any length.
* `InstallationAlwaysSafe`, `TokenAlwaysWaits`: without an overlap, who is about to rename finds what it
  wrote and who has read the file finds it as it was; a token that may still be presented was
  counted no more often than there were outages and crashes.
* `LogLosesNothing`: the two files, one after the other, are the end of what was written.
* `KeysAlwaysLetGo`: the events on their way are a *line*. With the keys in a thread's `Held` down and the
  line applied, every text meets all keys up and in the end only what the window keeps is down
  (`PlainTexts`, `LeavesOnly`). Lines join where one leaves what the next starts from, survive coalescing
  (only moves are left out, never the last), lose their head to `Inject`, and keep the first half when
  cut. A session to come starts with nothing down, so the same line is right for it: this is what makes
  the claim hold across reconnections. Characters of keys without a position are on the line and no condition
  on it. The pointer comes to the very pixel by arithmetic (`PixelKept`: rounding to 65536 steps and back is
  the identity up to 32768 pixels; `CentreKept`: so is aiming at a pixel's centre, wherever the monitor lies on a
  desktop of as many).

**`ViewerProofs`.** For each part of the viewer, and then `ViewerSeesTrue`, `ViewerScreenSafe` and
`ViewerStepsRight` for `ViewerSpec` (a step of the viewer is a step of each part or leaves it
alone, `PartsStep`):

* `LinkShownTrue`, `DecisionsAreFinal`: between two attempts no connection is left to be judged (`VsBetween`).
* `IntroducedWell`, `NeverSelfBusy`: while the race goes on every way is still tried or ran out of
  time by itself (`IntroTrying`), and the agent's slot is a path's only while the connection chosen
  is served on it (`IntroSlot`).
* `ClipboardsInStep`, `NothingEchoed`: what the program put on a clipboard is what it remembers (`ClipOwn`); a
  copy that nothing crosses is at each step not noticed yet, last in the queue, being set, or there
  (`ClipClean`). The proof attempt showed the earlier statement of `NoEcho` false after two slips.
* `PageKeepsFaith`: a grant has been presented at most once, and not at all before the session it is for asks
  for it (`WebGrant`); the control messages of the two ends take turns (`WebTalk`); the input messages on their
  way, applied to what the device has, give what the page holds, for a queue of any length (`WebInput`).
* `PicturesWhole`: a picture on its way to the screen is in its slot or is being written there, and no later
  write goes to that slot while it waits (`KeptAt`), wherever it waits: posted, newest in
  the window, or in the render queue (`Posted`, `Waiting`, `Drawing`). The values the two fences are given are in order (`Counted`),
  and the ring is replaced once at most (`Grown`).
* `ScreenKept`: which device each frame at hand is of (`PicInv`), and which texture each output the encoder owes
  still reads: outputs are numbered from the frame sent last, and each input the hardware holds is as
  old as there are others behind it (`QueueInv`, `RoomInv`), so none is older than the ring is long. This
  is where `Depth < Nv12Ring` is needed, which the code does not enforce: it is an assumption on
  the hardware encoders it uses.

**`WireProofs`.** `WireAlwaysSafe`, for `WireSpec`, from a theorem for each part:

* `NetworkSafe`: a port is a host's once and for all (`PortsOwned`), so whatever comes in through a mapping reaches
  the owner of the address it was sent to, and a mapping that was used remembers where (`Opened`).
* `PasswordAlwaysProved`: every message and proof about is the one its end made (`SentByEnds`,
  `ProvedByEnds`), so a proof over an end's own transcript and binding can only be from the end it met.
* `OffsetTrusted`: an exchange answered since the clocks last drifted is off by at most half its round trip
  (`OnTheLine`, `FreshGood`), wherever its ping and pong waited.
* `TimesNeverNewer`: the queue of times is in order and has at each frame's place one that is no later
  (`Paired`), as long as it was not trimmed past a frame still inside.

Assumptions, each named where its constants are declared and evaluated by TLC in the
runs: limits, bounds and durations are naturals (positive where the code's constants
are, and a first wait not longer than the longest); `None` is none of the things it stands in for;
a server's grants have different nonces (16 random bytes); a log event is not longer than the
log's limit; the monitor is at most 32768 pixels wide; `ReconnectFirst <= LookupFirst` as in the code; a hardware encoder
takes fewer inputs ahead than the ring has textures (`NV12_RING` is 3); the clipboard has two sides; no address is one of the words paths are told by;
hosts, NATs and the server have different names, and a NAT is of one of the four kinds; an end of an exchange is at one side;
the decoder holds back fewer frames than its queue of times has places;
a certificate lives longer than two intervals between renewals; `Procs` and `Packages` are finite or not empty where a
counterpart in the code is. Connections, keys, addresses, users and agents are arbitrary sets.

Only model-checked:

* liveness (`CallsReturn`, `HeldFramesSettle`, `OnlySilenceLeavesNoPicture`, `AskEnds`, `AgentLives`,
  `ViewerLives`): the prover has no fairness;
* `PendingAfterSettled`, which is not invariant in general (the run `video_link_endless` is its
  violation) and holds in `reassembler_timed` only because the buffer there cannot overflow;
* `SkippingAsksForKeyframe`: with ids gone round once, the next frame delivered may have the
  number of the one handed over last, and the action formula takes that for a skip, so it is
  only true of runs shorter than the id space;
* `DecodedAgainstReference`, which relates five queues and the contents of a `Reassembler`;
* `ReadersSafe`: what the browser's reader makes of its buffer, and how units are cut out of a
  stream, are folds, for which there is no induction here; what the desktop's reader takes,
  which is no fold, is checked with it and not proved apart.

## Not modelled

* The console (`server/console/`, `server/web/` apart from `view.js`'s session), the API's listings
  and routing, metrics, health and configuration: they read and show, and
  what they change they change through the handlers that are modelled.
* Command lines, tables, help texts, the doctors' reports, logging.
* TLS and QUIC configuration, field encodings, hashing and signatures: libraries,
  which appear as what they establish. Signing a release and the tool that does
  it are outside.
* Pixels, colours, pointer shapes, the overlay and the window's layout:
  no property is about them.
* Registering the Windows service, elevation and the installers' file layout:
  calls into Windows with no state of this program's between them.
* Examples, probes, the link emulator and the test kit; the JavaScript bindings of
  the web viewer.
* Real durations. Timers are ticks whose order is kept; whether ten seconds of one
  program are enough for thirty of another is noted above, not checked.

## Plan

`DecodedAgainstReference` of `VideoLink` needs an invariant that follows
each frame through the queue, the sender, the network and the `Reassembler`. In the model,
the console's own scripts and the probes are left.
