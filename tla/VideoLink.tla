------------------------------ MODULE VideoLink -----------------------------
(***************************************************************************)
(* The video stream end to end: the agent's pipeline and sender             *)
(* (crates/agent/src/pipeline.rs, session.rs), datagrams that are lost and  *)
(* reordered, the viewer's select loop (crates/viewer/src/direct.rs) around *)
(* its Reassembler, and the reliable control stream back to the agent.      *)
(***************************************************************************)
EXTENDS Reassembler

CONSTANTS FirstId,       \* id of the session's first frame
          MaxFrames,     \* bound on the frames the agent sends
          MaxChanges,    \* bound on the changes of the desktop
          MaxRestarts,   \* bound on the starts of a new stream
          MaxLosses,     \* bound on the datagrams lost
          FrameQueue,    \* FRAME_QUEUE
          SentFrames,    \* SENT_FRAMES
          MaxCtrl        \* bound on control messages in flight

ASSUME LinkAssumption ==
    /\ FirstId \in InputIds
    /\ {MaxFrames, MaxChanges, MaxRestarts, MaxLosses} \subseteq Nat
    /\ {FrameQueue, SentFrames, MaxCtrl} \subseteq Nat \ {0}

VARIABLES
    pipe,      \* pipeline: pending frame, last frame kept, keyframe requested;
               \* how many frames were ever encoded tells them apart
    command,   \* a keyframe command is on its way to the pipeline
    queue,     \* encoded frames between pipeline and sender
    nextId,    \* next_frame_id, which carries on across streams
    sent,      \* the datagrams of the frames sent last, oldest first
    net,       \* datagrams in flight
    ctrl,      \* control messages in flight to the agent
    view,      \* where the viewer's loop is
    needed,    \* keyframe_needed
    used,      \* how much of each bound is used up
    content    \* history: which encoded frame went out under an id

link == <<pipe, command, queue, nextId, sent, net, ctrl, view, needed, used, content>>
allVars == <<vars, link>>

\* Control messages; the Nacks of one call of ask_for_repairs travel together.
RequestKeyframe == [type |-> "RequestKeyframe"]
Nack(missing) == [type |-> "Nack", missing |-> missing]

FreshPipe(n) == [pending |-> TRUE, last |-> FALSE, key |-> TRUE, encoded |-> n]

LinkInit == /\ Init
            /\ pipe = FreshPipe(0) /\ command = FALSE /\ queue = <<>>
            /\ nextId = FirstId /\ sent = <<>>
            /\ net = {} /\ ctrl = <<>>
            /\ view = "select" /\ needed = FALSE
            /\ used = [frames |-> 0, changes |-> 0, restarts |-> 0, losses |-> 0]
            /\ content = [id \in InputIds |-> 0]

Spend(what, most) == /\ used[what] < most
                     /\ used' = [used EXCEPT ![what] = @ + 1]

-----------------------------------------------------------------------------
(* The agent *)

\* The capturer has a new picture. Changes in between accumulate.
Capture == /\ ~pipe.pending
           /\ pipe' = [pipe EXCEPT !.pending = TRUE]
           /\ Spend("changes", MaxChanges)
           /\ UNCHANGED <<vars, command, queue, nextId, sent, net, ctrl, view, needed, content>>

\* Mutant of the pipeline: an idle desktop is not encoded again.
KeyframeCommand_IdleIgnored ==
    /\ command
    /\ command' = FALSE
    /\ pipe' = [pipe EXCEPT !.key = TRUE]
    /\ UNCHANGED <<vars, queue, nextId, sent, net, ctrl, view, needed, used,
                   content>>

\* Command::Keyframe. On an idle desktop the last frame is encoded once more.
KeyframeCommand ==
    /\ command
    /\ command' = FALSE
    /\ pipe' = [pipe EXCEPT !.pending = @ \/ pipe.last,
                           !.last = @ /\ pipe.pending, !.key = TRUE]
    /\ UNCHANGED <<vars, queue, nextId, sent, net, ctrl, view, needed, used,
                   content>>

\* Commands come before encoding; blocking_send waits for room in the queue.
Encode ==
    /\ pipe.pending /\ ~command /\ Len(queue) < FrameQueue
    /\ queue' = Append(queue, [key |-> pipe.key, number |-> pipe.encoded + 1])
    /\ pipe' = [pending |-> FALSE, last |-> TRUE, key |-> FALSE,
                encoded |-> pipe.encoded + 1]
    /\ UNCHANGED <<vars, command, nextId, sent, net, ctrl, view, needed, used,
                   content>>

ChunksOf(f) == {[id |-> f.id, key |-> f.key, chunks |-> f.chunks, chunk |-> i] :
                   i \in 0 .. (f.chunks - 1)}

\* Sent::insert: only the newest frames are kept for repairs.
Remembered(f) ==
    LET all == Append(sent, f)
    IN  IF Len(all) > SentFrames THEN Tail(all) ELSE all

\* The frame at the head of the queue goes out in n datagrams.
Transmit(n) ==
    LET f == [id |-> nextId, key |-> Head(queue).key, chunks |-> n] IN
    /\ net' = net \cup ChunksOf(f)
    /\ sent' = Remembered(f)
    /\ content' = [content EXCEPT ![nextId] = Head(queue).number]

\* Mutant of send_video: a skipped frame leaves its id to the next one.
SendFrame_SkipKeepsId ==
    /\ queue # <<>>
    /\ Spend("frames", MaxFrames)
    /\ queue' = Tail(queue)
    /\ \/ nextId' = Succ(nextId) /\ \E n \in 1 .. MaxChunks : Transmit(n)
       \/ UNCHANGED <<nextId, net, sent, content>>
    /\ UNCHANGED <<vars, pipe, command, ctrl, view, needed>>

\* send_video: every encoded frame consumes an id, also one that could not be
\* packetized and is skipped.
SendFrame ==
    /\ queue # <<>>
    /\ Spend("frames", MaxFrames)
    /\ queue' = Tail(queue)
    /\ nextId' = Succ(nextId)
    /\ \/ \E n \in 1 .. MaxChunks : Transmit(n)
       \/ UNCHANGED <<net, sent, content>>
    /\ UNCHANGED <<vars, pipe, command, ctrl, view, needed>>

\* StartVideo, or a restart after the pipeline ended: what is queued is dropped,
\* the new pipeline starts with a keyframe, ids carry on.
RestartVideo ==
    /\ Spend("restarts", MaxRestarts)
    /\ pipe' = FreshPipe(pipe.encoded) /\ queue' = <<>> /\ command' = FALSE
    /\ UNCHANGED <<vars, nextId, sent, net, ctrl, view, needed, content>>

\* Sent::chunks: the datagrams asked for, all of them if none is named, nothing
\* for a frame no longer kept.
Resend(m) ==
    UNION {{c \in ChunksOf(sent[i]) : m.chunks = {} \/ c.chunk \in m.chunks} :
              i \in {j \in 1 .. Len(sent) : sent[j].id = m.id}}

AgentReceives ==
    /\ ctrl # <<>>
    /\ ctrl' = Tail(ctrl)
    /\ \/ Head(ctrl) = RequestKeyframe /\ command' = TRUE /\ UNCHANGED net
       \/ /\ Head(ctrl) # RequestKeyframe
          /\ net' = net \cup UNION {Resend(m) : m \in Head(ctrl).missing}
          /\ UNCHANGED command
    /\ UNCHANGED <<vars, pipe, queue, nextId, sent, view, needed, used, content>>

Lose == /\ Spend("losses", MaxLosses)
        /\ \E c \in net : net' = net \ {c}
        /\ UNCHANGED <<vars, pipe, command, queue, nextId, sent, ctrl, view,
                       needed, content>>

-----------------------------------------------------------------------------
(* The viewer's loop: one branch of the select, then the keyframe request *)

agent == <<pipe, command, queue, nextId, sent, used, content>>

Room == Len(ctrl) < MaxCtrl
Turn(from, to) == view = from /\ pc = "idle" /\ view' = to

\* The datagram branch: push, then deliver, then ask for repairs.
Receive ==
    /\ Turn("select", "pushed")
    /\ \E c \in net :
          /\ net' = net \ {c}
          /\ \/ PushHeld(c) \/ PushNew(c) \/ PushOverflow(c)
             \/ ~Accepts(c) /\ UNCHANGED vars
    /\ UNCHANGED <<agent, ctrl, needed>>

\* The timer branch: ask for repairs, then expire, then deliver.
Timer == /\ Turn("select", "timer")
         /\ \E t \in Timings : NextDeadline(t) # {}
         /\ UNCHANGED <<vars, agent, net, ctrl, needed>>

\* The ticker branch, when it has a keyframe request left over.
Ticker == /\ Turn("select", "keyframe")
          /\ needed
          /\ UNCHANGED <<vars, agent, net, ctrl, needed>>

\* deliver: every ready frame goes to the decoder.
DeliverReady ==
    /\ view \in {"pushed", "expired"} /\ Pop
    /\ UNCHANGED link

\* ask_for_repairs
Ask(t) == \/ /\ Missing(t) = {}
             /\ UNCHANGED <<vars, ctrl>>
          \/ /\ Nacks(t) /\ Room
             /\ ctrl' = Append(ctrl, Nack(Missing(t)))

AskForRepairs ==
    /\ \/ Turn("pushed", "keyframe") /\ ready = <<>>
       \/ Turn("timer", "expire")
    /\ \E t \in Timings : Ask(t)
    /\ UNCHANGED <<agent, net, needed>>

StartExpire == /\ Turn("expire", "expired")
               /\ \E t \in Timings : Expire(t)
               /\ UNCHANGED <<agent, net, ctrl, needed>>

Delivered == /\ Turn("expired", "keyframe") /\ ready = <<>>
             /\ UNCHANGED <<vars, agent, net, ctrl, needed>>

\* Inside the reassembler.
Work == (Drain \/ ExpireLoop \/ PushInsert) /\ UNCHANGED link

\* After every branch: a keyframe request goes out at most once per interval
\* and is kept until then.
TakeRequest == \/ TakeKeyframeRequest
               \/ ~wanted /\ UNCHANGED vars

RequestNow == /\ Turn("keyframe", "select")
              /\ needed \/ wanted
              /\ Room
              /\ ctrl' = Append(ctrl, RequestKeyframe)
              /\ needed' = FALSE
              /\ TakeRequest
              /\ UNCHANGED <<agent, net>>

NotNow == /\ Turn("keyframe", "select")
          /\ needed' = (needed \/ wanted)
          /\ TakeRequest
          /\ UNCHANGED <<agent, net, ctrl>>

-----------------------------------------------------------------------------

Agent == KeyframeCommand \/ Encode \/ SendFrame \/ AgentReceives
Viewer == DeliverReady \/ AskForRepairs \/ StartExpire \/ Delivered \/ Work

LinkNext == \/ Agent \/ Viewer \/ Receive \/ Timer \/ Ticker
            \/ RequestNow \/ NotNow
            \/ Capture \/ RestartVideo \/ Lose

LinkSpec == LinkInit /\ [][LinkNext]_allVars

\* The desktop may stop changing and losses may stop; everything else runs on.
\* The select serves each of its branches that is ready again and again, and
\* the interval between keyframe requests ends.
LinkFairSpec ==
    /\ LinkSpec
    /\ WF_allVars(KeyframeCommand) /\ WF_allVars(Encode)
    /\ WF_allVars(SendFrame) /\ WF_allVars(AgentReceives)
    /\ WF_allVars(Viewer) /\ WF_allVars(NotNow)
    /\ SF_allVars(Receive) /\ SF_allVars(Timer) /\ SF_allVars(Ticker)
    /\ SF_allVars(RequestNow)

-----------------------------------------------------------------------------
(* Properties *)

\* With the agent numbering its frames, a viewer that is left without a picture
\* (`waiting_for_keyframe`) for ever got nothing of the newest frame: anything
\* that does arrive leads, by repair or by a requested keyframe, to a picture
\* again. (A run out of frames is the model's bound, not the code's.)
OnlySilenceLeavesNoPicture ==
    <>[](waiting => used.frames = MaxFrames \/ lastSettled # Pred(nextId))

\* The comment in `pipeline.rs` on re-encoding the last frame of an idle desktop:
\* the viewer does not "stay stuck" without a picture.
NeverStuck == <>[](waiting => used.frames = MaxFrames)

\* A P-frame is decoded right after the very frame it was encoded against:
\* `send_video` lets every encoded frame consume an id, skipped or not, and a new
\* stream carries the ids on and begins with a keyframe, so that consecutive ids
\* mean consecutive frames of the encoder.
DecodedAgainstReference ==
    [][handed' # handed /\ ~handed'.key
       => content[handed'.id] = content[handed.id] + 1]_allVars

=============================================================================
