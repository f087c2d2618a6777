------------------------------ MODULE Session ------------------------------
(***************************************************************************)
(* An agent's session once the viewer is admitted: the control loop of     *)
(* agent/src/session.rs, and the pipeline thread (pipeline.rs) and sender  *)
(* it starts and stops for each video stream.                              *)
(*                                                                         *)
(* Tasks, threads and channels are what the code has: the pipeline blocks  *)
(* when the frame queue is full, ends when its queue's reader or every     *)
(* sender of its commands is gone, and is joined.  VideoLink has what the  *)
(* frames are; here they only take up room.                                *)
(***************************************************************************)
EXTENDS Naturals, Sequences, FiniteSets

CONSTANTS
    StreamBound,  \* bound: video streams started in a session
    QueueRoom,    \* FRAME_QUEUE
    FrameBound,   \* bound: frames sent in a session
    MailBound,    \* control messages read and not yet handled
    RestartFirst, \* RESTART_FIRST
    RestartMax    \* RESTART_MAX

ASSUME SessionAssumption ==
    /\ StreamBound \in Nat /\ QueueRoom \in Nat /\ FrameBound \in Nat /\ MailBound \in Nat
    /\ RestartFirst \in Nat /\ RestartMax \in Nat /\ RestartFirst <= RestartMax

VARIABLES
    link,      \* the connection: open, closed by the viewer, or lost
    mail,      \* control messages read; "end" is the last
    at,        \* where the session's loop is
    after,     \* what it does once video is stopped
    video,     \* the stream running, or 0
    restart,   \* whether a restart is due
    wait,      \* restart_wait
    started,   \* streams started so far
    nextFrame, \* next_frame_id
    thread,    \* each stream's pipeline thread
    queued,    \* frames between it and its sender
    sender,    \* each stream's sender
    ids,       \* the id its sender gives next
    commands,  \* whether the session holds its command sender
    frames     \* history: frames sent in all

videoVars == <<thread, queued, sender, ids, commands, started, frames>>
sessVars == <<link, mail, at, after, video, restart, wait, nextFrame, videoVars>>

Streams == 1..StreamBound
NoVideo == 0

---------------------------------------------------------------------------
(* The pipeline thread of stream n (run). *)

(* Every sender of commands is gone: the session's and the rate control's. *)
Dismissed(n) == ~commands[n] /\ sender[n] \in {"none", "done"}

Thread(n, from, to) == thread[n] = from /\ thread' = [thread EXCEPT ![n] = to]

(* The top of the loop: no sender of commands is left. *)
ThreadDismissed(n) ==
    /\ Dismissed(n) /\ Thread(n, "run", "gone")
    /\ UNCHANGED <<queued, sender, ids, commands, started, frames>>

(* A frame is captured and encoded: blocking_send waits for room, and fails *)
(* once the receiver is gone.                                               *)
ThreadEncodes(n) ==
    /\ ~Dismissed(n) /\ Thread(n, "run", "push")
    /\ UNCHANGED <<queued, sender, ids, commands, started, frames>>
ThreadPushes(n) ==
    /\ sender[n] \in {"run", "stop"} /\ queued[n] < QueueRoom /\ Thread(n, "push", "run")
    /\ queued' = [queued EXCEPT ![n] = @ + 1]
    /\ UNCHANGED <<sender, ids, commands, started, frames>>
ThreadUnread(n) ==
    /\ sender[n] = "done" /\ Thread(n, "push", "gone")
    /\ UNCHANGED <<queued, sender, ids, commands, started, frames>>

(* Capture or encoding failed. *)
ThreadFails(n) ==
    /\ Thread(n, "run", "gone")
    /\ UNCHANGED <<queued, sender, ids, commands, started, frames>>

ThreadStep(n) == ThreadDismissed(n) \/ ThreadEncodes(n) \/ ThreadPushes(n) \/ ThreadUnread(n)

---------------------------------------------------------------------------
(* The sender (send_video): one branch of its select. *)

SenderTakes(n) ==
    /\ sender[n] \in {"run", "stop"} /\ queued[n] > 0 /\ frames < FrameBound
    /\ queued' = [queued EXCEPT ![n] = @ - 1]
    /\ ids' = [ids EXCEPT ![n] = @ + 1]
    /\ frames' = frames + 1
    /\ UNCHANGED <<thread, sender, commands, started>>

(* Told to stop, the connection closed, or the pipeline gone and its queue  *)
(* empty.                                                                   *)
SenderEnds(n) ==
    /\ \/ sender[n] = "stop"
       \/ sender[n] = "run" /\ link # "open"
       \/ sender[n] = "run" /\ thread[n] = "gone" /\ queued[n] = 0
    /\ sender' = [sender EXCEPT ![n] = "done"]
    /\ UNCHANGED <<thread, queued, ids, commands, started, frames>>

---------------------------------------------------------------------------
(* The session's loop (serve). *)

Loop(from, to) == at = from /\ at' = to

(* A mutant: the pipeline first. *)
StopVideo_JoinFirst(next) ==
    /\ commands' = [commands EXCEPT ![video] = FALSE]
    /\ at' = "join" /\ after' = next
    /\ UNCHANGED <<thread, queued, sender, ids, started, frames>>

(* Video::stop: the sender first.  Joining the pipeline first would wait    *)
(* for a thread that waits for room in a queue nobody empties.              *)
StopVideo(next) ==
    /\ sender' = [sender EXCEPT ![video] = IF @ = "run" THEN "stop" ELSE @]
    /\ at' = "sender" /\ after' = next
    /\ UNCHANGED <<thread, queued, ids, commands, started, frames>>

SenderAwaited ==
    /\ Loop("sender", "join") /\ sender[video] = "done"
    /\ nextFrame' = ids[video]
    /\ commands' = [commands EXCEPT ![video] = FALSE]
    /\ UNCHANGED <<link, mail, after, video, restart, wait, thread, queued, sender, ids, started,
                   frames>>

(* A mutant: stop does not wait for the thread. *)
Joined_Unjoined ==
    /\ at = "join"
    /\ video' = NoVideo
    /\ at' = IF after = "restart" THEN "select" ELSE after
    /\ UNCHANGED <<restart, wait, link, mail, after, nextFrame, videoVars>>

(* Pipeline::stop: the thread is joined; the stream's queue and statistics *)
(* are gone with it.  One that stopped by itself is due again.             *)
Joined ==
    /\ at = "join" /\ thread[video] = "gone"
    /\ video' = NoVideo
    /\ queued' = [queued EXCEPT ![video] = 0] /\ ids' = [ids EXCEPT ![video] = 0]
    /\ IF after = "restart" /\ link = "open"
       THEN \E healthy \in BOOLEAN :
              LET first == IF healthy THEN RestartFirst ELSE wait IN
              /\ restart' = TRUE
              /\ wait' = IF 2 * first < RestartMax THEN 2 * first ELSE RestartMax
       ELSE UNCHANGED <<restart, wait>>
    /\ at' = IF after = "restart" THEN "select" ELSE after
    /\ after' = "over"
    /\ UNCHANGED <<link, mail, nextFrame, thread, sender, commands, started, frames>>

(* A mutant: the numbering starts over. *)
SenderDone_FromZero ==
    /\ Loop("select", "join") /\ video # NoVideo /\ sender[video] = "done"
    /\ after' = "restart"
    /\ commands' = [commands EXCEPT ![video] = FALSE]
    /\ UNCHANGED <<nextFrame, link, mail, video, restart, wait, thread, queued, sender, ids, started,
                   frames>>

(* sender_done: the video stopped by itself. *)
SenderDone ==
    /\ Loop("select", "join") /\ video # NoVideo /\ sender[video] = "done"
    /\ after' = "restart"
    /\ nextFrame' = ids[video]
    /\ commands' = [commands EXCEPT ![video] = FALSE]
    /\ UNCHANGED <<link, mail, video, restart, wait, thread, queued, sender, ids, started,
                   frames>>

(* due: the restart's time has come. *)
RestartDue ==
    /\ Loop("select", "again") /\ restart /\ started < StreamBound
    /\ restart' = FALSE
    /\ UNCHANGED <<link, mail, after, video, wait, nextFrame, videoVars>>

(* start_video: Pipeline::start resolves once the first frame came or the   *)
(* setup failed; the sender carries on with next_frame_id.                  *)
Starts ==
    /\ at \in {"start", "again"} /\ started < StreamBound
    /\ started' = started + 1
    /\ video' = started + 1
    /\ thread' = [thread EXCEPT ![started + 1] = "run"]
    /\ sender' = [sender EXCEPT ![started + 1] = "run"]
    /\ commands' = [commands EXCEPT ![started + 1] = TRUE]
    /\ ids' = [ids EXCEPT ![started + 1] = nextFrame]
    /\ at' = "select"
    /\ UNCHANGED <<link, mail, after, restart, wait, nextFrame, queued, frames>>

(* A mutant: a restart that fails is not tried again. *)
StartFails_GivesUp ==
    /\ at \in {"start", "again"} /\ started < StreamBound
    /\ started' = started + 1
    /\ thread' = [thread EXCEPT ![started + 1] = "gone"]
    /\ at' = IF at = "again" THEN "select" ELSE "over"
    /\ link' = IF at = "again" THEN link ELSE "closed"
    /\ UNCHANGED <<restart, wait, mail, after, video, nextFrame, queued, sender, ids, commands,
                   frames>>

(* A restart that fails is due again, later; a start the viewer asked for   *)
(* closes the connection.                                                   *)
StartFails ==
    /\ at \in {"start", "again"} /\ started < StreamBound
    /\ started' = started + 1
    /\ thread' = [thread EXCEPT ![started + 1] = "gone"]
    /\ IF at = "again"
       THEN /\ restart' = TRUE /\ at' = "select"
            /\ wait' = IF 2 * wait < RestartMax THEN 2 * wait ELSE RestartMax
            /\ UNCHANGED link
       ELSE /\ link' = "closed" /\ at' = "over"
            /\ UNCHANGED <<restart, wait>>
    /\ UNCHANGED <<mail, after, video, nextFrame, queued, sender, ids, commands, frames>>

(* The next message.  StartVideo stops what runs, drops a restart that is   *)
(* due and then checks what it was asked for; a message that has no         *)
(* business here, Bye and the end of the stream end the session.            *)
Stopped(next) ==
    IF video = NoVideo
    THEN at' = next /\ UNCHANGED <<after, videoVars>>
    ELSE StopVideo(next)

(* A mutant: the restart that was due stays. *)
HandleStart_RestartStays ==
    /\ at = "select" /\ mail # <<>> /\ Head(mail) = "StartVideo"
    /\ mail' = Tail(mail)
    /\ \E good \in {FALSE, started < StreamBound} : Stopped(IF good THEN "start" ELSE "over")
    /\ UNCHANGED <<restart, wait, link, video, nextFrame>>

HandleStart ==
    /\ at = "select" /\ mail # <<>> /\ Head(mail) = "StartVideo"
    /\ mail' = Tail(mail)
    /\ restart' = FALSE /\ wait' = RestartFirst
    /\ \E good \in {FALSE, started < StreamBound} : Stopped(IF good THEN "start" ELSE "over")
    /\ UNCHANGED <<link, video, nextFrame>>
HandleEnd ==
    /\ at = "select" /\ mail # <<>> /\ Head(mail) = "end"
    /\ Stopped("over")
    /\ mail' = Tail(mail)
    /\ UNCHANGED <<link, video, restart, wait, nextFrame>>

(* The end of serve: the tasks are aborted, its handles dropped, the        *)
(* connection closed.                                                       *)
Over ==
    /\ Loop("over", "gone")
    /\ link' = IF link = "open" THEN "closed" ELSE link
    /\ UNCHANGED <<mail, after, video, restart, wait, nextFrame, videoVars>>
SessionStep == SenderAwaited \/ Joined \/ Starts \/ StartFails \/ HandleStart \/ HandleEnd \/ Over

---------------------------------------------------------------------------
(* The viewer, the network and read_control. *)

ViewerAsks ==
    /\ link = "open" /\ Len(mail) < MailBound /\ at # "gone"
    /\ "end" \notin {mail[i] : i \in DOMAIN mail}
    /\ \E message \in {"StartVideo", "end"} : mail' = Append(mail, message)
    /\ UNCHANGED <<link, at, after, video, restart, wait, nextFrame, videoVars>>

LinkGoes ==
    /\ link = "open"
    /\ \E how \in {"closed", "lost"} : link' = how
    /\ UNCHANGED <<mail, at, after, video, restart, wait, nextFrame, videoVars>>

ReadEnd ==
    /\ link # "open" /\ at # "gone"
    /\ "end" \notin {mail[i] : i \in DOMAIN mail}
    /\ mail' = Append(mail, "end")
    /\ UNCHANGED <<link, at, after, video, restart, wait, nextFrame, videoVars>>

---------------------------------------------------------------------------
SessInit ==
    /\ link = "open" /\ mail = <<>> /\ at = "select" /\ after = "over"
    /\ video = NoVideo /\ restart = FALSE /\ wait = RestartFirst
    /\ started = 0 /\ nextFrame = 0 /\ frames = 0
    /\ thread = [n \in Streams |-> "none"] /\ queued = [n \in Streams |-> 0]
    /\ sender = [n \in Streams |-> "none"] /\ ids = [n \in Streams |-> 0]
    /\ commands = [n \in Streams |-> FALSE]

ofSession == <<link, mail, at, after, video, restart, wait, nextFrame>>

PipelineRuns ==
    \E n \in Streams : (ThreadStep(n) \/ SenderEnds(n)) /\ UNCHANGED ofSession

SessNext ==
    \/ PipelineRuns
    \/ \E n \in Streams : (ThreadFails(n) \/ SenderTakes(n)) /\ UNCHANGED ofSession
    \/ SessionStep \/ SenderDone \/ RestartDue
    \/ ViewerAsks \/ LinkGoes \/ ReadEnd

(* Threads and tasks that can go on do: the runtime and the system schedule *)
(* them.  Nothing is assumed of the viewer, the network or the desktop, and *)
(* nothing of a backlogged sender taking a frame.                           *)
SessFairness ==
    /\ \A n \in Streams : /\ WF_sessVars(ThreadStep(n) /\ UNCHANGED ofSession)
                          /\ WF_sessVars(SenderEnds(n) /\ UNCHANGED ofSession)
    /\ WF_sessVars(SessionStep \/ SenderDone) /\ WF_sessVars(RestartDue)
    /\ WF_sessVars(ReadEnd)

SessSpec == SessInit /\ [][SessNext]_sessVars /\ SessFairness

---------------------------------------------------------------------------
(* Every variable keeps its type. *)
SessTypeOK ==
    /\ link \in {"open", "closed", "lost"} /\ video \in 0..StreamBound
    /\ at \in {"select", "sender", "join", "start", "again", "over", "gone"}
    /\ thread \in [Streams -> {"none", "run", "push", "gone"}]
    /\ sender \in [Streams -> {"none", "run", "stop", "done"}]
    /\ queued \in [Streams -> 0..QueueRoom] /\ wait \in RestartFirst..RestartMax

(* The capturer and the encoder are held by one pipeline at a time: a new  *)
(* one starts only after the thread of the last has ended, whether video   *)
(* was stopped, failed, or failed and was asked for again meanwhile.       *)
OnePipeline == Cardinality({n \in Streams : thread[n] \in {"run", "push"}}) <= 1

(* Frame ids run on across streams: no id is given twice, and none left    *)
(* out, whichever way a stream ended.                                      *)
IdsRunOn ==
    [][frames' = frames + 1 => \E n \in Streams : ids[n] = frames /\ ids'[n] = frames']_sessVars

(* A restart is due only while there is no video and none is being started *)
(* or stopped: the viewer's own choice replaces it.                        *)
RestartReplaced == restart => video = NoVideo /\ at \in {"select", "over", "gone"}

(* Once the connection is gone the session ends, and every thread of it:   *)
(* no one waits for a pipeline that waits for room in a queue no one       *)
(* empties.                                                                *)
SessionEndDue == link # "open"
SessionEndDone == at = "gone" /\ \A n \in Streams : thread[n] # "run" /\ thread[n] # "push"
SessionEnds == SessionEndDue ~> SessionEndDone

(* Video that stopped by itself comes back while the viewer stays.         *)
VideoDue == restart /\ link = "open"
VideoDone == video # NoVideo \/ link # "open" \/ at = "over" \/ started = StreamBound
VideoReturns == VideoDue ~> VideoDone
====
