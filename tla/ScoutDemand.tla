----------------------------- MODULE ScoutDemand -----------------------------
(***************************************************************************)
(* Capture on demand in omni-scout: what the command line and the machine  *)
(* make it serve (main.rs), one thread per request and an idle ticker      *)
(* (server.rs), and the sources they resume and pause.                     *)
(*                                                                         *)
(* A screen is the "portal" (a PipeWire stream, whose worker applies       *)
(* queued pause and resume commands), a "media" file decoded by an ffmpeg  *)
(* child, or a "stub" of one colour.  Sound comes from the "mic" (PipeWire *)
(* too, one capture fanned out to all listeners), from a "file" or from a  *)
(* "dir" of files (each listener hears a replay of its own).               *)
(*                                                                         *)
(* The two sources of a daemon share the mutex `demand' and the ticker     *)
(* only: the model follows one of them, `source', and its clients.  The    *)
(* mutex is held within a step, except by the ticker between its count of  *)
(* the subscribers and its pause.  Time passes in seconds.                 *)
(***************************************************************************)
EXTENDS Integers, Sequences, FiniteSets

CONSTANTS
    Viewers,        \* clients of GET /frame
    Listeners,      \* clients of GET /audio
    IdleTimeout,    \* IDLE_TIMEOUT, in seconds
    FrameWait,      \* FRAME_WAIT, in seconds
    Quantum,        \* audio_quantum, in ms
    ChunkMs,        \* the values of ?chunk_ms in use, 0 for none
    UsizeMod,       \* a usize counts modulo UsizeMod
    CmdBound        \* bound: commands a PipeWire worker is behind

ASSUME DemandAssumption ==
    /\ IdleTimeout \in Nat /\ FrameWait \in Nat /\ CmdBound \in Nat \ {0}
    /\ FrameWait <= IdleTimeout
    /\ Quantum \in Nat \ {0} /\ ChunkMs \subseteq Nat /\ UsizeMod \in Nat \ {0}
    /\ IsFiniteSet(Listeners)

VARIABLES
    source,     \* what is captured or replayed
    worker,     \* its worker: "serving" (PipeWire), "top", "spawned", "first" (no
                \* frame yet), "reading" (video_worker), "none", or "dead"
    ticker,     \* "asleep", "due", or "pausing": it holds the lock and saw no subscriber
    flag,       \* screen_active or audio_active
    on,         \* is the source running
    cmds,       \* commands its worker has still to apply
    idle,       \* last_request.elapsed()
    frame,      \* the cached frame: "none", "live", or "old": from before a pause
    waited,     \* viewer -> seconds it waits for a frame, or Away
    pc,         \* listener -> "away", "resumed", "marked", "subscribed"
    gone,       \* listeners that closed the connection, or read no more
    queued,     \* listeners with a chunk in their channel
    over,       \* listeners whose replay has ended
    every,      \* listener -> aggregate_to, in chunks of the source
    acc,        \* listener -> chunks held back in acc
    count,      \* active_count of MediaAudioSource
    raced       \* history: listeners of the mic that met a ticker pass while connecting

screenVars == <<idle, frame, waited>>
chunkVars == <<gone, queued, over, every, acc, count>>
audioVars == <<pc, chunkVars, raced>>
vars == <<source, worker, ticker, flag, on, cmds, screenVars, audioVars>>

Away == -1
Screens == {"portal", "media", "stub"}
Screen == source \in Screens

-----------------------------------------------------------------------------
(* Start-up (main.rs).                                                     *)

\* resolve: the command line, then scout.json, then the default.
Resolved(cli, conf, default) ==
    IF cli # "unset" THEN cli ELSE IF conf # "unset" THEN conf ELSE default

Switch == {"unset", "on", "off"}

\* Args::parse: a media file (mock), a directory of sounds (mock_audio), and
\* the switches of the real sources.
Args ==
    {[mock |-> Resolved(m, "unset", "off"), dir |-> Resolved(d, "unset", "off"),
      video |-> Resolved(v, cv, "on"), audio |-> Resolved(a, ca, "on")] :
        m, d \in {"unset", "on"}, v, cv, a, ca \in Switch}

\* build_mock: without a video the daemon exits, without sound it does not.
BuildMock == [screen : {"media"}, sound : {"file", "none"}]

\* build_mock_audio_dir: a directory without a sound file leaves no source.
BuildDir == [screen : {"stub"}, sound : {"dir", "none"}]

\* build_real: without a portal the daemon exits; without a microphone too if
\* it has no screen to serve.
BuildReal(a) ==
    [screen : IF a.video = "on" THEN {"portal"} ELSE {"stub"},
     sound : IF a.audio = "off" THEN {"none"}
             ELSE IF a.video = "on" THEN {"mic", "none"} ELSE {"mic"}]

\* main: the pairs of sources a daemon with these arguments may serve.
Built(a) ==
    IF a.mock = "on" THEN BuildMock ELSE IF a.dir = "on" THEN BuildDir ELSE BuildReal(a)

Sources ==
    LET pairs == UNION {Built(a) : a \in Args}
    IN  ({p.screen : p \in pairs} \cup {p.sound : p \in pairs}) \ {"none"}

\* spawn_pipewire: any step of the wiring may fail after new() has returned; the
\* worker records the error, which capture() returns, and is gone.
PortalWorker == {"serving", "dead"}

\* run_worker, the same for the microphone: nothing reads the error.
MicWorker == {"serving", "dead"}

Init ==
    /\ source \in Sources
    /\ worker \in CASE source = "portal" -> PortalWorker [] source = "mic" -> MicWorker
                    [] source = "media" -> {"top"} [] OTHER -> {"none"}
    /\ ticker = "asleep" /\ flag = TRUE /\ on = (worker # "dead") /\ cmds = <<>>
    /\ idle = 0 /\ frame = IF source = "stub" THEN "live" ELSE "none"
    /\ waited = [v \in Viewers |-> Away]
    /\ pc = [l \in Listeners |-> "away"]
    /\ gone = {} /\ queued = {} /\ over = {} /\ raced = {} /\ count = 0
    /\ every = [l \in Listeners |-> 1] /\ acc = [l \in Listeners |-> 0]

\* set_active: a command for a PipeWire worker, a flag for the media worker,
\* nothing for a replay or a stub.
SetActive(active) ==
    /\ on' = IF source = "media" THEN active ELSE on
    /\ cmds' = IF worker = "serving" THEN Append(cmds, active) ELSE cmds

ApplyCmd ==
    /\ cmds # <<>>
    /\ on' = Head(cmds) /\ cmds' = Tail(cmds)
    /\ UNCHANGED <<source, worker, ticker, flag, screenVars, audioVars>>

\* A second passes: the ticker's sleep is over.  Nothing that takes
\* milliseconds lasts across it: a pass of the ticker, a spawn, a queued
\* command, a wait past its deadline.
Second ==
    /\ ticker = "asleep" /\ cmds = <<>> /\ worker # "spawned"
    /\ \A v \in Viewers : waited[v] < FrameWait
    /\ ticker' = "due"
    /\ idle' = IF Screen /\ idle <= IdleTimeout THEN idle + 1 ELSE idle
    /\ waited' = [v \in Viewers |-> IF waited[v] = Away THEN Away ELSE waited[v] + 1]
    /\ frame' = IF frame = "live" /\ ~on THEN "old" ELSE frame
    /\ UNCHANGED <<source, worker, flag, on, cmds, audioVars>>

-----------------------------------------------------------------------------
(* The screen.                                                             *)

\* A pass of idle_ticker over the screen.
TickScreen ==
    /\ Screen /\ ticker = "due" /\ ticker' = "asleep"
    /\ IF flag /\ idle > IdleTimeout
       THEN SetActive(FALSE) /\ flag' = FALSE
       ELSE UNCHANGED <<flag, on, cmds>>
    /\ UNCHANGED <<source, worker, screenVars, audioVars>>

RequestKeepsFrame(v) ==
    /\ Screen /\ waited[v] = Away /\ Len(cmds) < CmdBound
    /\ IF flag
       THEN UNCHANGED <<flag, on, cmds, frame>>
       ELSE SetActive(TRUE) /\ flag' = TRUE /\ UNCHANGED frame
    /\ idle' = 0 /\ waited' = [waited EXCEPT ![v] = 0]
    /\ UNCHANGED <<source, worker, ticker, audioVars>>

\* clear_frame: the stub has none to drop.
ClearFrame == frame' = IF source = "stub" THEN frame ELSE "none"

\* GET /frame, ensure_active_and_capture under the lock: resume and drop the
\* old frame.
Request(v) ==
    /\ Screen /\ waited[v] = Away /\ Len(cmds) < CmdBound
    /\ IF flag
       THEN UNCHANGED <<flag, on, cmds, frame>>
       ELSE SetActive(TRUE) /\ flag' = TRUE /\ ClearFrame
    /\ idle' = 0 /\ waited' = [waited EXCEPT ![v] = 0]
    /\ UNCHANGED <<source, worker, ticker, audioVars>>

Answer(v) ==
    /\ waited' = [waited EXCEPT ![v] = Away]
    /\ UNCHANGED <<source, worker, ticker, flag, on, cmds, idle, frame, audioVars>>

\* Its loop: capture() returns the cached frame, or fails while there is none
\* or the worker has failed; at the deadline the answer is 503.
Captured(v) == waited[v] # Away /\ frame # "none" /\ worker # "dead" /\ Answer(v)
NoFrame(v) == waited[v] = FrameWait /\ (frame = "none" \/ worker = "dead") /\ Answer(v)

Worker(from, to, cached) ==
    /\ worker = from /\ worker' = to /\ frame' = cached
    /\ UNCHANGED <<source, ticker, flag, on, cmds, idle, waited, audioVars>>

\* video_worker.  It looks at `active' before it spawns ffmpeg and before each
\* read; an ffmpeg that does not start, or ends before its first frame, is fatal.
Spawn == on /\ Worker("top", "spawned", frame)
NoSpawn == on /\ Worker("top", "dead", frame)
CheckActive == Worker("spawned", IF on THEN "first" ELSE "dead", frame)
FirstFrame == Worker("first", IF on THEN "reading" ELSE "top", "live")
NoFirstFrame == Worker("first", "dead", frame)
NextFrame == Worker("reading", IF on THEN "reading" ELSE "top", "live")
EndOfFile == Worker("reading", "top", frame)

\* decode_frame: a running PipeWire stream delivers a buffer.
DecodeFrame == source = "portal" /\ on /\ Worker("serving", "serving", "live")

-----------------------------------------------------------------------------
(* The sound.                                                              *)

Subscribed == {l \in Listeners : pc[l] = "subscribed"}
Connecting == {l \in Listeners : pc[l] \in {"resumed", "marked"}}

\* subscriber_count, as each source answers it.
SubscriberCount ==
    CASE source = "mic" -> Cardinality(Subscribed)
      [] source = "file" -> count
      [] OTHER -> 0

TickAudioHasty ==
    /\ ~Screen /\ ticker = "due"
    /\ ticker' = IF flag THEN "pausing" ELSE "asleep"
    /\ raced' = IF source = "mic" THEN raced \cup Connecting ELSE raced
    /\ UNCHANGED <<source, worker, flag, on, cmds, screenVars, pc, chunkVars>>

\* A pass of idle_ticker over the sound: the count, then the pause.
TickAudio ==
    /\ ~Screen /\ ticker = "due"
    /\ ticker' = IF flag /\ SubscriberCount = 0 THEN "pausing" ELSE "asleep"
    /\ raced' = IF source = "mic" THEN raced \cup Connecting ELSE raced
    /\ UNCHANGED <<source, worker, flag, on, cmds, screenVars, pc, chunkVars>>

PauseAudio ==
    /\ ticker = "pausing" /\ ticker' = "asleep"
    /\ SetActive(FALSE) /\ flag' = FALSE
    /\ UNCHANGED <<source, worker, screenVars, audioVars>>

\* GET /audio, serve_audio: resume without the lock, mark active under it,
\* subscribe.
Resume(l) ==
    /\ ~Screen /\ pc[l] = "away" /\ Len(cmds) < CmdBound
    /\ SetActive(TRUE)
    /\ pc' = [pc EXCEPT ![l] = "resumed"]
    /\ raced' = IF source = "mic" /\ ticker = "pausing" THEN raced \cup {l} ELSE raced
    /\ UNCHANGED <<source, worker, ticker, flag, screenVars, chunkVars>>

MarkNothing(l) ==
    /\ pc[l] = "resumed" /\ ticker # "pausing"
    /\ pc' = [pc EXCEPT ![l] = "marked"]
    /\ UNCHANGED <<source, worker, ticker, flag, on, cmds, screenVars, chunkVars, raced>>

MarkActive(l) ==
    /\ pc[l] = "resumed" /\ ticker # "pausing"
    /\ flag' = TRUE /\ pc' = [pc EXCEPT ![l] = "marked"]
    /\ UNCHANGED <<source, worker, ticker, on, cmds, screenVars, chunkVars, raced>>

\* aggregation_bytes, in chunks of the source: at least one, rounded up.
Aggregate(ms) ==
    LET floor == IF source = "mic" THEN Quantum ELSE 20
    IN  IF ms <= floor THEN 1 ELSE (ms + floor - 1) \div floor

Subscribe(l) ==
    /\ pc[l] = "marked"
    /\ pc' = [pc EXCEPT ![l] = "subscribed"]
    /\ \E ms \in ChunkMs : every' = [every EXCEPT ![l] = Aggregate(ms)]
    /\ count' = (IF source = "file" THEN count + 1 ELSE count) % UsizeMod
    /\ UNCHANGED <<source, worker, ticker, flag, on, cmds, screenVars, gone, queued, over, acc,
                   raced>>

\* subscribe decodes a file of the directory first; when it cannot, 503.
SubscribeFails(l) ==
    /\ pc[l] = "marked" /\ source = "dir"
    /\ pc' = [pc EXCEPT ![l] = "away"]
    /\ UNCHANGED <<source, worker, ticker, flag, on, cmds, screenVars, chunkVars, raced>>

\* The client closes its connection, or reads no more for AUDIO_WRITE_TIMEOUT;
\* serve_audio sees it when it writes.
Hangup(l) ==
    /\ pc[l] = "subscribed" /\ l \notin gone
    /\ gone' = gone \cup {l}
    /\ UNCHANGED <<source, worker, ticker, flag, on, cmds, screenVars, pc, queued, over, every,
                   acc, count, raced>>

\* on_process: try_send to every subscriber, one with a full channel skips it.
FanOut ==
    /\ source = "mic" /\ on /\ queued' = Subscribed
    /\ UNCHANGED <<source, worker, ticker, flag, on, cmds, screenVars, pc, gone, over, every,
                   acc, count, raced>>

\* replay_from_start sends the next chunk when there is room, and takes its
\* listener off the count when the file is over.
Replay(l) ==
    /\ source \in {"file", "dir"} /\ l \in Subscribed \ over /\ l \notin queued
    /\ \/ queued' = queued \cup {l} /\ UNCHANGED <<over, count>>
       \/ over' = over \cup {l} /\ UNCHANGED queued
          /\ count' = (IF source = "file" THEN count + UsizeMod - 1 ELSE count) % UsizeMod
    /\ UNCHANGED <<source, worker, ticker, flag, on, cmds, screenVars, pc, gone, every, acc, raced>>

\* serve_audio returns: unsub takes the listener off the count, and so does a
\* replay that it stops.
Leave(l) ==
    /\ pc' = [pc EXCEPT ![l] = "away"]
    /\ gone' = gone \ {l} /\ queued' = queued \ {l} /\ over' = over \ {l} /\ raced' = raced \ {l}
    /\ every' = [every EXCEPT ![l] = 1] /\ acc' = [acc EXCEPT ![l] = 0]
    /\ count' = (IF source # "file" THEN count
                 ELSE count + UsizeMod - (IF l \in over THEN 1 ELSE 2)) % UsizeMod

\* serve_audio writes to the client, or fails and drops the subscription.
Write(l) ==
    IF l \in gone
    THEN Leave(l)
    ELSE /\ queued' = queued \ {l} /\ acc' = [acc EXCEPT ![l] = 0]
         /\ UNCHANGED <<pc, gone, over, every, count, raced>>

ForwardBlindly(l) ==
    /\ l \in queued \ gone
    /\ Write(l)
    /\ UNCHANGED <<source, worker, ticker, flag, on, cmds, screenVars>>

\* serve_audio's loop takes a chunk, and writes once it holds enough of them.
Forward(l) ==
    /\ l \in queued
    /\ IF acc[l] + 1 < every[l]
       THEN /\ queued' = queued \ {l} /\ acc' = [acc EXCEPT ![l] = @ + 1]
            /\ UNCHANGED <<pc, gone, over, every, count, raced>>
       ELSE Write(l)
    /\ UNCHANGED <<source, worker, ticker, flag, on, cmds, screenVars>>

\* AUDIO_RECV_TIMEOUT passes without a chunk: what is held back is written.
Flush(l) ==
    /\ source = "mic" /\ ~on /\ l \in Subscribed \ queued /\ acc[l] > 0
    /\ Write(l)
    /\ UNCHANGED <<source, worker, ticker, flag, on, cmds, screenVars>>

\* The sender of the channel is gone: the loop ends, with what it held back.
Disconnected(l) ==
    /\ l \in over \ queued
    /\ Leave(l)
    /\ UNCHANGED <<source, worker, ticker, flag, on, cmds, screenVars>>

\* The steps of the thread of one listener.
ServeAudio(l) ==
    MarkActive(l) \/ Subscribe(l) \/ SubscribeFails(l) \/ Forward(l) \/ Flush(l) \/ Disconnected(l)

-----------------------------------------------------------------------------
Capture == DecodeFrame \/ Spawn \/ CheckActive \/ FirstFrame \/ NextFrame \/ FanOut

Next ==
    \/ Second \/ ApplyCmd \/ Capture \/ NoSpawn \/ NoFirstFrame \/ EndOfFile
    \/ TickScreen \/ TickAudio \/ PauseAudio
    \/ \E v \in Viewers : Request(v) \/ Captured(v) \/ NoFrame(v)
    \/ \E l \in Listeners : Resume(l) \/ ServeAudio(l) \/ Hangup(l) \/ Replay(l)

\* Threads run, and time passes: strongly, as a spawn of ffmpeg delays the next
\* second in the model only.  Clients need not come or go, files need not end.
Fairness ==
    /\ SF_vars(Second) /\ WF_vars(ApplyCmd) /\ WF_vars(Capture)
    /\ WF_vars(TickScreen) /\ WF_vars(TickAudio) /\ WF_vars(PauseAudio)
    /\ \A v \in Viewers : WF_vars(Captured(v) \/ NoFrame(v))
    /\ \A l \in Listeners : WF_vars(ServeAudio(l)) /\ WF_vars(Replay(l))

Spec == Init /\ [][Next]_vars /\ Fairness

-----------------------------------------------------------------------------
\* Nobody is sent a picture of the screen as it was before an idle pause: the
\* answer to a request shows the screen after the source was resumed.
NoOldFrame ==
    [][\A v \in Viewers : waited[v] # Away /\ waited'[v] = Away /\ worker # "dead"
                            => frame # "old"]_vars

\* A listener that met no pass of the ticker between its resume and its
\* subscription is heard: the source runs once the commands are applied,
\* unless its worker failed when the daemon started.
OnlyRacesStarve ==
    ~Screen /\ worker # "dead" /\ cmds = <<>> /\ Subscribed \ raced # {} => on

\* Without requests the source is paused in the end, with no listener too:
\* capture costs nothing while nobody looks or listens.
IdlesDown ==
    <>[](Connecting \cup Subscribed = {} /\ \A v \in Viewers : waited[v] = Away)
        => <>[](on => source \notin {"portal", "mic", "media"})

\* The subscription of a client that went away is dropped, as long as the
\* source runs: only a failed write tells the server.
GoneClientsLeave ==
    \A l \in Listeners : l \in gone ~> (l \notin gone \/ ~on)
=============================================================================
