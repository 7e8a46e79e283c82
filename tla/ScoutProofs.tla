----------------------------- MODULE ScoutProofs -----------------------------
(***************************************************************************)
(* Proofs about ScoutDemand: nobody is sent a picture from before an idle  *)
(* pause, and a listener is left without sound only by a race with the     *)
(* ticker.  Both rest on what was ordered last of the source (Latest): the *)
(* commands a worker has still to apply end in what the flag says.         *)
(***************************************************************************)
EXTENDS ScoutDemand, FiniteSetTheorems, SequenceTheorems, TLAPS

\* What the source will do once its worker has caught up.
Latest == IF cmds = <<>> THEN on ELSE cmds[Len(cmds)]

Waiting == {v \in Viewers : waited[v] # Away}

ScoutType ==
    /\ source \in Screens \cup {"mic", "file", "dir"}
    /\ worker \in {"serving", "top", "spawned", "first", "reading", "none", "dead"}
    /\ ticker \in {"asleep", "due", "pausing"}
    /\ flag \in BOOLEAN /\ on \in BOOLEAN /\ cmds \in Seq(BOOLEAN)
    /\ idle \in Nat /\ frame \in {"none", "live", "old"}
    /\ waited \in [Viewers -> {Away} \cup Nat]
    /\ pc \in [Listeners -> {"away", "resumed", "marked", "subscribed"}]
    /\ raced \subseteq Listeners

\* The worker a source has, what is true of a source that has none, and that
\* only sound has listeners.
WorkerInv ==
    /\ source \in {"portal", "mic"} => worker \in {"serving", "dead"}
    /\ source = "media" => worker \notin {"serving", "none"}
    /\ source \in {"stub", "file", "dir"} => worker = "none" /\ on
    /\ worker # "serving" => cmds = <<>>
    /\ ticker = "pausing" => ~Screen
    /\ \A l \in Listeners : pc[l] # "away" => ~Screen

\* Whoever waits keeps the screen awake: the last request is at most as old as
\* theirs, which ends before the idle timeout.  The flag is what was ordered
\* last, and a frame from before a pause is cached only during the pause.
FrameInv ==
    /\ \A v \in Waiting : Screen /\ flag /\ idle <= waited[v] /\ waited[v] <= FrameWait
    /\ source \in {"portal", "media"} /\ worker # "dead" => (flag => Latest)
    /\ Screen /\ worker # "dead" /\ frame = "old" => ~flag /\ source # "stub"

\* A listener of the microphone that met no pass of the ticker has its resume
\* as the last order, and no pause is on its way.
HeardInv ==
    source = "mic" /\ worker # "dead" /\ (Connecting \cup Subscribed) \ raced # {}
        => ticker # "pausing" /\ Latest

ScoutInv == ScoutType /\ WorkerInv /\ FrameInv /\ HeardInv

-----------------------------------------------------------------------------
(* Orders.                                                                 *)

\* An order that is appended to the commands is the last one.
LEMMA AppendOrder ==
    ASSUME NEW s \in Seq(BOOLEAN), NEW b \in BOOLEAN
    PROVE  /\ Append(s, b) \in Seq(BOOLEAN)
           /\ Append(s, b) # <<>>
           /\ Append(s, b)[Len(Append(s, b))] = b
  BY AppendProperties, EmptySeq

\* The worker that applies a command leaves what was ordered last as it is.
LEMMA ApplyOrder ==
    ASSUME NEW s \in Seq(BOOLEAN), s # <<>>
    PROVE  /\ Tail(s) \in Seq(BOOLEAN) /\ Head(s) \in BOOLEAN
           /\ s[Len(s)] = IF Tail(s) = <<>> THEN Head(s) ELSE Tail(s)[Len(Tail(s))]
<1>1. /\ Tail(s) \in Seq(BOOLEAN) /\ Head(s) \in BOOLEAN /\ Len(Tail(s)) = Len(s) - 1
      /\ \A i \in 1 .. Len(Tail(s)) : Tail(s)[i] = s[i + 1]
  BY HeadTailProperties
<1>2. Head(s) = s[1] /\ Len(s) \in Nat /\ Len(Tail(s)) \in Nat
  BY <1>1
<1>3. CASE Tail(s) = <<>>
  <2>0. PICK n \in Nat : n = Len(s)
    BY <1>2
  <2>1. PICK k \in Nat : k = Len(Tail(s)) /\ k = n - 1
    BY <1>1, <1>2, <2>0, Zenon
  <2>2. k = 0
    BY <1>3, <2>1, EmptySeq, Zenon
  <2>3. n = 1
    <3>1. k = n - 1
      BY <2>1, Zenon
    <3> QED BY <2>2, <3>1, Z3
  <2>4. s[Len(s)] = Head(s)
    BY <1>2, <2>0, <2>3, Zenon
  <2> QED
    BY <1>1, <1>3, <2>4
<1>4. CASE Tail(s) # <<>>
  <2>1. Len(Tail(s)) \in 1 .. Len(Tail(s))
    BY <1>1, <1>2, <1>4, EmptySeq
  <2> QED
    BY <1>1, <1>2, <1>4, <2>1
<1> QED
  BY <1>1, <1>3, <1>4

\* set_active makes its argument the last order of the portal, the microphone
\* and a media file, and never disturbs a source without a worker.
LEMMA SetActiveOrders ==
    ASSUME ScoutType, WorkerInv, NEW b \in BOOLEAN, SetActive(b),
           source' = source, worker' = worker
    PROVE  /\ on' \in BOOLEAN /\ cmds' \in Seq(BOOLEAN)
           /\ worker # "serving" => cmds' = <<>>
           /\ source \in {"stub", "file", "dir"} => on'
           /\ source = "media" \/ worker = "serving" => Latest' = b
  BY AppendOrder DEF ScoutType, WorkerInv, SetActive, Latest

-----------------------------------------------------------------------------
LEMMA InitScout == Init => ScoutInv
<1> SUFFICES ASSUME Init PROVE ScoutInv
  OBVIOUS
<1>1. source \in Screens \cup {"mic", "file", "dir"}
  BY DEF Init, Sources, Built, BuildMock, BuildDir, BuildReal, Args, Resolved, Screens
<1>2. /\ source \in {"portal", "mic"} => worker \in {"serving", "dead"}
      /\ source = "media" => worker = "top"
      /\ source \in {"stub", "file", "dir"} => worker = "none"
  BY <1>1 DEF Init, PortalWorker, MicWorker, Screens
<1>3. on \in BOOLEAN /\ (worker # "dead" => on)
  BY DEF Init
<1>4. ScoutType
  BY <1>1, <1>2, <1>3, EmptySeq DEF Init, ScoutType, Screens, Away
<1> QED
  BY <1>1, <1>2, <1>3, <1>4 DEF Init, ScoutInv, WorkerInv, FrameInv, HeardInv, Screen, Screens,
     Waiting, Connecting, Subscribed, Latest

-----------------------------------------------------------------------------
(* Steps that order nothing.                                               *)

LEMMA ApplyCmdKeeps == ASSUME ScoutInv, ApplyCmd PROVE ScoutInv'
<1>1. on' \in BOOLEAN /\ cmds' \in Seq(BOOLEAN) /\ Latest' = Latest
  BY ApplyOrder DEF ScoutInv, ScoutType, ApplyCmd, Latest
<1>2. worker = "serving"
  BY DEF ScoutInv, WorkerInv, ApplyCmd
<1> QED
  BY <1>1, <1>2 DEF ScoutInv, ScoutType, WorkerInv, FrameInv, HeardInv, Screen, Waiting, Connecting,
     Subscribed, ApplyCmd, screenVars, audioVars, chunkVars

LEMMA SecondKeeps == ASSUME ScoutInv, Second PROVE ScoutInv'
<1> USE DEF ScoutInv
<1>1. waited' \in [Viewers -> {Away} \cup Nat] /\ Waiting' = Waiting
  BY DEF ScoutType, Second, Waiting, Away
<1>2. \A v \in Waiting : idle' <= waited'[v] /\ waited'[v] <= FrameWait
  BY <1>1, DemandAssumption DEF ScoutType, FrameInv, Second, Waiting, Away
<1>3. ScoutType'
  BY <1>1 DEF ScoutType, Second, audioVars, chunkVars
<1>4. Latest' = Latest
  BY DEF Second, Latest
<1>5. FrameInv'
  BY <1>1, <1>2, <1>4 DEF ScoutType, WorkerInv, FrameInv, Second, Screen, Screens, Latest
<1> QED
  BY <1>3, <1>4, <1>5 DEF WorkerInv, HeardInv, Second, Screen, Connecting, Subscribed, audioVars,
     chunkVars

\* The media worker and the portal's stream cache frames that are not old.
LEMMA CaptureKeeps ==
    ASSUME ScoutInv, Capture \/ NoSpawn \/ NoFirstFrame \/ EndOfFile
    PROVE  ScoutInv'
<1> USE DEF ScoutInv
<1>1. CASE FanOut
  BY <1>1 DEF FanOut, ScoutType, WorkerInv, FrameInv, HeardInv, Screen, Waiting, Connecting,
     Subscribed, Latest, screenVars
<1>2. CASE DecodeFrame
  BY <1>2 DEF DecodeFrame, Worker, ScoutType, WorkerInv, FrameInv, HeardInv, Screen, Waiting,
     Connecting, Subscribed, Latest, audioVars, chunkVars
<1>3. CASE \E from \in {"top", "spawned", "first", "reading"},
              to \in {"top", "spawned", "first", "reading", "dead"} :
              Worker(from, to, frame) \/ Worker(from, to, "live")
  <2>1. source = "media"
    BY <1>3 DEF Worker, WorkerInv, ScoutType, Screens
  <2> QED
    BY <1>3, <2>1 DEF Worker, ScoutType, WorkerInv, FrameInv, HeardInv, Screen, Waiting, Connecting,
       Subscribed, Latest, audioVars, chunkVars
<1> QED
  BY <1>1, <1>2, <1>3 DEF Capture, NoSpawn, NoFirstFrame, EndOfFile, Spawn, CheckActive, FirstFrame,
     NextFrame

LEMMA AnswerKeeps ==
    ASSUME ScoutInv, NEW v \in Viewers, Captured(v) \/ NoFrame(v)
    PROVE  ScoutInv'
<1>1. Waiting' \subseteq Waiting /\ \A w \in Waiting' : waited'[w] = waited[w]
  BY DEF ScoutInv, ScoutType, Captured, NoFrame, Answer, Waiting
<1>2. UNCHANGED <<source, worker, ticker, flag, on, cmds, idle, frame, pc, raced>>
  BY DEF Captured, NoFrame, Answer, audioVars
<1>3. waited' \in [Viewers -> {Away} \cup Nat]
  BY DEF ScoutInv, ScoutType, Captured, NoFrame, Answer
<1> QED
  BY <1>1, <1>2, <1>3 DEF ScoutInv, ScoutType, WorkerInv, FrameInv, HeardInv, Screen, Connecting,
     Subscribed, Latest

-----------------------------------------------------------------------------
(* The screen.                                                             *)

LEMMA RequestKeeps ==
    ASSUME ScoutInv, NEW v \in Viewers, Request(v)
    PROVE  ScoutInv'
<1> USE DEF ScoutInv
<1>1. source' = source /\ worker' = worker /\ UNCHANGED <<ticker, pc, raced>>
  BY DEF Request, audioVars
<1>2. /\ on' \in BOOLEAN /\ cmds' \in Seq(BOOLEAN)
      /\ worker # "serving" => cmds' = <<>>
      /\ source = "stub" => on'
      /\ source \in {"portal", "media"} /\ worker # "dead" => Latest'
  <2>1. CASE flag
    BY <2>1 DEF Request, ScoutType, WorkerInv, FrameInv, Latest
  <2>2. CASE ~flag
    BY <1>1, <2>2, SetActiveOrders DEF Request, WorkerInv
  <2> QED
    BY <2>1, <2>2
<1>3. flag' /\ flag' \in BOOLEAN /\ frame' \in {"none", "live", "old"}
      /\ (worker # "dead" => frame' # "old")
  BY DEF Request, ClearFrame, ScoutType, FrameInv
<1>4. /\ waited' \in [Viewers -> {Away} \cup Nat] /\ idle' = 0
      /\ \A w \in Waiting' : 0 <= waited'[w] /\ waited'[w] <= FrameWait
  BY DemandAssumption DEF Request, ScoutType, FrameInv, Waiting, Away
<1>5. source \in Screens
  BY DEF Request, Screen
<1> QED
  BY <1>1, <1>2, <1>3, <1>4, <1>5 DEF ScoutType, WorkerInv, FrameInv, HeardInv, Screen, Screens

LEMMA TickScreenKeeps == ASSUME ScoutInv, TickScreen PROVE ScoutInv'
<1> USE DEF ScoutInv
<1>1. /\ source' = source /\ worker' = worker
      /\ UNCHANGED <<idle, frame, waited, pc, raced>>
  BY DEF TickScreen, screenVars, audioVars
<1>2. CASE flag /\ idle > IdleTimeout
  <2>1. Waiting = {}
    BY <1>2, DemandAssumption DEF ScoutType, FrameInv, Waiting, Away
  <2>2. SetActive(FALSE) /\ flag' = FALSE
    BY <1>2 DEF TickScreen
  <2>3. /\ on' \in BOOLEAN /\ cmds' \in Seq(BOOLEAN) /\ (worker # "serving" => cmds' = <<>>)
        /\ (source \in {"stub", "file", "dir"} => on')
    BY <1>1, <2>2, SetActiveOrders
  <2> QED
    BY <1>1, <2>1, <2>2, <2>3 DEF TickScreen, ScoutType, WorkerInv, FrameInv, HeardInv, Screen,
       Screens, Waiting
<1>3. CASE ~(flag /\ idle > IdleTimeout)
  BY <1>1, <1>3 DEF TickScreen, ScoutType, WorkerInv, FrameInv, HeardInv, Screen, Screens, Waiting,
     Latest
<1> QED
  BY <1>2, <1>3

-----------------------------------------------------------------------------
(* The sound.                                                              *)

\* Nobody counts as a subscriber of the microphone only when nobody is.
LEMMA NoneSubscribed ==
    ASSUME source = "mic", SubscriberCount = 0
    PROVE  Subscribed = {}
<1>1. IsFiniteSet(Subscribed)
  BY FS_Subset, DemandAssumption DEF Subscribed
<1>2. Cardinality(Subscribed) = 0
  BY DEF SubscriberCount
<1> QED
  BY <1>1, <1>2, FS_EmptySet

LEMMA TickAudioKeeps == ASSUME ScoutInv, TickAudio PROVE ScoutInv'
<1> USE DEF ScoutInv
<1>1. UNCHANGED <<source, worker, flag, on, cmds, idle, frame, waited, pc>>
  BY DEF TickAudio, screenVars
<1>2. ticker' \in {"asleep", "pausing"} /\ ~Screen
  BY DEF TickAudio
<1>3. raced' \in SUBSET Listeners
  BY DEF TickAudio, ScoutType, Connecting
<1>4. source = "mic" => Connecting' \subseteq raced' /\ raced \subseteq raced'
  BY <1>1 DEF TickAudio, Connecting
<1>5. source = "mic" /\ ticker' = "pausing" => Subscribed = {}
  BY NoneSubscribed DEF TickAudio
<1>6. Connecting' = Connecting /\ Subscribed' = Subscribed /\ Latest' = Latest
  BY <1>1 DEF Connecting, Subscribed, Latest
<1>7. ScoutType' /\ WorkerInv' /\ FrameInv'
  BY <1>1, <1>2, <1>3, <1>6 DEF ScoutType, WorkerInv, FrameInv, Screen, Waiting
<1> QED
  BY <1>1, <1>4, <1>5, <1>6, <1>7 DEF HeardInv

LEMMA PauseAudioKeeps == ASSUME ScoutInv, PauseAudio PROVE ScoutInv'
<1> USE DEF ScoutInv
<1>1. /\ UNCHANGED <<source, worker, idle, frame, waited, pc, raced>>
      /\ ticker = "pausing" /\ ticker' = "asleep" /\ flag' = FALSE /\ SetActive(FALSE)
  BY DEF PauseAudio, screenVars, audioVars
<1>2. ~Screen /\ Waiting = {}
  BY <1>1 DEF WorkerInv, FrameInv
<1>3. /\ on' \in BOOLEAN /\ cmds' \in Seq(BOOLEAN) /\ (worker # "serving" => cmds' = <<>>)
      /\ (source \in {"stub", "file", "dir"} => on')
  BY <1>1, SetActiveOrders
<1>4. ~(source = "mic" /\ worker # "dead" /\ (Connecting \cup Subscribed) \ raced # {})
  BY <1>1 DEF HeardInv
<1> QED
  BY <1>1, <1>2, <1>3, <1>4 DEF ScoutType, WorkerInv, FrameInv, HeardInv, Screen, Screens, Waiting,
     Connecting, Subscribed

LEMMA ResumeKeeps ==
    ASSUME ScoutInv, NEW l \in Listeners, Resume(l)
    PROVE  ScoutInv'
<1> USE DEF ScoutInv
<1>1. /\ UNCHANGED <<source, worker, ticker, flag, idle, frame, waited>>
      /\ ~Screen /\ SetActive(TRUE) /\ pc' = [pc EXCEPT ![l] = "resumed"]
  BY DEF Resume, screenVars
<1>2. /\ on' \in BOOLEAN /\ cmds' \in Seq(BOOLEAN) /\ (worker # "serving" => cmds' = <<>>)
      /\ (source \in {"stub", "file", "dir"} => on')
      /\ (worker = "serving" => Latest')
  BY <1>1, SetActiveOrders
<1>3. pc' \in [Listeners -> {"away", "resumed", "marked", "subscribed"}] /\ raced' \subseteq Listeners
  BY <1>1 DEF Resume, ScoutType
<1>4. Waiting = {} /\ Waiting' = {}
  BY <1>1 DEF FrameInv, Waiting
<1>5. ScoutType' /\ WorkerInv' /\ FrameInv'
  BY <1>1, <1>2, <1>3, <1>4 DEF ScoutType, WorkerInv, FrameInv, Screen, Screens
<1>6. ASSUME source = "mic", worker # "dead", (Connecting' \cup Subscribed') \ raced' # {}
      PROVE  ticker' # "pausing" /\ Latest'
  <2>1. worker = "serving"
    BY <1>6 DEF WorkerInv
  <2>2. CASE ticker = "pausing"
    <3>1. raced' = raced \cup {l}
      BY <1>6, <2>2 DEF Resume
    <3>2. (Connecting' \cup Subscribed') \ raced' \subseteq (Connecting \cup Subscribed) \ raced
      BY <1>1, <3>1 DEF ScoutType, Connecting, Subscribed
    <3> QED
      BY <1>6, <2>2, <3>2 DEF HeardInv
  <2> QED
    BY <1>1, <1>2, <2>1, <2>2
<1> QED
  BY <1>1, <1>5, <1>6 DEF HeardInv

\* Steps of a listener's thread, its client and its replay, which change the
\* listener only: one that is connected does not become so, none is forgiven
\* a race, and at most the flag goes up.
LEMMA ListenerKeeps ==
    ASSUME ScoutInv, NEW l \in Listeners,
           ServeAudio(l) \/ Hangup(l) \/ Replay(l)
    PROVE  ScoutInv'
<1> USE DEF ScoutInv
<1> DEFINE Connected == Connecting \cup Subscribed
<1>1. UNCHANGED <<source, worker, ticker, on, cmds, idle, frame, waited>>
  BY DEF ServeAudio, Hangup, Replay, MarkActive, Subscribe, SubscribeFails, Forward, Flush,
     Disconnected, screenVars
<1>2. /\ pc' \in [Listeners -> {"away", "resumed", "marked", "subscribed"}]
      /\ raced' \subseteq Listeners
      /\ \A k \in Listeners : pc'[k] # "away" => pc[k] # "away" /\ (k \in raced => k \in raced')
  BY DEF ScoutType, ServeAudio, Hangup, Replay, MarkActive, Subscribe, SubscribeFails, Forward,
     Flush, Disconnected, Write, Leave, chunkVars
<1>3. Connected = {k \in Listeners : pc[k] # "away"} /\ Connected' = {k \in Listeners : pc'[k] # "away"}
  BY <1>2 DEF ScoutType, Connecting, Subscribed
<1>4. Connected' \ raced' \subseteq Connected \ raced
  BY <1>2, <1>3
<1>5. flag' = flag \/ (flag' = TRUE /\ ~Screen)
  BY DEF WorkerInv, ServeAudio, Hangup, Replay, MarkActive, Subscribe, SubscribeFails, Forward,
     Flush, Disconnected
<1>6. Latest' = Latest
  BY <1>1 DEF Latest
<1>7. ScoutType' /\ WorkerInv'
  BY <1>1, <1>2, <1>5 DEF ScoutType, WorkerInv, Screen
<1>8. FrameInv'
  BY <1>1, <1>5, <1>6 DEF FrameInv, Waiting, Screen, Screens
<1> HIDE DEF Connected
<1>9. HeardInv'
  <2>1. HeardInv = (source = "mic" /\ worker # "dead" /\ Connected \ raced # {}
                      => ticker # "pausing" /\ Latest)
    BY DEF HeardInv, Connected
  <2> QED
    BY <1>1, <1>4, <1>6 DEF HeardInv, Connected
<1> QED
  BY <1>7, <1>8, <1>9

-----------------------------------------------------------------------------
LEMMA NextScout == ASSUME ScoutInv, [Next]_vars PROVE ScoutInv'
<1>1. CASE UNCHANGED vars
  BY <1>1 DEF vars, screenVars, audioVars, chunkVars, ScoutInv, ScoutType, WorkerInv, FrameInv,
     HeardInv, Screen, Waiting, Connecting, Subscribed, Latest
<1>2. CASE Next
  BY <1>2, ApplyCmdKeeps, SecondKeeps, CaptureKeeps, AnswerKeeps, RequestKeeps, TickScreenKeeps,
     TickAudioKeeps, PauseAudioKeeps, ResumeKeeps, ListenerKeeps, Zenon DEF Next
<1> QED
  BY <1>1, <1>2

\* The source runs once its commands are applied, for a listener that met no
\* pass of the ticker while it connected.
LEMMA HeardImplies == ScoutInv => OnlyRacesStarve
<1> SUFFICES ASSUME ScoutInv, ~Screen, worker # "dead", cmds = <<>>, Subscribed \ raced # {}
             PROVE  on
  BY DEF OnlyRacesStarve
<1>1. CASE source = "mic"
  BY <1>1 DEF ScoutInv, HeardInv, Latest
<1>2. CASE source # "mic"
  BY <1>2 DEF ScoutInv, ScoutType, WorkerInv, Screen
<1> QED
  BY <1>1, <1>2

\* Only a request that is answered stops waiting, and a frame it is answered
\* with was cached while the flag was up.
LEMMA NextFrames ==
    ASSUME ScoutInv, [Next]_vars
    PROVE  [\A v \in Viewers : waited[v] # Away /\ waited'[v] = Away /\ worker # "dead"
                                   => frame # "old"]_vars
<1> SUFFICES ASSUME NEW v \in Viewers, waited[v] # Away, worker # "dead" PROVE frame # "old"
  OBVIOUS
<1> QED
  BY DEF ScoutInv, FrameInv, Waiting

-----------------------------------------------------------------------------
(* Whatever the source, the timing and the clients: a listener of a working *)
(* source is without sound only if a pass of the ticker fell between its    *)
(* resume and its subscription (serve_audio, idle_ticker).                  *)
THEOREM ScoutIsHeard == Spec => []OnlyRacesStarve
  BY InitScout, NextScout, HeardImplies, PTL DEF Spec

(* Nobody is answered with a frame from before an idle pause: the cache is   *)
(* dropped by the request that resumes, and no pause comes in while somebody *)
(* waits (ensure_active_and_capture, idle_ticker).                           *)
THEOREM ScoutFramesAreNew == Spec => NoOldFrame
  BY InitScout, NextScout, NextFrames, PTL DEF Spec, NoOldFrame

=============================================================================
