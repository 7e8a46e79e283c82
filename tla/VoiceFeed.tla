------------------------------ MODULE VoiceFeed ------------------------------
(***************************************************************************)
(* The data plane: what the pipeline recognizes is pushed over a broadcast *)
(* channel and /api/asr_stream (audio-aura main.rs) to the listener of the *)
(* input method (ime-core io_thread.rs), which folds it into the shared    *)
(* voice state (voice_state.rs) that #asr shows.  Fragments come straight  *)
(* from the recognizer; everything else takes the way through the Stage2   *)
(* worker.  A slow listener loses the oldest events, one that reconnects   *)
(* those in between, and after a restart of the daemon window ids begin at *)
(* 1 again.                                                                *)
(*                                                                         *)
(* A text is the tuple of the pieces it is made of; a piece is [kind,      *)
(* boot, id]: which result it is, from which run of the daemon, and of     *)
(* which segment or window.                                                *)
(***************************************************************************)
EXTENDS StateSync, SequencesExt

CONSTANTS
    WindowBound,    \* bound: windows in a run of the daemon
    SegmentBound,   \* bound: segments in all runs together
    Capacity,       \* capacity of the broadcast channel
    MaxFinals       \* MAX_FINALS

ASSUME FeedAssumption ==
    /\ WindowBound \in Nat /\ SegmentBound \in Nat
    /\ Capacity \in Nat \ {0} /\ MaxFinals \in Nat \ {0}

VARIABLES
    window, segment,    \* the open window and the segment being spoken
    said,               \* history: segments of all runs
    used,               \* does the open window have a segment
    toStage2,           \* events to the worker
    listening,          \* is the listener's stream open
    backlog,            \* events it has not read
    lossy,              \* history: windows of this run it has lost an event of
    live,               \* Inner.live
    liveWindow,         \* Inner.live_window, 0 for None
    finals,             \* Inner.finals
    preview,            \* Inner.preview
    windows,            \* Inner.windows
    connected           \* SharedVoiceState.connected

speechVars == <<window, segment, said, used, toStage2>>
wireVars == <<listening, backlog, lossy>>
voiceVars == <<live, liveWindow, finals, preview, windows>>
feedVars == <<speechVars, wireVars, voiceVars, connected>>

NoPreview == [window |-> 0, plain |-> <<>>, calc |-> <<>>]
NewWindow == [closed |-> FALSE, batch |-> <<>>, final |-> <<>>, draft |-> <<>>, segments |-> <<>>]
Piece(kind, id) == [kind |-> kind, boot |-> boot, id |-> id]
Event(kind, w, s, text) == [kind |-> kind, window |-> w, segment |-> s, text |-> text]

FeedInit ==
    /\ window = 1 /\ segment = 1 /\ said = 0 /\ used = FALSE /\ toStage2 = <<>>
    /\ listening = FALSE /\ backlog = <<>> /\ lossy = {}
    /\ live = <<>> /\ liveWindow = 0 /\ finals = <<>>
    /\ preview = NoPreview /\ windows = <<>> /\ connected = FALSE

-----------------------------------------------------------------------------
(* The daemon: recognizer, Stage2 worker and broadcast channel.            *)

\* broadcast::send to a receiver: the oldest events make room.
Push(events) ==
    LET all == backlog \o events
        over == IF Len(all) > Capacity THEN Len(all) - Capacity ELSE 0
        dropped == SubSeq(all, 1, over)
    IN  IF listening
        THEN /\ backlog' = SubSeq(all, over + 1, Len(all))
             /\ lossy' = lossy \cup {e.window : e \in ToSet(dropped)}
             /\ UNCHANGED listening
        ELSE /\ lossy' = lossy \cup {e.window : e \in ToSet(events)}
             /\ UNCHANGED <<listening, backlog>>

Fragment(w) == Event("StreamFragment", w, segment, <<Piece("stream", segment)>>)

\* A partial of the segment being spoken, under the id of the open window.  One
\* that repeats an unread one would add nothing.
Speak ==
    /\ up /\ window <= WindowBound /\ said < SegmentBound
    /\ Fragment(window) \notin ToSet(backlog)
    /\ Push(<<Fragment(window)>>)
    /\ UNCHANGED <<speechVars, voiceVars, connected>>

\* The segment ends, after a gap that settles the open window or without one.
EndSegment ==
    /\ up /\ said < SegmentBound
    /\ \E gap \in IF used THEN BOOLEAN ELSE {FALSE} :
         LET w == IF gap THEN window + 1 ELSE window IN
         /\ w <= WindowBound
         /\ window' = w
         /\ toStage2' = toStage2
              \o (IF gap THEN <<[kind |-> "WindowEdge", window |-> window, segment |-> 0]>> ELSE <<>>)
              \o <<[kind |-> "Batch", window |-> w, segment |-> segment]>>
         /\ Push(<<Fragment(w)>>)
    /\ segment' = segment + 1 /\ said' = said + 1 /\ used' = TRUE
    /\ UNCHANGED <<voiceVars, connected>>

\* Nobody speaks any more: the window is settled by timeout.
Settle ==
    /\ up /\ used
    /\ toStage2' = Append(toStage2, [kind |-> "WindowEdge", window |-> window, segment |-> 0])
    /\ window' = window + 1 /\ used' = FALSE
    /\ UNCHANGED <<segment, said, wireVars, voiceVars, connected>>

\* What the worker sends for an event; a batch pass may yield nothing.
Results(ev) ==
    LET w == ev.window s == ev.segment IN
    IF ev.kind = "Batch"
    THEN LET draft == Event("SegmentCalibration", w, 0, <<Piece("draft", w)>>) IN
         {<<draft>>, <<Event("BatchSegment", w, s, <<Piece("batch", s)>>), draft>>}
    ELSE LET final == Event("WindowCalibration", w, 0, <<Piece("final", w)>>) IN
         {<<final>>, <<Event("BatchWindow", w, 0, <<Piece("window", w)>>), final>>}

Stage2 ==
    /\ up /\ toStage2 # <<>>
    /\ toStage2' = Tail(toStage2)
    /\ \E events \in Results(Head(toStage2)) : Push(events)
    /\ UNCHANGED <<window, segment, said, used, voiceVars, connected>>

-----------------------------------------------------------------------------
(* The listener and the voice state.                                       *)

\* concat_segments, plain_preview and calc_preview.
Concat(win) ==
    FlattenSeq([i \in DOMAIN win.segments |->
        IF win.segments[i].batch # <<>> THEN win.segments[i].batch ELSE win.segments[i].stream])
Plain(win) == IF win.closed THEN win.batch ELSE Concat(win)
Calc(win) ==
    IF win.closed THEN IF win.final # <<>> THEN win.final ELSE win.batch
                  ELSE IF win.draft # <<>> THEN win.draft ELSE Concat(win)

PreviewOf(w, all) == [window |-> w, plain |-> Plain(all[w]), calc |-> Calc(all[w])]

\* upsert_segment.
Upsert(segments, s, field, text) ==
    LET at == {i \in DOMAIN segments : segments[i].id = s}
        new == [id |-> s, stream |-> <<>>, batch |-> <<>>]
    IN  IF at = {} THEN Append(segments, [new EXCEPT ![field] = text])
        ELSE [segments EXCEPT ![CHOOSE i \in at : TRUE] = [@ EXCEPT ![field] = text]]

\* The state of the event's window after fold_segment.
FoldedOpen(win, ev) ==
    CASE ev.kind = "StreamFragment" ->
           IF win.closed THEN win
           ELSE [win EXCEPT !.segments = Upsert(@, ev.segment, "stream", ev.text)]
      [] ev.kind = "BatchSegment" -> [win EXCEPT !.segments = Upsert(@, ev.segment, "batch", ev.text)]
      [] ev.kind = "BatchWindow" -> [win EXCEPT !.closed = TRUE, !.batch = ev.text]
      [] ev.kind = "SegmentCalibration" -> [win EXCEPT !.draft = ev.text]
      [] ev.kind = "WindowCalibration" -> [win EXCEPT !.final = ev.text]

Folded(win, ev) ==
    CASE ev.kind = "StreamFragment" ->
           IF win.closed THEN win
           ELSE [win EXCEPT !.segments = Upsert(@, ev.segment, "stream", ev.text)]
      [] ev.kind = "BatchSegment" -> [win EXCEPT !.segments = Upsert(@, ev.segment, "batch", ev.text)]
      [] ev.kind = "BatchWindow" -> [win EXCEPT !.closed = TRUE, !.batch = ev.text]
      [] ev.kind = "SegmentCalibration" -> [win EXCEPT !.draft = ev.text]
      [] ev.kind = "WindowCalibration" -> [win EXCEPT !.closed = TRUE, !.final = ev.text]

With(all, w, win) == [x \in DOMAIN all \cup {w} |-> IF x = w THEN win ELSE all[x]]
Get(all, w) == IF w \in DOMAIN all THEN all[w] ELSE NewWindow

\* The finals with a new one at the head, cut at MAX_FINALS.
WithFinal(text) == SubSeq(<<text>> \o finals, 1, Min({MaxFinals, Len(finals) + 1}))

\* fold_segment of the next event, under the lock.  Nothing is folded while the
\* listener awaits the answer to a health probe: Fold has no fairness.
Fold ==
    /\ backlog # <<>>
    /\ backlog' = Tail(backlog)
    /\ LET ev == Head(backlog)
           all == With(windows, ev.window, Folded(Get(windows, ev.window), ev))
           shows == ev.kind \in {"StreamFragment", "SegmentCalibration"}
           final == ev.kind = "WindowCalibration"
           shown == IF shows THEN ev.window ELSE IF final THEN 0 ELSE liveWindow
       IN  /\ windows' = all
           /\ liveWindow' = shown
           /\ live' = IF shows THEN ev.text ELSE IF final THEN <<>> ELSE live
           /\ finals' = IF final THEN WithFinal(ev.text) ELSE finals
           /\ preview' = IF final THEN PreviewOf(ev.window, all)
                         ELSE IF shown = 0 THEN NoPreview ELSE PreviewOf(shown, all)
    /\ UNCHANGED <<speechVars, listening, lossy, connected>>

\* sse_data connects: the receiver subscribes to what is sent from now on.
Listen ==
    /\ up /\ ~listening /\ backlog = <<>>
    /\ listening' = TRUE
    /\ UNCHANGED <<backlog, lossy, speechVars, voiceVars, connected>>

\* The stream breaks; the rest of what was sent is lost.
Unlisten ==
    /\ listening /\ listening' = FALSE
    /\ \E n \in 0..Len(backlog) :
         /\ backlog' = SubSeq(backlog, 1, n)
         /\ lossy' = lossy \cup {backlog[i].window : i \in n + 1..Len(backlog)}
    /\ UNCHANGED <<speechVars, voiceVars, connected>>

\* A new run of the daemon; the voice state stays as it is.
FeedRestart ==
    /\ window' = 1 /\ segment' = 1 /\ used' = FALSE /\ toStage2' = <<>>
    /\ listening' = FALSE /\ backlog' = <<>> /\ lossy' = {}
    /\ UNCHANGED <<said, voiceVars, connected>>

\* The health probe of voice_listener_task, every three seconds.
Probe(answered) ==
    /\ connected' = answered
    /\ UNCHANGED <<speechVars, wireVars, voiceVars>>

FeedStep ==
    \/ Speak \/ EndSegment \/ Settle \/ Stage2
    \/ Fold \/ Listen \/ Probe(up)

-----------------------------------------------------------------------------
(* What the members that read the voice state offer (magic/voice.rs): a     *)
(* sequence of texts, <<>> for an explanation.                               *)

\* voice_predictions: the sentence being said, then the finished ones.
voice_predictions ==
    LET composed == IF preview.plain # <<>> THEN preview.plain ELSE live
        first == IF composed # <<>> THEN <<composed>> ELSE <<>>
    IN  first \o SubSeq(finals, 1, Min({4 - Len(first), Len(finals)}))

\* commit_last_n joins the newest sentences, the newest first.
commit_last_n(n) == FlattenSeq(SubSeq(finals, 1, Min({n, Len(finals)})))

\* predict of #asr with /calc and ?num=n (0 when it is not given).
predict(calc, n) ==
    IF ~connected THEN <<>>
    ELSE IF n > 0 /\ finals # <<>> THEN <<commit_last_n(n)>>
    ELSE IF calc /\ preview.calc # <<>> THEN <<preview.calc>>
    ELSE voice_predictions

\* #submit takes the snapshot: the last sentence, or what is being said.
snapshot == IF finals # <<>> THEN finals[1] ELSE live

-----------------------------------------------------------------------------
Idle == listening /\ backlog = <<>> /\ toStage2 = <<>> /\ ~used

\* When all is said, worked through and received, every command offers the final
\* text of the last window and of nothing older in its place, provided nothing of
\* that window was lost; what was lost of earlier ones does not matter.  Speech
\* that has begun since is offered first: as itself while the daemon has not been
\* restarted.  After that its window has the number of one that the voice state
\* remembers as closed (voice_state.rs:111), and the text of that one is offered.
SettledShowsFinal ==
    Idle /\ connected /\ window > 1 /\ window - 1 \notin lossy =>
        LET final == <<Piece("final", window - 1)>>
            speaking == live = <<Piece("stream", segment)>>
        IN  /\ snapshot = final /\ predict(FALSE, 1) = <<final>>
            /\ ~speaking => predict(TRUE, 0) = <<final>>
            /\ LET offer == predict(FALSE, 0) IN
               IF speaking THEN offer[2] = final /\ (boot = 0 => offer[1] = live)
               ELSE \E i \in {1, 2} : i <= Len(offer) /\ offer[i] = final
=============================================================================
