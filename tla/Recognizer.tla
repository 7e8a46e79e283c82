----------------------------- MODULE Recognizer ------------------------------
(***************************************************************************)
(* The consume loop of the speech front end (aura-core recognizer.rs, with *)
(* the ring of buffer.rs): captured audio goes through the VAD and the     *)
(* streaming recognizer, comes out as segments, and the window tracker     *)
(* groups segments into windows.                                           *)
(*                                                                         *)
(* Two processes: the outside (clock and ingest thread, action Tick) and   *)
(* the consumer thread (every other action but Toggle).  One tick is one   *)
(* frame time.  The consumer is infinitely fast except where the code      *)
(* blocks: parked on the condvar until a frame or a deadline, or inside a  *)
(* batch recognition, which takes up to BatchMax ticks.                    *)
(*                                                                         *)
(* A frame is "voice" or "quiet"; a recording is abstracted to its length. *)
(* The VAD (sherpa) and the recognizers are outside this repository: the   *)
(* VAD latches after MinVoice voiced frames in a row and lets go after     *)
(* MinQuiet quiet ones, popping the segment in that very frame; a          *)
(* recognizer may find a text in any audio, or none.                       *)
(***************************************************************************)
EXTENDS WindowTracker, AudioStore

CONSTANTS
    RingCap,        \* ring_cap_samples, in frames
    LeadInCap,      \* LEAD_IN_FRAMES
    PartialEvery,   \* PARTIAL_EVERY_FRAMES
    StaleReset,     \* STALE_SESSION_RESET
    FeedAfter,      \* the 2 s after which an empty ring is fed silence
    MinVoice,       \* vad.min_speech
    MinQuiet,       \* vad.min_silence
    BatchMax,       \* longest batch recognition
    Horizon,        \* clocks saturate here
    VoiceBudget,    \* bound: voiced frames captured in a behaviour
    MaxToggles      \* bound: flips of the connection toggle

ASSUME RecognizerAssumption ==
    /\ {RingCap, PartialEvery, StaleReset, FeedAfter, MinVoice, MinQuiet}
          \subseteq Nat \ {0}
    /\ {LeadInCap, BatchMax, VoiceBudget, MaxToggles} \subseteq Nat
    /\ Horizon \in Nat
    /\ Horizon > MergeGap /\ Horizon > StaleReset /\ Horizon > FeedAfter
    /\ Horizon >= BatchMax

VARIABLES
    ring,       \* AudioRing: frames captured and not yet consumed
    active,     \* the connection toggle
    vad,        \* the VAD: latched, and frames towards changing that
    leadIn,     \* the last frames before the onset
    sess,       \* ActiveSession
    tracker,    \* WindowTracker
    store,      \* AudioStore: clip id -> length
    nextClip,   \* AudioStore.next_id
    pend,       \* the segment whose batch pass runs or whose Batch is due
    settled,    \* the window whose WindowEdge is being made
    pc,         \* where the consumer is
    wake,       \* deadline of a parked consumer
    emptyFor,   \* ring_empty_since
    canFeed,    \* last_silence_feed: this tick's synthetic frame is not yet fed
    sinceEnd,   \* time since the end of the open window's last segment
    busy,       \* time since the EOS instant of pend
    feed,       \* the last Batch or WindowEdge sent (see WindowFeed)
    frag,       \* ids on the last live StreamFragment
    heard,      \* history: voiced frames captured so far
    toggles     \* history: flips of the toggle so far

clocks == <<wake, emptyFor, canFeed, sinceEnd, busy>>
history == <<heard, toggles>>
vars == <<ring, active, vad, leadIn, sess, tracker, store, nextClip, pend,
          settled, pc, clocks, feed, frag, history>>

Feed == INSTANCE WindowFeed

Never == -1     \* a deadline that is not set

Frame == {"voice", "quiet"}

Later(t) == IF t = Never \/ t >= Horizon THEN t ELSE t + 1
Sooner(t) == IF t > 0 THEN t - 1 ELSE t

\* ActiveSession::new.
FreshSession == [pcm |-> 0, beat |-> 0, partial |-> FALSE, age |-> 0]
NoSegment == [id |-> 0, pcm |-> 0, gap |-> 0]

Init ==
    /\ ring = <<>> /\ leadIn = <<>>
    /\ active = TRUE
    /\ vad = [latched |-> FALSE, run |-> 0]
    /\ sess = FreshSession
    /\ tracker = NewTracker
    /\ store = EmptyStore /\ nextClip = 0
    /\ pend = NoSegment
    /\ settled = NoWindow
    /\ pc = "loop"
    /\ wake = Never /\ emptyFor = Never /\ canFeed = TRUE
    /\ sinceEnd = 0 /\ busy = 0
    /\ feed = Feed!NoFeed
    /\ frag = [win |-> 0, seg |-> 0]
    /\ heard = 0 /\ toggles = 0

-----------------------------------------------------------------------------
(* The clock and the ingest thread. *)

\* wait_frame blocks, or a batch recognition does.  A single-segment window
\* reuses its segment's batch text and does not block.
Blocked ==
    \/ pc = "parked" /\ ring = <<>> /\ wake # 0
    \/ pc = "paused" /\ ring = <<>>
    \/ pc = "batch" /\ busy < BatchMax
    \/ pc = "edge" /\ busy < BatchMax /\ Len(settled.segs) > 1

PushUnbounded(buf, f, cap) == Append(buf, f)

\* AudioRing::push: over capacity the oldest frame is dropped.
Push(buf, f, cap) ==
    LET all == Append(buf, f) IN IF Len(all) > cap THEN Tail(all) ELSE all

\* One frame time passes; `f' is what was captured, if the source is there.
Tick(f) ==
    /\ Blocked
    /\ f = "voice" => heard < VoiceBudget
    /\ ring' = IF f \in Frame THEN Push(ring, f, RingCap) ELSE ring
    /\ sess' = IF sess.partial THEN [sess EXCEPT !.age = Later(@)] ELSE sess
    /\ wake' = Sooner(wake)
    /\ emptyFor' = Later(emptyFor)
    /\ canFeed' = TRUE
    /\ sinceEnd' = IF tracker.open.segs = <<>> THEN 0 ELSE Later(sinceEnd)
    /\ busy' = IF pc \in {"batch", "edge"} THEN busy + 1 ELSE busy
    /\ heard' = IF f = "voice" THEN heard + 1 ELSE heard
    /\ UNCHANGED <<active, vad, leadIn, tracker, store, nextClip, pend,
                   settled, pc, feed, frag, toggles>>

Capture == \E f \in Frame : Tick(f)
NoCapture == Tick("none")

\* control_scout flips the shared toggle.
Toggle ==
    /\ toggles < MaxToggles
    /\ active' = ~active
    /\ toggles' = toggles + 1
    /\ UNCHANGED <<ring, vad, leadIn, sess, tracker, store, nextClip, pend,
                   settled, pc, clocks, feed, frag, heard>>

-----------------------------------------------------------------------------
(* The consumer: top of the loop. *)

SettleDue == CheckSettle(tracker, sinceEnd, sess.partial)

\* While paused every frame wakes the consumer and is thrown away; there is
\* no other wake-up.
PausedPark ==
    /\ pc = "loop" /\ ~active /\ ring = <<>>
    /\ pc' = "paused"
    /\ UNCHANGED <<ring, active, vad, leadIn, sess, tracker, store, nextClip,
                   pend, settled, clocks, feed, frag, history>>

PausedDrop ==
    /\ pc = "paused" \/ (pc = "loop" /\ ~active)
    /\ ring # <<>>
    /\ ring' = Tail(ring)
    /\ pc' = "loop"
    /\ UNCHANGED <<active, vad, leadIn, sess, tracker, store, nextClip, pend,
                   settled, clocks, feed, frag, history>>

\* No segment followed for merge_gap: the trailing window is taken, and its
\* WindowEdge is made next.
SettleByTimeout ==
    /\ pc = "loop" /\ active /\ SettleDue
    /\ settled' = tracker.open
    /\ tracker' = TakeOpen(tracker)
    /\ busy' = 0
    /\ pc' = "edge"
    /\ UNCHANGED <<ring, active, vad, leadIn, sess, store, nextClip, pend,
                   wake, emptyFor, canFeed, sinceEnd, feed, frag, history>>

\* Past the settle check of this iteration.
Ready == pc = "watch" \/ (pc = "loop" /\ active /\ ~SettleDue)

\* The stale-session watchdog, which runs between that check and the ring.
Watched == IF sess.partial /\ sess.age >= StaleReset THEN FreshSession ELSE sess

\* The timers that bound the next wait.  Whether a settle is pending was
\* decided before the watchdog ran, and ring_empty_since is the value from
\* before this iteration looked at the ring.
Deadlines ==
    (IF SettlePending(tracker, sess.partial) THEN {SettleDeadline(sinceEnd)} ELSE {})
    \cup (IF Watched.partial THEN {StaleReset - Watched.age} ELSE {})
    \cup (IF Watched.partial /\ emptyFor # Never
            THEN {IF emptyFor < FeedAfter THEN FeedAfter - emptyFor ELSE 0}
            ELSE {})

\* The source went away in mid-utterance: silence is due to the VAD.
FeedDue == ring = <<>> /\ Watched.partial /\ emptyFor >= FeedAfter

\* wait_frame with a deadline.
Park ==
    /\ Ready /\ ring = <<>> /\ ~(FeedDue /\ canFeed)
    /\ sess' = Watched
    /\ emptyFor' = IF emptyFor = Never THEN 0 ELSE emptyFor
    /\ wake' = IF FeedDue THEN 1
               ELSE IF Deadlines = {} THEN Never ELSE Min(Deadlines)
    /\ pc' = "parked"
    /\ UNCHANGED <<ring, active, vad, leadIn, tracker, store, nextClip, pend,
                   settled, canFeed, sinceEnd, busy, feed, frag, history>>

Timeout ==
    /\ pc = "parked" /\ ring = <<>> /\ wake = 0
    /\ wake' = Never
    /\ pc' = "loop"
    /\ UNCHANGED <<ring, active, vad, leadIn, sess, tracker, store, nextClip,
                   pend, settled, emptyFor, canFeed, sinceEnd, busy, feed, frag,
                   history>>

-----------------------------------------------------------------------------
(* The consumer: one frame through the VAD and the streaming session. *)

\* The VAD after frame f (external; see the head of the module).
VadStep(f) ==
    LET towards == f = (IF vad.latched THEN "quiet" ELSE "voice")
        flips == vad.run + 1 = (IF vad.latched THEN MinQuiet ELSE MinVoice)
    IN  IF ~towards THEN [vad EXCEPT !.run = 0]
        ELSE IF flips THEN [latched |-> ~vad.latched, run |-> 0]
        ELSE [vad EXCEPT !.run = @ + 1]

\* Nobody speaks: the frame only goes to the bounded lead-in.
SkipFrame(f, s) ==
    /\ ~vad.latched /\ ~VadStep(f).latched
    /\ leadIn' = Push(leadIn, f, LeadInCap)
    /\ sess' = s
    /\ pc' = "loop"
    /\ UNCHANGED <<tracker, pend, busy, frag>>

\* Speech: the session hears the frame, at an onset the lead-in before it, and
\* decodes at every PartialEvery-th frame.  A changed text is a StreamFragment
\* labelled with the ids the tracker expects this segment to get.
FeedSession(f, s) ==
    LET onset == ~vad.latched
        beat == (IF onset THEN 0 ELSE s.beat) + 1
        decodes == beat >= PartialEvery
        fed == [s EXCEPT !.pcm = @ + 1 + (IF onset THEN Len(leadIn) ELSE 0),
                         !.beat = IF decodes THEN 0 ELSE beat]
    IN  /\ VadStep(f).latched
        /\ leadIn' = IF onset THEN <<>> ELSE leadIn
        /\ \E changed \in IF decodes THEN BOOLEAN ELSE {FALSE} :
              IF changed
                THEN /\ sess' = [fed EXCEPT !.partial = TRUE, !.age = 0]
                     /\ frag' = Prospective(tracker)
                ELSE sess' = fed /\ UNCHANGED frag
        /\ pc' = "loop"
        /\ UNCHANGED <<tracker, pend, busy>>

EndSegmentKeepsSession(f, s) ==
    /\ vad.latched /\ ~VadStep(f).latched
    /\ leadIn' = Push(leadIn, f, LeadInCap)
    /\ tracker' = OnSos(tracker)
    /\ pend' = [id |-> tracker.nextSeg, pcm |-> s.pcm, gap |-> sinceEnd - s.pcm]
    /\ sess' = s
    /\ busy' = 0
    /\ pc' = "batch"
    /\ UNCHANGED frag

\* SOS and EOS arrive together: the session becomes the segment (its length
\* tells how long before now it began), a fresh session starts, and the batch
\* pass over the segment blocks the loop.
EndSegment(f, s) ==
    /\ vad.latched /\ ~VadStep(f).latched
    /\ leadIn' = Push(leadIn, f, LeadInCap)
    /\ tracker' = OnSos(tracker)
    /\ pend' = [id |-> tracker.nextSeg, pcm |-> s.pcm, gap |-> sinceEnd - s.pcm]
    /\ sess' = FreshSession
    /\ busy' = 0
    /\ pc' = "batch"
    /\ UNCHANGED frag

HasFrame == ring # <<>> \/ (Ready /\ FeedDue /\ canFeed)

\* A frame of the ring, or the tick's frame of synthetic silence.
TakeFrame ==
    LET real == ring # <<>>
        f == IF real THEN Head(ring) ELSE "quiet"
        s == IF pc = "parked" THEN sess ELSE Watched
    IN  /\ Ready \/ pc = "parked"
        /\ HasFrame
        /\ ring' = IF real THEN Tail(ring) ELSE ring
        /\ emptyFor' = IF real THEN Never ELSE emptyFor
        /\ canFeed' = (canFeed /\ real)
        /\ vad' = VadStep(f)
        /\ \/ SkipFrame(f, s)
           \/ FeedSession(f, s)
           \/ EndSegment(f, s)
        /\ wake' = Never
        /\ UNCHANGED <<active, store, nextClip, settled, sinceEnd, feed, history>>

-----------------------------------------------------------------------------
(* The consumer: the end-of-speech arm after the batch pass. *)

\* Neither recognizer made a text of it.
DropNoise ==
    /\ pc = "batch"
    /\ tracker' = DropActive(tracker)
    /\ pend' = NoSegment
    /\ pc' = "loop"
    /\ UNCHANGED <<ring, active, vad, leadIn, sess, store, nextClip, settled,
                   clocks, feed, frag, history>>

\* The segment is recorded; a big gap settles the previous window first.
KeepSegment ==
    LET splits == GapSettles(tracker, pend.gap)
    IN  /\ pc = "batch" /\ pend.pcm > 0
        /\ store' = Insert(store, nextClip, pend.pcm)
        /\ nextClip' = nextClip + 1
        /\ tracker' = OnEos(tracker, [id |-> pend.id, clip |-> nextClip, gap |-> pend.gap])
        /\ settled' = IF splits THEN tracker.open ELSE NoWindow
        /\ sinceEnd' = busy
        /\ busy' = 0
        /\ pc' = IF splits THEN "edge" ELSE "emit"
        /\ UNCHANGED <<ring, active, vad, leadIn, sess, pend, wake, emptyFor,
                       canFeed, feed, frag, history>>

Ids(segs) == [i \in DOMAIN segs |-> segs[i].id]
Clips(segs) == {segs[i].clip : i \in DOMAIN segs}

\* emit_window_edge, called by either way of settling.
EmitEdge ==
    /\ pc = "edge"
    /\ feed' = [win |-> settled.id, segs |-> Ids(settled.segs), closed |-> TRUE]
    /\ store' = Evict(store, Clips(settled.segs))
    /\ settled' = NoWindow
    /\ busy' = 0
    /\ IF pend # NoSegment
          THEN pc' = "emit" /\ UNCHANGED sess
          ELSE pc' = "watch" /\ sess' = FreshSession
    /\ UNCHANGED <<ring, active, vad, leadIn, tracker, nextClip, pend, wake,
                   emptyFor, canFeed, sinceEnd, frag, history>>

\* Batch, with all the segments of the window so far.
EmitBatch ==
    /\ pc = "emit"
    /\ feed' = [win |-> tracker.open.id, segs |-> Ids(tracker.open.segs), closed |-> FALSE]
    /\ pend' = NoSegment
    /\ pc' = "loop"
    /\ UNCHANGED <<ring, active, vad, leadIn, sess, tracker, store, nextClip,
                   settled, clocks, frag, history>>

-----------------------------------------------------------------------------
Consumer ==
    \/ PausedPark \/ PausedDrop \/ SettleByTimeout \/ Park \/ Timeout
    \/ TakeFrame \/ DropNoise \/ KeepSegment \/ EmitEdge \/ EmitBatch

Next == Capture \/ NoCapture \/ Toggle \/ Consumer

Spec == Init /\ [][Next]_vars

\* The consumer thread runs and time passes; nothing is assumed of the source.
FairSpec == Spec /\ WF_vars(Consumer) /\ WF_vars(NoCapture)

\* The source may stall, but never for good.
LiveSourceSpec == FairSpec /\ SF_vars(Capture)

-----------------------------------------------------------------------------
(* Properties. *)

Clock == 0..Horizon
Segment == [id : Nat, clip : Nat, gap : Int]
Window == [id : Nat, segs : Seq(Segment), active : BOOLEAN]
Tracker == [nextSeg : Nat \ {0}, nextWin : Nat \ {0}, open : Window]

\* Every variable has its type, and the ring and the lead-in their bound
\* (buffer.rs push, recognizer.rs LEAD_IN_FRAMES).
TypeOK ==
    /\ ring \in Seq(Frame) /\ Len(ring) <= RingCap
    /\ leadIn \in Seq(Frame) /\ Len(leadIn) <= LeadInCap
    /\ active \in BOOLEAN
    /\ vad \in [latched : BOOLEAN, run : Nat]
    /\ sess \in [pcm : Nat, beat : Nat, partial : BOOLEAN, age : Clock]
    /\ tracker \in Tracker
    /\ DOMAIN store \subseteq 0..(nextClip - 1) /\ nextClip \in Nat
    /\ pend \in [id : Nat, pcm : Nat, gap : Int]
    /\ settled \in Window
    /\ pc \in {"loop", "watch", "parked", "paused", "batch", "edge", "emit"}
    /\ wake \in Clock \cup {Never} /\ emptyFor \in Clock \cup {Never}
    /\ canFeed \in BOOLEAN
    /\ sinceEnd \in Clock /\ busy \in 0..BatchMax
    /\ feed \in Feed!FeedEvent
    /\ frag \in [win : Nat, seg : Nat]
    /\ heard \in Nat /\ toggles \in 0..MaxToggles

\* The Batch and WindowEdge events are a well-formed feed: whatever was split,
\* dropped as noise, closed by a gap or closed by a timeout, downstream sees one
\* window at a time, growing by one segment, closed once with exactly the
\* segments announced (Stage1Event in lib.rs, on_eos and emit_window_edge).
KeepsFeed == Feed!FeedSpec

ClipsInUse == Clips(tracker.open.segs) \cup Clips(settled.segs)

\* Every clip the store holds belongs to the open window or to the one whose
\* edge is being made: the evictions of emit_window_edge leave nothing behind,
\* noise segments included.
NoClipLeaks == DOMAIN store \subseteq ClipsInUse

\* Outside an utterance the session is empty, so a segment's audio and partial
\* text are its own: no residue of earlier audio is left for whatever segment
\* closes next (comment on STALE_SESSION_RESET, and the gate on detected()).
NoResidue == sess.partial \/ sess.pcm > 0 => vad.latched

\* While a live partial shows, the segment id it was labelled with is the one
\* the segment will get at its end, although the id is only allocated then
\* (prospective, on_sos).
FragmentNamesItsSegment == sess.partial => frag.seg = tracker.nextSeg

\* A window that has a segment is closed in the end, unless the recognizer
\* stays paused (check_settle: "this is how the TRAILING window finalizes").
TrailingWindowSettles ==
    \A w \in 1..(VoiceBudget + 1) :
       (tracker.open.id = w /\ tracker.open.segs # <<>>)
          ~> (tracker.open.id # w \/ pc = "paused")
=============================================================================
