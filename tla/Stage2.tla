------------------------------- MODULE Stage2 --------------------------------
(***************************************************************************)
(* The second stage of the speech pipeline (aura-core pipeline.rs, with    *)
(* the window state of calibrator.rs and the record_final of hub.rs): the  *)
(* front end sends Batch and WindowEdge events down a channel, and one     *)
(* worker thread calibrates the window after each Batch, and at its edge   *)
(* records and announces it with the text it already has.                  *)
(*                                                                         *)
(* The front end is WindowFeed.tla, which Recognizer.tla implements; `feed'*)
(* is the last event it sent.  A text is abstracted to what it was made    *)
(* from: which segments of which window, and by whom.  Live fragments      *)
(* bypass the worker and touch nothing here.                               *)
(***************************************************************************)
EXTENDS WindowFeed

CONSTANTS
    RecentCap,      \* recent_cap: turns kept for GET /results
    ChannelBound,   \* bound: events in the (unbounded) channel
    SegBound        \* bound: segment and window ids

ASSUME Stage2Assumption ==
    RecentCap \in Nat \ {0} /\ ChannelBound \in Nat /\ SegBound \in Nat

VARIABLES
    channel,    \* mpsc channel, oldest first
    pc,         \* what the worker is doing
    job,        \* the event in its hands
    current,    \* Stage2CalibratorImpl.current: the window's last calibration
    final,      \* the text finalize_window returned
    out,        \* the last SegmentCalibration or WindowCalibration announced
    recent,     \* Storage.recent
    archived,   \* windows whose audio went to the archive
    logged      \* windows appended to the day log

worker == <<pc, job, current, final, out, recent, archived, logged>>
vars == <<feed, channel, worker>>

NoText == [win |-> 0, segs |-> <<>>, by |-> "none"]

\* The joint calibration of the segments; a failed LLM call gives the raw text.
Author == {"llm", "raw"}

Text == [win : Nat, segs : Seq(Nat), by : {"none", "llm", "raw", "best_text"}]

Init ==
    /\ feed = NoFeed
    /\ channel = <<>>
    /\ pc = "idle"
    /\ job = NoFeed
    /\ current = NoText /\ final = NoText
    /\ out = NoFeed
    /\ recent = <<>>
    /\ archived = {} /\ logged = {}

\* tx.send on the front end's thread: it never waits for the worker.
Send(e) ==
    /\ Len(channel) < ChannelBound
    /\ Follows(feed, e)
    /\ feed' = e
    /\ channel' = Append(channel, e)
    /\ UNCHANGED worker

SendBatch ==
    \E w, i \in 1..SegBound, earlier \in {<<>>, feed.segs} :
        Send([win |-> w, segs |-> Append(earlier, i), closed |-> FALSE])

SendEdge == Send(Closed(feed))

Receive ==
    /\ pc = "idle" /\ channel # <<>>
    /\ job' = Head(channel)
    /\ channel' = Tail(channel)
    /\ UNCHANGED <<feed, out, recent, archived, logged>>

\* Batch: the worker is in calibrate_window until the LLM answers.
ReceiveBatch ==
    /\ Receive /\ ~Head(channel).closed
    /\ pc' = "calibrate"
    /\ UNCHANGED <<current, final>>

CalibrateQuietly ==
    /\ pc = "calibrate"
    /\ \E by \in Author :
          /\ current' = [win |-> job.win, segs |-> job.segs, by |-> by]
          /\ out' = IF by = "raw" THEN out ELSE job
    /\ pc' = "idle"
    /\ UNCHANGED <<feed, channel, job, final, recent, archived, logged>>

CalibrateForgets ==
    /\ pc = "calibrate"
    /\ \E by \in Author :
          current' = IF by = "raw" THEN current
                     ELSE [win |-> job.win, segs |-> job.segs, by |-> by]
    /\ out' = job
    /\ pc' = "idle"
    /\ UNCHANGED <<feed, channel, job, final, recent, archived, logged>>

\* The answer, or the raw text if the call failed, replaces the window's stored
\* calibration and is announced as SegmentCalibration.
Calibrate ==
    /\ pc = "calibrate"
    /\ \E by \in Author :
          current' = [win |-> job.win, segs |-> job.segs, by |-> by]
    /\ out' = job
    /\ pc' = "idle"
    /\ UNCHANGED <<feed, channel, job, final, recent, archived, logged>>

\* finalize_window: take the stored calibration; without one for this window,
\* fall back to the best text of the window.
Finalize(e) ==
    IF current # NoText /\ current.win = e.win
      THEN current
      ELSE [win |-> e.win, segs |-> e.segs, by |-> "best_text"]

\* WindowEdge.
ReceiveEdge ==
    /\ Receive /\ Head(channel).closed
    /\ final' = Finalize(Head(channel))
    /\ current' = NoText
    /\ pc' = "archive"

\* record_final, first half: the audio goes to the archive.
Archive ==
    /\ pc = "archive"
    /\ archived' = archived \cup {job.win}
    /\ pc' = "log"
    /\ UNCHANGED <<feed, channel, job, current, final, out, recent, logged>>

RecordWhenLogged ==
    /\ pc = "log"
    /\ \/ /\ logged' = logged \cup {job.win}
          /\ recent' = Append(IF Len(recent) >= RecentCap THEN Tail(recent) ELSE recent,
                              job.win)
       \/ UNCHANGED <<logged, recent>>
    /\ pc' = "announce"
    /\ UNCHANGED <<feed, channel, job, current, final, out, archived>>

\* record_final, second half: the day log, whose failure is only warned about,
\* and the ring of recent turns.
Record ==
    /\ pc = "log"
    /\ logged' \in {logged, logged \cup {job.win}}
    /\ recent' = Append(IF Len(recent) >= RecentCap THEN Tail(recent) ELSE recent,
                        job.win)
    /\ pc' = "announce"
    /\ UNCHANGED <<feed, channel, job, current, final, out, archived>>

AnnounceChanges ==
    /\ pc = "announce"
    /\ out' = IF final.by = "raw" THEN out ELSE job
    /\ final' = NoText
    /\ pc' = "idle"
    /\ UNCHANGED <<feed, channel, job, current, recent, archived, logged>>

\* WindowCalibration.
Announce ==
    /\ pc = "announce"
    /\ out' = job
    /\ final' = NoText
    /\ pc' = "idle"
    /\ UNCHANGED <<feed, channel, job, current, recent, archived, logged>>

Worker ==
    \/ ReceiveBatch \/ Calibrate
    \/ ReceiveEdge \/ Archive \/ Record \/ Announce

Next == SendBatch \/ SendEdge \/ Worker

Spec == Init /\ [][Next]_vars

\* The worker thread runs, and an LLM call ends (the blocking client of HttpLlm
\* gives up after its default timeout).
FairSpec == Spec /\ WF_vars(Worker)

-----------------------------------------------------------------------------
(* Properties. *)

\* Every variable has its type; the ring of recent turns has its bound.
TypeOK ==
    /\ feed \in FeedEvent /\ job \in FeedEvent /\ out \in FeedEvent
    /\ channel \in Seq(FeedEvent)
    /\ pc \in {"idle", "calibrate", "archive", "log", "announce"}
    /\ current \in Text /\ final \in Text
    /\ recent \in Seq(Nat) /\ Len(recent) <= RecentCap
    /\ archived \subseteq Nat /\ logged \subseteq Nat

\* A window is recorded and announced with the calibration of exactly its own
\* segments, all of them, and the fallback is never taken, however far the
\* worker lags behind and however often the LLM fails (finalize_window).
FinalCoversWindow ==
    pc \in {"archive", "log", "announce"} =>
        final.by \in Author /\ final.win = job.win /\ final.segs = job.segs

\* What clients are told is again a well-formed feed: no provisional text of a
\* window after its final one, no window skipped over or announced twice
\* (run: "Stage2's tiny window state can never desync").
Out == INSTANCE WindowFeed WITH feed <- out
AnnouncesFeed == Out!FeedSpec

\* Nobody hears of a final text before its audio and its turn can be fetched.
AnnouncedIsRecorded ==
    out.closed /\ out # NoFeed =>
        out.win \in archived /\ \E i \in DOMAIN recent : recent[i] = out.win

\* Every window the front end closes is announced in the end.
ClosedIsAnnounced ==
    \A w \in 1..SegBound :
        (feed.win = w /\ feed.closed) ~> (out.win = w /\ out.closed)
=============================================================================
