---------------------------- MODULE Stage2Proofs -----------------------------
(***************************************************************************)
(* Proofs about what becomes of a window behind the recognizer: about      *)
(* Stage2.tla, for every channel length, ring size and bound, and about    *)
(* AuraClients.tla, that its final text reaches the voice commands, for    *)
(* every capacity of the wire and any number of windows, segments and      *)
(* faults.                                                                 *)
(*                                                                         *)
(* The argument about the worker is that of a delay line: what was         *)
(* announced last, the event the worker holds and the events in the        *)
(* channel form one chain in which each event follows the one before,      *)
(* ending in the event sent last.  Hence what the worker receives follows  *)
(* what it announced, so a WindowEdge always meets the calibration of its  *)
(* own window.                                                             *)
(***************************************************************************)
EXTENDS Stage2, AuraClients, SequenceTheorems, TLAPS

\* The last event in the chain that is no longer in the channel.
Latest == IF pc = "idle" THEN out ELSE job

ChannelOK ==
    /\ channel = <<>> => feed = Latest
    /\ channel # <<>> => /\ Follows(Latest, channel[1])
                         /\ channel[Len(channel)] = feed
    /\ \A i \in 1..(Len(channel) - 1) : Follows(channel[i], channel[i + 1])

Recording == {"archive", "log", "announce"}

JobOK ==
    /\ pc # "idle" => Follows(out, job)
    /\ pc = "calibrate" => ~job.closed
    /\ pc \in Recording => job.closed

\* While the last announcement is provisional, its text is the one stored.
StoredOK ==
    pc \in {"idle", "calibrate"} /\ ~out.closed =>
        current.by \in Author /\ current.win = out.win /\ current.segs = out.segs

InRecent(w) == \E i \in DOMAIN recent : recent[i] = w

RecordedOK ==
    /\ pc \in {"log", "announce"} => job.win \in archived
    /\ pc = "announce" => InRecent(job.win)

IInv ==
    /\ TypeOK
    /\ ChannelOK
    /\ JobOK
    /\ StoredOK
    /\ FinalCoversWindow
    /\ RecordedOK
    /\ AnnouncedIsRecorded

\* A WindowEdge repeats the window and the segments of the event before it.
LEMMA EdgeRepeats ==
    ASSUME NEW f \in FeedEvent, NEW g \in FeedEvent, Follows(f, g), g.closed
    PROVE  ~f.closed /\ g.win = f.win /\ g.segs = f.segs
  BY DEF Follows, Opens, Extends, Closes, Closed, FeedEvent

\* Taking the oldest event shortens the chain at its head and nothing else.
LEMMA ReceiveKeepsChannel ==
    ASSUME IInv, Receive, pc' # "idle"
    PROVE  ChannelOK' /\ Follows(out', job')
  <1>1. channel \in Seq(FeedEvent) /\ channel # <<>> /\ Len(channel) \in Nat \ {0}
        /\ Head(channel) = channel[1]
    BY DEF IInv, TypeOK, Receive
  <1>2. Latest = out /\ Latest' = channel[1]
    BY <1>1 DEF Latest, Receive
  <1>3. Len(channel') = Len(channel) - 1
        /\ \A i \in 1..(Len(channel) - 1) : channel'[i] = channel[i + 1]
    BY <1>1 DEF Receive
  <1>4. Follows(out', job')
    BY <1>1, <1>2 DEF IInv, ChannelOK, Receive
  <1>5. \A i \in 1..(Len(channel') - 1) : Follows(channel'[i], channel'[i + 1])
    BY <1>1, <1>3 DEF IInv, ChannelOK
  <1>6. CASE Len(channel) = 1
    <2>1. channel' = <<>>
      BY <1>1, <1>3, <1>6 DEF Receive
    <2>2. feed' = Latest'
      BY <1>1, <1>2, <1>6 DEF IInv, ChannelOK, Receive
    <2> QED
      BY <2>1, <2>2, <1>4, <1>5 DEF ChannelOK
  <1>7. CASE Len(channel) # 1
    <2>1. Len(channel') \in Nat \ {0}
      BY <1>1, <1>3, <1>7
    <2>. channel' # <<>>
      BY <2>1
    <2>2. Follows(Latest', channel'[1])
      BY <1>1, <1>2, <1>3, <1>7 DEF IInv, ChannelOK
    <2>3. channel'[Len(channel')] = feed'
      BY <1>1, <1>3, <1>7 DEF IInv, ChannelOK, Receive
    <2> QED
      BY <2>1, <2>2, <2>3, <1>4, <1>5 DEF ChannelOK
  <1> QED
    BY <1>6, <1>7

\* Sending lengthens it at its tail.
LEMMA SendKeepsChannel ==
    ASSUME IInv, NEW e \in FeedEvent, Send(e)
    PROVE  ChannelOK'
  <1>1. channel \in Seq(FeedEvent) /\ Len(channel) \in Nat
    BY DEF IInv, TypeOK
  <1>2. /\ Len(channel') = Len(channel) + 1
        /\ \A i \in 1..Len(channel) : channel'[i] = channel[i]
        /\ channel'[Len(channel) + 1] = e
        /\ channel' # <<>>
    BY <1>1 DEF Send
  <1>3. Latest' = Latest /\ feed' = e /\ Follows(feed, e)
    BY DEF Latest, Send, worker
  <1>4. CASE channel = <<>>
    BY <1>1, <1>2, <1>3, <1>4 DEF IInv, ChannelOK
  <1>5. CASE channel # <<>>
    <2>1. Len(channel) \in Nat \ {0}
      BY <1>1, <1>5
    <2>2. Follows(Latest', channel'[1])
      BY <2>1, <1>2, <1>3, <1>5 DEF IInv, ChannelOK
    <2>3. channel'[Len(channel')] = feed'
      BY <1>1, <1>2, <1>3
    <2>4. ASSUME NEW i \in 1..(Len(channel') - 1)
          PROVE  Follows(channel'[i], channel'[i + 1])
      <3>1. CASE i < Len(channel)
        BY <3>1, <2>1, <1>2, <1>5 DEF IInv, ChannelOK
      <3>2. CASE i = Len(channel)
        BY <3>2, <2>1, <1>2, <1>3, <1>5 DEF IInv, ChannelOK
      <3> QED
        BY <3>1, <3>2, <1>1, <1>2
    <2> QED
      BY <2>2, <2>3, <2>4, <1>2 DEF ChannelOK
  <1> QED
    BY <1>4, <1>5

\* What is sent is an event.
LEMMA SendsEvents ==
    ASSUME TypeOK, SendBatch \/ SendEdge
    PROVE  \E e \in FeedEvent : Send(e)
  <1>1. CASE SendBatch
    <2>1. PICK w \in 1..SegBound, i \in 1..SegBound, earlier \in {<<>>, feed.segs} :
              Send([win |-> w, segs |-> Append(earlier, i), closed |-> FALSE])
      BY <1>1 DEF SendBatch
    <2>2. w \in Nat /\ i \in Nat
      BY Stage2Assumption
    <2>3. <<>> \in Seq(Nat) /\ feed.segs \in Seq(Nat)
      BY DEF TypeOK, FeedEvent
    <2>4. earlier \in Seq(Nat)
      BY <2>3
    <2>5. [win |-> w, segs |-> Append(earlier, i), closed |-> FALSE] \in FeedEvent
      BY <2>2, <2>4 DEF FeedEvent
    <2> QED
      BY <2>1, <2>5
  <1>2. CASE SendEdge
    <2>1. Closed(feed) \in FeedEvent
      BY DEF TypeOK, FeedEvent, Closed
    <2> QED
      BY <1>2, <2>1 DEF SendEdge
  <1> QED
    BY <1>1, <1>2

LEMMA InitEstablishes == Init => IInv
  <1> SUFFICES ASSUME Init PROVE IInv
    OBVIOUS
  <1>1. NoFeed \in FeedEvent /\ NoFeed.closed
    BY DEF NoFeed, FeedEvent
  <1>2. NoText \in Text
    BY DEF NoText, Text
  <1>3. TypeOK
    BY <1>1, <1>2, Stage2Assumption DEF Init, TypeOK
  <1>4. ChannelOK
    BY DEF Init, ChannelOK, Latest
  <1>5. JobOK /\ StoredOK /\ FinalCoversWindow /\ RecordedOK /\ AnnouncedIsRecorded
    BY <1>1 DEF Init, JobOK, StoredOK, FinalCoversWindow, RecordedOK,
                AnnouncedIsRecorded, Recording
  <1> QED
    BY <1>3, <1>4, <1>5 DEF IInv

\* A step of the worker that neither sends nor receives leaves the channel OK
\* if it hands the job over to `out' when it becomes idle.
LEMMA WorkKeepsChannel ==
    ASSUME IInv, UNCHANGED <<feed, channel, job>>, pc # "idle",
           pc' = "idle" => out' = job
    PROVE  ChannelOK'
  <1>1. Latest' = Latest
    BY DEF Latest
  <1> QED
    BY <1>1 DEF IInv, ChannelOK

LEMMA SendPreserves ==
    ASSUME IInv, NEW e \in FeedEvent, Send(e)
    PROVE  IInv'
  <1>2. ChannelOK'
    BY SendKeepsChannel
  <1>3. TypeOK'
    BY DEF IInv, TypeOK, Send, worker
  <1>4. (JobOK /\ StoredOK /\ FinalCoversWindow /\ RecordedOK /\ AnnouncedIsRecorded)'
    BY DEF IInv, JobOK, StoredOK, FinalCoversWindow, RecordedOK, InRecent,
           AnnouncedIsRecorded, Send, worker
  <1> QED
    BY <1>2, <1>3, <1>4 DEF IInv

LEMMA ReceiveBatchPreserves ==
    ASSUME IInv, ReceiveBatch
    PROVE  IInv'
  <1>1. Receive /\ pc' = "calibrate" /\ ~job'.closed
    BY DEF ReceiveBatch, Receive
  <1>2. ChannelOK' /\ Follows(out', job')
    BY <1>1, ReceiveKeepsChannel
  <1>3. Head(channel) \in FeedEvent /\ Tail(channel) \in Seq(FeedEvent)
    BY <1>1 DEF IInv, TypeOK, Receive
  <1>4. TypeOK'
    BY <1>3 DEF IInv, TypeOK, Receive, ReceiveBatch
  <1>5. (JobOK /\ StoredOK /\ FinalCoversWindow /\ RecordedOK /\ AnnouncedIsRecorded)'
    BY <1>1, <1>2 DEF IInv, JobOK, StoredOK, FinalCoversWindow, RecordedOK,
           AnnouncedIsRecorded, Receive, ReceiveBatch, Recording
  <1> QED
    BY <1>2, <1>4, <1>5 DEF IInv

LEMMA CalibratePreserves ==
    ASSUME IInv, Calibrate
    PROVE  IInv'
  <1>1. ChannelOK'
    BY WorkKeepsChannel DEF Calibrate
  <1>2. job \in FeedEvent /\ job.win \in Nat /\ job.segs \in Seq(Nat) /\ ~job.closed
    BY DEF IInv, TypeOK, JobOK, FeedEvent, Calibrate
  <1>3. current' \in Text /\ current'.by \in Author
        /\ current'.win = job.win /\ current'.segs = job.segs
    BY <1>2 DEF Calibrate, Text, Author
  <1>4. TypeOK'
    BY <1>2, <1>3 DEF IInv, TypeOK, Calibrate
  <1>5. (JobOK /\ StoredOK /\ FinalCoversWindow /\ RecordedOK /\ AnnouncedIsRecorded)'
    BY <1>2, <1>3 DEF IInv, JobOK, StoredOK, FinalCoversWindow, RecordedOK,
           AnnouncedIsRecorded, Calibrate, Recording
  <1> QED
    BY <1>1, <1>4, <1>5 DEF IInv

\* The heart of the matter: the edge the worker receives closes the window it
\* announced last, whose calibration is stored.
LEMMA EdgeFindsItsText ==
    ASSUME IInv, ReceiveEdge
    PROVE  final'.by \in Author /\ final'.win = job'.win /\ final'.segs = job'.segs
  <1>1. Receive /\ pc' = "archive" /\ job'.closed /\ job' = Head(channel)
        /\ final' = Finalize(job') /\ pc = "idle" /\ out' = out
    BY DEF ReceiveEdge, Receive
  <1>2. Follows(out, job')
    BY <1>1, ReceiveKeepsChannel
  <1>3. out \in FeedEvent /\ job' \in FeedEvent
    BY <1>1 DEF IInv, TypeOK, Receive
  <1>4. ~out.closed /\ job'.win = out.win /\ job'.segs = out.segs
    BY <1>1, <1>2, <1>3, EdgeRepeats
  <1>5. current.by \in Author /\ current.win = job'.win /\ current.segs = job'.segs
    BY <1>1, <1>4 DEF IInv, StoredOK
  <1>6. current # NoText
    BY <1>5 DEF NoText, Author
  <1> QED
    BY <1>1, <1>5, <1>6 DEF Finalize

LEMMA ReceiveEdgePreserves ==
    ASSUME IInv, ReceiveEdge
    PROVE  IInv'
  <1>1. Receive /\ pc' = "archive" /\ job'.closed /\ job' = Head(channel)
        /\ final' = Finalize(job') /\ current' = NoText
    BY DEF ReceiveEdge, Receive
  <1>2. ChannelOK' /\ Follows(out', job')
    BY <1>1, ReceiveKeepsChannel
  <1>3. job' \in FeedEvent /\ Tail(channel) \in Seq(FeedEvent)
    BY <1>1 DEF IInv, TypeOK, Receive
  <1>4. FinalCoversWindow'
    BY EdgeFindsItsText DEF FinalCoversWindow
  <1>5. NoText \in Text
    BY DEF NoText, Text
  <1>6. final' \in Text
    BY <1>1, <1>3 DEF Finalize, Text, FeedEvent, IInv, TypeOK
  <1>7. TypeOK'
    BY <1>1, <1>3, <1>5, <1>6 DEF IInv, TypeOK, Receive
  <1>8. (JobOK /\ StoredOK /\ RecordedOK /\ AnnouncedIsRecorded)'
    BY <1>1, <1>2 DEF IInv, JobOK, StoredOK, RecordedOK,
           AnnouncedIsRecorded, Receive, Recording
  <1> QED
    BY <1>2, <1>4, <1>7, <1>8 DEF IInv

\* Until it is announced, the window being recorded is not the one announced
\* last, which is still provisional.
LEMMA OutIsProvisional ==
    ASSUME IInv, pc \in Recording PROVE ~out.closed
  <1>1. Follows(out, job) /\ job.closed /\ out \in FeedEvent /\ job \in FeedEvent
    BY DEF IInv, TypeOK, JobOK, Recording
  <1> QED
    BY <1>1, EdgeRepeats

LEMMA ArchivePreserves ==
    ASSUME IInv, Archive
    PROVE  IInv'
  <1>1. ChannelOK'
    BY WorkKeepsChannel DEF Archive
  <1>2. job.win \in Nat
    BY DEF IInv, TypeOK, FeedEvent
  <1>3. TypeOK'
    BY <1>2 DEF IInv, TypeOK, Archive
  <1>4. (JobOK /\ StoredOK /\ FinalCoversWindow /\ RecordedOK /\ AnnouncedIsRecorded)'
    BY DEF IInv, JobOK, StoredOK, FinalCoversWindow, RecordedOK,
           AnnouncedIsRecorded, Archive, Recording
  <1> QED
    BY <1>1, <1>3, <1>4 DEF IInv

\* The ring of recent turns takes the new one and keeps its bound.
LEMMA RingTakes ==
    ASSUME TypeOK, NEW w \in Nat,
           NEW r, r = Append(IF Len(recent) >= RecentCap THEN Tail(recent) ELSE recent, w)
    PROVE  r \in Seq(Nat) /\ Len(r) <= RecentCap /\ \E i \in DOMAIN r : r[i] = w
  <1>1. recent \in Seq(Nat) /\ Len(recent) \in Nat /\ Len(recent) <= RecentCap
        /\ RecentCap \in Nat \ {0}
    BY Stage2Assumption DEF TypeOK
  <1> DEFINE kept == IF Len(recent) >= RecentCap THEN Tail(recent) ELSE recent
  <1>2. kept \in Seq(Nat) /\ Len(kept) \in Nat /\ Len(kept) < RecentCap
    <2>1. CASE Len(recent) >= RecentCap
      <3>1. recent # <<>>
        BY <2>1, <1>1
      <3>2. Tail(recent) \in Seq(Nat) /\ Len(Tail(recent)) = Len(recent) - 1
        BY <3>1, <1>1
      <3> QED
        BY <3>2, <2>1, <1>1
    <2>2. CASE ~(Len(recent) >= RecentCap)
      BY <2>2, <1>1
    <2> QED
      BY <2>1, <2>2
  <1> HIDE DEF kept
  <1>3. r = Append(kept, w)
    BY DEF kept
  <1>4. ASSUME NEW k \in Seq(Nat)
        PROVE  /\ Append(k, w) \in Seq(Nat)
               /\ Len(Append(k, w)) = Len(k) + 1
               /\ Append(k, w)[Len(k) + 1] = w
    OBVIOUS
  <1>5. Len(r) = Len(kept) + 1 /\ r[Len(kept) + 1] = w /\ r \in Seq(Nat)
    BY <1>2, <1>3, <1>4, Zenon
  <1>6. Len(kept) + 1 \in DOMAIN r /\ Len(r) <= RecentCap
    BY <1>1, <1>2, <1>5
  <1> QED
    BY <1>5, <1>6

LEMMA RecordPreserves ==
    ASSUME IInv, Record
    PROVE  IInv'
  <1>1. ChannelOK'
    BY WorkKeepsChannel DEF Record
  <1>2. job.win \in Nat /\ TypeOK
    BY DEF IInv, TypeOK, FeedEvent
  <1>3. recent' \in Seq(Nat) /\ Len(recent') <= RecentCap /\ InRecent(job.win)'
    BY <1>2, RingTakes DEF Record, InRecent
  <1>4. TypeOK'
    BY <1>2, <1>3 DEF TypeOK, Record
  <1>5. ~out.closed /\ out' = out
    BY OutIsProvisional DEF Record, Recording
  <1>6. (JobOK /\ StoredOK /\ FinalCoversWindow /\ RecordedOK /\ AnnouncedIsRecorded)'
    BY <1>3, <1>5 DEF IInv, JobOK, StoredOK, FinalCoversWindow, RecordedOK,
           InRecent, AnnouncedIsRecorded, Record, Recording
  <1> QED
    BY <1>1, <1>4, <1>6 DEF IInv

LEMMA AnnouncePreserves ==
    ASSUME IInv, Announce
    PROVE  IInv'
  <1>1. ChannelOK'
    BY WorkKeepsChannel DEF Announce
  <1>2. NoText \in Text /\ job.closed
    BY DEF NoText, Text, IInv, JobOK, Recording, Announce
  <1>3. TypeOK'
    BY <1>2 DEF IInv, TypeOK, Announce
  <1>4. (JobOK /\ StoredOK /\ FinalCoversWindow /\ RecordedOK /\ AnnouncedIsRecorded)'
    BY <1>2 DEF IInv, JobOK, StoredOK, FinalCoversWindow, RecordedOK, InRecent,
           AnnouncedIsRecorded, Announce, Recording
  <1> QED
    BY <1>1, <1>3, <1>4 DEF IInv

LEMMA StutterPreserves ==
    ASSUME IInv, UNCHANGED vars PROVE IInv'
  BY DEF IInv, TypeOK, ChannelOK, Latest, JobOK, StoredOK, FinalCoversWindow,
         RecordedOK, InRecent, AnnouncedIsRecorded, vars, worker

LEMMA NextPreserves == IInv /\ [Next]_vars => IInv'
  <1> SUFFICES ASSUME IInv, [Next]_vars PROVE IInv'
    OBVIOUS
  <1>1. CASE SendBatch \/ SendEdge
    <2>1. \E e \in FeedEvent : Send(e)
      BY <1>1, SendsEvents DEF IInv
    <2> QED
      BY <2>1, SendPreserves
  <1>2. CASE Worker
    BY <1>2, ReceiveBatchPreserves, CalibratePreserves, ReceiveEdgePreserves,
       ArchivePreserves, RecordPreserves, AnnouncePreserves DEF Worker
  <1>3. CASE UNCHANGED vars
    BY <1>3, StutterPreserves
  <1> QED
    BY <1>1, <1>2, <1>3 DEF Next

\* The inductive invariant holds in every behaviour.
THEOREM Invariance == Spec => []IInv
  BY InitEstablishes, NextPreserves, PTL DEF Spec

\* Every variable of the second stage keeps its type, and the ring of recent
\* turns its bound (Storage.recent_cap).
THEOREM TypeCorrect == Spec => []TypeOK
  <1>1. IInv => TypeOK
    BY DEF IInv
  <1> QED
    BY <1>1, Invariance, PTL

\* finalize_window always finds the joint calibration of exactly the window's
\* segments; its fallback branch cannot be reached.
THEOREM FinalText == Spec => []FinalCoversWindow
  <1>1. IInv => FinalCoversWindow
    BY DEF IInv
  <1> QED
    BY <1>1, Invariance, PTL

\* A final text is announced only after record_final has stored its audio and
\* its turn, and while the turn is still in the ring.
THEOREM RecordedFirst == Spec => []AnnouncedIsRecorded
  <1>1. IInv => AnnouncedIsRecorded
    BY DEF IInv
  <1> QED
    BY <1>1, Invariance, PTL

\* The worker passes the feed's promise on: what it announces is again a feed.
LEMMA StepAnnouncesFeed ==
    ASSUME IInv, [Next]_vars
    PROVE  [Follows(out, out')]_out
  <1>1. CASE Calibrate \/ Announce
    BY <1>1 DEF Calibrate, Announce, IInv, JobOK
  <1>2. CASE ~(Calibrate \/ Announce)
    BY <1>2 DEF Next, Worker, SendBatch, SendEdge, Send, Receive, ReceiveBatch, ReceiveEdge, Archive,
                Record, vars, worker
  <1> QED
    BY <1>1, <1>2

\* Clients see one window at a time, growing, closed once, never spoken of
\* again, whatever the lag between the two threads (pipeline.rs run).
THEOREM AnnouncementsAreAFeed == Spec => AnnouncesFeed
  <1>1. Init => out = NoFeed
    BY DEF Init
  <1> QED
    BY <1>1, StepAnnouncesFeed, Invariance, PTL DEF Spec, AnnouncesFeed, Out!FeedSpec,
       Out!NoFeed, NoFeed, Out!Follows, Follows, Out!Opens, Opens, Out!Extends, Extends,
       Out!Closes, Closes, Out!Closed, Closed, Out!LastSeg, LastSeg

-----------------------------------------------------------------------------
(* The data plane (AuraClients).  The argument follows the final text of the *)
(* last window: from the edge that the worker has yet to take, over the wire,*)
(* to the head of the finals, and at no stage is there anything but partials *)
(* behind it that could take its place.                                      *)


PieceSet == [kind : {"stream", "batch", "draft", "final", "window"}, boot : Nat, id : Nat]
TextSet == Seq(PieceSet)
EventSet == [kind : {"StreamFragment", "BatchSegment", "BatchWindow", "SegmentCalibration",
                     "WindowCalibration"},
             window : Nat, segment : Nat, text : TextSet]
JobSet == [kind : {"Batch", "WindowEdge"}, window : Nat, segment : Nat]
SegmentSet == [id : Nat, stream : TextSet, batch : TextSet]
WindowSet == [closed : BOOLEAN, batch : TextSet, final : TextSet, draft : TextSet,
              segments : Seq(SegmentSet)]

\* Every variable of the data plane has its type, but what is shown.
FeedTypes ==
    /\ boot \in Nat /\ window \in Nat \ {0} /\ segment \in Nat \ {0}
    /\ used \in BOOLEAN /\ listening \in BOOLEAN
    /\ toStage2 \in Seq(JobSet) /\ backlog \in Seq(EventSet)
    /\ live \in TextSet /\ liveWindow \in Nat
    /\ finals \in Seq(TextSet) /\ Len(finals) <= MaxFinals
    /\ DOMAIN windows \subseteq Nat /\ windows \in [DOMAIN windows -> WindowSet]

\* Nothing is on its way of a window that is not yet open; of one that has no
\* segment yet there are only partials.
OnTheWay ==
    /\ \A i \in DOMAIN toStage2 :
         /\ toStage2[i].window <= window
         /\ ~used => toStage2[i].window < window
    /\ \A i \in DOMAIN backlog :
         /\ backlog[i].window <= window
         /\ ~used /\ backlog[i].window = window => backlog[i] = Fragment(window)

\* The open window as the voice state knows it from partials alone.
Heard == [NewWindow EXCEPT !.segments =
              <<[id |-> segment, stream |-> <<Piece("stream", segment)>>, batch |-> <<>>]>>]

\* Before the first restart the voice state knows no window that is yet to open,
\* and of one without a segment at most partials.
HeardOnly ==
    boot = 0 =>
        /\ \A w \in DOMAIN windows : w <= window
        /\ ~used /\ window \in DOMAIN windows => windows[window] = Heard

Edge(w) == [kind |-> "WindowEdge", window |-> w, segment |-> 0]
FinalOf(w) == <<Piece("final", w)>>
FinalEvent(w) == Event("WindowCalibration", w, 0, FinalOf(w))
Partial(i) == backlog[i] = Fragment(window)

\* Where the final of the window before the open one is: the worker has its edge
\* yet to come ...
AtWorker == toStage2 # <<>> /\ toStage2[Len(toStage2)] = Edge(window - 1)

\* ... or it is on the wire, with nothing but partials behind it ...
OnTheWire ==
    /\ toStage2 = <<>>
    /\ \E i \in DOMAIN backlog :
         /\ backlog[i] = FinalEvent(window - 1)
         /\ \A j \in DOMAIN backlog : j > i => Partial(j)

\* ... or it is the newest of the voice state, with nothing but partials to follow.
Received ==
    /\ toStage2 = <<>>
    /\ \A j \in DOMAIN backlog : Partial(j)
    /\ finals # <<>> /\ finals[1] = FinalOf(window - 1)
    /\ \/ live = <<>> /\ liveWindow = 0 /\ preview.calc = FinalOf(window - 1)
       \/ /\ live = <<Piece("stream", segment)>> /\ liveWindow = window
          /\ boot = 0 => preview.plain = live

FinalIsUnderWay ==
    ~used /\ window > 1 /\ window - 1 \notin lossy => AtWorker \/ OnTheWire \/ Received

FeedInv == FeedTypes /\ OnTheWay /\ HeardOnly /\ FinalIsUnderWay


\* A sequence as a function.
LEMMA SeqFacts ==
    ASSUME NEW S, NEW s \in Seq(S)
    PROVE  /\ Len(s) \in Nat /\ DOMAIN s = 1..Len(s) /\ \A i \in 1..Len(s) : s[i] \in S
           /\ s = <<>> <=> Len(s) = 0
  OBVIOUS

\* A piece alone is a text, and so is none.
LEMMA OneText ==
    ASSUME FeedTypes, NEW n \in Nat
    PROVE  /\ <<Piece("stream", n)>> \in TextSet /\ <<Piece("batch", n)>> \in TextSet
           /\ <<Piece("draft", n)>> \in TextSet /\ <<Piece("final", n)>> \in TextSet
           /\ <<Piece("window", n)>> \in TextSet /\ <<>> \in TextSet
<1>1. ASSUME NEW k \in {"stream", "batch", "draft", "final", "window"} PROVE Piece(k, n) \in PieceSet
  BY DEF Piece, PieceSet, FeedTypes
<1>2. \A p \in PieceSet : <<p>> \in Seq(PieceSet)
  OBVIOUS
<1> QED BY <1>1, <1>2 DEF TextSet

\* A partial is an event.
LEMMA FragmentIsEvent ==
    ASSUME FeedTypes, NEW w \in Nat
    PROVE  Fragment(w) \in EventSet /\ <<Fragment(w)>> \in Seq(EventSet)
<1>1. Fragment(w) \in EventSet
  BY OneText DEF Fragment, Event, EventSet, FeedTypes
<1> QED BY <1>1

\* The lesser of two numbers.
LEMMA MinOfTwo ==
    ASSUME NEW a \in Nat, NEW b \in Nat
    PROVE  Min({a, b}) = IF a <= b THEN a ELSE b
  BY DEF Min

\* What is sent goes to the end of what the listener has not read, and the oldest
\* make room; what was lost is remembered.
LEMMA PushShifts ==
    ASSUME FeedTypes, NEW events \in Seq(EventSet), Push(events), listening
    PROVE  LET all == backlog \o events IN
           /\ backlog' \in Seq(EventSet) /\ listening' = listening /\ lossy \subseteq lossy'
           /\ \E over \in Nat :
                /\ Len(all) = Len(backlog') + over
                /\ events # <<>> => over < Len(all)
                /\ \A i \in 1..Len(backlog') : backlog'[i] = all[i + over]
                /\ \A i \in 1..over : i \in 1..Len(all) /\ all[i].window \in lossy'
<1> DEFINE all == backlog \o events
           over == IF Len(all) > Capacity THEN Len(all) - Capacity ELSE 0
           dropped == SubSeq(all, 1, over)
<1>1. /\ all \in Seq(EventSet) /\ Len(all) \in Nat /\ Capacity \in Nat \ {0}
      /\ events # <<>> => Len(all) > 0
  BY FeedAssumption, ConcatProperties, EmptySeq DEF FeedTypes
<1>2. /\ backlog' = SubSeq(all, over + 1, Len(all))
      /\ lossy' = lossy \cup {e.window : e \in ToSet(dropped)}
      /\ listening' = listening
  BY Zenon DEF Push
<1> HIDE DEF all
<1>3. over \in Nat /\ over <= Len(all) /\ (events # <<>> => over < Len(all))
  BY <1>1
<1>4. /\ backlog' \in Seq(EventSet) /\ Len(backlog') = Len(all) - over
      /\ \A i \in 1..Len(backlog') : backlog'[i] = all[i + over]
  <2>1. \A i \in (over + 1)..Len(all) : all[i] \in EventSet
    BY <1>1, <1>3
  <2> HIDE DEF over
  <2> QED BY <1>1, <1>2, <1>3, <2>1, SubSeqProperties
<1>5. ASSUME NEW i \in 1..over PROVE i \in 1..Len(all) /\ all[i].window \in lossy'
  <2>1. \A j \in 1..over : all[j] \in EventSet
    BY <1>1, <1>3
  <2>2. DOMAIN dropped = 1..over /\ dropped[i] = all[i]
    <3> HIDE DEF over
    <3>1. dropped \in Seq(EventSet) /\ Len(dropped) = over /\ dropped[i] = all[i]
      BY <1>3, <2>1, SubSeqProperties
    <3> QED BY <3>1, LenProperties
  <2>3. all[i] \in ToSet(dropped)
    BY <2>2 DEF ToSet
  <2> QED BY <1>2, <1>3, <2>3
<1> HIDE DEF over
<1>6. /\ Len(all) = Len(backlog') + over
      /\ events # <<>> => over < Len(all)
      /\ \A i \in 1..Len(backlog') : backlog'[i] = all[i + over]
      /\ \A i \in 1..over : i \in 1..Len(all) /\ all[i].window \in lossy'
  BY <1>1, <1>3, <1>4, <1>5
<1>7. lossy \subseteq lossy'
  BY <1>2
<1> QED BY <1>2, <1>3, <1>4, <1>6, <1>7 DEF all

\* What is sent while nobody listens is lost, and that is remembered.
LEMMA PushLoses ==
    ASSUME FeedTypes, NEW events \in Seq(EventSet), Push(events), ~listening
    PROVE  /\ backlog' = backlog /\ listening' = listening /\ lossy \subseteq lossy'
           /\ \A i \in DOMAIN events : events[i].window \in lossy'
<1>1. backlog' = backlog /\ listening' = listening
      /\ lossy' = lossy \cup {e.window : e \in ToSet(events)}
  BY Zenon DEF Push
<1> QED BY <1>1 DEF ToSet

\* Whatever is unread after it was unread before or has just been sent.
LEMMA PushAddsOnly ==
    ASSUME FeedTypes, NEW events \in Seq(EventSet), Push(events)
    PROVE  /\ backlog' \in Seq(EventSet) /\ listening' = listening /\ lossy \subseteq lossy'
           /\ \A i \in DOMAIN backlog' :
                \/ \E j \in DOMAIN backlog : backlog'[i] = backlog[j]
                \/ \E j \in DOMAIN events : backlog'[i] = events[j]
<1>1. CASE ~listening
  BY <1>1, PushLoses DEF FeedTypes
<1>2. CASE listening
  <2> DEFINE all == backlog \o events
  <2>1. /\ backlog' \in Seq(EventSet) /\ listening' = listening /\ lossy \subseteq lossy'
    BY <1>2, PushShifts
  <2>2. PICK over \in Nat :
                /\ Len(all) = Len(backlog') + over
                /\ \A i \in 1..Len(backlog') : backlog'[i] = all[i + over]
    BY <1>2, PushShifts
  <2>3. ASSUME NEW i \in DOMAIN backlog'
        PROVE  \/ \E j \in DOMAIN backlog : backlog'[i] = backlog[j]
               \/ \E j \in DOMAIN events : backlog'[i] = events[j]
    <3>1. i \in 1..Len(backlog') /\ Len(backlog') \in Nat
      BY <2>1, SeqFacts
    <3>2. backlog \in Seq(EventSet)
      BY DEF FeedTypes
    <3>3. /\ Len(all) = Len(backlog) + Len(events) /\ Len(backlog) \in Nat /\ Len(events) \in Nat
          /\ all[i + over] = IF i + over <= Len(backlog) THEN backlog[i + over]
                             ELSE events[i + over - Len(backlog)]
      BY <2>2, <3>1, <3>2, ConcatProperties
    <3>4. DOMAIN backlog = 1..Len(backlog) /\ DOMAIN events = 1..Len(events)
      BY <3>2, SeqFacts
    <3>5. CASE i + over <= Len(backlog)
      <4>1. i + over \in DOMAIN backlog
        BY <3>1, <3>4, <3>5
      <4> QED BY <2>2, <3>1, <3>3, <3>5, <4>1
    <3>6. CASE ~(i + over <= Len(backlog))
      <4>1. i + over - Len(backlog) \in DOMAIN events
        BY <2>2, <3>1, <3>3, <3>4, <3>6
      <4> QED BY <2>2, <3>1, <3>3, <3>6, <4>1
    <3> QED BY <3>5, <3>6
  <2> QED BY <2>1, <2>3
<1> QED BY <1>1, <1>2


\* A sequence of one.
LEMMA OneOfSeq ==
    ASSUME NEW S, NEW x \in S
    PROVE  <<x>> \in Seq(S) /\ <<x>> # <<>> /\ Len(<<x>>) = 1 /\ <<x>>[1] = x
  OBVIOUS

\* What the listener has not read are events ...
LEMMA EventsTyped ==
    ASSUME FeedTypes
    PROVE  /\ DOMAIN backlog = 1..Len(backlog) /\ Len(backlog) \in Nat
           /\ \A i \in DOMAIN backlog : backlog[i] \in EventSet /\ backlog[i].window \in Nat
<1>1. backlog \in Seq(EventSet)
  BY DEF FeedTypes
<1>2. \A e \in EventSet : e.window \in Nat
  BY DEF EventSet
<1> QED BY <1>1, <1>2, SeqFacts

\* ... and what the worker has not taken are jobs.
LEMMA JobsTyped ==
    ASSUME FeedTypes
    PROVE  /\ DOMAIN toStage2 = 1..Len(toStage2) /\ Len(toStage2) \in Nat
           /\ \A i \in DOMAIN toStage2 : toStage2[i] \in JobSet /\ toStage2[i].window \in Nat
<1>1. toStage2 \in Seq(JobSet)
  BY DEF FeedTypes
<1>2. \A e \in JobSet : e.window \in Nat
  BY DEF JobSet
<1> QED BY <1>1, <1>2, SeqFacts

\* A segment is added or changed, in whichever field, and stays one.
LEMMA UpsertTyped ==
    ASSUME NEW segments \in Seq(SegmentSet), NEW s \in Nat, NEW field \in {"stream", "batch"},
           NEW text \in TextSet
    PROVE  Upsert(segments, s, field, text) \in Seq(SegmentSet)
<1> DEFINE at == {i \in DOMAIN segments : segments[i].id = s}
           new == [id |-> s, stream |-> <<>>, batch |-> <<>>]
           i == CHOOSE j \in at : TRUE
<1>1. CASE at = {}
  <2>1. [new EXCEPT ![field] = text] \in SegmentSet
    <3>1. <<>> \in TextSet
      BY DEF TextSet
    <3>2. new \in SegmentSet
      BY <3>1 DEF SegmentSet
    <3> HIDE DEF new
    <3> QED BY <3>2 DEF SegmentSet
  <2>2. Upsert(segments, s, field, text) = Append(segments, [new EXCEPT ![field] = text])
    BY <1>1 DEF Upsert
  <2> HIDE DEF new
  <2> QED BY <2>1, <2>2, AppendProperties
<1>2. CASE at # {}
  <2>1. i \in 1..Len(segments) /\ segments[i] \in SegmentSet
    BY <1>2, SeqFacts
  <2>2. Upsert(segments, s, field, text) =
          [segments EXCEPT ![i] = [segments[i] EXCEPT ![field] = text]]
    BY <1>2 DEF Upsert
  <2> HIDE DEF i
  <2>3. [segments[i] EXCEPT ![field] = text] \in SegmentSet
    BY <2>1 DEF SegmentSet
  <2> QED BY <2>1, <2>2, <2>3, ExceptSeq
<1> QED BY <1>1, <1>2

\* A window of which nothing is known.
LEMMA NewWindowTyped == NewWindow \in WindowSet
<1>1. <<>> \in TextSet /\ <<>> \in Seq(SegmentSet)
  BY DEF TextSet
<1> QED BY <1>1 DEF NewWindow, WindowSet

\* Whatever the event, a window stays one.
LEMMA FoldedTyped ==
    ASSUME NEW win \in WindowSet, NEW ev \in EventSet
    PROVE  Folded(win, ev) \in WindowSet
<1>1. /\ win.segments \in Seq(SegmentSet) /\ ev.segment \in Nat /\ ev.text \in TextSet
      /\ ev.kind \in {"StreamFragment", "BatchSegment", "BatchWindow", "SegmentCalibration",
                      "WindowCalibration"}
  BY DEF WindowSet, EventSet
<1>2. \A f \in {"stream", "batch"} : Upsert(win.segments, ev.segment, f, ev.text) \in Seq(SegmentSet)
  BY <1>1, UpsertTyped
<1> QED BY <1>1, <1>2 DEF Folded, WindowSet

\* The window of an event as the voice state has it.
LEMMA GetTyped ==
    ASSUME FeedTypes, NEW w \in Nat
    PROVE  Get(windows, w) \in WindowSet
  BY NewWindowTyped DEF FeedTypes, Get

\* The oldest event is taken, and only its window changes.
LEMMA FoldTypes ==
    ASSUME FeedTypes, Fold
    PROVE  /\ Head(backlog) = backlog[1] /\ backlog[1] \in EventSet
           /\ Len(backlog') = Len(backlog) - 1 /\ Len(backlog) \in Nat \ {0}
           /\ backlog' \in Seq(EventSet)
           /\ \A i \in 1..Len(backlog') : backlog'[i] = backlog[i + 1]
           /\ DOMAIN windows' = DOMAIN windows \cup {backlog[1].window}
           /\ \A x \in DOMAIN windows' : windows'[x] =
                IF x = backlog[1].window
                THEN Folded(Get(windows, backlog[1].window), backlog[1]) ELSE windows[x]
<1>1. backlog # <<>> /\ backlog' = Tail(backlog) /\ backlog \in Seq(EventSet)
  BY DEF Fold, FeedTypes
<1>2. windows' = With(windows, Head(backlog).window,
                      Folded(Get(windows, Head(backlog).window), Head(backlog)))
  BY DEF Fold
<1>3. Head(backlog) = backlog[1] /\ backlog[1] \in EventSet
      /\ Len(backlog') = Len(backlog) - 1 /\ Len(backlog) \in Nat \ {0}
      /\ backlog' \in Seq(EventSet)
      /\ \A i \in 1..Len(backlog') : backlog'[i] = backlog[i + 1]
  BY <1>1
<1> QED BY <1>2, <1>3 DEF With

\* A new final is the first, and the ring keeps its bound.
LEMMA WithFinalTyped ==
    ASSUME FeedTypes, NEW text \in TextSet
    PROVE  /\ WithFinal(text) \in Seq(TextSet) /\ Len(WithFinal(text)) <= MaxFinals
           /\ WithFinal(text) # <<>> /\ WithFinal(text)[1] = text
<1> DEFINE n == Min({MaxFinals, Len(finals) + 1})
           all == <<text>> \o finals
<1>1. finals \in Seq(TextSet) /\ Len(finals) \in Nat /\ MaxFinals \in Nat \ {0}
  BY FeedAssumption, SeqFacts DEF FeedTypes
<1>2. n \in Nat \ {0} /\ n <= MaxFinals /\ n <= Len(finals) + 1
  BY <1>1, MinOfTwo
<1>3. all \in Seq(TextSet) /\ Len(all) = Len(finals) + 1 /\ all[1] = text
  BY <1>1, OneOfSeq, ConcatProperties
<1> HIDE DEF n, all
<1>4. \A i \in 1..n : all[i] \in TextSet
  BY <1>2, <1>3, <1>1
<1>5. SubSeq(all, 1, n) \in Seq(TextSet) /\ Len(SubSeq(all, 1, n)) = n /\ SubSeq(all, 1, n)[1] = all[1]
  BY <1>2, <1>4, SubSeqProperties
<1>6. WithFinal(text) = SubSeq(all, 1, n)
  BY DEF WithFinal, all, n
<1> QED BY <1>2, <1>3, <1>5, <1>6, EmptySeq

\* What FlattenSeq makes of a sequence of one, as its recursive function.
Flattening(s, f) == f = [i \in 1..1 |-> IF i = 1 THEN s[i] ELSE f[i - 1] \o s[i]]

\* Of a text alone nothing is lost when it is flattened.
LEMMA FlattenOne ==
    ASSUME NEW T, NEW x \in T
    PROVE  FlattenSeq(<<x>>) = x
<1> DEFINE s == <<x>>
           g == [i \in 1..1 |-> x]
           f == CHOOSE f : Flattening(s, f)
<1>1. Flattening(s, g)
  <2>1. g = [i \in 1..1 |-> IF i = 1 THEN s[i] ELSE g[i - 1] \o s[i]]
    OBVIOUS
  <2> QED BY <2>1, Zenon DEF Flattening
<1>2. Flattening(s, f)
  BY <1>1
<1>3. FlattenSeq(s) = f[Len(s)] /\ Len(s) = 1
  BY DEF FlattenSeq, Flattening
<1> HIDE DEF f, g
<1>4. f[1] = s[1]
  <2>1. 1 \in 1..1
    OBVIOUS
  <2> HIDE DEF s
  <2>2. f[1] = IF 1 = 1 THEN s[1] ELSE f[1 - 1] \o s[1]
    BY <1>2, <2>1, Zenon DEF Flattening
  <2> QED BY <2>2
<1>5. s[1] = x
  OBVIOUS
<1> QED BY <1>3, <1>4, <1>5

\* A partial makes of a window that is new, or has only been heard of by partials of
\* this segment, one of which only that partial is known, and shows it.
LEMMA FoldsHeard ==
    ASSUME FeedTypes, NEW win \in {NewWindow, Heard}
    PROVE  Folded(win, Fragment(window)) = Heard
<1> DEFINE text == <<Piece("stream", segment)>>
           one == [id |-> segment, stream |-> text, batch |-> <<>>]
<1>1. /\ Fragment(window).kind = "StreamFragment" /\ Fragment(window).segment = segment
      /\ Fragment(window).text = text
  BY DEF Fragment, Event
<1>2. Folded(win, Fragment(window)) = [win EXCEPT !.segments = Upsert(@, segment, "stream", text)]
  BY <1>1 DEF Folded, NewWindow, Heard
<1>3. CASE win = NewWindow
  <2>1. Upsert(<<>>, segment, "stream", text) = <<one>>
    BY DEF Upsert
  <2> QED BY <1>2, <1>3, <2>1 DEF NewWindow, Heard
<1>4. CASE win = Heard
  <2>1. Upsert(<<one>>, segment, "stream", text) = <<one>>
    <3>1. {i \in DOMAIN <<one>> : <<one>>[i].id = segment} = {1}
      OBVIOUS
    <3> HIDE DEF text
    <3>2. [<<one>> EXCEPT ![1] = [one EXCEPT !["stream"] = text]] = <<one>>
      OBVIOUS
    <3>3. (CHOOSE i \in {1} : TRUE) = 1
      OBVIOUS
    <3> HIDE DEF one
    <3>4. Upsert(<<one>>, segment, "stream", text) =
            [<<one>> EXCEPT ![CHOOSE i \in {1} : TRUE] = [@ EXCEPT !["stream"] = text]]
      BY <3>1 DEF Upsert
    <3> QED BY <3>2, <3>3, <3>4
  <2>2. win = [NewWindow EXCEPT !.segments = <<one>>] /\ win.segments = <<one>>
    BY <1>4 DEF Heard, NewWindow
  <2> HIDE DEF one, text
  <2> QED BY <1>2, <1>4, <2>1, <2>2 DEF NewWindow
<1> QED BY <1>3, <1>4

\* A window known from partials of one segment shows that segment.
LEMMA HeardIsShown ==
    ASSUME FeedTypes
    PROVE  Plain(Heard) = <<Piece("stream", segment)>>
<1> DEFINE text == <<Piece("stream", segment)>>
           one == [id |-> segment, stream |-> text, batch |-> <<>>]
<1>1. Heard.closed = FALSE /\ Heard.segments = <<one>>
  BY DEF Heard, NewWindow
<1>2. one.batch = <<>> /\ one.stream = text
  OBVIOUS
<1> HIDE DEF one
<1>3. [i \in DOMAIN <<one>> |-> IF <<one>>[i].batch # <<>> THEN <<one>>[i].batch ELSE <<one>>[i].stream]
        = <<text>>
  BY <1>2
<1>4. Concat(Heard) = FlattenSeq(<<text>>)
  BY <1>1, <1>3 DEF Concat
<1>5. FlattenSeq(<<text>>) = text
  BY FlattenOne
<1> QED BY <1>1, <1>4, <1>5 DEF Plain


\* What a step leaves alone when it leaves alone the data plane.
LEMMA FeedUntouched ==
    ASSUME FeedInv, UNCHANGED <<feedVars, boot>>
    PROVE  FeedInv'
  BY DEF FeedInv, FeedTypes, OnTheWay, HeardOnly, Heard, FinalIsUnderWay, AtWorker, OnTheWire,
         Received, Partial, Fragment, Piece, Event, Edge, FinalOf, FinalEvent,
         feedVars, speechVars, wireVars, voiceVars

\* A health probe changes only what the state is connected to.
LEMMA ProbeKeeps ==
    ASSUME FeedInv, \E answered : Probe(answered), UNCHANGED boot
    PROVE  FeedInv'
  BY DEF FeedInv, FeedTypes, OnTheWay, HeardOnly, Heard, FinalIsUnderWay, AtWorker, OnTheWire,
         Received, Partial, Fragment, Piece, Event, Edge, FinalOf, FinalEvent,
         Probe, speechVars, wireVars, voiceVars

\* A new stream starts with nothing unread.
LEMMA ListenKeeps ==
    ASSUME FeedInv, Listen, UNCHANGED boot
    PROVE  FeedInv'
  BY DEF FeedInv, FeedTypes, OnTheWay, HeardOnly, Heard, FinalIsUnderWay, AtWorker, OnTheWire,
         Received, Partial, Fragment, Piece, Event, Edge, FinalOf, FinalEvent,
         Listen, speechVars, wireVars, voiceVars

\* A restart begins with the first window, and nothing is on its way.
LEMMA DieKeeps ==
    ASSUME FeedInv, FeedRestart, boot' = boot + 1
    PROVE  FeedInv'
<1>1. /\ window' = 1 /\ segment' = 1 /\ used' = FALSE /\ toStage2' = <<>>
      /\ listening' = FALSE /\ backlog' = <<>> /\ UNCHANGED <<live, liveWindow, finals, preview, windows>>
  BY DEF FeedRestart, voiceVars
<1>2. boot \in Nat /\ boot' \in Nat /\ boot' # 0
  BY DEF FeedInv, FeedTypes
<1>3. FeedTypes'
  <2>1. FeedTypes
    BY DEF FeedInv
  <2>2. /\ window' \in Nat \ {0} /\ segment' \in Nat \ {0}
        /\ toStage2' \in Seq(JobSet) /\ backlog' \in Seq(EventSet)
    BY <1>1
  <2>4. used' \in BOOLEAN /\ listening' \in BOOLEAN
    BY <1>1, Zenon
  <2>3. UNCHANGED <<live, liveWindow, finals, preview, windows>>
    BY <1>1
  <2> QED BY <1>2, <2>1, <2>2, <2>3, <2>4 DEF FeedTypes
<1>4. DOMAIN toStage2' = {} /\ DOMAIN backlog' = {}
  BY <1>1
<1>5. OnTheWay'
  BY <1>4 DEF OnTheWay
<1>6. HeardOnly'
  BY <1>2 DEF HeardOnly
<1>7. FinalIsUnderWay'
  <2>1. ~(window' > 1)
    BY <1>1
  <2> QED BY <2>1 DEF FinalIsUnderWay
<1> QED BY <1>3, <1>5, <1>6, <1>7 DEF FeedInv

-----------------------------------------------------------------------------
\* What a partial changes.
LEMMA SpeakTypes ==
    ASSUME FeedInv, Speak, UNCHANGED boot
    PROVE  /\ UNCHANGED <<window, segment, used, toStage2, live, liveWindow, finals, preview, windows>>
           /\ FeedTypes' /\ Push(<<Fragment(window)>>) /\ <<Fragment(window)>> \in Seq(EventSet)
           /\ Fragment(window)' = Fragment(window)
<1>1. /\ UNCHANGED <<window, segment, used, toStage2, live, liveWindow, finals, preview, windows>>
      /\ Push(<<Fragment(window)>>)
  BY DEF Speak, speechVars, voiceVars
<1>2. <<Fragment(window)>> \in Seq(EventSet) /\ FeedTypes
  BY FragmentIsEvent DEF FeedInv, FeedTypes
<1>3. backlog' \in Seq(EventSet) /\ listening' = listening
  BY <1>1, <1>2, PushAddsOnly
<1> QED BY <1>1, <1>2, <1>3 DEF FeedTypes, Fragment, Event, Piece

\* It is of the open window.
LEMMA SpeakOnTheWay ==
    ASSUME FeedInv, Speak, UNCHANGED boot
    PROVE  OnTheWay'
<1>1. \A i \in DOMAIN backlog' :
         \/ \E j \in DOMAIN backlog : backlog'[i] = backlog[j]
         \/ \E j \in DOMAIN <<Fragment(window)>> : backlog'[i] = <<Fragment(window)>>[j]
  BY SpeakTypes, PushAddsOnly DEF FeedInv
<1>2. \A i \in DOMAIN backlog' : (\E j \in DOMAIN backlog : backlog'[i] = backlog[j]) \/ backlog'[i] = Fragment(window)
  <2> DEFINE f == Fragment(window)
  <2>1. \A j \in DOMAIN <<f>> : <<f>>[j] = f
    <3> HIDE DEF f
    <3> QED OBVIOUS
  <2> QED BY <1>1, <2>1
<1>3. Fragment(window).window = window /\ window \in Nat
  BY DEF Fragment, Event, FeedInv, FeedTypes
<1>4. UNCHANGED <<window, used, toStage2>> /\ Fragment(window)' = Fragment(window)
  BY SpeakTypes
<1>5. OnTheWay
  BY DEF FeedInv
<1>6. \A i \in DOMAIN backlog' : backlog'[i].window <= window
        /\ (~used /\ backlog'[i].window = window => backlog'[i] = Fragment(window))
  BY <1>2, <1>3, <1>5 DEF OnTheWay
<1> QED BY <1>4, <1>5, <1>6 DEF OnTheWay

\* A partial more behind what is on the wire.
LEMMA SpeakOnTheWire ==
    ASSUME FeedInv, Speak, UNCHANGED boot, OnTheWire, window - 1 \notin lossy'
    PROVE  OnTheWire'
<1> DEFINE f == Fragment(window)
           last == FinalEvent(window - 1)
           all == backlog \o <<f>>
<1>1. /\ UNCHANGED <<window, toStage2>> /\ f' = f /\ last' = last
      /\ Push(<<f>>) /\ <<f>> \in Seq(EventSet) /\ FeedTypes /\ FeedTypes'
  BY SpeakTypes DEF FinalEvent, FinalOf, Event, Piece, FeedInv
<1>2. last.window = window - 1
  BY DEF FinalEvent, Event
<1>3. PICK i \in DOMAIN backlog : backlog[i] = last /\ \A j \in DOMAIN backlog : j > i => backlog[j] = f
  BY DEF OnTheWire, Partial
<1>4. toStage2' = <<>>
  BY <1>1 DEF OnTheWire
<1>5. backlog \in Seq(EventSet) /\ DOMAIN backlog = 1..Len(backlog) /\ Len(backlog) \in Nat
      /\ DOMAIN backlog' = 1..Len(backlog') /\ Len(backlog') \in Nat
  BY <1>1, SeqFacts DEF FeedTypes
<1> HIDE DEF f, last
<1>6. CASE ~listening
  <2>1. backlog' = backlog
    BY <1>1, <1>6, PushLoses
  <2>2. backlog'[i] = last' /\ \A j \in DOMAIN backlog' : j > i => backlog'[j] = f'
    BY <1>1, <1>3, <2>1
  <2> QED BY <1>1, <1>3, <1>4, <2>1, <2>2 DEF OnTheWire, Partial, f, last
<1>7. CASE listening
  <2>1. /\ Len(all) = Len(backlog) + 1
        /\ \A k \in 1..(Len(backlog) + 1) : all[k] = IF k <= Len(backlog) THEN backlog[k] ELSE f
    <3>1. f \in EventSet
      BY <1>1 
    <3> QED BY <1>5, <3>1
  <2> HIDE DEF all
  <2>2. PICK over \in Nat :
           /\ Len(all) = Len(backlog') + over
           /\ \A k \in 1..Len(backlog') : backlog'[k] = all[k + over]
           /\ \A k \in 1..over : k \in 1..Len(all) /\ all[k].window \in lossy'
    BY <1>1, <1>7, PushShifts DEF all
  <2>3. i > over
    BY <1>2, <1>3, <1>5, <2>1, <2>2
  <2>4. i - over \in 1..Len(backlog') /\ backlog'[i - over] = last
    BY <1>3, <1>5, <2>1, <2>2, <2>3
  <2>5. ASSUME NEW j \in 1..Len(backlog'), j > i - over PROVE backlog'[j] = f
    <3>1. j + over \in 1..(Len(backlog) + 1) /\ j + over > i
      BY <1>3, <1>5, <2>1, <2>2, <2>5
    <3> QED BY <1>3, <1>5, <2>1, <2>2, <2>5, <3>1
  <2>6. backlog'[i - over] = last' /\ \A j \in DOMAIN backlog' : j > i - over => backlog'[j] = f'
    BY <1>1, <1>5, <2>4, <2>5
  <2> QED BY <1>1, <1>4, <1>5, <2>4, <2>6 DEF OnTheWire, Partial, f, last
<1> QED BY <1>6, <1>7

\* A partial more to come after the final has been received.
LEMMA SpeakReceived ==
    ASSUME FeedInv, Speak, UNCHANGED boot, Received
    PROVE  Received'
<1> DEFINE f == Fragment(window)
<1>1. /\ UNCHANGED <<boot, window, segment, toStage2, live, liveWindow, finals, preview>> /\ f' = f
      /\ Push(<<f>>) /\ <<f>> \in Seq(EventSet) /\ FeedTypes
  BY SpeakTypes DEF FeedInv
<1>2. \A j \in DOMAIN backlog' : backlog'[j] = f
  <2>1. \A i \in DOMAIN backlog' :
         \/ \E j \in DOMAIN backlog : backlog'[i] = backlog[j]
         \/ \E j \in DOMAIN <<f>> : backlog'[i] = <<f>>[j]
    BY <1>1, PushAddsOnly
  <2>2. \A j \in DOMAIN <<f>> : <<f>>[j] = f
    <3> HIDE DEF f
    <3> QED OBVIOUS
  <2>3. \A j \in DOMAIN backlog : backlog[j] = f
    BY DEF Received, Partial
  <2> QED BY <2>1, <2>2, <2>3
<1>3. \A j \in DOMAIN backlog' : Partial(j)'
  BY <1>1, <1>2 DEF Partial
<1> QED BY <1>1, <1>3 DEF Received, FinalOf, Piece

\* A partial preserves the invariant.
LEMMA SpeakKeeps ==
    ASSUME FeedInv, Speak, UNCHANGED boot
    PROVE  FeedInv'
<1>1. /\ FeedTypes' /\ Push(<<Fragment(window)>>) /\ <<Fragment(window)>> \in Seq(EventSet)
      /\ UNCHANGED <<boot, window, segment, used, toStage2, live, liveWindow, finals, preview, windows>>
  BY SpeakTypes
<1>2. OnTheWay'
  BY SpeakOnTheWay
<1>3. HeardOnly'
  BY <1>1 DEF FeedInv, HeardOnly, Heard, Piece
<1>4. FinalIsUnderWay'
  <2>1. lossy \subseteq lossy'
    BY <1>1, PushAddsOnly DEF FeedInv
  <2>2. SUFFICES ASSUME ~used, window > 1, window - 1 \notin lossy'
                 PROVE  (AtWorker \/ OnTheWire \/ Received)'
    BY <1>1 DEF FinalIsUnderWay
  <2>3. AtWorker \/ OnTheWire \/ Received
    BY <2>1, <2>2 DEF FeedInv, FinalIsUnderWay
  <2>4. AtWorker => AtWorker'
    BY <1>1 DEF AtWorker, Edge
  <2> QED BY <2>2, <2>3, <2>4, SpeakOnTheWire, SpeakReceived
<1> QED BY <1>1, <1>2, <1>3, <1>4 DEF FeedInv


\* The window is settled by timeout: its edge is with the worker.
LEMMA SettleKeeps ==
    ASSUME FeedInv, Settle, UNCHANGED boot
    PROVE  FeedInv'
<1> DEFINE edge == Edge(window)
<1>1. /\ used /\ toStage2' = Append(toStage2, edge) /\ window' = window + 1 /\ used' = FALSE
      /\ UNCHANGED <<segment, backlog, lossy, listening, live, liveWindow, finals, preview, windows>>
  BY DEF Settle, Edge, wireVars, voiceVars
<1>2. toStage2 \in Seq(JobSet) /\ window \in Nat \ {0} /\ FeedTypes /\ OnTheWay /\ HeardOnly
  BY DEF FeedInv, FeedTypes
<1>3. edge \in JobSet /\ edge.window = window
  BY <1>2 DEF Edge, JobSet
<1> HIDE DEF edge
<1>4. /\ toStage2' \in Seq(JobSet) /\ DOMAIN toStage2' = 1..(Len(toStage2) + 1) /\ toStage2' # <<>>
      /\ DOMAIN toStage2 = 1..Len(toStage2) /\ Len(toStage2) \in Nat /\ Len(toStage2') = Len(toStage2) + 1
      /\ \A i \in DOMAIN toStage2' : toStage2'[i] = IF i <= Len(toStage2) THEN toStage2[i] ELSE edge
  BY <1>1, <1>2, <1>3
<1>5. FeedTypes'
  <2>1. window' \in Nat \ {0} /\ used' \in BOOLEAN
    <3>1. window' = window + 1 /\ used' = FALSE
      BY DEF Settle
    <3>2. used' \in BOOLEAN
      BY <3>1, Zenon
    <3> QED BY <1>2, <3>1, <3>2
  <2>2. UNCHANGED <<boot, segment, backlog, listening, live, liveWindow, finals, preview, windows>>
    BY <1>1
  <2>3. toStage2' \in Seq(JobSet)
    BY <1>4
  <2> QED BY <1>2, <2>1, <2>2, <2>3 DEF FeedTypes
<1>6. OnTheWay'
  <2>1. \A i \in DOMAIN toStage2 : toStage2[i] \in JobSet /\ toStage2[i].window \in Nat
    BY <1>2, JobsTyped
  <2>2. \A i \in DOMAIN toStage2' : toStage2'[i].window < window'
    BY <1>1, <1>2, <1>3, <1>4, <2>1 DEF OnTheWay
  <2>3. \A i \in DOMAIN toStage2' : toStage2'[i].window \in Nat
    BY <1>2, <1>3, <1>4, <2>1
  <2>4. \A i \in DOMAIN backlog : backlog[i].window \in Nat
    BY <1>2, EventsTyped
  <2>5. \A i \in DOMAIN backlog' : backlog'[i].window < window'
    BY <1>1, <1>2, <2>4 DEF OnTheWay
  <2> QED BY <1>1, <1>2, <2>2, <2>3, <2>4, <2>5 DEF OnTheWay
<1>7. HeardOnly'
  <2>1. \A w \in DOMAIN windows : w \in Nat
    BY <1>2 DEF FeedTypes
  <2> QED BY <1>1, <1>2, <2>1 DEF HeardOnly
<1>8. toStage2'[Len(toStage2')] = edge /\ edge = Edge(window' - 1)
  BY <1>1, <1>2, <1>4 DEF edge
<1>9. AtWorker'
  BY <1>4, <1>8 DEF AtWorker, Edge
<1> QED BY <1>5, <1>6, <1>7, <1>9 DEF FeedInv, FinalIsUnderWay

\* A segment ends: the window it belongs to is in use.
LEMMA EndSegmentKeeps ==
    ASSUME FeedInv, EndSegment, UNCHANGED boot
    PROVE  FeedInv'
<1>0. FeedTypes /\ OnTheWay /\ HeardOnly /\ window \in Nat \ {0} /\ segment \in Nat \ {0}
  BY DEF FeedInv, FeedTypes
<1>1. PICK gap \in BOOLEAN :
         LET w == IF gap THEN window + 1 ELSE window IN
         /\ window' = w
         /\ toStage2' = toStage2
              \o (IF gap THEN <<[kind |-> "WindowEdge", window |-> window, segment |-> 0]>> ELSE <<>>)
              \o <<[kind |-> "Batch", window |-> w, segment |-> segment]>>
         /\ Push(<<Fragment(w)>>)
  BY Zenon DEF EndSegment
<1> DEFINE w == IF gap THEN window + 1 ELSE window
           edges == IF gap THEN <<[kind |-> "WindowEdge", window |-> window, segment |-> 0]>> ELSE <<>>
           batch == [kind |-> "Batch", window |-> w, segment |-> segment]
           f == Fragment(w)
<1>2. /\ window' = w /\ toStage2' = toStage2 \o edges \o <<batch>> /\ Push(<<f>>)
      /\ used' = TRUE /\ segment' = segment + 1
      /\ UNCHANGED <<live, liveWindow, finals, preview, windows>>
  BY <1>1 DEF EndSegment, voiceVars
<1>3. /\ w \in Nat \ {0} /\ window <= w /\ batch \in JobSet /\ batch.window = w /\ edges \in Seq(JobSet)
      /\ \A i \in DOMAIN edges : edges[i].window = window
  <2>1. w \in Nat \ {0} /\ window <= w
    BY <1>0
  <2>2. batch \in JobSet /\ batch.window = w
    BY <1>0, <2>1 DEF JobSet
  <2>3. CASE gap
    <3> DEFINE e == [kind |-> "WindowEdge", window |-> window, segment |-> 0]
    <3>1. e \in JobSet /\ e.window = window
      BY <1>0 DEF JobSet
    <3>2. edges = <<e>>
      BY <2>3
    <3> HIDE DEF e
    <3> QED BY <2>1, <2>2, <3>1, <3>2
  <2>4. CASE ~gap
    <3>1. edges = <<>>
      BY <2>4
    <3> QED BY <2>1, <2>2, <3>1
  <2> QED BY <2>3, <2>4
<1>4. <<f>> \in Seq(EventSet) /\ f.window = w
  BY <1>0, <1>3, FragmentIsEvent DEF Fragment, Event
<1> HIDE DEF w, edges, batch, f
<1>5. toStage2 \in Seq(JobSet)
  BY <1>0 DEF FeedTypes
<1>6. /\ toStage2' \in Seq(JobSet) /\ DOMAIN toStage2' = 1..(Len(toStage2) + Len(edges) + 1)
      /\ DOMAIN toStage2 = 1..Len(toStage2) /\ Len(toStage2) \in Nat
      /\ DOMAIN edges = 1..Len(edges) /\ Len(edges) \in Nat
      /\ \A i \in DOMAIN toStage2' :
           toStage2'[i] = IF i <= Len(toStage2) THEN toStage2[i]
                          ELSE IF i <= Len(toStage2) + Len(edges) THEN edges[i - Len(toStage2)]
                          ELSE batch
  BY <1>2, <1>3, <1>5
<1>7. /\ backlog' \in Seq(EventSet) /\ listening' = listening
      /\ \A i \in DOMAIN backlog' :
           \/ \E j \in DOMAIN backlog : backlog'[i] = backlog[j]
           \/ \E j \in DOMAIN <<f>> : backlog'[i] = <<f>>[j]
  BY <1>0, <1>2, <1>4, PushAddsOnly
<1>8. FeedTypes'
  BY <1>0, <1>2, <1>3, <1>6, <1>7 DEF FeedTypes
<1>9. OnTheWay'
  <2>1. ASSUME NEW i \in DOMAIN toStage2' PROVE toStage2'[i].window <= w
    <3>1. CASE i <= Len(toStage2)
      <4>1. i \in DOMAIN toStage2 /\ toStage2'[i] = toStage2[i]
        BY <1>6, <3>1
      <4>2. toStage2[i].window \in Nat /\ toStage2[i].window <= window
        <5>1. i \in DOMAIN toStage2
          BY <1>6, <3>1
        <5> QED BY <1>0, <5>1, JobsTyped DEF OnTheWay
      <4> QED BY <1>0, <1>3, <4>1, <4>2
    <3>2. CASE ~(i <= Len(toStage2)) /\ i <= Len(toStage2) + Len(edges)
      <4>1. i - Len(toStage2) \in DOMAIN edges /\ toStage2'[i] = edges[i - Len(toStage2)]
        BY <1>6, <3>2
      <4> QED BY <1>3, <4>1
    <3>3. CASE ~(i <= Len(toStage2)) /\ ~(i <= Len(toStage2) + Len(edges))
      BY <1>3, <1>6, <3>3
    <3> QED BY <3>1, <3>2, <3>3
  <2>2. \A j \in DOMAIN <<f>> : <<f>>[j].window = w
    BY <1>4
  <2>3. ASSUME NEW i \in DOMAIN backlog' PROVE backlog'[i].window <= w
    <3>1. CASE \E j \in DOMAIN backlog : backlog'[i] = backlog[j]
      <4>1. PICK j \in DOMAIN backlog : backlog'[i] = backlog[j]
        BY <3>1
      <4>2. backlog[j].window \in Nat /\ backlog[j].window <= window
        BY <1>0, <4>1, EventsTyped DEF OnTheWay
      <4> QED BY <1>0, <1>3, <4>1, <4>2
    <3>2. CASE \E j \in DOMAIN <<f>> : backlog'[i] = <<f>>[j]
      BY <1>3, <2>2, <3>2
    <3> QED BY <1>7, <3>1, <3>2
  <2> QED BY <1>2, <2>1, <2>3 DEF OnTheWay
<1>10. HeardOnly'
  <2>1. \A x \in DOMAIN windows : x \in Nat
    BY <1>0 DEF FeedTypes
  <2> QED BY <1>0, <1>2, <1>3, <2>1 DEF HeardOnly
<1> QED BY <1>2, <1>8, <1>9, <1>10 DEF FeedInv, FinalIsUnderWay


\* What the worker sends for a job is of its window, and for an edge ends with the final.
LEMMA ResultsTyped ==
    ASSUME FeedTypes, NEW ev \in JobSet, NEW events \in Results(ev)
    PROVE  /\ events \in Seq(EventSet) /\ events # <<>> /\ Len(events) \in Nat \ {0}
           /\ \A i \in DOMAIN events : events[i].window = ev.window
           /\ ev = Edge(ev.window) => events[Len(events)] = FinalEvent(ev.window)
<1> DEFINE w == ev.window s == ev.segment
           draft == Event("SegmentCalibration", w, 0, <<Piece("draft", w)>>)
           batch == Event("BatchSegment", w, s, <<Piece("batch", s)>>)
           win == Event("BatchWindow", w, 0, <<Piece("window", w)>>)
           last == Event("WindowCalibration", w, 0, <<Piece("final", w)>>)
<1>1. w \in Nat /\ s \in Nat /\ ev.kind \in {"Batch", "WindowEdge"}
  BY DEF JobSet
<1>2. /\ draft \in EventSet /\ batch \in EventSet /\ win \in EventSet /\ last \in EventSet
      /\ draft.window = w /\ batch.window = w /\ win.window = w /\ last.window = w
  <2>1. <<Piece("draft", w)>> \in TextSet /\ <<Piece("batch", s)>> \in TextSet
        /\ <<Piece("window", w)>> \in TextSet /\ <<Piece("final", w)>> \in TextSet
    BY <1>1, OneText
  <2>2. draft \in EventSet /\ draft.window = w
    BY <1>1, <2>1 DEF Event, EventSet
  <2>3. batch \in EventSet /\ batch.window = w
    BY <1>1, <2>1 DEF Event, EventSet
  <2>4. win \in EventSet /\ win.window = w
    BY <1>1, <2>1 DEF Event, EventSet
  <2>5. last \in EventSet /\ last.window = w
    BY <1>1, <2>1 DEF Event, EventSet
  <2> QED BY <2>2, <2>3, <2>4, <2>5
<1>3. \A e \in EventSet : <<e>> \in Seq(EventSet) /\ Len(<<e>>) = 1 /\ <<e>>[1] = e /\ DOMAIN <<e>> = {1}
  OBVIOUS
<1>4. \A d, e \in EventSet : <<d, e>> \in Seq(EventSet) /\ Len(<<d, e>>) = 2 /\ <<d, e>>[1] = d
                              /\ <<d, e>>[2] = e /\ DOMAIN <<d, e>> = {1, 2}
  OBVIOUS
<1>5. CASE ev.kind = "Batch"
  <2>1. events \in {<<draft>>, <<batch, draft>>}
    BY <1>5 DEF Results
  <2>2. ev # Edge(ev.window)
    BY <1>5 DEF Edge
  <2> HIDE DEF draft, batch, win, last, w
  <2>3. CASE events = <<draft>>
    BY <1>2, <1>3, <2>2, <2>3 DEF w
  <2>4. CASE events = <<batch, draft>>
    BY <1>2, <1>4, <2>2, <2>4 DEF w
  <2> QED BY <2>1, <2>3, <2>4
<1>6. CASE ev.kind = "WindowEdge"
  <2>1. events \in {<<last>>, <<win, last>>}
    BY <1>6 DEF Results
  <2>2. last = FinalEvent(ev.window)
    BY DEF FinalEvent, FinalOf
  <2> HIDE DEF draft, batch, win, last, w
  <2>3. CASE events = <<last>>
    BY <1>2, <1>3, <2>2, <2>3 DEF w
  <2>4. CASE events = <<win, last>>
    BY <1>2, <1>4, <2>2, <2>4 DEF w
  <2> QED BY <2>1, <2>3, <2>4
<1> QED BY <1>1, <1>5, <1>6

\* What the worker sends for the edge of a window ends with its final text.
LEMMA EdgeIsSent ==
    ASSUME FeedTypes, NEW events \in Seq(EventSet), Push(events), events # <<>>,
           events[Len(events)] = FinalEvent(window - 1), window - 1 \notin lossy'
    PROVE  DOMAIN backlog' = 1..Len(backlog') /\ Len(backlog') \in Nat \ {0}
           /\ backlog'[Len(backlog')] = FinalEvent(window - 1)
<1>1. Len(events) \in Nat \ {0} /\ DOMAIN events = 1..Len(events)
  BY EmptySeq, SeqFacts
<1>2. FinalEvent(window - 1).window = window - 1
  BY DEF FinalEvent, Event
<1>3. listening
  <2>1. SUFFICES ASSUME ~listening PROVE FALSE
    OBVIOUS
  <2>2. \A i \in DOMAIN events : events[i].window \in lossy'
    BY <2>1, PushLoses
  <2> QED BY <1>1, <1>2, <2>2
<1> DEFINE all == backlog \o events
<1>4. backlog \in Seq(EventSet) /\ backlog' \in Seq(EventSet)
  BY PushAddsOnly DEF FeedTypes
<1>5. Len(all) = Len(backlog) + Len(events) /\ Len(all) \in Nat \ {0} /\ all[Len(all)] = events[Len(events)]
  BY <1>1, <1>4, ConcatProperties
<1>6. PICK over \in Nat :
         /\ Len(all) = Len(backlog') + over /\ over < Len(all)
         /\ \A k \in 1..Len(backlog') : backlog'[k] = all[k + over]
  BY <1>3, PushShifts
<1> HIDE DEF all
<1>7. Len(backlog') \in Nat /\ DOMAIN backlog' = 1..Len(backlog')
  BY <1>4, SeqFacts
<1>8. Len(backlog') \in 1..Len(backlog') /\ Len(backlog') + over = Len(all)
  BY <1>5, <1>6, <1>7
<1> QED BY <1>5, <1>6, <1>7, <1>8

\* The worker takes a job: if it is the last edge, the final goes on the wire.
LEMMA Stage2Keeps ==
    ASSUME FeedInv, Stage2, UNCHANGED boot
    PROVE  FeedInv'
<1>1. /\ toStage2 # <<>> /\ toStage2' = Tail(toStage2)
      /\ UNCHANGED <<window, segment, used, live, liveWindow, finals, preview, windows>>
  BY DEF Stage2, voiceVars
<1>2. FeedTypes /\ OnTheWay /\ HeardOnly /\ FinalIsUnderWay /\ window \in Nat /\ toStage2 \in Seq(JobSet)
  BY DEF FeedInv, FeedTypes
<1> DEFINE ev == toStage2[1]
<1>3. /\ ev = Head(toStage2) /\ ev \in JobSet /\ ev.window \in Nat /\ 1 \in DOMAIN toStage2
      /\ toStage2' \in Seq(JobSet) /\ Len(toStage2') = Len(toStage2) - 1 /\ Len(toStage2) \in Nat \ {0}
      /\ DOMAIN toStage2 = 1..Len(toStage2) /\ DOMAIN toStage2' = 1..Len(toStage2')
      /\ \A i \in DOMAIN toStage2' : i + 1 \in DOMAIN toStage2 /\ toStage2'[i] = toStage2[i + 1]
  <2>1. /\ ev = Head(toStage2) /\ toStage2' \in Seq(JobSet) /\ Len(toStage2') = Len(toStage2) - 1
        /\ Len(toStage2) \in Nat \ {0}
        /\ \A i \in 1..Len(toStage2') : toStage2'[i] = toStage2[i + 1]
    BY <1>1, <1>2, HeadTailProperties
  <2>2. DOMAIN toStage2 = 1..Len(toStage2) /\ DOMAIN toStage2' = 1..Len(toStage2')
    BY <1>2, <2>1, SeqFacts
  <2>3. 1 \in DOMAIN toStage2
    BY <2>1, <2>2
  <2>4. ev \in JobSet /\ ev.window \in Nat
    BY <1>2, <2>3, JobsTyped
  <2> HIDE DEF ev
  <2> QED BY <2>1, <2>2, <2>3, <2>4
<1>4. PICK events \in Results(ev) : Push(events)
  BY <1>3 DEF Stage2
<1>5. /\ events \in Seq(EventSet) /\ events # <<>>
      /\ \A i \in DOMAIN events : events[i].window = ev.window
      /\ ev = Edge(ev.window) => events[Len(events)] = FinalEvent(ev.window)
  BY <1>2, <1>3, ResultsTyped
<1>6. /\ backlog' \in Seq(EventSet) /\ listening' = listening /\ lossy \subseteq lossy'
      /\ \A i \in DOMAIN backlog' :
           \/ \E j \in DOMAIN backlog : backlog'[i] = backlog[j]
           \/ \E j \in DOMAIN events : backlog'[i] = events[j]
  BY <1>2, <1>4, <1>5, PushAddsOnly
<1>7. FeedTypes'
  BY <1>1, <1>2, <1>3, <1>6 DEF FeedTypes
<1>8. ev.window <= window /\ (~used => ev.window < window)
  BY <1>2, <1>3 DEF OnTheWay
<1> HIDE DEF ev
<1>9. OnTheWay'
  <2>1. \A i \in DOMAIN toStage2' : toStage2'[i].window <= window /\ (~used => toStage2'[i].window < window)
    BY <1>2, <1>3 DEF OnTheWay
  <2>2. ASSUME NEW i \in DOMAIN backlog'
        PROVE  /\ backlog'[i].window <= window
               /\ ~used /\ backlog'[i].window = window => backlog'[i] = Fragment(window)
    <3>1. CASE \E j \in DOMAIN backlog : backlog'[i] = backlog[j]
      BY <1>2, <3>1 DEF OnTheWay
    <3>2. CASE \E j \in DOMAIN events : backlog'[i] = events[j]
      BY <1>2, <1>3, <1>5, <1>8, <3>2
    <3> QED BY <1>6, <3>1, <3>2
  <2> QED BY <1>1, <2>1, <2>2 DEF OnTheWay, Fragment, Event, Piece
<1>10. HeardOnly'
  BY <1>1, <1>2 DEF HeardOnly, Heard, Piece
<1>11. FinalIsUnderWay'
  <2> SUFFICES ASSUME ~used, window > 1, window - 1 \notin lossy'
               PROVE  (AtWorker \/ OnTheWire \/ Received)'
    BY <1>1 DEF FinalIsUnderWay
  <2>1. toStage2[Len(toStage2)] = Edge(window - 1)
    BY <1>1, <1>2, <1>6 DEF FinalIsUnderWay, AtWorker, OnTheWire, Received
  <2>2. CASE Len(toStage2) = 1
    <3>1. toStage2' = <<>>
      BY <1>3, <2>2
    <3>2. ev = Edge(window - 1) /\ ev.window = window - 1
      BY <2>1, <2>2 DEF ev, Edge
    <3>3. DOMAIN backlog' = 1..Len(backlog') /\ Len(backlog') \in Nat \ {0}
          /\ backlog'[Len(backlog')] = FinalEvent(window - 1)
      BY <1>2, <1>4, <1>5, <3>2, EdgeIsSent
    <3>4. FinalEvent(window - 1)' = FinalEvent(window - 1)
      BY <1>1 DEF FinalEvent, FinalOf, Event, Piece
    <3>5. Len(backlog') \in DOMAIN backlog' /\ ~\E j \in DOMAIN backlog' : j > Len(backlog')
      BY <3>3
    <3>6. OnTheWire'
      BY <1>1, <3>1, <3>3, <3>4, <3>5 DEF OnTheWire
    <3> QED BY <3>6
  <2>3. CASE Len(toStage2) # 1
    <3>1. toStage2' # <<>> /\ toStage2'[Len(toStage2')] = toStage2[Len(toStage2)]
      BY <1>3, <2>3
    <3> QED BY <1>1, <2>1, <3>1 DEF AtWorker, Edge
  <2> QED BY <2>2, <2>3
<1> QED BY <1>7, <1>9, <1>10, <1>11 DEF FeedInv

\* The stream breaks: what was not read is lost, and that is remembered.
LEMMA UnlistenKeeps ==
    ASSUME FeedInv, Unlisten, UNCHANGED boot
    PROVE  FeedInv'
<1>1. /\ listening' = FALSE
      /\ UNCHANGED <<window, segment, used, toStage2, live, liveWindow, finals, preview, windows>>
  BY DEF Unlisten, speechVars, voiceVars
<1>2. FeedTypes /\ OnTheWay /\ HeardOnly /\ FinalIsUnderWay /\ window \in Nat /\ backlog \in Seq(EventSet)
  BY DEF FeedInv, FeedTypes
<1>3. DOMAIN backlog = 1..Len(backlog) /\ Len(backlog) \in Nat
  BY <1>2, EventsTyped
<1>4. PICK n \in 0..Len(backlog) :
         /\ backlog' = SubSeq(backlog, 1, n)
         /\ lossy' = lossy \cup {backlog[i].window : i \in n + 1..Len(backlog)}
  BY Zenon DEF Unlisten
<1>5. /\ backlog' \in Seq(EventSet) /\ Len(backlog') = n /\ DOMAIN backlog' = 1..n
      /\ \A i \in 1..n : i \in DOMAIN backlog /\ backlog'[i] = backlog[i]
  <2>1. \A i \in 1..n : backlog[i] \in EventSet /\ i \in DOMAIN backlog
    BY <1>2, <1>3, EventsTyped
  <2>2. backlog' \in Seq(EventSet) /\ Len(backlog') = n /\ \A i \in 1..n : backlog'[i] = backlog[i]
    BY <1>3, <1>4, <2>1, SubSeqProperties
  <2> QED BY <2>1, <2>2, SeqFacts
<1>6. FeedTypes'
  <2>1. listening' \in BOOLEAN
    BY <1>1, Zenon
  <2>2. UNCHANGED <<window, segment, used, toStage2, live, liveWindow, finals, preview, windows>>
    BY <1>1
  <2> QED BY <1>2, <1>5, <2>1, <2>2 DEF FeedTypes
<1>7. Fragment(window)' = Fragment(window)
  BY <1>1 DEF Fragment, Event, Piece
<1>8. OnTheWay'
  BY <1>1, <1>2, <1>5, <1>7 DEF OnTheWay
<1>9. HeardOnly'
  BY <1>1, <1>2 DEF HeardOnly, Heard, Piece
<1>10. FinalIsUnderWay'
  <2> SUFFICES ASSUME ~used, window > 1, window - 1 \notin lossy'
               PROVE  (AtWorker \/ OnTheWire \/ Received)'
    BY <1>1 DEF FinalIsUnderWay
  <2>1. AtWorker \/ OnTheWire \/ Received
    BY <1>2, <1>4 DEF FinalIsUnderWay
  <2>2. CASE AtWorker
    BY <1>1, <2>2 DEF AtWorker, Edge
  <2>3. CASE OnTheWire
    <3> DEFINE last == FinalEvent(window - 1)
    <3>1. PICK i \in DOMAIN backlog : backlog[i] = last /\ \A j \in DOMAIN backlog : j > i => backlog[j] = Fragment(window)
      BY <2>3 DEF OnTheWire, Partial
    <3>2. last.window = window - 1 /\ last' = last
      BY <1>1 DEF FinalEvent, FinalOf, Event, Piece
    <3> HIDE DEF last
    <3>3. i <= n
      BY <1>3, <1>4, <3>1, <3>2
    <3>4. i \in DOMAIN backlog' /\ backlog'[i] = last'
          /\ \A j \in DOMAIN backlog' : j > i => backlog'[j] = Fragment(window)'
      BY <1>3, <1>5, <1>7, <3>1, <3>2, <3>3
    <3>5. toStage2' = <<>>
      BY <1>1, <2>3 DEF OnTheWire
    <3> QED BY <1>1, <3>4, <3>5 DEF OnTheWire, Partial, last
  <2>4. CASE Received
    <3>1. \A j \in DOMAIN backlog' : backlog'[j] = Fragment(window)'
      BY <1>5, <1>7, <2>4 DEF Received, Partial
    <3> QED BY <1>1, <2>4, <3>1 DEF Received, Partial, FinalOf, Piece
  <2> QED BY <2>1, <2>2, <2>3, <2>4
<1> QED BY <1>6, <1>8, <1>9, <1>10 DEF FeedInv


\* What the lock of the voice state makes one step.
LEMMA FoldIs ==
    ASSUME FeedInv, Fold
    PROVE  LET ev == backlog[1]
               shows == ev.kind \in {"StreamFragment", "SegmentCalibration"}
               last == ev.kind = "WindowCalibration"
           IN  /\ liveWindow' = IF shows THEN ev.window ELSE IF last THEN 0 ELSE liveWindow
               /\ live' = IF shows THEN ev.text ELSE IF last THEN <<>> ELSE live
               /\ finals' = IF last THEN WithFinal(ev.text) ELSE finals
               /\ preview' = IF last THEN PreviewOf(ev.window, windows')
                             ELSE IF liveWindow' = 0 THEN NoPreview ELSE PreviewOf(liveWindow', windows')
               /\ UNCHANGED <<window, segment, used, toStage2, listening, lossy>>
<1>1. Head(backlog) = backlog[1]
  BY FoldTypes DEF FeedInv
<1> QED BY <1>1, Zenon DEF Fold, speechVars

\* Every variable of the voice state keeps its type.
LEMMA FoldKeepsTypes ==
    ASSUME FeedInv, Fold, UNCHANGED boot
    PROVE  FeedTypes'
<1> DEFINE ev == backlog[1]
<1>1. FeedTypes /\ DOMAIN windows \subseteq Nat
  BY DEF FeedInv, FeedTypes
<1>2. /\ ev \in EventSet /\ backlog' \in Seq(EventSet)
      /\ DOMAIN windows' = DOMAIN windows \cup {ev.window}
      /\ \A x \in DOMAIN windows' : windows'[x] =
             IF x = ev.window THEN Folded(Get(windows, ev.window), ev) ELSE windows[x]
  BY <1>1, FoldTypes
<1>3. ev.window \in Nat /\ ev.text \in TextSet
  BY <1>2 DEF EventSet
<1>4. DOMAIN windows' \subseteq Nat
  BY <1>1, <1>2, <1>3
<1>5. windows' \in [DOMAIN windows' -> WindowSet]
  <2>1. Folded(Get(windows, ev.window), ev) \in WindowSet
    BY <1>1, <1>2, <1>3, GetTyped, FoldedTyped
  <2>2. \A x \in DOMAIN windows' : windows'[x] \in WindowSet
    BY <1>1, <1>2, <2>1 DEF FeedTypes
  <2>3. windows' = With(windows, Head(backlog).window,
                      Folded(Get(windows, Head(backlog).window), Head(backlog)))
    BY DEF Fold
  <2>4. windows' = [x \in DOMAIN windows' |-> windows'[x]]
    BY <2>3 DEF With
  <2> QED BY <2>2, <2>4
<1> HIDE DEF ev
<1>6. live' \in TextSet /\ liveWindow' \in Nat
  <2>1. <<>> \in TextSet /\ live \in TextSet /\ liveWindow \in Nat
    BY <1>1 DEF FeedTypes, TextSet
  <2> QED BY <1>3, <2>1, FoldIs DEF ev
<1>7. finals' \in Seq(TextSet) /\ Len(finals') <= MaxFinals
  <2>1. /\ WithFinal(ev.text) \in Seq(TextSet) /\ Len(WithFinal(ev.text)) <= MaxFinals
    BY <1>1, <1>3, WithFinalTyped
  <2>2. finals \in Seq(TextSet) /\ Len(finals) <= MaxFinals
    BY <1>1 DEF FeedTypes
  <2>3. finals' = WithFinal(ev.text) \/ finals' = finals
    BY FoldIs DEF ev
  <2> QED BY <2>1, <2>2, <2>3
<1>8. UNCHANGED <<boot, window, segment, used, toStage2, listening>>
  BY FoldIs
<1> QED BY <1>1, <1>2, <1>4, <1>5, <1>6, <1>7, <1>8 DEF FeedTypes

\* Of a window without a segment the voice state learns from partials alone.
LEMMA FoldHeardOnly ==
    ASSUME FeedInv, Fold, UNCHANGED boot
    PROVE  HeardOnly'
<1> DEFINE ev == backlog[1]
<1>1. FeedTypes /\ OnTheWay /\ HeardOnly /\ window \in Nat /\ DOMAIN windows \subseteq Nat
  BY DEF FeedInv, FeedTypes
<1>2. /\ ev \in EventSet /\ 1 \in DOMAIN backlog
      /\ DOMAIN windows' = DOMAIN windows \cup {ev.window}
      /\ \A x \in DOMAIN windows' : windows'[x] =
             IF x = ev.window THEN Folded(Get(windows, ev.window), ev) ELSE windows[x]
  <2>1. 1 \in DOMAIN backlog
    BY <1>1, FoldTypes, EventsTyped
  <2> QED BY <1>1, <2>1, FoldTypes
<1>3. ev.window \in Nat /\ ev.window <= window
      /\ (~used /\ ev.window = window => ev = Fragment(window))
  BY <1>1, <1>2, EventsTyped DEF OnTheWay
<1> HIDE DEF ev
<1>4. UNCHANGED <<boot, window, segment, used>>
  BY FoldIs
<1> SUFFICES ASSUME boot = 0
             PROVE  /\ \A w \in DOMAIN windows' : w <= window
                    /\ ~used /\ window \in DOMAIN windows' => windows'[window] = Heard
  BY <1>4 DEF HeardOnly, Heard, Piece
<1>5. \A w \in DOMAIN windows' : w <= window
  BY <1>1, <1>2, <1>3 DEF HeardOnly
<1>6. ASSUME ~used, window \in DOMAIN windows' PROVE windows'[window] = Heard
  <2>1. CASE ev.window = window
    <3>1. Get(windows, window) \in {NewWindow, Heard}
      BY <1>1, <1>6 DEF HeardOnly, Get
    <3>2. windows'[window] = Folded(Get(windows, window), Fragment(window))
      BY <1>2, <1>3, <1>6, <2>1
    <3> QED BY <1>1, <3>1, <3>2, FoldsHeard
  <2>2. CASE ev.window # window
    BY <1>1, <1>2, <1>6, <2>2 DEF HeardOnly
  <2> QED BY <2>1, <2>2
<1> QED BY <1>5, <1>6

\* The newest event is the final text: it is offered, and its window is settled.
LEMMA FoldsFinal ==
    ASSUME FeedInv, Fold, UNCHANGED boot, NEW w \in Nat, backlog[1] = FinalEvent(w)
    PROVE  /\ live' = <<>> /\ liveWindow' = 0 /\ preview'.calc = FinalOf(w)
           /\ finals' # <<>> /\ finals'[1] = FinalOf(w)
<1> DEFINE ev == FinalEvent(w)
<1>1. ev.kind = "WindowCalibration" /\ ev.text = FinalOf(w) /\ ev.window = w
  BY DEF FinalEvent, Event
<1>2. FeedTypes /\ FinalOf(w) \in TextSet /\ FinalOf(w) # <<>>
  BY OneText DEF FeedInv, FinalOf
<1>3. /\ live' = <<>> /\ liveWindow' = 0 /\ finals' = WithFinal(FinalOf(w))
      /\ preview' = PreviewOf(w, windows')
  BY <1>1, FoldIs
<1>4. finals' # <<>> /\ finals'[1] = FinalOf(w)
  BY <1>2, <1>3, WithFinalTyped
<1>5. windows'[w] = Folded(Get(windows, w), ev)
  BY <1>1, <1>2, FoldTypes
<1>6. windows'[w].closed = TRUE /\ windows'[w].final = FinalOf(w)
  <2>1. Get(windows, w) \in WindowSet
    BY <1>2, GetTyped
  <2>2. Folded(Get(windows, w), ev) = [Get(windows, w) EXCEPT !.closed = TRUE, !.final = ev.text]
    BY <1>1 DEF Folded
  <2> HIDE DEF ev
  <2> QED BY <1>1, <1>5, <2>1, <2>2 DEF WindowSet
<1>7. Calc(windows'[w]) = FinalOf(w)
  BY <1>2, <1>6 DEF Calc
<1> QED BY <1>3, <1>4, <1>7 DEF PreviewOf

\* The newest event is a partial of what is being said.
LEMMA FoldsPartial ==
    ASSUME FeedInv, Fold, UNCHANGED boot, ~used, backlog[1] = Fragment(window)
    PROVE  /\ live' = <<Piece("stream", segment)>> /\ liveWindow' = window /\ finals' = finals
           /\ boot = 0 => preview'.plain = live'
<1>1. /\ Fragment(window).kind = "StreamFragment" /\ Fragment(window).window = window
      /\ Fragment(window).text = <<Piece("stream", segment)>>
  BY DEF Fragment, Event
<1>2. FeedTypes /\ window \in Nat \ {0}
  BY DEF FeedInv, FeedTypes
<1>3. /\ live' = <<Piece("stream", segment)>> /\ liveWindow' = window /\ finals' = finals
      /\ preview' = PreviewOf(window, windows')
  BY <1>1, <1>2, FoldIs
<1>4. ASSUME boot = 0 PROVE preview'.plain = live'
  <2>1. window \in DOMAIN windows'
    BY <1>1, <1>2, FoldTypes
  <2>2. HeardOnly' /\ UNCHANGED <<boot, window, segment, used>>
    BY FoldHeardOnly, FoldIs
  <2>3. windows'[window] = Heard
    BY <1>4, <2>1, <2>2 DEF HeardOnly, Heard, Piece
  <2>4. Plain(Heard) = <<Piece("stream", segment)>>
    BY <1>2, HeardIsShown
  <2> QED BY <1>3, <2>3, <2>4 DEF PreviewOf
<1> QED BY <1>3, <1>4

\* The listener takes an event: the final, or a partial behind or after it.
LEMMA FoldKeeps ==
    ASSUME FeedInv, Fold, UNCHANGED boot
    PROVE  FeedInv'
<1>1. FeedTypes /\ OnTheWay /\ FinalIsUnderWay /\ window \in Nat
  BY DEF FeedInv, FeedTypes
<1>2. UNCHANGED <<boot, window, segment, used, toStage2, lossy>>
  BY FoldIs
<1>3. /\ Len(backlog') = Len(backlog) - 1 /\ Len(backlog) \in Nat \ {0}
      /\ DOMAIN backlog = 1..Len(backlog) /\ DOMAIN backlog' = 1..Len(backlog')
      /\ \A i \in DOMAIN backlog' : i + 1 \in DOMAIN backlog /\ backlog'[i] = backlog[i + 1]
  <2>1. /\ Len(backlog') = Len(backlog) - 1 /\ Len(backlog) \in Nat \ {0} /\ backlog' \in Seq(EventSet)
        /\ \A i \in 1..Len(backlog') : backlog'[i] = backlog[i + 1]
    BY <1>1, FoldTypes
  <2>2. DOMAIN backlog = 1..Len(backlog) /\ DOMAIN backlog' = 1..Len(backlog')
    BY <1>1, <2>1, EventsTyped, SeqFacts
  <2> QED BY <2>1, <2>2
<1>4. Fragment(window)' = Fragment(window)
  BY <1>2 DEF Fragment, Event, Piece
<1>5. OnTheWay'
  BY <1>1, <1>2, <1>3, <1>4 DEF OnTheWay
<1>6. FinalIsUnderWay'
  <2> SUFFICES ASSUME ~used, window > 1, window - 1 \notin lossy
               PROVE  (AtWorker \/ OnTheWire \/ Received)'
    BY <1>2 DEF FinalIsUnderWay
  <2>1. AtWorker \/ OnTheWire \/ Received
    BY <1>1 DEF FinalIsUnderWay
  <2>2. CASE AtWorker
    BY <1>2, <2>2 DEF AtWorker, Edge
  <2>3. CASE OnTheWire
    <3> DEFINE last == FinalEvent(window - 1)
    <3>1. PICK i \in DOMAIN backlog :
            backlog[i] = last /\ \A j \in DOMAIN backlog : j > i => backlog[j] = Fragment(window)
      BY <2>3 DEF OnTheWire, Partial
    <3>2. last' = last /\ FinalOf(window - 1)' = FinalOf(window - 1) /\ window - 1 \in Nat
      BY <1>1, <1>2 DEF FinalEvent, FinalOf, Event, Piece
    <3>3. toStage2' = <<>>
      BY <1>2, <2>3 DEF OnTheWire
    <3>4. CASE i = 1
      <4>1. \A j \in DOMAIN backlog' : Partial(j)'
        BY <1>3, <1>4, <3>1, <3>4 DEF Partial
      <4>2. /\ live' = <<>> /\ liveWindow' = 0 /\ preview'.calc = FinalOf(window - 1)
            /\ finals' # <<>> /\ finals'[1] = FinalOf(window - 1)
        BY <3>1, <3>2, <3>4, FoldsFinal
      <4> QED BY <1>2, <3>2, <3>3, <4>1, <4>2 DEF Received
    <3>5. CASE i # 1
      <4> HIDE DEF last
      <4>1. i - 1 \in DOMAIN backlog' /\ backlog'[i - 1] = last'
            /\ \A j \in DOMAIN backlog' : j > i - 1 => Partial(j)'
        BY <1>3, <1>4, <3>1, <3>2, <3>5 DEF Partial
      <4> QED BY <1>2, <3>3, <4>1 DEF OnTheWire, last
    <3> QED BY <3>4, <3>5
  <2>4. CASE Received
    <3>1. backlog[1] = Fragment(window) /\ \A j \in DOMAIN backlog' : Partial(j)'
      BY <1>3, <1>4, <2>4 DEF Received, Partial
    <3>2. /\ live' = <<Piece("stream", segment)>> /\ liveWindow' = window /\ finals' = finals
          /\ boot = 0 => preview'.plain = live'
      BY <3>1, FoldsPartial
    <3> QED BY <1>2, <2>4, <3>1, <3>2 DEF Received, FinalOf, Piece
  <2> QED BY <2>1, <2>2, <2>3, <2>4
<1> QED BY <1>5, <1>6, FoldKeepsTypes, FoldHeardOnly DEF FeedInv


\* The invariant holds when the daemon starts ...
LEMMA FeedStarts == AuraInit => FeedInv
<1> SUFFICES ASSUME AuraInit PROVE FeedInv
  OBVIOUS
<1>1. /\ boot = 0 /\ window = 1 /\ segment = 1 /\ used = FALSE /\ toStage2 = <<>>
      /\ listening = FALSE /\ backlog = <<>> /\ live = <<>> /\ liveWindow = 0 /\ finals = <<>>
      /\ windows = <<>>
  BY DEF AuraInit, FeedInit
<1>2. FeedTypes
  <2>1. boot \in Nat /\ window \in Nat \ {0} /\ segment \in Nat \ {0} /\ liveWindow \in Nat
    BY <1>1
  <2>2. used \in BOOLEAN /\ listening \in BOOLEAN
    BY <1>1, Zenon
  <2>3. toStage2 \in Seq(JobSet) /\ backlog \in Seq(EventSet) /\ live \in TextSet /\ finals \in Seq(TextSet)
    BY <1>1 DEF TextSet
  <2>4. Len(finals) <= MaxFinals
    BY <1>1, FeedAssumption
  <2>5. DOMAIN windows = {} /\ windows \in [DOMAIN windows -> WindowSet]
    <3>1. <<>> = [i \in {} |-> 0]
      OBVIOUS
    <3> QED BY <1>1, <3>1
  <2> QED BY <2>1, <2>2, <2>3, <2>4, <2>5 DEF FeedTypes
<1>3. DOMAIN toStage2 = {} /\ DOMAIN backlog = {} /\ DOMAIN windows = {}
  BY <1>1
<1>4. ~(window > 1)
  BY <1>1
<1> QED BY <1>2, <1>3, <1>4 DEF FeedInv, OnTheWay, HeardOnly, FinalIsUnderWay

\* ... and every step of daemon, listener and faults preserves it.
LEMMA AuraStepKeeps == FeedInv /\ [AuraNext]_auraVars => FeedInv'
<1> SUFFICES ASSUME FeedInv, [AuraNext]_auraVars PROVE FeedInv'
  OBVIOUS
<1>1. CASE Sync
  BY <1>1, FeedUntouched DEF Sync, shared
<1>2. CASE Feed
  <2>1. UNCHANGED boot
    BY <1>2 DEF Feed, shared
  <2>2. up \in BOOLEAN => (Probe(up) \/ Probe(FALSE) => \E answered \in BOOLEAN : Probe(answered))
    BY Zenon
  <2>3. \/ Speak \/ EndSegment \/ Settle \/ Stage2 \/ Fold \/ Listen \/ Unlisten
        \/ \E answered : Probe(answered)
    BY <1>2, Zenon DEF Feed, FeedStep
  <2> QED BY <2>1, <2>3, SpeakKeeps, EndSegmentKeeps, SettleKeeps, Stage2Keeps, FoldKeeps, ListenKeeps,
             UnlistenKeeps, ProbeKeeps
<1>3. CASE Die
  BY <1>3, DieKeeps DEF Die
<1>4. CASE Start
  BY <1>4, FeedUntouched DEF Start
<1>5. CASE UNCHANGED auraVars
  BY <1>5, FeedUntouched DEF auraVars, shared
<1> QED BY <1>1, <1>2, <1>3, <1>4, <1>5 DEF AuraNext

\* The invariant of the data plane holds in every behaviour of daemon and clients.
THEOREM FeedInvariance == AuraSpec => []FeedInv
  BY FeedStarts, AuraStepKeeps, PTL DEF AuraSpec

\* A sequence of one is its element.
LEMMA SeqOfOne ==
    ASSUME NEW T, NEW s \in Seq(T), Len(s) = 1
    PROVE  s = <<s[1]>>
  OBVIOUS

\* The finals that are offered begin with the newest.
LEMMA OfferedAreFinals ==
    ASSUME FeedTypes, NEW n \in Nat \ {0}, finals # <<>>
    PROVE  LET kept == SubSeq(finals, 1, Min({n, Len(finals)})) IN
           /\ kept \in Seq(TextSet) /\ Len(kept) \in Nat \ {0} /\ kept[1] = finals[1]
           /\ n = 1 => kept = <<finals[1]>>
<1> DEFINE m == Min({n, Len(finals)})
           kept == SubSeq(finals, 1, m)
<1>1. finals \in Seq(TextSet) /\ Len(finals) \in Nat \ {0}
  BY EmptySeq DEF FeedTypes
<1>2. m \in Nat \ {0} /\ m <= Len(finals) /\ (n = 1 => m = 1)
  BY <1>1, MinOfTwo
<1> HIDE DEF m
<1>3. \A i \in 1..m : finals[i] \in TextSet
  BY <1>1, <1>2
<1>4. kept \in Seq(TextSet) /\ Len(kept) = m /\ \A i \in 1..m : kept[i] = finals[i]
  BY <1>2, <1>3, SubSeqProperties
<1>6. ASSUME n = 1 PROVE kept = <<finals[1]>>
  <2> HIDE DEF kept
  <2>1. Len(kept) = 1 /\ kept[1] = finals[1] /\ kept \in Seq(TextSet)
    BY <1>2, <1>4, <1>6
  <2> QED BY <2>1, SeqOfOne
<1> HIDE DEF kept
<1>7. 1 \in 1..m
  BY <1>2
<1>8. /\ kept \in Seq(TextSet) /\ Len(kept) \in Nat \ {0} /\ kept[1] = finals[1]
      /\ n = 1 => kept = <<finals[1]>>
  BY <1>2, <1>4, <1>6, <1>7
<1> QED BY <1>8 DEF m, kept

\* Once the final has been received, every command offers it.
LEMMA ReceivedIsOffered ==
    ASSUME FeedTypes, Received, connected, window > 1
    PROVE  LET last == <<Piece("final", window - 1)>>
               speaking == live = <<Piece("stream", segment)>>
           IN  /\ snapshot = last /\ predict(FALSE, 1) = <<last>>
               /\ ~speaking => predict(TRUE, 0) = <<last>>
               /\ LET offer == predict(FALSE, 0) IN
                  IF speaking THEN offer[2] = last /\ (boot = 0 => offer[1] = live)
                  ELSE \E i \in {1, 2} : i <= Len(offer) /\ offer[i] = last
<1> DEFINE last == <<Piece("final", window - 1)>>
           speaking == live = <<Piece("stream", segment)>>
           composed == IF preview.plain # <<>> THEN preview.plain ELSE live
           first == IF composed # <<>> THEN <<composed>> ELSE <<>>
           kept == SubSeq(finals, 1, Min({4 - Len(first), Len(finals)}))
           offer == predict(FALSE, 0)
<1>1. finals # <<>> /\ finals[1] = last /\ last # <<>> /\ last \in TextSet
  <2>1. window - 1 \in Nat
    BY DEF FeedTypes
  <2> QED BY <2>1, OneText DEF Received, FinalOf
<1> HIDE DEF last
<1>2. snapshot = last
  BY <1>1 DEF snapshot
<1>3. predict(FALSE, 1) = <<last>>
  <2>1. SubSeq(finals, 1, Min({1, Len(finals)})) = <<last>>
    BY <1>1, OfferedAreFinals
  <2>2. commit_last_n(1) = last
    BY <1>1, <2>1, FlattenOne DEF commit_last_n
  <2> QED BY <1>1, <2>2 DEF predict
<1>4. ASSUME ~speaking PROVE predict(TRUE, 0) = <<last>>
  <2>1. preview.calc = last
    BY <1>4 DEF Received, FinalOf, last
  <2> QED BY <1>1, <2>1 DEF predict
<1>5. offer = first \o kept
  <2>1. offer = voice_predictions
    BY DEF predict
  <2>2. voice_predictions = first \o kept
    BY Zenon DEF voice_predictions
  <2> QED BY <2>1, <2>2
<1>6. CASE composed # <<>>
  <2>1. first = <<composed>>
    BY <1>6
  <2> HIDE DEF composed, first, kept, offer
  <2>2. Len(first) = 1
    BY <2>1
  <2>3. kept \in Seq(TextSet) /\ Len(kept) \in Nat \ {0} /\ kept[1] = last
    <3>1. 4 - Len(first) = 3 /\ 3 \in Nat \ {0}
      BY <2>2
    <3> QED BY <1>1, <3>1, OfferedAreFinals DEF kept
  <2>4. first \in Seq(TextSet \cup {composed}) /\ kept \in Seq(TextSet \cup {composed})
    BY <2>1, <2>3
  <2>5. Len(offer) = 1 + Len(kept) /\ offer[1] = composed /\ offer[2] = last
    BY <1>5, <2>1, <2>2, <2>3, <2>4, ConcatProperties
  <2>6. ASSUME speaking, boot = 0 PROVE offer[1] = live
    <3>1. preview.plain = live /\ live # <<>>
      BY <2>6 DEF Received
    <3> QED BY <2>5, <3>1 DEF composed
  <2>7. 2 \in {1, 2} /\ 2 <= Len(offer)
    BY <2>3, <2>5
  <2> QED BY <1>2, <1>3, <1>4, <2>5, <2>6, <2>7 DEF offer, last
<1>7. CASE composed = <<>>
  <2>1. first = <<>> /\ live = <<>>
    BY <1>7
  <2>2. ~speaking
    BY <2>1
  <2> HIDE DEF composed, first, kept, offer
  <2>3. kept \in Seq(TextSet) /\ Len(kept) \in Nat \ {0} /\ kept[1] = last
    <3>1. 4 - Len(first) = 4 /\ 4 \in Nat \ {0}
      BY <2>1
    <3> QED BY <1>1, <3>1, OfferedAreFinals DEF kept
  <2>4. offer = kept
    BY <1>5, <2>1, <2>3, ConcatEmptySeq
  <2>5. 1 \in {1, 2} /\ 1 <= Len(offer) /\ offer[1] = last
    BY <2>3, <2>4
  <2> QED BY <1>2, <1>3, <1>4, <2>2, <2>5 DEF offer, last
<1> QED BY <1>6, <1>7

\* When all is said, worked through and received, every voice command offers the
\* final text of the last window, whatever was lost before it and however often the
\* daemon was restarted (fold_segment, voice_predictions).
THEOREM FinalIsOffered == AuraSpec => []SettledShowsFinal
<1>1. FeedInv => SettledShowsFinal
  <2> SUFFICES ASSUME FeedInv, Idle, connected, window > 1, window - 1 \notin lossy
               PROVE  Received
    BY ReceivedIsOffered DEF SettledShowsFinal, FeedInv
  <2>1. AtWorker \/ OnTheWire \/ Received
    BY DEF FeedInv, FinalIsUnderWay, Idle
  <2>2. ~AtWorker
    BY DEF AtWorker, Idle
  <2>3. ~OnTheWire
    <3>1. DOMAIN backlog = {}
      BY DEF Idle
    <3> QED BY <3>1 DEF OnTheWire
  <2> QED BY <2>1, <2>2, <2>3
<1> QED BY <1>1, FeedInvariance, PTL

=============================================================================
