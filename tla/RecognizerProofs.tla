-------------------------- MODULE RecognizerProofs ---------------------------
(***************************************************************************)
(* Proofs about Recognizer.tla, for every value of its constants.          *)
(*                                                                         *)
(* Part 1: the type invariant.  Part 2: where the consumer is determines   *)
(* how the tracker, the segment in progress and the last event sent relate *)
(* (FeedOK), which is what makes the events a feed.  Part 3: clips, the    *)
(* streaming session and the labels of its fragments.                      *)
(***************************************************************************)
EXTENDS Recognizer, SequenceTheorems, TLAPS

-----------------------------------------------------------------------------
(* Part 1: types. *)

LEMMA ConstantTypes ==
    /\ MergeGap \in Nat /\ StoreCap \in Nat
    /\ RingCap \in Nat /\ PartialEvery \in Nat /\ StaleReset \in Nat /\ FeedAfter \in Nat
    /\ LeadInCap \in Nat /\ BatchMax \in Nat /\ MaxToggles \in Nat
    /\ Horizon \in Nat /\ Horizon > MergeGap /\ Horizon > StaleReset
    /\ Horizon > FeedAfter /\ Horizon >= BatchMax
  BY MergeGapIsNat, StoreCapIsNat, RecognizerAssumption

\* A bounded push stays a sequence of frames within its bound.
LEMMA PushBounds ==
    ASSUME NEW buf \in Seq(Frame), NEW f \in Frame, NEW cap \in Nat, Len(buf) <= cap
    PROVE  Push(buf, f, cap) \in Seq(Frame) /\ Len(Push(buf, f, cap)) <= cap
  <1> DEFINE all == Append(buf, f)
  <1>1. all \in Seq(Frame) /\ Len(all) = Len(buf) + 1 /\ Len(buf) \in Nat
    OBVIOUS
  <1>2. all # <<>>
    BY <1>1
  <1>3. Tail(all) \in Seq(Frame) /\ Len(Tail(all)) = Len(all) - 1
    BY <1>1, <1>2
  <1> QED
    BY <1>1, <1>3 DEF Push

LEMMA NoWindowType == NoWindow \in Window
  BY DEF NoWindow, Window

LEMMA EnsureOpenType ==
    ASSUME NEW t \in Tracker
    PROVE  /\ EnsureOpen(t) \in Tracker
           /\ EnsureOpen(t).open.id # 0
           /\ EnsureOpen(t).nextSeg = t.nextSeg
           /\ EnsureOpen(t).nextWin >= t.nextWin
           /\ IF IsOpen(t) THEN EnsureOpen(t) = t
              ELSE /\ EnsureOpen(t).open = [id |-> t.nextWin, segs |-> <<>>, active |-> FALSE]
                   /\ EnsureOpen(t).nextWin = t.nextWin + 1
  <1>1. [id |-> t.nextWin, segs |-> <<>>, active |-> FALSE] \in Window
    <2>1. <<>> \in Seq(Segment)
      OBVIOUS
    <2> QED
      BY <2>1 DEF Tracker, Window
  <1>2. CASE IsOpen(t)
    BY <1>2 DEF EnsureOpen, IsOpen, Tracker
  <1>3. CASE ~IsOpen(t)
    <2>1. EnsureOpen(t) = [nextSeg |-> t.nextSeg, nextWin |-> t.nextWin + 1,
               open |-> [id |-> t.nextWin, segs |-> <<>>, active |-> FALSE]]
      BY <1>3 DEF EnsureOpen, Tracker
    <2> QED
      BY <1>1, <1>3, <2>1 DEF Tracker
  <1> QED
    BY <1>2, <1>3

LEMMA OnSosType ==
    ASSUME NEW t \in Tracker
    PROVE  /\ OnSos(t) \in Tracker
           /\ OnSos(t).nextSeg = t.nextSeg + 1
           /\ OnSos(t).nextWin = EnsureOpen(t).nextWin
           /\ OnSos(t).open.id = EnsureOpen(t).open.id
           /\ OnSos(t).open.segs = EnsureOpen(t).open.segs
  <1> DEFINE u == EnsureOpen(t)
  <1>1. u \in Tracker /\ u.nextSeg = t.nextSeg
    BY EnsureOpenType
  <1>2. OnSos(t) = [u EXCEPT !.nextSeg = @ + 1, !.open.active = TRUE]
    BY DEF OnSos
  <1> HIDE DEF u
  <1>3. OnSos(t) = [nextSeg |-> u.nextSeg + 1, nextWin |-> u.nextWin,
               open |-> [id |-> u.open.id, segs |-> u.open.segs, active |-> TRUE]]
    BY <1>1, <1>2 DEF Tracker, Window
  <1>4. OnSos(t) \in Tracker
    BY <1>1, <1>3 DEF Tracker, Window
  <1> QED
    BY <1>1, <1>3, <1>4 DEF u

LEMMA TakeOpenType ==
    ASSUME NEW t \in Tracker
    PROVE  /\ TakeOpen(t) \in Tracker
           /\ TakeOpen(t).open = NoWindow
           /\ TakeOpen(t).nextSeg = t.nextSeg /\ TakeOpen(t).nextWin = t.nextWin
  BY NoWindowType DEF TakeOpen, Tracker

LEMMA DropActiveType ==
    ASSUME NEW t \in Tracker
    PROVE  /\ DropActive(t) \in Tracker
           /\ DropActive(t).open.id = t.open.id /\ DropActive(t).open.segs = t.open.segs
           /\ DropActive(t).nextSeg = t.nextSeg /\ DropActive(t).nextWin = t.nextWin
  BY DEF DropActive, Tracker, Window

\* The window an EOS puts its segment into.
Target(t, seg) == EnsureOpen(IF GapSettles(t, seg.gap) THEN TakeOpen(t) ELSE t)

LEMMA OnEosType ==
    ASSUME NEW t \in Tracker, NEW seg \in Segment
    PROVE  /\ Target(t, seg) \in Tracker
           /\ OnEos(t, seg) \in Tracker
           /\ OnEos(t, seg).open.id = Target(t, seg).open.id
           /\ OnEos(t, seg).open.segs = Append(Target(t, seg).open.segs, seg)
           /\ OnEos(t, seg).nextSeg = t.nextSeg
           /\ OnEos(t, seg).nextWin = Target(t, seg).nextWin
  <1>1. Target(t, seg) \in Tracker /\ Target(t, seg).nextSeg = t.nextSeg
    BY EnsureOpenType, TakeOpenType DEF Target
  <1> DEFINE u == Target(t, seg)
  <1>2. OnEos(t, seg) = [u EXCEPT !.open.active = FALSE, !.open.segs = Append(@, seg)]
    BY DEF OnEos, Target
  <1> HIDE DEF u
  <1>3. u \in Tracker /\ u.nextSeg = t.nextSeg
    BY <1>1 DEF u
  <1>4. OnEos(t, seg) = [nextSeg |-> u.nextSeg, nextWin |-> u.nextWin,
               open |-> [id |-> u.open.id, segs |-> Append(u.open.segs, seg),
                         active |-> FALSE]]
    BY <1>2, <1>3 DEF Tracker, Window
  <1>5. OnEos(t, seg) \in Tracker
    BY <1>3, <1>4 DEF Tracker, Window
  <1> QED
    BY <1>3, <1>4, <1>5 DEF u

\* Ageing and counting down stay on the clock.
LEMMA ClockTypes ==
    ASSUME NEW t \in Clock \cup {Never}
    PROVE  /\ Later(t) \in Clock \cup {Never}
           /\ t # Never => Later(t) \in Clock
           /\ Sooner(t) \in Clock \cup {Never}
  BY ConstantTypes DEF Clock, Never, Later, Sooner

\* The earliest of at most three deadlines.
LEMMA EarliestDeadline ==
    ASSUME NEW A, NEW B, NEW C,
           A = {} \/ \E a \in Clock : A = {a},
           B = {} \/ \E b \in Clock : B = {b},
           C = {} \/ \E c \in Clock : C = {c},
           A \cup B \cup C # {}
    PROVE  Min(A \cup B \cup C) \in Clock
  <1> DEFINE S == A \cup B \cup C
  <1>1. S \subseteq Clock
    OBVIOUS
  <1>2. Clock \subseteq Int
    BY ConstantTypes DEF Clock
  <1>3. \E x \in S : \A y \in S : x <= y
    BY <1>2
  <1> HIDE DEF S
  <1>4. Min(S) \in S
    BY <1>3 DEF Min
  <1> QED
    BY <1>1, <1>4 DEF S

LEMMA DeadlinesType ==
    ASSUME TypeOK, Deadlines # {} PROVE Min(Deadlines) \in Clock
  <1> DEFINE A == IF SettlePending(tracker, sess.partial) THEN {SettleDeadline(sinceEnd)} ELSE {}
             B == IF Watched.partial THEN {StaleReset - Watched.age} ELSE {}
             C == IF Watched.partial /\ emptyFor # Never
                    THEN {IF emptyFor < FeedAfter THEN FeedAfter - emptyFor ELSE 0}
                    ELSE {}
  <1>1. A = {} \/ \E a \in Clock : A = {a}
    <2>1. SettleDeadline(sinceEnd) \in Clock
      BY ConstantTypes DEF TypeOK, SettleDeadline, Clock
    <2> QED
      BY <2>1
  <1>2. B = {} \/ \E b \in Clock : B = {b}
    <2>1. sess.age \in Clock
      BY DEF TypeOK
    <2>2. Watched.partial => Watched = sess /\ sess.age < StaleReset
      BY <2>1, ConstantTypes DEF Watched, FreshSession, Clock
    <2>3. Watched.partial => StaleReset - Watched.age \in Clock
      BY <2>1, <2>2, ConstantTypes DEF Clock
    <2> QED
      BY <2>3
  <1>3. C = {} \/ \E c \in Clock : C = {c}
    <2>1. emptyFor # Never =>
            (IF emptyFor < FeedAfter THEN FeedAfter - emptyFor ELSE 0) \in Clock
      BY ConstantTypes DEF TypeOK, Clock
    <2> QED
      BY <2>1
  <1>4. Deadlines = A \cup B \cup C
    BY DEF Deadlines
  <1> HIDE DEF A, B, C
  <1> QED
    BY <1>1, <1>2, <1>3, <1>4, EarliestDeadline

Session == [pcm : Nat, beat : Nat, partial : BOOLEAN, age : Clock]

LEMMA FreshType == FreshSession \in Session /\ NoSegment \in [id : Nat, pcm : Nat, gap : Int]
  BY ConstantTypes DEF FreshSession, Session, Clock, NoSegment

LEMMA WatchedType == ASSUME TypeOK PROVE Watched \in Session
  BY FreshType DEF Watched, TypeOK, Session

LEMMA InitType == Init => TypeOK
  <1> SUFFICES ASSUME Init PROVE TypeOK
    OBVIOUS
  <1>1. <<>> \in Seq(Frame) /\ <<>> \in Seq(Nat) /\ <<>> \in Seq(Segment)
    OBVIOUS
  <1>2. tracker \in Tracker
    BY NoWindowType DEF Init, NewTracker, Tracker
  <1>3. feed \in Feed!FeedEvent
    BY <1>1 DEF Init, Feed!NoFeed, Feed!FeedEvent
  <1>4. DOMAIN store = {}
    BY DEF Init, EmptyStore
  <1>5. sess \in Session /\ pend \in [id : Nat, pcm : Nat, gap : Int]
    BY FreshType DEF Init
  <1> QED
    BY <1>1, <1>2, <1>3, <1>4, <1>5, NoWindowType, ConstantTypes
       DEF Init, TypeOK, Clock, Never, Session

LEMMA TickType ==
    ASSUME TypeOK, NEW f \in Frame \cup {"none"}, Tick(f) PROVE TypeOK'
  <1>1. ring' \in Seq(Frame) /\ Len(ring') <= RingCap
    BY PushBounds, ConstantTypes DEF TypeOK, Tick
  <1>2. sess' \in Session
    <2>1. Later(sess.age) \in Clock
      BY ClockTypes DEF TypeOK, Clock, Never
    <2> QED
      BY <2>1 DEF TypeOK, Tick, Session
  <1>3. wake' \in Clock \cup {Never} /\ emptyFor' \in Clock \cup {Never}
    BY ClockTypes DEF TypeOK, Tick
  <1>4. sinceEnd' \in Clock
    <2>1. sinceEnd \in Clock /\ sinceEnd # Never /\ 0 \in Clock
      BY ConstantTypes DEF TypeOK, Clock, Never
    <2>2. Later(sinceEnd) \in Clock
      BY <2>1, ClockTypes
    <2> QED
      BY <2>1, <2>2 DEF Tick
  <1>5. busy' \in 0..BatchMax
    <2>1. busy \in 0..BatchMax /\ (pc \in {"batch", "edge"} => busy < BatchMax)
      BY DEF TypeOK, Tick, Blocked
    <2>2. busy' = IF pc \in {"batch", "edge"} THEN busy + 1 ELSE busy
      BY DEF Tick
    <2> QED
      BY <2>1, <2>2, ConstantTypes
  <1>6. heard' \in Nat
    <2>1. heard \in Nat
      BY DEF TypeOK
    <2>2. heard' = IF f = "voice" THEN heard + 1 ELSE heard
      BY DEF Tick
    <2> QED
      BY <2>1, <2>2, ConstantTypes
  <1> QED
    BY <1>1, <1>2, <1>3, <1>4, <1>5, <1>6 DEF TypeOK, Tick, Session

LEMMA ParkType == ASSUME TypeOK, Park PROVE TypeOK'
  <1>1. sess' \in Session
    BY WatchedType DEF Park
  <1>2. emptyFor' \in Clock \cup {Never}
    BY ConstantTypes DEF TypeOK, Park, Clock
  <1>3. wake' \in Clock \cup {Never}
    <2>1. 1 \in Clock
      BY ConstantTypes DEF Clock
    <2> QED
      BY <2>1, DeadlinesType DEF Park
  <1> QED
    BY <1>1, <1>2, <1>3 DEF TypeOK, Park, Session, history

LEMMA VadType == ASSUME TypeOK, NEW f PROVE VadStep(f) \in [latched : BOOLEAN, run : Nat]
  <1>1. vad \in [latched : BOOLEAN, run : Nat]
    BY DEF TypeOK
  <1>2. [vad EXCEPT !.run = 0] \in [latched : BOOLEAN, run : Nat]
    BY <1>1
  <1>3. [vad EXCEPT !.run = @ + 1] \in [latched : BOOLEAN, run : Nat]
    BY <1>1
  <1>4. [latched |-> ~vad.latched, run |-> 0] \in [latched : BOOLEAN, run : Nat]
    OBVIOUS
  <1> QED
    BY <1>2, <1>3, <1>4 DEF VadStep

LEMMA TakeFrameType == ASSUME TypeOK, TakeFrame PROVE TypeOK'
  <1> DEFINE real == ring # <<>>
             f == IF real THEN Head(ring) ELSE "quiet"
             s == IF pc = "parked" THEN sess ELSE Watched
  <1>1. f \in Frame /\ s \in Session
    <2>1. real => Head(ring) \in Frame
      BY DEF TypeOK
    <2> QED
      BY <2>1, WatchedType DEF TypeOK, Frame, Session
  <1>2. /\ ring' = IF real THEN Tail(ring) ELSE ring
        /\ emptyFor' = IF real THEN Never ELSE emptyFor
        /\ canFeed' = (canFeed /\ real)
        /\ vad' = VadStep(f) /\ wake' = Never
        /\ UNCHANGED <<active, store, nextClip, settled, sinceEnd, feed, history>>
        /\ SkipFrame(f, s) \/ FeedSession(f, s) \/ EndSegment(f, s)
    BY DEF TakeFrame
  <1> HIDE DEF f, s
  <1>3. ring' \in Seq(Frame) /\ Len(ring') <= RingCap
    BY <1>2, ConstantTypes DEF TypeOK
  <1>4. vad' \in [latched : BOOLEAN, run : Nat]
    BY <1>2, VadType
  <1>5. Push(leadIn, f, LeadInCap) \in Seq(Frame) /\ Len(Push(leadIn, f, LeadInCap)) <= LeadInCap
        /\ <<>> \in Seq(Frame) /\ Len(<<>>) <= LeadInCap
    BY <1>1, PushBounds, ConstantTypes DEF TypeOK
  <1>6. /\ leadIn' \in Seq(Frame) /\ Len(leadIn') <= LeadInCap
        /\ sess' \in Session /\ tracker' \in Tracker
        /\ pend' \in [id : Nat, pcm : Nat, gap : Int]
        /\ pc' \in {"loop", "batch"} /\ busy' \in 0..BatchMax
        /\ frag' \in [win : Nat, seg : Nat]
    <2>1. CASE SkipFrame(f, s)
      BY <2>1, <1>1, <1>5 DEF SkipFrame, TypeOK
    <2>2. CASE FeedSession(f, s)
      <3> DEFINE beat == (IF ~vad.latched THEN 0 ELSE s.beat) + 1
                 lead == IF ~vad.latched THEN Len(leadIn) ELSE 0
                 next == IF beat >= PartialEvery THEN 0 ELSE beat
                 fed == [s EXCEPT !.pcm = @ + 1 + lead, !.beat = next]
      <3>1. fed \in Session /\ [fed EXCEPT !.partial = TRUE, !.age = 0] \in Session
        <4>1. leadIn \in Seq(Frame) /\ 0 \in Clock
          BY ConstantTypes DEF TypeOK, Clock
        <4>2. s.beat \in Nat /\ s.pcm \in Nat
          BY <1>1 DEF Session
        <4>3. beat \in Nat /\ lead \in Nat
          BY <4>1, <4>2
        <4> HIDE DEF beat, lead
        <4>4. next \in Nat /\ s.pcm + 1 + lead \in Nat
          BY <4>2, <4>3
        <4> HIDE DEF next
        <4>5. fed \in Session
          BY <1>1, <4>4 DEF Session
        <4> HIDE DEF fed
        <4> QED
          BY <4>1, <4>5 DEF Session
      <3>2. \/ sess' = [fed EXCEPT !.partial = TRUE, !.age = 0] /\ frag' = Prospective(tracker)
            \/ sess' = fed /\ frag' = frag
        BY <2>2 DEF FeedSession
      <3>3. Prospective(tracker) \in [win : Nat, seg : Nat]
        BY DEF TypeOK, Tracker, Window, Prospective
      <3> HIDE DEF fed
      <3>4. sess' \in Session /\ frag' \in [win : Nat, seg : Nat]
        BY <3>1, <3>2, <3>3 DEF TypeOK
      <3> QED
        BY <2>2, <3>4, <1>5 DEF FeedSession, TypeOK
    <2>3. CASE EndSegment(f, s)
      <3>1. tracker' \in Tracker
        BY <2>3, OnSosType DEF EndSegment, TypeOK
      <3>2. pend' \in [id : Nat, pcm : Nat, gap : Int]
        <4>1. tracker.nextSeg \in Nat /\ s.pcm \in Nat /\ sinceEnd \in Int
          BY <1>1, ConstantTypes DEF TypeOK, Tracker, Session, Clock
        <4>2. pend' = [id |-> tracker.nextSeg, pcm |-> s.pcm, gap |-> sinceEnd - s.pcm]
          BY <2>3 DEF EndSegment
        <4> QED
          BY <4>1, <4>2
      <3> QED
        BY <2>3, <3>1, <3>2, <1>5, FreshType, ConstantTypes DEF EndSegment, TypeOK
    <2> QED
      BY <1>2, <2>1, <2>2, <2>3
  <1> QED
    BY <1>2, <1>3, <1>4, <1>6 DEF TypeOK, Session, history

\* The ids of a window's segments, in order.
LEMMA IdsType ==
    ASSUME NEW segs \in Seq(Segment)
    PROVE  /\ Ids(segs) \in Seq(Nat) /\ Len(Ids(segs)) = Len(segs)
           /\ \A i \in 1..Len(segs) : Ids(segs)[i] = segs[i].id
  <1>1. Len(segs) \in Nat /\ DOMAIN segs = 1..Len(segs)
        /\ \A i \in 1..Len(segs) : segs[i] \in Segment
    OBVIOUS
  <1>2. Ids(segs) \in [1..Len(segs) -> Nat]
    BY <1>1 DEF Ids, Segment
  <1>3. Ids(segs) \in Seq(Nat) /\ Len(Ids(segs)) = Len(segs)
    BY <1>1, <1>2
  <1> QED
    BY <1>1, <1>3 DEF Ids

LEMMA IdsAppend ==
    ASSUME NEW segs \in Seq(Segment), NEW seg \in Segment
    PROVE  Ids(Append(segs, seg)) = Append(Ids(segs), seg.id)
  <1> DEFINE more == Append(segs, seg)
  <1>1. /\ more \in Seq(Segment) /\ Len(more) = Len(segs) + 1 /\ Len(segs) \in Nat
        /\ \A i \in 1..Len(segs) : more[i] = segs[i]
        /\ more[Len(segs) + 1] = seg
    OBVIOUS
  <1>2. seg.id \in Nat
    BY DEF Segment
  <1> HIDE DEF more
  <1>3. /\ Ids(more) \in Seq(Nat) /\ Len(Ids(more)) = Len(segs) + 1
        /\ \A i \in 1..(Len(segs) + 1) : Ids(more)[i] = more[i].id
        /\ Ids(segs) \in Seq(Nat) /\ Len(Ids(segs)) = Len(segs)
        /\ \A i \in 1..Len(segs) : Ids(segs)[i] = segs[i].id
    BY <1>1, IdsType
  <1>4. /\ Append(Ids(segs), seg.id) \in Seq(Nat)
        /\ Len(Append(Ids(segs), seg.id)) = Len(segs) + 1
        /\ \A i \in 1..Len(segs) : Append(Ids(segs), seg.id)[i] = Ids(segs)[i]
        /\ Append(Ids(segs), seg.id)[Len(segs) + 1] = seg.id
    BY <1>2, <1>3
  <1>5. ASSUME NEW i \in 1..(Len(segs) + 1)
        PROVE  Ids(more)[i] = Append(Ids(segs), seg.id)[i]
    <2>1. i \in 1..Len(segs) \/ i = Len(segs) + 1
      BY <1>1
    <2>2. CASE i \in 1..Len(segs)
      BY <2>2, <1>1, <1>3, <1>4
    <2>3. CASE i = Len(segs) + 1
      <3>1. Ids(more)[i] = more[i].id
        BY <1>3
      <3>2. more[i] = seg
        BY <1>1, <2>3
      <3>3. Append(Ids(segs), seg.id)[i] = seg.id
        BY <1>4, <2>3
      <3> QED
        BY <3>1, <3>2, <3>3
    <2> QED
      BY <2>1, <2>2, <2>3
  <1>6. Ids(more) = Append(Ids(segs), seg.id)
    BY <1>3, <1>4, <1>5, SeqEqual
  <1> QED
    BY <1>6 DEF more

\* Inserting adds at most the clip itself.
LEMMA InsertAdds ==
    ASSUME NEW clips, NEW id, NEW len
    PROVE  DOMAIN Insert(clips, id, len) \subseteq DOMAIN clips \cup {id}
  BY DEF Insert, Survivors

LEMMA EvictRemoves ==
    ASSUME NEW clips, NEW ids
    PROVE  DOMAIN Evict(clips, ids) = DOMAIN clips \ ids
  BY DEF Evict

NewSegment == [id |-> pend.id, clip |-> nextClip, gap |-> pend.gap]

LEMMA NewSegmentType == ASSUME TypeOK PROVE NewSegment \in Segment
  BY DEF TypeOK, NewSegment, Segment

LEMMA KeepSegmentType == ASSUME TypeOK, KeepSegment PROVE TypeOK'
  <1>1. tracker' \in Tracker
    BY OnEosType, NewSegmentType DEF KeepSegment, TypeOK, NewSegment
  <1>2. settled' \in Window
    BY NoWindowType DEF KeepSegment, TypeOK, Tracker
  <1>3. DOMAIN store' \subseteq 0..(nextClip' - 1) /\ nextClip' \in Nat
    <2>1. nextClip \in Nat /\ DOMAIN store \subseteq 0..(nextClip - 1) /\ nextClip' = nextClip + 1
      BY DEF KeepSegment, TypeOK
    <2>2. DOMAIN store' \subseteq DOMAIN store \cup {nextClip}
      BY InsertAdds DEF KeepSegment
    <2> QED
      BY <2>1, <2>2
  <1>4. sinceEnd' \in Clock /\ busy' \in 0..BatchMax
    <2>1. busy \in 0..BatchMax /\ sinceEnd' = busy /\ busy' = 0
      BY DEF KeepSegment, TypeOK
    <2> QED
      BY <2>1, ConstantTypes DEF Clock
  <1> QED
    BY <1>1, <1>2, <1>3, <1>4 DEF KeepSegment, TypeOK, history

LEMMA EmitEdgeType == ASSUME TypeOK, EmitEdge PROVE TypeOK'
  <1>1. feed' \in Feed!FeedEvent
    <2>1. settled.id \in Nat /\ Ids(settled.segs) \in Seq(Nat)
      BY IdsType DEF TypeOK, Window
    <2> QED
      BY <2>1 DEF EmitEdge, Feed!FeedEvent
  <1>2. DOMAIN store' \subseteq 0..(nextClip' - 1)
    <2>1. store' = Evict(store, Clips(settled.segs)) /\ nextClip' = nextClip
      BY DEF EmitEdge
    <2>2. DOMAIN store' = DOMAIN store \ Clips(settled.segs)
      BY <2>1, EvictRemoves
    <2> QED
      BY <2>1, <2>2 DEF TypeOK
  <1>3. sess' \in Session
    BY FreshType DEF EmitEdge, TypeOK, Session
  <1>4. 0 \in 0..BatchMax
    BY ConstantTypes
  <1> QED
    BY <1>1, <1>2, <1>3, <1>4, NoWindowType DEF EmitEdge, TypeOK, history, Session

LEMMA EmitBatchType == ASSUME TypeOK, EmitBatch PROVE TypeOK'
  <1>1. feed' \in Feed!FeedEvent
    <2>1. tracker.open.id \in Nat /\ Ids(tracker.open.segs) \in Seq(Nat)
      BY IdsType DEF TypeOK, Tracker, Window
    <2> QED
      BY <2>1 DEF EmitBatch, Feed!FeedEvent
  <1> QED
    BY <1>1, FreshType DEF EmitBatch, TypeOK, clocks, history

LEMMA OtherTypes ==
    ASSUME TypeOK,
           \/ Toggle \/ PausedPark \/ PausedDrop \/ SettleByTimeout \/ Timeout
           \/ DropNoise \/ UNCHANGED vars
    PROVE  TypeOK'
  <1>1. CASE Toggle
    <2>1. toggles' \in 0..MaxToggles
      <3>1. toggles \in 0..MaxToggles /\ toggles < MaxToggles /\ toggles' = toggles + 1
        BY <1>1 DEF TypeOK, Toggle
      <3> QED
        BY <3>1, ConstantTypes
    <2> QED
      BY <1>1, <2>1 DEF TypeOK, Toggle, clocks
  <1>2. CASE PausedPark
    BY <1>2 DEF TypeOK, PausedPark, clocks, history
  <1>3. CASE PausedDrop
    <2>1. ring' \in Seq(Frame) /\ Len(ring') <= RingCap
      BY <1>3, ConstantTypes DEF TypeOK, PausedDrop
    <2> QED
      BY <1>3, <2>1 DEF TypeOK, PausedDrop, clocks, history
  <1>4. CASE SettleByTimeout
    <2>1. tracker' \in Tracker /\ settled' \in Window /\ 0 \in 0..BatchMax
      BY <1>4, TakeOpenType, ConstantTypes DEF TypeOK, SettleByTimeout, Tracker
    <2> QED
      BY <1>4, <2>1 DEF TypeOK, SettleByTimeout, history
  <1>5. CASE Timeout
    BY <1>5 DEF TypeOK, Timeout, history
  <1>6. CASE DropNoise
    BY <1>6, DropActiveType, FreshType DEF TypeOK, DropNoise, clocks, history
  <1>7. CASE UNCHANGED vars
    BY <1>7 DEF TypeOK, vars, clocks, history
  <1> QED
    BY <1>1, <1>2, <1>3, <1>4, <1>5, <1>6, <1>7

LEMMA NextType == TypeOK /\ [Next]_vars => TypeOK'
  <1> SUFFICES ASSUME TypeOK, [Next]_vars PROVE TypeOK'
    OBVIOUS
  <1>1. CASE Capture \/ NoCapture
    BY <1>1, TickType DEF Capture, NoCapture
  <1>2. CASE Consumer
    BY <1>2, OtherTypes, ParkType, TakeFrameType, KeepSegmentType, EmitEdgeType,
       EmitBatchType DEF Consumer
  <1> QED
    BY <1>1, <1>2, OtherTypes DEF Next

\* Every variable keeps its type, for every ring, lead-in and store size.
THEOREM TypeCorrect == Spec => []TypeOK
  BY InitType, NextType, PTL DEF Spec

-----------------------------------------------------------------------------
(* Part 2: the events are a feed. *)

\* The Batch that would announce window w as it is.
AsFeed(w) == [win |-> w.id, segs |-> Ids(w.segs), closed |-> FALSE]

Quiet == {"loop", "watch", "parked", "paused"}

IdsGrow ==
    /\ feed.win < tracker.nextWin /\ tracker.open.id < tracker.nextWin
    /\ Feed!LastSeg(feed) < tracker.nextSeg
    /\ pend.id < tracker.nextSeg

\* Between segments the last event tells all of the open window, or closed the
\* one before it.
Shows(f, w) ==
    IF w.segs = <<>>
      THEN f.closed /\ (w.id # 0 => f.win < w.id)
      ELSE w.id # 0 /\ f = AsFeed(w)

\* A segment has been recorded and its Batch is due after event f.
BatchDue(f, t) ==
    /\ Feed!Follows(f, AsFeed(t.open))
    /\ t.open.id # 0 /\ t.open.segs # <<>>
    /\ Feed!LastSeg(AsFeed(t.open)) < t.nextSeg

FeedOK ==
    /\ pc # "edge" => settled = NoWindow
    /\ pc \in Quiet => pend = NoSegment
    /\ pc \in Quiet \cup {"batch"} => Shows(feed, tracker.open)
    /\ pc = "batch" => Feed!LastSeg(feed) < pend.id
    /\ pc = "edge" =>
          /\ feed = AsFeed(settled)
          /\ \/ pend = NoSegment /\ tracker.open = NoWindow
             \/ pend # NoSegment /\ BatchDue(Feed!Closed(feed), tracker)
    /\ pc = "emit" => pend # NoSegment /\ BatchDue(feed, tracker)

LEMMA NoWindowFacts == NoWindow.id = 0 /\ NoWindow.segs = <<>> /\ NoSegment.id = 0
  BY DEF NoWindow, NoSegment

LEMMA FeedNumbers ==
    ASSUME TypeOK PROVE feed.win \in Nat /\ Feed!LastSeg(feed) \in Nat
  <1>1. feed.win \in Nat /\ feed.segs \in Seq(Nat)
    BY DEF TypeOK, Feed!FeedEvent
  <1>2. feed.segs # <<>> => feed.segs[Len(feed.segs)] \in Nat
    BY <1>1
  <1> QED
    BY <1>1, <1>2 DEF Feed!LastSeg

LEMMA LastAppend ==
    ASSUME NEW w, NEW s \in Seq(Nat), NEW x \in Nat
    PROVE  Feed!LastSeg([win |-> w, segs |-> Append(s, x), closed |-> FALSE]) = x
  <1>1. Append(s, x) # <<>> /\ Append(s, x)[Len(Append(s, x))] = x
    OBVIOUS
  <1> QED
    BY <1>1 DEF Feed!LastSeg

LEMMA OneSegment ==
    ASSUME NEW x \in Nat
    PROVE  Len(Append(Ids(<<>>), x)) = 1
  <1>1. <<>> \in Seq(Segment) /\ Len(<<>>) = 0
    OBVIOUS
  <1>2. Ids(<<>>) \in Seq(Nat) /\ Len(Ids(<<>>)) = 0
    BY <1>1, IdsType
  <1> QED
    BY <1>2

\* Steps that touch neither the tracker nor a segment nor the feed.
LEMMA UntouchedFeed ==
    ASSUME IdsGrow, FeedOK, UNCHANGED <<feed, tracker, pend, settled>>,
           pc' = pc \/ (pc \in Quiet /\ pc' \in Quiet)
    PROVE  IdsGrow' /\ FeedOK'
  <1>1. IdsGrow'
    BY DEF IdsGrow
  <1>2. CASE pc' = pc
    BY <1>1, <1>2 DEF FeedOK
  <1>3. CASE pc \in Quiet /\ pc' \in Quiet
    BY <1>1, <1>3 DEF FeedOK, Quiet
  <1> QED
    BY <1>2, <1>3

LEMMA SettleFeed ==
    ASSUME TypeOK, IdsGrow, FeedOK, SettleByTimeout
    PROVE  IdsGrow' /\ FeedOK'
  <1>1. /\ pc = "loop" /\ pc' = "edge" /\ UNCHANGED <<feed, pend>>
        /\ settled' = tracker.open /\ tracker' = TakeOpen(tracker)
        /\ tracker.open.segs # <<>>
    BY DEF SettleByTimeout, SettleDue, CheckSettle, SettlePending
  <1>2. /\ tracker'.open = NoWindow /\ tracker'.nextSeg = tracker.nextSeg
        /\ tracker'.nextWin = tracker.nextWin /\ tracker'.nextWin \in Nat \ {0}
    BY <1>1, TakeOpenType DEF TypeOK, Tracker
  <1>3. feed = AsFeed(tracker.open) /\ pend = NoSegment
    BY <1>1 DEF FeedOK, Shows, Quiet
  <1>4. IdsGrow'
    BY <1>1, <1>2, NoWindowFacts DEF IdsGrow
  <1>5. FeedOK'
    BY <1>1, <1>2, <1>3 DEF FeedOK, Quiet
  <1> QED
    BY <1>4, <1>5

LEMMA EndSegmentFeed ==
    ASSUME TypeOK, IdsGrow, FeedOK, NEW f, NEW s, EndSegment(f, s), pc \in Quiet,
           UNCHANGED <<feed, settled>>
    PROVE  IdsGrow' /\ FeedOK'
  <1>1. /\ tracker \in Tracker /\ tracker' = OnSos(tracker)
        /\ pc' = "batch" /\ pend'.id = tracker.nextSeg
    BY DEF EndSegment, TypeOK
  <1>2. /\ tracker'.nextSeg = tracker.nextSeg + 1 /\ tracker.nextSeg \in Nat
        /\ IF IsOpen(tracker)
             THEN /\ tracker'.open.id = tracker.open.id
                  /\ tracker'.open.segs = tracker.open.segs
                  /\ tracker'.nextWin = tracker.nextWin
             ELSE /\ tracker'.open.id = tracker.nextWin
                  /\ tracker'.open.segs = <<>>
                  /\ tracker'.nextWin = tracker.nextWin + 1
        /\ tracker'.open.id # 0
        /\ tracker.nextWin \in Nat /\ tracker.open.id \in Nat
    <2>1. /\ tracker.nextSeg \in Nat \ {0} /\ tracker.nextWin \in Nat \ {0}
          /\ tracker.open.id \in Nat
      BY <1>1 DEF Tracker, Window
    <2>2. CASE IsOpen(tracker)
      BY <1>1, <2>1, <2>2, OnSosType, EnsureOpenType
    <2>3. CASE ~IsOpen(tracker)
      <3>1. EnsureOpen(tracker).open = [id |-> tracker.nextWin, segs |-> <<>>, active |-> FALSE]
            /\ EnsureOpen(tracker).nextWin = tracker.nextWin + 1
        BY <1>1, <2>3, EnsureOpenType
      <3> QED
        BY <1>1, <2>1, <2>3, <3>1, OnSosType
    <2> QED
      BY <2>2, <2>3
  <1>3. /\ feed.win \in Nat /\ Feed!LastSeg(feed) \in Nat
    BY FeedNumbers
  <1>4. feed' = feed
    OBVIOUS
  <1>5. IdsGrow'
    BY <1>1, <1>2, <1>3, <1>4 DEF IdsGrow
  <1>6. Shows(feed', tracker'.open)
    <2>0. Shows(feed, tracker.open)
      BY DEF FeedOK
    <2>1. CASE IsOpen(tracker)
      BY <2>0, <2>1, <1>2, <1>4 DEF Shows, AsFeed
    <2>2. CASE ~IsOpen(tracker)
      <3>1. feed.closed /\ feed.win < tracker.nextWin
        BY <2>0, <2>2 DEF IsOpen, Shows, IdsGrow
      <3> QED
        BY <3>1, <2>2, <1>2, <1>4 DEF Shows
    <2> QED
      BY <2>1, <2>2
  <1>7. FeedOK'
    BY <1>1, <1>4, <1>6 DEF FeedOK, IdsGrow, Quiet
  <1> QED
    BY <1>5, <1>7

LEMMA DropNoiseFeed ==
    ASSUME TypeOK, IdsGrow, FeedOK, DropNoise
    PROVE  IdsGrow' /\ FeedOK'
  <1>1. /\ tracker \in Tracker /\ tracker' = DropActive(tracker)
        /\ pc = "batch" /\ pc' = "loop" /\ pend' = NoSegment
        /\ UNCHANGED <<feed, settled>>
    BY DEF DropNoise, TypeOK
  <1>2. /\ tracker'.open.id = tracker.open.id /\ tracker'.open.segs = tracker.open.segs
        /\ tracker'.nextSeg = tracker.nextSeg /\ tracker'.nextWin = tracker.nextWin
        /\ tracker.nextSeg \in Nat \ {0}
    BY <1>1, DropActiveType DEF Tracker
  <1>3. IdsGrow'
    BY <1>1, <1>2, NoWindowFacts DEF IdsGrow
  <1>4. Shows(feed', tracker'.open)
    BY <1>1, <1>2 DEF FeedOK, Shows, AsFeed
  <1>5. FeedOK'
    BY <1>1, <1>4 DEF FeedOK, Quiet
  <1> QED
    BY <1>3, <1>5

LEMMA EmitEdgeFeed ==
    ASSUME TypeOK, IdsGrow, FeedOK, EmitEdge
    PROVE  IdsGrow' /\ FeedOK' /\ Feed!Follows(feed, feed')
  <1>1. /\ pc = "edge" /\ settled' = NoWindow /\ UNCHANGED <<tracker, pend>>
        /\ pc' = IF pend # NoSegment THEN "emit" ELSE "watch"
        /\ feed' = [win |-> settled.id, segs |-> Ids(settled.segs), closed |-> TRUE]
    BY DEF EmitEdge
  <1>2. feed = AsFeed(settled)
    BY <1>1 DEF FeedOK
  <1>3. feed' = Feed!Closed(feed) /\ ~feed.closed /\ feed'.closed
        /\ feed'.win = feed.win /\ feed'.segs = feed.segs
    BY <1>1, <1>2 DEF AsFeed, Feed!Closed
  <1>4. Feed!LastSeg(feed') = Feed!LastSeg(feed)
    BY <1>3 DEF Feed!LastSeg
  <1>5. IdsGrow'
    BY <1>1, <1>3, <1>4 DEF IdsGrow
  <1>6. Feed!Follows(feed, feed')
    BY <1>3 DEF Feed!Follows, Feed!Closes
  <1>7. CASE pend = NoSegment
    <2>1. tracker.open = NoWindow
      BY <1>1, <1>7 DEF FeedOK
    <2>2. Shows(feed', tracker'.open)
      BY <2>1, <1>1, <1>3, NoWindowFacts DEF Shows
    <2> QED
      BY <2>2, <1>1, <1>5, <1>6, <1>7 DEF FeedOK, Quiet
  <1>8. CASE pend # NoSegment
    <2>1. BatchDue(feed', tracker)
      BY <1>1, <1>3, <1>8 DEF FeedOK
    <2> QED
      BY <2>1, <1>1, <1>5, <1>6, <1>8 DEF FeedOK, Quiet
  <1> QED
    BY <1>7, <1>8

LEMMA EmitBatchFeed ==
    ASSUME TypeOK, IdsGrow, FeedOK, EmitBatch
    PROVE  IdsGrow' /\ FeedOK' /\ Feed!Follows(feed, feed')
  <1>1. /\ pc = "emit" /\ pc' = "loop" /\ pend' = NoSegment /\ UNCHANGED <<tracker, settled>>
        /\ feed' = AsFeed(tracker.open)
    BY DEF EmitBatch, AsFeed
  <1>2. BatchDue(feed, tracker) /\ settled = NoWindow
    BY <1>1 DEF FeedOK
  <1>3. Shows(feed', tracker'.open)
    BY <1>1, <1>2 DEF Shows, BatchDue
  <1>4. tracker.nextSeg \in Nat \ {0}
    BY DEF TypeOK, Tracker
  <1>5. feed'.win = tracker.open.id
    BY <1>1 DEF AsFeed
  <1>6. IdsGrow'
    BY <1>1, <1>2, <1>4, <1>5, NoWindowFacts DEF IdsGrow, BatchDue
  <1> QED
    BY <1>1, <1>2, <1>3, <1>6 DEF FeedOK, Quiet, BatchDue

\* The heart of the matter: whichever window the segment goes to, its Batch
\* extends or opens a window after what has been, or is about to be, said.
LEMMA KeepSegmentFeed ==
    ASSUME TypeOK, IdsGrow, FeedOK, KeepSegment
    PROVE  IdsGrow' /\ FeedOK'
  <1> DEFINE seg == NewSegment
             splits == GapSettles(tracker, pend.gap)
             goes == Target(tracker, seg)
             now == IF splits THEN Feed!Closed(feed) ELSE feed
  <1>1. /\ pc = "batch" /\ tracker' = OnEos(tracker, seg) /\ UNCHANGED <<feed, pend>>
        /\ settled' = IF splits THEN tracker.open ELSE NoWindow
        /\ pc' = IF splits THEN "edge" ELSE "emit"
    BY DEF KeepSegment, NewSegment
  <1>2. tracker \in Tracker /\ seg \in Segment /\ seg.id = pend.id /\ seg.gap = pend.gap
        /\ pend.id \in Nat /\ tracker.nextWin \in Nat /\ tracker.open.id \in Nat
    BY NewSegmentType DEF TypeOK, Tracker, Window, NewSegment
  <1>3. /\ tracker'.open.id = goes.open.id
        /\ tracker'.open.segs = Append(goes.open.segs, seg)
        /\ tracker'.nextSeg = tracker.nextSeg
        /\ tracker'.nextWin = goes.nextWin
        /\ goes \in Tracker
    BY <1>1, <1>2, OnEosType
  <1>4. feed.win \in Nat /\ Feed!LastSeg(feed) \in Nat /\ feed.segs \in Seq(Nat)
    BY FeedNumbers DEF TypeOK, Feed!FeedEvent
  <1>5. Shows(feed, tracker.open) /\ Feed!LastSeg(feed) < pend.id /\ pend # NoSegment
    BY <1>1, <1>2, <1>4, NoWindowFacts DEF FeedOK
  <1>6. goes.open.segs \in Seq(Segment) /\ goes.open.id \in Nat
    BY <1>3 DEF Tracker, Window
  <1>7. AsFeed(tracker'.open) = [win |-> goes.open.id,
            segs |-> Append(Ids(goes.open.segs), pend.id), closed |-> FALSE]
        /\ Feed!LastSeg(AsFeed(tracker'.open)) = pend.id
    <2>1. Ids(tracker'.open.segs) = Append(Ids(goes.open.segs), pend.id)
      BY <1>2, <1>3, <1>6, IdsAppend
    <2>2. Ids(goes.open.segs) \in Seq(Nat)
      BY <1>6, IdsType
    <2>3. AsFeed(tracker'.open) = [win |-> goes.open.id,
             segs |-> Append(Ids(goes.open.segs), pend.id), closed |-> FALSE]
      BY <2>1, <1>3 DEF AsFeed
    <2>4. Feed!LastSeg([win |-> goes.open.id,
             segs |-> Append(Ids(goes.open.segs), pend.id), closed |-> FALSE]) = pend.id
      BY <2>2, <1>2, LastAppend
    <2> QED
      BY <2>3, <2>4
  <1>8. Feed!LastSeg(Feed!Closed(feed)) = Feed!LastSeg(feed)
        /\ Feed!Closed(feed).win = feed.win /\ Feed!Closed(feed).closed
    BY DEF Feed!Closed, Feed!LastSeg
  <1>9. /\ Feed!Follows(now, AsFeed(tracker'.open))
        /\ goes.open.id # 0 /\ goes.open.id < goes.nextWin /\ feed.win < goes.nextWin
    <2>1. CASE splits
      <3>1. goes = EnsureOpen(TakeOpen(tracker)) /\ ~IsOpen(TakeOpen(tracker))
        BY <2>1, <1>2, TakeOpenType, NoWindowFacts DEF Target, IsOpen
      <3>2. goes.open.id = tracker.nextWin /\ goes.open.segs = <<>>
            /\ goes.nextWin = tracker.nextWin + 1 /\ goes.open.id # 0
        <4>1. TakeOpen(tracker) \in Tracker /\ TakeOpen(tracker).nextWin = tracker.nextWin
              /\ tracker.nextWin # 0
          BY <1>2, TakeOpenType DEF Tracker
        <4>2. /\ goes.open = [id |-> tracker.nextWin, segs |-> <<>>, active |-> FALSE]
              /\ goes.nextWin = tracker.nextWin + 1
          BY <4>1, <3>1, EnsureOpenType
        <4> QED
          BY <4>1, <4>2
      <3>3. Feed!Opens(now, AsFeed(tracker'.open))
        BY <3>2, <2>1, <1>5, <1>7, <1>8, OneSegment DEF Feed!Opens, IdsGrow
      <3> QED
        BY <3>2, <3>3, <1>2, <1>4 DEF Feed!Follows, IdsGrow
    <2>2. CASE ~splits /\ tracker.open.segs = <<>>
      <3>1. goes = EnsureOpen(tracker)
        BY <2>2, <1>2 DEF Target
      <3>2. goes.open.id > feed.win /\ goes.open.segs = <<>>
            /\ goes.open.id # 0 /\ goes.open.id < goes.nextWin /\ feed.win < goes.nextWin
        <4>1. CASE IsOpen(tracker)
          BY <4>1, <3>1, <2>2, <1>2, <1>4, <1>5, EnsureOpenType DEF Shows, IsOpen, IdsGrow
        <4>2. CASE ~IsOpen(tracker)
          <5>1. goes.open = [id |-> tracker.nextWin, segs |-> <<>>, active |-> FALSE]
                /\ goes.nextWin = tracker.nextWin + 1 /\ goes.open.id # 0
            BY <4>2, <3>1, <1>2, EnsureOpenType
          <5> QED
            BY <5>1, <1>2, <1>4 DEF IdsGrow
        <4> QED
          BY <4>1, <4>2
      <3>3. Feed!Opens(now, AsFeed(tracker'.open))
        BY <3>2, <2>2, <1>5, <1>7, OneSegment DEF Feed!Opens, Shows
      <3> QED
        BY <3>2, <3>3 DEF Feed!Follows
    <2>3. CASE ~splits /\ tracker.open.segs # <<>>
      <3>1. tracker.open.id # 0 /\ feed = AsFeed(tracker.open)
        BY <2>3, <1>5 DEF Shows
      <3>2. goes = tracker
        BY <3>1, <2>3, <1>2, EnsureOpenType DEF Target, IsOpen
      <3>3. Feed!Extends(now, AsFeed(tracker'.open))
        BY <3>1, <3>2, <2>3, <1>5, <1>7 DEF Feed!Extends, AsFeed
      <3> QED
        BY <3>1, <3>2, <3>3 DEF Feed!Follows, IdsGrow
    <2> QED
      BY <2>1, <2>2, <2>3
  <1>10. splits => feed = AsFeed(tracker.open)
    BY <1>5 DEF GapSettles, Shows
  <1>11. tracker'.open.segs # <<>>
    BY <1>2, <1>3, <1>6
  <1>12. BatchDue(now, tracker')
    BY <1>3, <1>7, <1>9, <1>11 DEF BatchDue, IdsGrow
  <1>13. IdsGrow'
    BY <1>1, <1>3, <1>9 DEF IdsGrow
  <1> HIDE DEF splits
  <1>14. CASE splits
    BY <1>1, <1>5, <1>10, <1>12, <1>13, <1>14 DEF FeedOK, Quiet
  <1>15. CASE ~splits
    BY <1>1, <1>5, <1>12, <1>13, <1>15 DEF FeedOK, Quiet
  <1> QED
    BY <1>14, <1>15

LEMMA TakeFrameFeed ==
    ASSUME TypeOK, IdsGrow, FeedOK, TakeFrame
    PROVE  IdsGrow' /\ FeedOK'
  <1> DEFINE f == IF ring # <<>> THEN Head(ring) ELSE "quiet"
             s == IF pc = "parked" THEN sess ELSE Watched
  <1>1. /\ pc \in Quiet /\ UNCHANGED <<feed, settled>>
        /\ SkipFrame(f, s) \/ FeedSession(f, s) \/ EndSegment(f, s)
    BY DEF TakeFrame, Ready, Quiet
  <1>2. CASE SkipFrame(f, s)
    BY <1>1, <1>2, UntouchedFeed DEF SkipFrame, Quiet
  <1>3. CASE FeedSession(f, s)
    BY <1>1, <1>3, UntouchedFeed DEF FeedSession, Quiet
  <1>4. CASE EndSegment(f, s)
    BY <1>1, <1>4, EndSegmentFeed
  <1> QED
    BY <1>1, <1>2, <1>3, <1>4

LEMMA NextFeed ==
    ASSUME TypeOK, IdsGrow, FeedOK, [Next]_vars
    PROVE  /\ IdsGrow' /\ FeedOK'
           /\ feed' = feed \/ Feed!Follows(feed, feed')
  <1>1. CASE (\E f \in Frame : Tick(f)) \/ Tick("none") \/ Toggle
    BY <1>1, UntouchedFeed DEF Tick, Toggle
  <1>2. CASE PausedPark \/ PausedDrop \/ Park \/ Timeout
    BY <1>2, UntouchedFeed DEF PausedPark, PausedDrop, Park, Ready, Timeout, Quiet
  <1>3. CASE SettleByTimeout
    BY <1>3, SettleFeed DEF SettleByTimeout
  <1>4. CASE TakeFrame
    BY <1>4, TakeFrameFeed DEF TakeFrame
  <1>5. CASE DropNoise
    BY <1>5, DropNoiseFeed DEF DropNoise
  <1>6. CASE KeepSegment
    BY <1>6, KeepSegmentFeed DEF KeepSegment
  <1>7. CASE EmitEdge
    BY <1>7, EmitEdgeFeed
  <1>8. CASE EmitBatch
    BY <1>8, EmitBatchFeed
  <1>9. CASE UNCHANGED vars
    BY <1>9, UntouchedFeed DEF vars
  <1> QED
    BY <1>1, <1>2, <1>3, <1>4, <1>5, <1>6, <1>7, <1>8, <1>9
       DEF Next, Consumer, Capture, NoCapture

LEMMA InitFeed == Init => IdsGrow /\ FeedOK
  <1> SUFFICES ASSUME Init PROVE IdsGrow /\ FeedOK
    OBVIOUS
  <1>1. /\ feed = Feed!NoFeed /\ tracker = NewTracker /\ pend = NoSegment
        /\ settled = NoWindow /\ pc = "loop"
    BY DEF Init
  <1>2. /\ feed.win = 0 /\ feed.segs = <<>> /\ feed.closed /\ Feed!LastSeg(feed) = 0
        /\ tracker.open = NoWindow /\ tracker.nextWin = 1 /\ tracker.nextSeg = 1
    BY <1>1 DEF Feed!NoFeed, Feed!LastSeg, NewTracker
  <1>3. IdsGrow
    BY <1>1, <1>2, NoWindowFacts DEF IdsGrow
  <1>4. Shows(feed, tracker.open)
    BY <1>2, NoWindowFacts DEF Shows
  <1> QED
    BY <1>1, <1>3, <1>4 DEF FeedOK, Quiet

FeedInv == TypeOK /\ IdsGrow /\ FeedOK

LEMMA FeedInvariant == Spec => []FeedInv
  <1>1. Init => FeedInv
    BY InitType, InitFeed DEF FeedInv
  <1>2. FeedInv /\ [Next]_vars => FeedInv'
    BY NextType, NextFeed DEF FeedInv
  <1> QED
    BY <1>1, <1>2, PTL DEF Spec

\* However segments are split, dropped as noise or closed by a gap or a timeout,
\* and however long the batch passes take, the events sent are a well-formed
\* feed of windows: the recognizer implements WindowFeed.
THEOREM KeepsTheFeed == Spec => KeepsFeed
  <1>1. Init => feed = Feed!NoFeed
    BY DEF Init
  <1>2. FeedInv /\ [Next]_vars => [Feed!Follows(feed, feed')]_feed
    BY NextFeed DEF FeedInv
  <1> QED
    BY <1>1, <1>2, FeedInvariant, PTL DEF Spec, KeepsFeed, Feed!FeedSpec

-----------------------------------------------------------------------------
(* Part 3: the session, the labels of its fragments, and the clips. *)

LEMMA FreshFacts == ~FreshSession.partial /\ ~(FreshSession.pcm > 0)
  BY DEF FreshSession

\* The watchdog leaves the session alone or empty.
LEMMA WatchedFacts == Watched = sess \/ Watched = FreshSession
  BY DEF Watched

\* Ticks only age the session.
LEMMA TickSession ==
    ASSUME TypeOK, NEW f, Tick(f)
    PROVE  sess'.partial = sess.partial /\ sess'.pcm = sess.pcm
  <1>1. sess \in Session
    BY DEF TypeOK, Session
  <1> QED
    BY <1>1 DEF Tick, Session

LEMMA NoResidueStep ==
    ASSUME TypeOK, NoResidue, [Next]_vars PROVE NoResidue'
  <1>1. CASE (\E f \in Frame : Tick(f)) \/ Tick("none")
    BY <1>1, TickSession DEF Tick, NoResidue
  <1>2. CASE TakeFrame
    <2> DEFINE f == IF ring # <<>> THEN Head(ring) ELSE "quiet"
               s == IF pc = "parked" THEN sess ELSE Watched
    <2>1. vad' = VadStep(f) /\ (SkipFrame(f, s) \/ FeedSession(f, s) \/ EndSegment(f, s))
      BY <1>2 DEF TakeFrame
    <2>2. s = sess \/ s = FreshSession
      BY WatchedFacts
    <2>3. CASE SkipFrame(f, s)
      BY <2>1, <2>2, <2>3, FreshFacts DEF SkipFrame, NoResidue
    <2>4. CASE FeedSession(f, s)
      BY <2>1, <2>4 DEF FeedSession, NoResidue
    <2>5. CASE EndSegment(f, s)
      BY <2>5, FreshFacts DEF EndSegment, NoResidue
    <2> QED
      BY <2>1, <2>3, <2>4, <2>5
  <1>3. CASE Park
    BY <1>3, WatchedFacts, FreshFacts DEF Park, NoResidue
  <1>4. CASE EmitEdge
    BY <1>4, FreshFacts DEF EmitEdge, NoResidue
  <1>5. CASE \/ Toggle \/ PausedPark \/ PausedDrop \/ SettleByTimeout \/ Timeout
             \/ DropNoise \/ KeepSegment \/ EmitBatch \/ UNCHANGED vars
    BY <1>5 DEF NoResidue, Toggle, PausedPark, PausedDrop, SettleByTimeout, Timeout,
       DropNoise, KeepSegment, EmitBatch, vars
  <1> QED
    BY <1>1, <1>2, <1>3, <1>4, <1>5 DEF Next, Consumer, Capture, NoCapture

\* Outside an utterance the session is empty, whatever was fed, reset, paused or
\* settled before.
THEOREM ResidueFree == Spec => []NoResidue
  <1>1. Init => NoResidue
    BY FreshFacts DEF Init, NoResidue
  <1>2. TypeOK /\ NoResidue /\ [Next]_vars => NoResidue'
    BY NoResidueStep
  <1> QED
    BY <1>1, <1>2, TypeCorrect, PTL DEF Spec

LEMMA FragmentStep ==
    ASSUME TypeOK, FragmentNamesItsSegment, [Next]_vars
    PROVE  FragmentNamesItsSegment'
  <1>0. tracker \in Tracker
    BY DEF TypeOK
  <1>1. CASE (\E f \in Frame : Tick(f)) \/ Tick("none")
    BY <1>1, TickSession DEF Tick, FragmentNamesItsSegment
  <1>2. CASE TakeFrame
    <2> DEFINE f == IF ring # <<>> THEN Head(ring) ELSE "quiet"
               s == IF pc = "parked" THEN sess ELSE Watched
    <2>1. SkipFrame(f, s) \/ FeedSession(f, s) \/ EndSegment(f, s)
      BY <1>2 DEF TakeFrame
    <2>2. s.partial => sess.partial
      BY WatchedFacts, FreshFacts
    <2>3. CASE SkipFrame(f, s)
      BY <2>2, <2>3 DEF SkipFrame, FragmentNamesItsSegment
    <2>4. CASE FeedSession(f, s)
      <3>1. tracker' = tracker
        BY <2>4 DEF FeedSession
      <3>2. CASE frag' = Prospective(tracker)
        BY <3>1, <3>2 DEF Prospective, FragmentNamesItsSegment
      <3>3. CASE frag' = frag /\ sess'.partial = s.partial
        BY <2>2, <3>1, <3>3 DEF FragmentNamesItsSegment
      <3>4. frag' = Prospective(tracker) \/ (frag' = frag /\ sess'.partial = s.partial)
        <4>1. s \in Session
          BY WatchedType DEF TypeOK, Session
        <4> QED
          BY <2>4, <4>1 DEF FeedSession, Session
      <3> QED
        BY <3>2, <3>3, <3>4
    <2>5. CASE EndSegment(f, s)
      BY <2>5, FreshFacts DEF EndSegment, FragmentNamesItsSegment
    <2> QED
      BY <2>1, <2>3, <2>4, <2>5
  <1>3. CASE Park
    BY <1>3, WatchedFacts, FreshFacts DEF Park, FragmentNamesItsSegment
  <1>4. CASE EmitEdge
    BY <1>4, FreshFacts DEF EmitEdge, FragmentNamesItsSegment
  <1>5. CASE SettleByTimeout
    <2>1. tracker'.nextSeg = tracker.nextSeg
      BY <1>0, <1>5, TakeOpenType DEF SettleByTimeout
    <2> QED
      BY <1>5, <2>1 DEF SettleByTimeout, FragmentNamesItsSegment
  <1>6. CASE DropNoise
    <2>1. tracker'.nextSeg = tracker.nextSeg
      BY <1>0, <1>6, DropActiveType DEF DropNoise
    <2> QED
      BY <1>6, <2>1 DEF DropNoise, FragmentNamesItsSegment
  <1>7. CASE KeepSegment
    <2>1. tracker'.nextSeg = tracker.nextSeg
      BY <1>0, <1>7, OnEosType, NewSegmentType DEF KeepSegment, NewSegment
    <2> QED
      BY <1>7, <2>1 DEF KeepSegment, FragmentNamesItsSegment
  <1>8. CASE Toggle \/ PausedPark \/ PausedDrop \/ Timeout \/ EmitBatch \/ UNCHANGED vars
    BY <1>8 DEF FragmentNamesItsSegment, Toggle, PausedPark, PausedDrop, Timeout,
       EmitBatch, vars
  <1> QED
    BY <1>1, <1>2, <1>3, <1>4, <1>5, <1>6, <1>7, <1>8 DEF Next, Consumer, Capture, NoCapture

\* The id a live partial was labelled with is the id its segment will get.
THEOREM FragmentsNameTheirSegment == Spec => []FragmentNamesItsSegment
  <1>1. Init => FragmentNamesItsSegment
    BY FreshFacts DEF Init, FragmentNamesItsSegment
  <1>2. TypeOK /\ FragmentNamesItsSegment /\ [Next]_vars => FragmentNamesItsSegment'
    BY FragmentStep
  <1> QED
    BY <1>1, <1>2, TypeCorrect, PTL DEF Spec

LEMMA ClipsAppend ==
    ASSUME NEW segs \in Seq(Segment), NEW seg \in Segment
    PROVE  Clips(Append(segs, seg)) = Clips(segs) \cup {seg.clip}
  <1> DEFINE more == Append(segs, seg)
  <1>1. /\ DOMAIN more = DOMAIN segs \cup {Len(segs) + 1} /\ Len(segs) + 1 \notin DOMAIN segs
        /\ \A i \in DOMAIN segs : more[i] = segs[i]
        /\ more[Len(segs) + 1] = seg
    OBVIOUS
  <1>2. \A c : c \in Clips(more) <=> \E i \in DOMAIN more : c = more[i].clip
    BY DEF Clips
  <1>3. \A c : c \in Clips(segs) <=> \E i \in DOMAIN segs : c = segs[i].clip
    BY DEF Clips
  <1>4. Clips(more) \subseteq Clips(segs) \cup {seg.clip}
    BY <1>1, <1>2, <1>3
  <1>5. Clips(segs) \cup {seg.clip} \subseteq Clips(more)
    BY <1>1, <1>2, <1>3
  <1> QED
    BY <1>4, <1>5 DEF more

LEMMA EnsureOpenSegs ==
    ASSUME NEW t \in Tracker, ~IsOpen(t) => t.open.segs = <<>>
    PROVE  EnsureOpen(t).open.segs = t.open.segs
  <1>1. CASE IsOpen(t)
    BY <1>1, EnsureOpenType
  <1>2. CASE ~IsOpen(t)
    <2>1. EnsureOpen(t).open = [id |-> t.nextWin, segs |-> <<>>, active |-> FALSE]
      BY <1>2, EnsureOpenType
    <2> QED
      BY <1>2, <2>1
  <1> QED
    BY <1>1, <1>2

LEMMA NoClipsInNothing == Clips(<<>>) = {}
  BY DEF Clips

\* A step that keeps the clips of the open window and of the settled one.
LEMMA SameClips ==
    ASSUME NoClipLeaks, UNCHANGED <<store, settled>>,
           Clips(tracker'.open.segs) = Clips(tracker.open.segs)
    PROVE  NoClipLeaks'
  BY DEF NoClipLeaks, ClipsInUse

LEMMA ClipsStep ==
    ASSUME FeedInv, NoClipLeaks, [Next]_vars PROVE NoClipLeaks'
  <1>0. /\ tracker \in Tracker /\ settled \in Window /\ tracker.open \in Window
        /\ pc # "edge" => settled = NoWindow
    BY DEF FeedInv, TypeOK, FeedOK, Tracker
  <1>1. CASE TakeFrame
    <2> DEFINE f == IF ring # <<>> THEN Head(ring) ELSE "quiet"
               s == IF pc = "parked" THEN sess ELSE Watched
    <2>1. /\ SkipFrame(f, s) \/ FeedSession(f, s) \/ EndSegment(f, s)
          /\ UNCHANGED <<store, settled>> /\ pc \in Quiet
      BY <1>1 DEF TakeFrame, Ready, Quiet
    <2>2. CASE SkipFrame(f, s) \/ FeedSession(f, s)
      BY <2>1, <2>2, SameClips DEF SkipFrame, FeedSession
    <2>3. CASE EndSegment(f, s)
      <3>1. tracker' = OnSos(tracker)
        BY <2>3 DEF EndSegment
      <3>2. tracker'.open.segs = EnsureOpen(tracker).open.segs
        BY <1>0, <3>1, OnSosType
      <3>3. ~IsOpen(tracker) => tracker.open.segs = <<>>
        BY <2>1 DEF FeedInv, FeedOK, Shows, IsOpen
      <3>4. tracker'.open.segs = tracker.open.segs
        BY <1>0, <3>2, <3>3, EnsureOpenSegs
      <3> QED
        BY <2>1, <3>4, SameClips
    <2> QED
      BY <2>1, <2>2, <2>3
  <1>2. CASE SettleByTimeout
    <2>1. /\ settled' = tracker.open /\ tracker'.open = NoWindow /\ store' = store
          /\ settled = NoWindow
      BY <1>0, <1>2, TakeOpenType DEF SettleByTimeout
    <2> QED
      BY <2>1, NoWindowFacts DEF NoClipLeaks, ClipsInUse
  <1>3. CASE DropNoise
    <2>1. tracker'.open.segs = tracker.open.segs /\ UNCHANGED <<store, settled>>
      BY <1>0, <1>3, DropActiveType DEF DropNoise
    <2> QED
      BY <2>1, SameClips
  <1>4. CASE KeepSegment
    <2> DEFINE seg == NewSegment
               splits == GapSettles(tracker, pend.gap)
               goes == Target(tracker, seg)
    <2>1. /\ pc = "batch" /\ settled = NoWindow /\ tracker' = OnEos(tracker, seg)
          /\ settled' = IF splits THEN tracker.open ELSE NoWindow
          /\ DOMAIN store' \subseteq DOMAIN store \cup {nextClip}
      BY <1>0, <1>4, InsertAdds DEF KeepSegment, NewSegment
    <2>2. seg \in Segment /\ seg.clip = nextClip /\ seg.gap = pend.gap
      BY NewSegmentType DEF NewSegment, FeedInv
    <2>3. tracker'.open.segs = Append(goes.open.segs, seg) /\ goes \in Tracker
      BY <1>0, <2>1, <2>2, OnEosType
    <2>4. Clips(tracker'.open.segs) = Clips(goes.open.segs) \cup {nextClip}
      <3>1. goes.open.segs \in Seq(Segment)
        BY <2>3 DEF Tracker, Window
      <3> QED
        BY <2>2, <2>3, <3>1, ClipsAppend
    <2>5. DOMAIN store \subseteq Clips(tracker.open.segs)
      BY <2>1, NoWindowFacts, NoClipsInNothing DEF NoClipLeaks, ClipsInUse
    <2>6. splits \/ goes.open.segs = tracker.open.segs
      <3>1. CASE ~splits
        <4>1. goes = EnsureOpen(tracker)
          BY <3>1, <2>2 DEF Target
        <4>2. ~IsOpen(tracker) => tracker.open.segs = <<>>
          BY <2>1 DEF FeedInv, FeedOK, Shows, IsOpen
        <4> QED
          BY <1>0, <4>1, <4>2, EnsureOpenSegs
      <3> QED
        BY <3>1
    <2> HIDE DEF splits, goes, seg
    <2>7. CASE splits
      BY <2>1, <2>4, <2>5, <2>7 DEF NoClipLeaks, ClipsInUse
    <2>8. CASE ~splits
      BY <2>1, <2>4, <2>5, <2>6, <2>8 DEF NoClipLeaks, ClipsInUse
    <2> QED
      BY <2>7, <2>8
  <1>5. CASE EmitEdge
    <2>1. /\ DOMAIN store' = DOMAIN store \ Clips(settled.segs)
          /\ tracker' = tracker /\ settled' = NoWindow
      BY <1>5, EvictRemoves DEF EmitEdge
    <2> QED
      BY <2>1 DEF NoClipLeaks, ClipsInUse
  <1>6. CASE \/ (\E f \in Frame : Tick(f)) \/ Tick("none") \/ Toggle \/ PausedPark
             \/ PausedDrop \/ Park \/ Timeout \/ EmitBatch \/ UNCHANGED vars
    <2>1. UNCHANGED <<store, settled, tracker>>
      BY <1>6 DEF Tick, Toggle, PausedPark, PausedDrop, Park, Timeout, EmitBatch, vars
    <2> QED
      BY <2>1, SameClips
  <1> QED
    BY <1>1, <1>2, <1>3, <1>4, <1>5, <1>6 DEF Next, Consumer, Capture, NoCapture

\* The audio store never holds a clip of a window that is gone.
THEOREM ClipsDoNotLeak == Spec => []NoClipLeaks
  <1>1. Init => NoClipLeaks
    BY DEF Init, EmptyStore, NoClipLeaks
  <1>2. FeedInv /\ NoClipLeaks /\ [Next]_vars => NoClipLeaks'
    BY ClipsStep
  <1> QED
    BY <1>1, <1>2, FeedInvariant, PTL DEF Spec
=============================================================================
