---------------------------- MODULE WindowTracker ----------------------------
(***************************************************************************)
(* The window tracker of the speech recognizer (aura-core recognizer.rs):  *)
(* which voice segment belongs to which merge window, and when a window    *)
(* closes.  It is a pure structure, so it is modelled by operators from a  *)
(* tracker to a tracker; Recognizer.tla holds one in a variable.           *)
(*                                                                         *)
(* Window ids and segment ids start at 1, so id 0 stands for "no window".  *)
(* Times are ticks.  Only differences of times matter to the tracker:      *)
(* `gap' is the next segment's onset minus the end of the last segment,    *)
(* `sinceEnd' the time passed since the end of the last segment.           *)
(***************************************************************************)
EXTENDS Integers, Sequences

CONSTANT MergeGap       \* merge_gap_s: silence that closes a window

ASSUME MergeGapIsNat == MergeGap \in Nat

NoWindow == [id |-> 0, segs |-> <<>>, active |-> FALSE]

NewTracker == [nextSeg |-> 1, nextWin |-> 1, open |-> NoWindow]

IsOpen(t) == t.open.id # 0

\* A window is opened only when none is: at the first SOS, or at the EOS that
\* has just settled the previous window.
EnsureOpen(t) ==
    IF IsOpen(t)
      THEN t
      ELSE [t EXCEPT !.nextWin = @ + 1,
                     !.open = [id |-> t.nextWin, segs |-> <<>>, active |-> FALSE]]

TakeOpen(t) == [t EXCEPT !.open = NoWindow]

\* SOS: allocate the segment's id and suppress the settle timeout.
OnSos(t) ==
    LET u == EnsureOpen(t)
    IN  [u EXCEPT !.nextSeg = @ + 1, !.open.active = TRUE]

\* settle_if_gap: the next segment began too long after the last one.
GapSettles(t, gap) == t.open.segs # <<>> /\ gap >= MergeGap

OnEosKeepsWindow(t, seg) ==
    LET u == EnsureOpen(t)
    IN  [u EXCEPT !.open.active = FALSE, !.open.segs = Append(@, seg)]

\* EOS: settle first, then put the segment into the (possibly fresh) window.
OnEos(t, seg) ==
    LET u == EnsureOpen(IF GapSettles(t, seg.gap) THEN TakeOpen(t) ELSE t)
    IN  [u EXCEPT !.open.active = FALSE, !.open.segs = Append(@, seg)]

DropActiveForgets(t) == t

\* The segment in progress was noise: neither recognizer made a text of it.
DropActive(t) == [t EXCEPT !.open.active = FALSE]

\* A settle by timeout is possible at all ...
SettlePending(t, speaking) ==
    ~t.open.active /\ ~speaking /\ t.open.segs # <<>>

\* ... is due now ...
CheckSettle(t, sinceEnd, speaking) ==
    SettlePending(t, speaking) /\ sinceEnd >= MergeGap

\* ... and, when it is not, how long until it is.
SettleDeadline(sinceEnd) ==
    IF sinceEnd >= MergeGap THEN 0 ELSE MergeGap - sinceEnd

ProspectiveLastSegment(t) ==
    [win |-> IF IsOpen(t) THEN t.open.id ELSE t.nextWin, seg |-> t.nextSeg - 1]

\* The ids a live fragment is labelled with before its segment has any.
Prospective(t) ==
    [win |-> IF IsOpen(t) THEN t.open.id ELSE t.nextWin, seg |-> t.nextSeg]
=============================================================================
