----------------------------- MODULE WindowFeed ------------------------------
(***************************************************************************)
(* What the speech front end promises to everything downstream of it: the  *)
(* stream of Batch and WindowEdge events is a sequence of windows, one at  *)
(* a time.  A window grows by one segment per Batch, each Batch carries    *)
(* all of its segments so far, ids only grow, and one WindowEdge closes    *)
(* the window with exactly the segments of its last Batch.  Nothing is     *)
(* ever said again of a closed window.                                     *)
(*                                                                         *)
(* The promise is the data contract of aura-core lib.rs (Stage1Event).     *)
(* Recognizer.tla keeps it; Stage2.tla relies on it, and passes it on to   *)
(* the daemon's clients.                                                   *)
(***************************************************************************)
EXTENDS Naturals, Sequences

VARIABLE feed    \* the last event: its window, that window's segment ids,
                 \* and whether the window has been closed

FeedEvent == [win : Nat, segs : Seq(Nat), closed : BOOLEAN]

NoFeed == [win |-> 0, segs |-> <<>>, closed |-> TRUE]

LastSeg(f) == IF f.segs = <<>> THEN 0 ELSE f.segs[Len(f.segs)]

\* Batch for the first segment of a new window.
Opens(f, g) ==
    /\ f.closed /\ ~g.closed
    /\ g.win > f.win
    /\ Len(g.segs) = 1
    /\ LastSeg(g) > LastSeg(f)

\* Batch for one more segment of the window being built.
Extends(f, g) ==
    /\ ~f.closed /\ ~g.closed
    /\ g.win = f.win
    /\ g.segs = Append(f.segs, LastSeg(g))
    /\ LastSeg(g) > LastSeg(f)

\* WindowEdge: the same window, the same segments, for the last time.
Closed(f) == [win |-> f.win, segs |-> f.segs, closed |-> TRUE]
Closes(f, g) == ~f.closed /\ g = Closed(f)

Follows(f, g) == Opens(f, g) \/ Extends(f, g) \/ Closes(f, g)

FeedSpec == feed = NoFeed /\ [][Follows(feed, feed')]_feed
=============================================================================
