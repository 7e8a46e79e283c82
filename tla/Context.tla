------------------------------ MODULE Context ------------------------------
(* What the agent sends its model (packages/agent/src/context.ts).  The task *)
(* keeps its whole history; a bounded list of messages is derived from it    *)
(* for every call.  A message is its kind and the number of its step; only   *)
(* a "screen" carries an image, and it begins a turn.                        *)
EXTENDS Integers, Sequences, SequencesExt

Msg(kind, k) == [kind |-> kind, step |-> k]

(* Where the screens are, in their order.                                    *)
Screens(messages) ==
    LET shown == {i \in DOMAIN messages : messages[i].kind = "screen"}
    IN  [n \in 1..Cardinality(shown) |->
            CHOOSE i \in shown : Cardinality({j \in shown : j <= i}) = n]

(* The lengths of the history after each turn.                               *)
turnBoundaries(history) ==
    LET starts == Screens(history)
    IN  [n \in DOMAIN starts |-> IF n = Len(starts) THEN Len(history) ELSE starts[n + 1] - 1]

(* The messages of the n-th turn, and those before the first of them.        *)
TurnGroup(history, n) == SubSeq(history, Screens(history)[n], turnBoundaries(history)[n])
Preamble(history) ==
    IF Screens(history) = <<>> THEN history ELSE SubSeq(history, 1, Screens(history)[1] - 1)

(* One line of a summary per turn, numbered by the text of its screen: what  *)
(* was called, with the results, or the first thing the model said.          *)
compactTurnLine(turn) ==
    Msg(IF \E i \in DOMAIN turn : turn[i].kind = "reply" THEN "line" ELSE "noAction", turn[1].step)

(* The oldest images stay.                                                   *)
CapsTheNewest(messages, keep) ==
    LET shown == Screens(messages)
    IN  [i \in DOMAIN messages |->
            IF i \in {shown[j] : j \in {k \in DOMAIN shown : k > keep}}
            THEN Msg("omitted", messages[i].step) ELSE messages[i]]

(* Only the newest images stay, the others are a note.                       *)
capImages(messages, keep) ==
    LET shown == Screens(messages)
        kept  == {shown[i] : i \in {j \in DOMAIN shown : j > Len(shown) - keep}}
    IN  [i \in DOMAIN messages |->
            IF messages[i].kind = "screen" /\ i \notin kept
            THEN Msg("omitted", messages[i].step) ELSE messages[i]]

(* The summary, one message in the code, is its lines; the turns that stay   *)
(* verbatim are the end of the history.                                      *)
pruneForModel(history, contextWindow, keepScreenshots) ==
    LET turns == Screens(history)
        split == IF Len(turns) > contextWindow THEN Len(turns) - contextWindow ELSE 0
        rest  == IF split = Len(turns) THEN <<>>
                 ELSE SubSeq(history, turns[split + 1], Len(history))
    IN  capImages(
            Preamble(history)
                \o [n \in 1..split |-> compactTurnLine(TurnGroup(history, n))]
                \o rest,
            keepScreenshots)
=============================================================================
