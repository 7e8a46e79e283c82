----------------------------- MODULE LocalTask -----------------------------
(* An agent's task on this machine's desktop: AgentTask with the tool calls  *)
(* of a reply run one after the other on the input device (act() of          *)
(* packages/agent/src/step.ts), and with the messages its model is sent.     *)
EXTENDS AgentTask, InputDevice

CONSTANTS ContextWindow, KeepScreenshots,
          MaxCalls   \* bound: tool calls of one reply

ASSUME LocalAssumption == {ContextWindow, KeepScreenshots, MaxCalls} \subseteq Nat

VARIABLE todo   \* tool calls of the reply that are still to run

vars == <<taskVars, deviceVars, todo>>

Init == TaskInit /\ DeviceInit /\ todo = <<>>

CallsTools ==
    /\ CallsTool
    /\ todo' \in UNION {[1..n -> Calls] : n \in 1..MaxCalls}
    /\ UNCHANGED deviceVars

(* Whether a call fails or not, the next one runs.                           *)
RunsTool ==
    /\ loop.pc = "act" /\ todo # <<>>
    /\ Perform(Head(todo))
    /\ todo' = Tail(todo)
    /\ UNCHANGED taskVars

ActEnds ==
    /\ todo = <<>> /\ \E finished \in BOOLEAN : Acted(finished)
    /\ report' = NoReport
    /\ UNCHANGED <<dev, stuck, todo>>

Dies == TaskDies /\ DeviceCloses /\ todo' = <<>>

TaskAlone ==
    \/ ThinkFails \/ \E finished \in BOOLEAN : Talks(finished)
    \/ Captured \/ Listed \/ ObserveFails
    \/ Caller
    \/ SaveBegins \/ SaveSerialises \/ SaveEnds \/ createTask \/ fromSnapshot

Next ==
    \/ CallsTools \/ RunsTool \/ ActEnds \/ Dies
    \/ (TaskAlone /\ UNCHANGED <<deviceVars, todo>>)
Spec == Init /\ [][Next]_vars

-----------------------------------------------------------------------------
(* Whenever the model is asked, the goal comes first and the screen of this  *)
(* step last, and every step before it appears once: whole, with its reply   *)
(* and its results behind its screen, or as a line of the summary under its  *)
(* own number; the images are those of the newest screens.                   *)
SeesEveryStepOnce ==
    loop.pc = "think" =>
        LET seen     == pruneForModel(task.history, ContextWindow, KeepScreenshots)
            Of(kind) == {seen[i].step : i \in {j \in DOMAIN seen : seen[j].kind = kind}}
            now      == loop.step
            verbatim == {n \in 1..now - 1 : n > now - ContextWindow}
        IN  /\ Head(seen) = Goal /\ Last(seen).step = now
            /\ Of("screen") = {n \in verbatim \cup {now} : n > now - KeepScreenshots}
            /\ Of("line") = (1..now - 1) \ verbatim
            /\ Of("reply") = verbatim /\ Of("results") = verbatim
            /\ \A i, j \in DOMAIN seen :
                  (seen[i].kind # "say" /\ seen[i] = seen[j]) => i = j
=============================================================================
