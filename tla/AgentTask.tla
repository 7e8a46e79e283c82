----------------------------- MODULE AgentTask -----------------------------
(* One conversation task of the agent (packages/agent/src/core.ts): the loop *)
(* observe -> think -> act, its single-step gate, pause, rewind, and the     *)
(* snapshot of it on disk (memory.ts).  The program is single-threaded: an   *)
(* action is what runs between two awaits.  The caller awaits run() and      *)
(* exec() before it starts another of them, and rewinds only between steps.  *)
EXTENDS Context, FiniteSets

CONSTANTS
    MaxSteps,      \* maxSteps; also a bound: exec() has no budget of its own
    SingleStep,    \* singleStep: the loop waits for step() after every step
    Native,        \* a native parser is set: the platform lists no elements
    Patient,       \* the caller saves between steps and awaits save()
    SteersAt,      \* bound: after which step the caller may say something, once
    MaxHistory     \* bound: messages of a conversation that is loaded

ASSUME TaskAssumption == {MaxSteps, MaxHistory} \cup SteersAt \subseteq Nat

VARIABLES
    task,     \* the task object
    loop,     \* the pending run() or exec(): where it awaits, and its step
    saving,   \* save(): what it has read of the task, and how far it is
    disk,     \* the snapshot file
    asked     \* ghost: run() or step() was called since the last step began

taskVars == <<task, loop, saving, disk, asked>>

Goal == Msg("goal", 0)

NewTask == [alive |-> TRUE, status |-> "idle", history |-> <<Goal>>, steps |-> <<>>,
            counter |-> 0, pause |-> FALSE, latched |-> FALSE]
Free == [pc |-> "free", step |-> 0, how |-> "run"]
NotSaving == [at |-> "no", status |-> "idle", old |-> FALSE, history |-> <<>>, steps |-> <<>>]
NoFile == [is |-> "none", status |-> "idle", history |-> <<>>, steps |-> <<>>]

TaskInit ==
    /\ task = NewTask /\ loop = Free /\ saving = NotSaving /\ disk = NoFile
    /\ asked = FALSE

-----------------------------------------------------------------------------
(* What run() does when its loop ends.                                       *)
Ended(t) ==
    IF t.status # "running" THEN t
    ELSE [t EXCEPT !.status = IF t.pause THEN "paused" ELSE "done"]

GoesOn(t) == t.status = "running" /\ ~t.pause /\ t.counter < MaxSteps

(* The head of the loop: the next step begins with a capture, or run() ends. *)
LoopHead(t) ==
    IF GoesOn(t)
    THEN /\ task' = t
         /\ loop' = [pc |-> "capture", step |-> t.counter + 1, how |-> "run"]
         /\ asked' = FALSE
    ELSE task' = Ended(t) /\ loop' = Free /\ UNCHANGED asked

(* After a step: the gate of the single-step mode, unless step() was early.  *)
AfterStep(t) ==
    IF loop.how = "exec" THEN task' = t /\ loop' = Free /\ UNCHANGED asked
    ELSE IF SingleStep /\ GoesOn(t) /\ ~t.latched
    THEN task' = t /\ loop' = [loop EXCEPT !.pc = "gate"] /\ UNCHANGED asked
    ELSE LoopHead(IF SingleStep /\ GoesOn(t) THEN [t EXCEPT !.latched = FALSE] ELSE t)

Saved == Patient => saving.at = "no"

(* A leftover continue survives into the next run.                           *)
RunKeepsLatch ==
    /\ task.alive /\ loop.pc = "free" /\ Saved
    /\ task.status \notin {"done", "error"}
    /\ LoopHead([task EXCEPT !.status = "running", !.pause = FALSE])
    /\ UNCHANGED <<saving, disk>>

run ==
    /\ task.alive /\ loop.pc = "free" /\ Saved
    /\ task.status \notin {"done", "error"}
    /\ LoopHead([task EXCEPT !.status = "running", !.pause = FALSE, !.latched = FALSE])
    /\ UNCHANGED <<saving, disk>>

(* One step without the loop, with or without a message that steers it.      *)
exec ==
    /\ task.alive /\ loop.pc = "free" /\ Saved
    /\ task.status \notin {"done", "error"}
    /\ task.counter < MaxSteps
    /\ \/ UNCHANGED task
       \/ /\ task.counter \in SteersAt /\ Msg("say", 0) \notin ToSet(task.history)
          /\ task' = [task EXCEPT !.history = Append(@, Msg("say", 0))]
    /\ loop' = [pc |-> "capture", step |-> task.counter + 1, how |-> "exec"]
    /\ UNCHANGED <<saving, disk, asked>>

Pushed(kind) == Append(task.history, Msg(kind, loop.step))

(* observe(): the screenshot, then the elements unless the parser finds them. *)
Captured ==
    /\ loop.pc = "capture"
    /\ loop' = [loop EXCEPT !.pc = IF Native THEN "think" ELSE "elements"]
    /\ task' = IF Native THEN [task EXCEPT !.history = Pushed("screen")] ELSE task
    /\ UNCHANGED <<saving, disk, asked>>

Listed ==
    /\ loop.pc = "elements"
    /\ loop' = [loop EXCEPT !.pc = "think"]
    /\ task' = [task EXCEPT !.history = Pushed("screen")]
    /\ UNCHANGED <<saving, disk, asked>>

(* An error of observe() leaves exec() and run(): the status stays.          *)
ObserveFails ==
    /\ loop.pc \in {"capture", "elements"}
    /\ loop' = Free
    /\ UNCHANGED <<task, saving, disk, asked>>

Committed(t) == [t EXCEPT !.steps = Append(@, loop.step), !.counter = loop.step]

(* The model fails.                                                          *)
ThinkFails ==
    /\ loop.pc = "think"
    /\ AfterStep([task EXCEPT !.status = "error"])
    /\ UNCHANGED <<saving, disk>>

(* It only talks (and is nudged), or calls the tool "done", or tools that    *)
(* need the platform.                                                        *)
Talks(finished) ==
    /\ loop.pc = "think"
    /\ AfterStep([Committed([task EXCEPT !.history =
                     Pushed("reply") \o <<Msg("results", loop.step)>>])
                     EXCEPT !.status = IF finished THEN "done" ELSE @])
    /\ UNCHANGED <<saving, disk>>

CallsTool ==
    /\ loop.pc = "think"
    /\ task' = [task EXCEPT !.history = Pushed("reply")]
    /\ loop' = [loop EXCEPT !.pc = "act"]
    /\ UNCHANGED <<saving, disk, asked>>

(* The tools answered, or failed: act() records an error as the result.      *)
(* "done" may be among them.                                                 *)
Acted(finished) ==
    /\ loop.pc = "act"
    /\ AfterStep([Committed([task EXCEPT !.history = Pushed("results")])
                     EXCEPT !.status = IF finished THEN "done" ELSE @])
    /\ UNCHANGED <<saving, disk>>

-----------------------------------------------------------------------------
(* The pause that wakes nobody.                                              *)
PauseFlagOnly ==
    /\ task.alive
    /\ task' = [task EXCEPT !.pause = TRUE]
    /\ UNCHANGED <<loop, saving, disk, asked>>

pause ==
    /\ task.alive
    /\ IF loop.pc = "gate" THEN LoopHead([task EXCEPT !.pause = TRUE])
       ELSE task' = [task EXCEPT !.pause = TRUE] /\ UNCHANGED <<loop, asked>>
    /\ UNCHANGED <<saving, disk>>

(* Continue: wakes the loop at its gate, or is remembered for it.            *)
step ==
    /\ task.alive /\ Saved
    /\ IF loop.pc = "gate"
       THEN /\ task' = IF GoesOn(task) THEN task ELSE Ended(task)
            /\ loop' = IF GoesOn(task)
                       THEN [loop EXCEPT !.pc = "capture", !.step = task.counter + 1] ELSE Free
            /\ asked' = ~GoesOn(task)
       ELSE /\ task' = [task EXCEPT !.latched = TRUE]
            /\ asked' = TRUE /\ UNCHANGED loop
    /\ UNCHANGED <<saving, disk>>

(* The rewind keeps the counter.                                             *)
RewoundButCounter(n) ==
    [task EXCEPT !.history = IF n = 0 THEN <<Goal>>
                             ELSE SubSeq(@, 1, turnBoundaries(@)[n]),
                 !.steps = SubSeq(@, 1, n), !.status = "idle", !.pause = FALSE]

Rewound(n) ==
    [task EXCEPT !.history = IF n = 0 THEN <<Goal>>
                             ELSE SubSeq(@, 1, turnBoundaries(@)[n]),
                 !.steps = SubSeq(@, 1, n), !.counter = n,
                 !.status = "idle", !.pause = FALSE]

(* A rewind makes new arrays: a save that is under way keeps the old ones.   *)
goto ==
    /\ task.alive /\ loop.pc \in {"free", "gate"} /\ Saved
    /\ \E n \in 0..Len(task.steps) : task' = Rewound(n)
    /\ saving' = IF saving.at = "mkdir" /\ ~saving.old
                 THEN [saving EXCEPT !.old = TRUE, !.history = task.history, !.steps = task.steps]
                 ELSE saving
    /\ UNCHANGED <<loop, disk, asked>>

-----------------------------------------------------------------------------
(* save() takes the status and the arrays themselves; they are serialised    *)
(* when the directory is there, as they are then.                            *)
SaveBegins ==
    /\ task.alive /\ saving.at = "no"
    /\ Patient => loop.pc \in {"free", "gate"}
    /\ saving' = [NotSaving EXCEPT !.at = "mkdir", !.status = task.status]
    /\ UNCHANGED <<task, loop, disk, asked>>

SaveSerialises ==
    /\ saving.at = "mkdir"
    /\ saving' = IF saving.old THEN [saving EXCEPT !.at = "write"]
                 ELSE [saving EXCEPT !.at = "write", !.old = TRUE,
                                     !.history = task.history, !.steps = task.steps]
    /\ UNCHANGED <<task, loop, disk, asked>>

SaveEnds ==
    /\ saving.at = "write"
    /\ disk' = [is |-> "file", status |-> saving.status,
                history |-> saving.history, steps |-> saving.steps]
    /\ saving' = NotSaving
    /\ UNCHANGED <<task, loop, asked>>

(* The process dies: a file that was being written is torn.                  *)
TaskDies ==
    /\ task.alive
    /\ task' = [NewTask EXCEPT !.alive = FALSE] /\ loop' = Free /\ saving' = NotSaving
    /\ disk' = IF saving.at = "write" THEN [NoFile EXCEPT !.is = "torn"] ELSE disk
    /\ asked' = FALSE

(* A new process starts the goal again, or loads the snapshot; a torn file   *)
(* does not parse.                                                           *)
createTask ==
    /\ ~task.alive /\ disk.is # "file"
    /\ task' = NewTask
    /\ UNCHANGED <<loop, saving, disk, asked>>

fromSnapshot ==
    /\ ~task.alive /\ disk.is = "file" /\ Len(disk.history) < MaxHistory
    /\ task' = [NewTask EXCEPT !.history = disk.history, !.steps = disk.steps,
                   !.status = IF disk.status = "running" THEN "idle" ELSE disk.status,
                   !.counter = Len(disk.steps)]
    /\ UNCHANGED <<loop, saving, disk, asked>>

Think == ThinkFails \/ CallsTool \/ \E finished \in BOOLEAN : Talks(finished)
Platform == Captured \/ Listed \/ ObserveFails \/ \E finished \in BOOLEAN : Acted(finished)
Caller == run \/ exec \/ pause \/ step \/ goto
Disk == SaveBegins \/ SaveSerialises \/ SaveEnds \/ TaskDies \/ createTask \/ fromSnapshot

TaskNext == Think \/ Platform \/ Caller \/ Disk
TaskSpec == TaskInit /\ [][TaskNext]_taskVars

-----------------------------------------------------------------------------
(* goto(n) cuts the conversation behind step n: the n-th turn of the history *)
(* is the screen, the reply and the results of the n-th step and then at     *)
(* most what the caller said, after errors that left a turn open, rewinds,   *)
(* steering messages, and loading.                                           *)
TurnsMatchSteps ==
    LET turns == Len(Screens(task.history))
    IN  /\ task.counter = Len(task.steps)
        /\ turns \in Len(task.steps)..Len(task.steps) + 1
        /\ \A n \in DOMAIN task.steps :
              LET turn == TurnGroup(task.history, n)
              IN  /\ task.steps[n] = n
                  /\ SubSeq(turn, 1, 3) = <<Msg("screen", n), Msg("reply", n), Msg("results", n)>>
                  /\ \A i \in 4..Len(turn) : turn[i].kind = "say"

(* In single-step mode the loop goes on without a rest only when run() or    *)
(* step() was called since the step began: continues never pile up, and none *)
(* is left over for the next run.                                            *)
OneStepPerContinue ==
    [][SingleStep /\ loop.how = "run" /\ loop.pc \in {"think", "act"}
         => (loop'.pc = "capture" => asked)]_taskVars
=============================================================================
