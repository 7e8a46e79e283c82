----------------------------- MODULE TaskProofs -----------------------------
(* Proofs about AgentTask, LocalTask and RemoteTask, for every value of      *)
(* their constants: the single-step gate of the task, the conversation and   *)
(* what the model is sent of it, what the input device makes of its calls,   *)
(* and that the model of a task on a remote screen is shown that screen.     *)
EXTENDS LocalTask, RemoteTask, SequenceTheorems, FiniteSetTheorems,
        WellFoundedInduction, TLAPS

-----------------------------------------------------------------------------
Fields == {"alive", "status", "history", "steps", "counter", "pause", "latched"}

(* The fields of the task and of its loop; what they hold matters little.    *)
IsTask(t) ==
    /\ \E f : t = [x \in Fields |-> f[x]]
    /\ t.latched \in BOOLEAN

IsLoop(l) == \E f : l = [x \in {"pc", "step", "how"} |-> f[x]]

(* A continue that was remembered was asked for in the step that runs, and   *)
(* none is remembered at the gate, where it would have opened it.            *)
LatchIsAsked ==
    SingleStep =>
      /\ loop.how = "run" /\ loop.pc \in {"capture", "elements", "think", "act"}
            => (task.latched => asked)
      /\ loop.pc = "gate" => ~task.latched

GateInv == IsTask(task) /\ IsLoop(loop) /\ asked \in BOOLEAN /\ LatchIsAsked

-----------------------------------------------------------------------------
LEMMA FreeIsLoop == IsLoop(Free) /\ Free.pc = "free"
BY DEF Free, IsLoop

(* A changed field leaves the others.                                        *)
LEMMA SetStatus ==
    ASSUME NEW t, IsTask(t), NEW v, NEW u, u = [t EXCEPT !.status = v]
    PROVE  IsTask(u) /\ u.latched = t.latched /\ u.status = v
BY DEF IsTask, Fields

LEMMA SetField ==
    ASSUME NEW t, IsTask(t), NEW x \in Fields \ {"latched"}, NEW v, NEW u, u = [t EXCEPT ![x] = v]
    PROVE  IsTask(u) /\ u.latched = t.latched
<1>1. PICK f : t = [y \in Fields |-> f[y]]
  BY DEF IsTask
<1>2. u = [y \in Fields |-> IF y = x THEN v ELSE t[y]]
  BY <1>1
<1>3. "latched" \in Fields /\ u.latched = t.latched
  BY <1>2 DEF Fields
<1>4. \E g : u = [y \in Fields |-> g[y]]
  <2> DEFINE g == [y \in Fields |-> IF y = x THEN v ELSE t[y]]
  <2>1. \A y \in Fields : g[y] = IF y = x THEN v ELSE t[y]
    OBVIOUS
  <2>2. u = [y \in Fields |-> g[y]]
    BY <1>2, <2>1
  <2> QED BY <2>2
<1> QED BY <1>3, <1>4 DEF IsTask

(* Any field but the continue may be set.                                    *)
LEMMA AnyField ==
    \A t, v : IsTask(t) =>
        /\ IsTask([t EXCEPT !["history"] = v]) /\ [t EXCEPT !["history"] = v].latched = t.latched
        /\ IsTask([t EXCEPT !["steps"] = v])   /\ [t EXCEPT !["steps"] = v].latched = t.latched
        /\ IsTask([t EXCEPT !["counter"] = v]) /\ [t EXCEPT !["counter"] = v].latched = t.latched
        /\ IsTask([t EXCEPT !["status"] = v])  /\ [t EXCEPT !["status"] = v].latched = t.latched
        /\ IsTask([t EXCEPT !["pause"] = v])   /\ [t EXCEPT !["pause"] = v].latched = t.latched
        /\ IsTask([t EXCEPT !["alive"] = v])   /\ [t EXCEPT !["alive"] = v].latched = t.latched
<1>1. \A t, x, v : IsTask(t) /\ x \in Fields \ {"latched"} =>
         IsTask([t EXCEPT ![x] = v]) /\ [t EXCEPT ![x] = v].latched = t.latched
  BY SetField
<1>2. /\ "history" \in Fields \ {"latched"} /\ "steps" \in Fields \ {"latched"}
      /\ "counter" \in Fields \ {"latched"} /\ "status" \in Fields \ {"latched"}
      /\ "pause" \in Fields \ {"latched"} /\ "alive" \in Fields \ {"latched"}
  BY DEF Fields
<1> QED BY <1>1, <1>2, Zenon

LEMMA SetLatched ==
    ASSUME NEW t, IsTask(t), NEW v \in BOOLEAN, NEW u, u = [t EXCEPT !.latched = v]
    PROVE  IsTask(u) /\ u.latched = v
BY DEF IsTask, Fields

LEMMA SetPc ==
    ASSUME NEW l, IsLoop(l), NEW v, NEW u, u = [l EXCEPT !.pc = v]
    PROVE  IsLoop(u) /\ u.pc = v /\ u.how = l.how
BY DEF IsLoop

LEMMA EndedIsTask ==
    ASSUME NEW t, IsTask(t)
    PROVE  IsTask(Ended(t)) /\ Ended(t).latched = t.latched
BY SetStatus DEF Ended

LEMMA SetPcAndStep ==
    \A l, v, n : IsLoop(l) => /\ IsLoop([l EXCEPT !.pc = v, !.step = n])
                             /\ [l EXCEPT !.pc = v, !.step = n].pc = v
<1> SUFFICES ASSUME NEW l, NEW v, NEW n, IsLoop(l)
             PROVE  /\ IsLoop([l EXCEPT !.pc = v, !.step = n])
                    /\ [l EXCEPT !.pc = v, !.step = n].pc = v
  OBVIOUS
<1>1. PICK u : u = [l EXCEPT !.pc = v]
  OBVIOUS
<1>2. \A w : w = [l EXCEPT !.pc = v] => IsLoop(w) /\ w.pc = v
  BY SetPc
<1>3. IsLoop(u) /\ u.pc = v
  BY <1>1, <1>2, Zenon
<1>4. [l EXCEPT !.pc = v, !.step = n] = [u EXCEPT !.step = n]
  BY <1>1
<1>5. IsLoop([u EXCEPT !.step = n]) /\ [u EXCEPT !.step = n].pc = v
  <2> DEFINE w == [y \in {"pc", "step", "how"} |-> IF y = "step" THEN n ELSE u[y]]
  <2>1. [u EXCEPT !.step = n] = w /\ w.pc = u.pc
    BY <1>3 DEF IsLoop
  <2>2. IsLoop(w)
    <3>1. w = [y \in {"pc", "step", "how"} |-> w[y]]
      OBVIOUS
    <3> HIDE DEF w
    <3> QED BY <3>1 DEF IsLoop
  <2> QED BY <1>3, <2>1, <2>2
<1> QED BY <1>4, <1>5, Zenon

(* The head of the loop, reached with no continue left.                      *)
LEMMA LoopHeadKeeps ==
    ASSUME NEW t, IsTask(t), SingleStep => ~t.latched, asked \in BOOLEAN, LoopHead(t)
    PROVE  GateInv'
<1>1. CASE GoesOn(t)
  <2>1. task' = t /\ loop' = [pc |-> "capture", step |-> t.counter + 1, how |-> "run"]
        /\ asked' = FALSE
    BY <1>1 DEF LoopHead
  <2> QED BY <2>1 DEF GateInv, IsLoop, IsTask, LatchIsAsked, Fields
<1>2. CASE ~GoesOn(t)
  <2>1. task' = Ended(t) /\ loop' = Free /\ asked' = asked
    BY <1>2 DEF LoopHead
  <2> QED BY <2>1, EndedIsTask, FreeIsLoop DEF GateInv, LatchIsAsked, IsTask
<1> QED BY <1>1, <1>2

(* What follows a step that hands on a task with its continue.               *)
LEMMA AfterStepKeeps ==
    ASSUME GateInv, NEW t, IsTask(t), t.latched = task.latched, AfterStep(t)
    PROVE  GateInv'
<1>1. CASE loop.how = "exec"
  <2>1. task' = t /\ loop' = Free /\ asked' = asked
    BY <1>1 DEF AfterStep
  <2> QED BY <2>1, FreeIsLoop DEF GateInv, LatchIsAsked, IsTask
<1>2. CASE loop.how # "exec" /\ SingleStep /\ GoesOn(t) /\ ~t.latched
  <2>1. task' = t /\ loop' = [loop EXCEPT !.pc = "gate"] /\ asked' = asked
    BY <1>2 DEF AfterStep
  <2>2. IsLoop(loop') /\ loop'.pc = "gate"
    BY <2>1, SetPc DEF GateInv
  <2> QED BY <1>2, <2>1, <2>2 DEF GateInv, LatchIsAsked, IsTask
<1>3. CASE loop.how # "exec" /\ SingleStep /\ GoesOn(t) /\ t.latched
  <2>1. LoopHead([t EXCEPT !.latched = FALSE])
    BY <1>3 DEF AfterStep
  <2>2. IsTask([t EXCEPT !.latched = FALSE]) /\ ~[t EXCEPT !.latched = FALSE].latched
    BY SetLatched
  <2> QED BY <2>1, <2>2, LoopHeadKeeps DEF GateInv
<1>4. CASE loop.how # "exec" /\ SingleStep /\ ~GoesOn(t)
  <2>1. LoopHead(t)
    BY <1>4 DEF AfterStep
  <2>2. task' = Ended(t) /\ loop' = Free /\ asked' = asked
    BY <1>4, <2>1 DEF LoopHead
  <2> QED BY <2>2, EndedIsTask, FreeIsLoop DEF GateInv, LatchIsAsked, IsTask
<1>5. CASE loop.how # "exec" /\ ~SingleStep
  <2>1. LoopHead(t)
    BY <1>5 DEF AfterStep
  <2> QED BY <1>5, <2>1, LoopHeadKeeps DEF GateInv
<1> QED BY <1>1, <1>2, <1>3, <1>4, <1>5

(* After a step the loop goes on at once only with a continue.               *)
LEMMA AfterStepGates ==
    ASSUME GateInv, loop.pc \in {"think", "act"}, loop.how = "run", SingleStep,
           NEW t, IsTask(t), t.latched = task.latched, AfterStep(t), loop'.pc = "capture"
    PROVE  asked
<1>1. CASE GoesOn(t) /\ ~t.latched
  BY <1>1 DEF AfterStep, GateInv, IsLoop
<1>2. CASE GoesOn(t) /\ t.latched
  BY <1>2 DEF GateInv, LatchIsAsked
<1>3. CASE ~GoesOn(t)
  BY <1>3, FreeIsLoop DEF AfterStep, LoopHead
<1> QED BY <1>1, <1>2, <1>3

-----------------------------------------------------------------------------
(* The task a step hands on: the model failed, or the step is committed.     *)
LEMMA CommittedIsTask ==
    ASSUME NEW h, NEW finished, IsTask(task),
           NEW t, t = [Committed([task EXCEPT !.history = h])
                         EXCEPT !.status = IF finished THEN "done" ELSE @]
    PROVE  IsTask(t) /\ t.latched = task.latched
<1>1. PICK a : a = [task EXCEPT !["history"] = h]
  OBVIOUS
<1>2. PICK b : b = [a EXCEPT !["steps"] = Append(a.steps, loop.step)]
  OBVIOUS
<1>3. PICK c : c = [b EXCEPT !["counter"] = loop.step]
  OBVIOUS
<1>4. PICK w : w = IF finished THEN "done" ELSE c.status
  OBVIOUS
<1>5. t = [c EXCEPT !["status"] = w]
  BY <1>1, <1>2, <1>3, <1>4 DEF Committed
<1>6. IsTask(a) /\ a.latched = task.latched
  BY <1>1, AnyField, Zenon
<1>7. IsTask(b) /\ b.latched = task.latched
  BY <1>2, <1>6, AnyField, Zenon
<1>8. IsTask(c) /\ c.latched = task.latched
  BY <1>3, <1>7, AnyField, Zenon
<1>9. /\ IsTask([c EXCEPT !["status"] = w])
      /\ [c EXCEPT !["status"] = w].latched = task.latched
  BY <1>8, AnyField, Zenon
<1> QED BY <1>5, <1>9, Zenon

(* What awaits the model or the platform ends with what follows a step.      *)
LEMMA StepEnds ==
    ASSUME GateInv,
           \/ ThinkFails
           \/ \E finished \in BOOLEAN : Talks(finished) \/ Acted(finished)
    PROVE  /\ loop.pc \in {"think", "act"}
           /\ \E t : IsTask(t) /\ t.latched = task.latched /\ AfterStep(t)
<1>1. CASE ThinkFails
  BY <1>1, SetStatus DEF ThinkFails, GateInv
<1>2. CASE \E finished \in BOOLEAN : Talks(finished)
  BY <1>2, CommittedIsTask DEF Talks, GateInv
<1>3. CASE \E finished \in BOOLEAN : Acted(finished)
  BY <1>3, CommittedIsTask DEF Acted, GateInv
<1> QED BY <1>1, <1>2, <1>3

-----------------------------------------------------------------------------
(* A step that leaves the loop where it is, or frees it, or moves it inside  *)
(* its step, and that leaves the continue alone.                             *)
LEMMA SameContinue ==
    ASSUME GateInv, IsTask(task'), task'.latched = task.latched, asked' = asked,
           \/ loop' = loop \/ loop' = Free
           \/ /\ loop.pc \in {"capture", "elements", "think"}
              /\ \E v \in {"elements", "think", "act"} : loop' = [loop EXCEPT !.pc = v]
    PROVE  GateInv'
<1>1. CASE loop' = loop
  BY <1>1 DEF GateInv, LatchIsAsked
<1>2. CASE loop' = Free
  BY <1>2, FreeIsLoop DEF GateInv, LatchIsAsked
<1>3. ASSUME loop.pc \in {"capture", "elements", "think"},
             NEW v \in {"elements", "think", "act"}, loop' = [loop EXCEPT !.pc = v]
      PROVE  GateInv'
  <2>1. IsLoop(loop') /\ loop'.pc = v /\ loop'.how = loop.how
    BY <1>3, SetPc DEF GateInv
  <2> QED BY <1>3, <2>1 DEF GateInv, LatchIsAsked
<1> QED BY <1>1, <1>2, <1>3

LEMMA NewTaskIsTask == IsTask(NewTask) /\ NewTask.latched = FALSE
<1>1. NewTask = [x \in Fields |-> NewTask[x]]
  BY DEF NewTask, Fields
<1>2. NewTask.latched = FALSE
  BY DEF NewTask
<1> QED BY <1>1, <1>2 DEF IsTask

(* Observing, and calling tools, stay inside the step.                       *)
LEMMA ObserveKeeps == GateInv /\ (Captured \/ Listed \/ ObserveFails \/ CallsTool) => GateInv'
<1> SUFFICES ASSUME GateInv, Captured \/ Listed \/ ObserveFails \/ CallsTool PROVE GateInv'
  OBVIOUS
<1>1. IsTask(task') /\ task'.latched = task.latched
  BY SetField DEF Fields, Captured, Listed, ObserveFails, CallsTool, GateInv
<1>2. CASE Captured
  BY <1>1, <1>2, SameContinue DEF Captured
<1>3. CASE Listed
  BY <1>1, <1>3, SameContinue DEF Listed
<1>4. CASE ObserveFails
  BY <1>1, <1>4, SameContinue DEF ObserveFails
<1>5. CASE CallsTool
  BY <1>1, <1>5, SameContinue DEF CallsTool
<1> QED BY <1>2, <1>3, <1>4, <1>5

LEMMA StepEndKeeps ==
    ASSUME GateInv,
           \/ ThinkFails
           \/ \E finished \in BOOLEAN : Talks(finished) \/ Acted(finished)
    PROVE  GateInv'
BY StepEnds, AfterStepKeeps

LEMMA RunKeeps == ASSUME GateInv, run PROVE GateInv'
<1>1. PICK a : a = [task EXCEPT !["status"] = "running"]
  OBVIOUS
<1> DEFINE b == [a EXCEPT !["pause"] = FALSE]
           c == [b EXCEPT !.latched = FALSE]
<1>2. LoopHead(c)
  BY <1>1 DEF run
<1>3. IsTask(a)
  <2>1. \A t : t = [task EXCEPT !["status"] = "running"] => IsTask(t)
    BY SetField DEF Fields, GateInv
  <2> QED BY <1>1, <2>1, Zenon
<1>4. IsTask(b)
  BY <1>3, SetField DEF Fields
<1>5. IsTask(c) /\ c.latched = FALSE
  <2> HIDE DEF b
  <2> QED BY <1>4, SetLatched
<1> QED
  <2> HIDE DEF c
  <2> QED BY <1>2, <1>5, LoopHeadKeeps DEF GateInv

LEMMA ExecKeeps == ASSUME GateInv, exec PROVE GateInv'
<1>1. IsTask(task')
  <2>1. \A v : IsTask([task EXCEPT !["history"] = v])
    BY SetField DEF Fields, GateInv
  <2>2. task' = task \/ \E v : task' = [task EXCEPT !["history"] = v]
    BY DEF exec
  <2> QED BY <2>1, <2>2, Zenon DEF GateInv
<1>2. loop' = [pc |-> "capture", step |-> task.counter + 1, how |-> "exec"] /\ asked' = asked
  BY DEF exec
<1>3. IsLoop(loop') /\ loop'.how = "exec" /\ loop'.pc = "capture"
  BY <1>2 DEF IsLoop
<1> QED BY <1>1, <1>2, <1>3 DEF GateInv, LatchIsAsked

LEMMA PauseKeeps == ASSUME GateInv, pause PROVE GateInv'
<1> DEFINE t == [task EXCEPT !["pause"] = TRUE]
<1>1. IsTask(t) /\ t.latched = task.latched
  BY SetField DEF Fields, GateInv
<1>2. CASE loop.pc = "gate"
  <2>1. LoopHead(t)
    BY <1>2 DEF pause
  <2> HIDE DEF t
  <2> QED BY <1>1, <1>2, <2>1, LoopHeadKeeps DEF GateInv, LatchIsAsked
<1>3. CASE loop.pc # "gate"
  <2>1. task' = t /\ loop' = loop /\ asked' = asked
    BY <1>3 DEF pause
  <2> HIDE DEF t
  <2> QED BY <1>1, <2>1, SameContinue
<1> QED BY <1>2, <1>3

LEMMA StepKeeps == ASSUME GateInv, step PROVE GateInv'
<1>1. CASE loop.pc = "gate" /\ GoesOn(task)
  <2>1. task' = task /\ asked' = FALSE
        /\ loop' = [loop EXCEPT !.pc = "capture", !.step = task.counter + 1]
    BY <1>1 DEF step
  <2>2. IsLoop(loop') /\ loop'.pc = "capture"
    BY <2>1, SetPcAndStep, Zenon DEF GateInv
  <2> QED BY <1>1, <2>1, <2>2 DEF GateInv, LatchIsAsked
<1>2. CASE loop.pc = "gate" /\ ~GoesOn(task)
  <2>1. task' = Ended(task) /\ loop' = Free /\ asked' = TRUE
    BY <1>2 DEF step
  <2> QED BY <2>1, EndedIsTask, FreeIsLoop DEF GateInv, LatchIsAsked
<1>3. CASE loop.pc # "gate"
  <2>1. task' = [task EXCEPT !.latched = TRUE] /\ loop' = loop /\ asked' = TRUE
    BY <1>3 DEF step
  <2>2. IsTask(task')
    BY <2>1, SetLatched DEF GateInv
  <2> QED BY <1>3, <2>1, <2>2 DEF GateInv, LatchIsAsked
<1> QED BY <1>1, <1>2, <1>3

LEMMA GotoKeeps == ASSUME GateInv, goto PROVE GateInv'
<1>1. /\ loop' = loop /\ asked' = asked
      /\ \E n \in 0..Len(task.steps) : task' = Rewound(n)
  BY DEF goto
<1>2. PICK n : task' = Rewound(n)
  BY <1>1
<1>0. PICK h : h = IF n = 0 THEN <<Goal>>
                   ELSE SubSeq(task.history, 1, turnBoundaries(task.history)[n])
  OBVIOUS
<1>3. PICK a : a = [task EXCEPT !["history"] = h]
  OBVIOUS
<1>4. PICK b : b = [a EXCEPT !["steps"] = SubSeq(a.steps, 1, n)]
  OBVIOUS
<1>5. PICK c : c = [b EXCEPT !["counter"] = n]
  OBVIOUS
<1>6. PICK d : d = [c EXCEPT !["status"] = "idle"]
  OBVIOUS
<1>7. task' = [d EXCEPT !["pause"] = FALSE]
  BY <1>2, <1>0, <1>3, <1>4, <1>5, <1>6 DEF Rewound
<1>8. IsTask(a) /\ a.latched = task.latched
  BY <1>3, AnyField, Zenon DEF GateInv
<1>9. IsTask(b) /\ b.latched = task.latched
  BY <1>4, <1>8, AnyField, Zenon
<1>10. IsTask(c) /\ c.latched = task.latched
  BY <1>5, <1>9, AnyField, Zenon
<1>11. IsTask(d) /\ d.latched = task.latched
  BY <1>6, <1>10, AnyField, Zenon
<1>12. IsTask(task') /\ task'.latched = task.latched
  BY <1>7, <1>11, AnyField, Zenon
<1> QED BY <1>1, <1>12, SameContinue

LEMMA DiskKeeps == ASSUME GateInv, Disk PROVE GateInv'
<1>1. CASE SaveBegins \/ SaveSerialises \/ SaveEnds
  BY <1>1 DEF SaveBegins, SaveSerialises, SaveEnds, GateInv, LatchIsAsked
<1>2. CASE TaskDies
  <2>1. task' = [NewTask EXCEPT !["alive"] = FALSE] /\ loop' = Free /\ asked' = FALSE
    BY <1>2 DEF TaskDies
  <2>2. IsTask(task') /\ task'.latched = FALSE
    BY <2>1, NewTaskIsTask, AnyField, Zenon
  <2> QED BY <2>1, <2>2, FreeIsLoop DEF GateInv, LatchIsAsked
<1>3. CASE createTask
  BY <1>3, NewTaskIsTask DEF createTask, GateInv, LatchIsAsked
<1>4. CASE fromSnapshot
  <2>1. PICK a : a = [NewTask EXCEPT !["history"] = disk.history]
    OBVIOUS
  <2>2. PICK b : b = [a EXCEPT !["steps"] = disk.steps]
    OBVIOUS
  <2>3. PICK w : w = IF disk.status = "running" THEN "idle" ELSE disk.status
    OBVIOUS
  <2>4. PICK c : c = [b EXCEPT !["status"] = w]
    OBVIOUS
  <2>5. task' = [c EXCEPT !["counter"] = Len(disk.steps)]
    BY <1>4, <2>1, <2>2, <2>3, <2>4 DEF fromSnapshot
  <2>6. IsTask(a) /\ a.latched = FALSE
    BY <2>1, NewTaskIsTask, AnyField, Zenon
  <2>7. IsTask(b) /\ b.latched = FALSE
    BY <2>2, <2>6, AnyField, Zenon
  <2>8. IsTask(c) /\ c.latched = FALSE
    BY <2>4, <2>7, AnyField, Zenon
  <2>9. IsTask(task') /\ task'.latched = FALSE
    BY <2>5, <2>8, AnyField, Zenon
  <2>10. loop' = loop /\ asked' = asked
    BY <1>4 DEF fromSnapshot
  <2> QED BY <2>9, <2>10 DEF GateInv, LatchIsAsked
<1> QED BY <1>1, <1>2, <1>3, <1>4 DEF Disk

-----------------------------------------------------------------------------
LEMMA InitGates == TaskInit => GateInv
BY NewTaskIsTask, FreeIsLoop DEF TaskInit, GateInv, LatchIsAsked

LEMMA NextGates ==
    ASSUME GateInv, [TaskNext]_taskVars
    PROVE  GateInv'
<1>1. CASE Think
  BY <1>1, StepEndKeeps, ObserveKeeps DEF Think
<1>2. CASE Platform
  BY <1>2, StepEndKeeps, ObserveKeeps DEF Platform
<1>3. CASE Caller
  BY <1>3, RunKeeps, ExecKeeps, PauseKeeps, StepKeeps, GotoKeeps DEF Caller
<1>4. CASE Disk
  BY <1>4, DiskKeeps
<1>5. CASE UNCHANGED taskVars
  BY <1>5 DEF taskVars, GateInv, LatchIsAsked
<1> QED BY <1>1, <1>2, <1>3, <1>4, <1>5 DEF TaskNext

(* From the middle of a step, the next step begins only through the gate.    *)
LEMMA NextAsks ==
    ASSUME GateInv, [TaskNext]_taskVars, SingleStep, loop.how = "run",
           loop.pc \in {"think", "act"}, loop'.pc = "capture"
    PROVE  asked
<1>1. CASE ThinkFails \/ \E finished \in BOOLEAN : Talks(finished) \/ Acted(finished)
  BY <1>1, StepEnds, AfterStepGates
<1>2. CASE CallsTool
  BY <1>2, SetPc DEF CallsTool, GateInv
<1>3. CASE Captured \/ Listed \/ ObserveFails \/ run \/ exec \/ goto
  BY <1>3 DEF Captured, Listed, ObserveFails, run, exec, goto
<1>4. CASE pause \/ step \/ SaveBegins \/ SaveSerialises \/ SaveEnds \/ createTask
           \/ fromSnapshot \/ UNCHANGED taskVars
  BY <1>4 DEF pause, step, SaveBegins, SaveSerialises, SaveEnds, createTask, fromSnapshot,
              taskVars
<1>5. CASE TaskDies
  BY <1>5, FreeIsLoop DEF TaskDies
<1> QED BY <1>1, <1>2, <1>3, <1>4, <1>5 DEF TaskNext, Think, Platform, Caller, Disk

-----------------------------------------------------------------------------
(* In single-step mode a step is followed by the next one only when run() or *)
(* step() was called since it began: for every budget, every way to observe  *)
(* and every caller, also after errors, rewinds, deaths and loading.         *)
THEOREM TaskGate == TaskSpec => OneStepPerContinue
<1>1. TaskSpec => []GateInv
  BY InitGates, NextGates, PTL DEF TaskSpec
<1>2. GateInv /\ [TaskNext]_taskVars
      => [SingleStep /\ loop.how = "run" /\ loop.pc \in {"think", "act"}
            => (loop'.pc = "capture" => asked)]_taskVars
  BY NextAsks
<1> QED BY <1>1, <1>2, PTL DEF TaskSpec, OneStepPerContinue

(* The task whose tools run on the local input device is a task.             *)
LEMMA LocalStep ==
    ASSUME [Next]_vars
    PROVE  [TaskNext]_taskVars
BY DEF Next, vars, TaskNext, Think, Platform, Caller, Disk, CallsTools, RunsTool, ActEnds, Dies,
       TaskAlone

THEOREM LocalTaskIsATask == Spec => TaskSpec
<1>1. Init => TaskInit
  BY DEF Init
<1> QED BY <1>1, LocalStep, PTL DEF Spec, TaskSpec

THEOREM LocalGate == Spec => OneStepPerContinue
BY TaskGate, LocalTaskIsATask

-----------------------------------------------------------------------------
(* The conversation.  Between steps it is the goal, what the caller said,    *)
(* and one turn per step; an open turn follows only while a step runs, or    *)
(* after an error.                                                           *)
Statuses == {"idle", "running", "paused", "done", "error"}
Message == [kind : {"goal", "say", "screen", "reply", "results"}, step : Nat]

Tasks == [alive : BOOLEAN, status : Statuses, history : Seq(Message), steps : Seq(Nat),
          counter : Nat, pause : BOOLEAN, latched : BOOLEAN]
Loops == [pc : {"free", "capture", "elements", "think", "act", "gate"}, step : Nat,
          how : {"run", "exec"}]
Saves == [at : {"no", "mkdir", "write"}, status : Statuses, old : BOOLEAN,
          history : Seq(Message), steps : Seq(Nat)]
Files == [is : {"none", "file", "torn"}, status : Statuses, history : Seq(Message), steps : Seq(Nat)]

TurnTypes == task \in Tasks /\ loop \in Loops /\ saving \in Saves /\ disk \in Files

(* The sequence e has the places of the screens in h, in their order.        *)
Enumerates(e, h) ==
    /\ e \in Seq(1..Len(h))
    /\ \A n \in 1..Len(e) : h[e[n]].kind = "screen"
    /\ \A m, n \in 1..Len(e) : m < n => e[m] < e[n]
    /\ \A i \in 1..Len(h) : h[i].kind = "screen" => \E n \in 1..Len(e) : e[n] = i

TurnEnd(e, h, n) == IF n = Len(e) THEN Len(h) ELSE e[n + 1] - 1

(* The messages from first to last are those of the n-th step.               *)
IsTurn(h, first, last, n) ==
    /\ first + 2 <= last
    /\ h[first] = Msg("screen", n) /\ h[first + 1] = Msg("reply", n)
    /\ h[first + 2] = Msg("results", n)
    /\ \A i \in first + 3..last : h[i].kind = "say"

(* The first k turns of h are those of the first k steps.                    *)
Through(e, h, k) ==
    /\ Enumerates(e, h) /\ k \in 0..Len(e)
    /\ \A n \in 1..k : IsTurn(h, e[n], TurnEnd(e, h, n), n)

(* There are no others; there is one with a screen only; with a reply too.   *)
Closed(h, k) == Through(Screens(h), h, k) /\ Len(Screens(h)) = k
Begun(h, k) ==
    \E n \in 0..Len(h) : /\ Closed(SubSeq(h, 1, n), k)
                         /\ h = Append(SubSeq(h, 1, n), Msg("screen", k + 1))
Replied(h, k) ==
    \E n \in 0..Len(h) : /\ Begun(SubSeq(h, 1, n), k)
                         /\ h = Append(SubSeq(h, 1, n), Msg("reply", k + 1))

(* A conversation that may be kept: only an error leaves a turn open.        *)
InOrder(h, steps, status) ==
    /\ \A n \in 1..Len(steps) : steps[n] = n
    /\ \/ Closed(h, Len(steps))
       \/ status = "error" /\ Begun(h, Len(steps))

Conversation ==
    LET k == Len(task.steps) IN
    /\ task.counter = k
    /\ \A n \in 1..k : task.steps[n] = n
    /\ loop.pc = "free" => InOrder(task.history, task.steps, task.status)
    /\ loop.pc \in {"capture", "elements", "gate"} => Closed(task.history, k)
    /\ loop.pc = "think" => Begun(task.history, k)
    /\ loop.pc = "act" => Replied(task.history, k)
    /\ loop.pc \in {"capture", "elements", "think", "act"} => loop.step = k + 1

(* A caller that awaits save() finds the conversation as it was.  Nothing    *)
(* goes on without a process.                                                *)
Copies ==
    /\ ~task.alive => loop.pc = "free" /\ saving.at = "no"
    /\ saving.at # "no" => loop.pc \in {"free", "gate"}
    /\ saving.at = "mkdir" => ~saving.old /\ InOrder(task.history, task.steps, saving.status)
    /\ saving.at = "write" => InOrder(saving.history, saving.steps, saving.status)
    /\ disk.is = "file" => InOrder(disk.history, disk.steps, disk.status)

TurnInv == TurnTypes /\ Conversation /\ Copies

-----------------------------------------------------------------------------
(* A place among places in order has its number as its rank.                 *)
LEMMA Counted ==
    ASSUME NEW n \in Nat, NEW S, NEW f \in [1..n -> S], \A i, j \in 1..n : f[i] = f[j] => i = j,
           \A s \in S : \E i \in 1..n : f[i] = s
    PROVE  Cardinality(S) = n
<1>1. f \in Bijection(1..n, S)
  BY DEF Bijection, Injection, Surjection, IsInjective
<1>2. IsFiniteSet(1..n) /\ Cardinality(1..n) = n
  BY FS_Interval
<1> QED BY <1>1, <1>2, FS_Bijection DEF ExistsBijection

LEMMA ScreensAre ==
    ASSUME NEW S, NEW h \in Seq(S), NEW e, Enumerates(e, h)
    PROVE  Screens(h) = e
<1> DEFINE shown == {i \in DOMAIN h : h[i].kind = "screen"}
           N == Len(e)
           upto(i) == {j \in shown : j <= i}
<1>1. N \in Nat /\ e \in [1..N -> shown] /\ DOMAIN e = 1..N /\ shown \subseteq Nat
  BY LenProperties DEF Enumerates
<1>2. \A i, j \in 1..N : e[i] <= e[j] <=> i <= j
  <2> TAKE i, j \in 1..N
  <2>1. e[i] \in Nat /\ e[j] \in Nat /\ i \in Nat /\ j \in Nat
    BY <1>1
  <2>2. /\ i < j => e[i] < e[j]
        /\ j < i => e[j] < e[i]
    BY DEF Enumerates
  <2> QED BY <2>1, <2>2
<1>3. \A i, j \in 1..N : e[i] = e[j] => i = j
  <2> TAKE i, j \in 1..N
  <2>1. e[i] \in Nat /\ i \in Nat /\ j \in Nat
    BY <1>1
  <2> QED BY <1>2, <2>1
<1>4. \A s \in shown : \E i \in 1..N : e[i] = s
  BY LenProperties DEF Enumerates
<1>5. Cardinality(shown) = N
  <2> HIDE DEF shown, N
  <2>1. N \in Nat /\ e \in [1..N -> shown]
    BY <1>1
  <2> QED BY <2>1, <1>3, <1>4, Counted
<1>6. ASSUME NEW n \in 1..N PROVE Cardinality(upto(e[n])) = n
  <2> DEFINE f == [i \in 1..n |-> e[i]]
  <2>1. n \in Nat /\ \A i \in 1..n : i \in 1..N /\ i <= n
    OBVIOUS
  <2>2. f \in [1..n -> upto(e[n])]
    BY <1>1, <1>2, <2>1
  <2>3. \A i, j \in 1..n : f[i] = f[j] => i = j
    BY <1>3, <2>1
  <2>4. \A s \in upto(e[n]) : \E i \in 1..n : f[i] = s
    <3> TAKE s \in upto(e[n])
    <3>1. PICK i \in 1..N : e[i] = s
      BY <1>4
    <3>2. i <= n
      BY <1>2, <3>1
    <3>3. i \in 1..n
      BY <3>2
    <3> QED BY <3>1, <3>3
  <2> HIDE DEF f, upto
  <2> QED BY <2>1, <2>2, <2>3, <2>4, Counted
<1>7. ASSUME NEW n \in 1..N PROVE (CHOOSE i \in shown : Cardinality(upto(i)) = n) = e[n]
  <2> HIDE DEF upto, shown
  <2>1. e[n] \in shown /\ Cardinality(upto(e[n])) = n
    BY <1>1, <1>6
  <2>2. \A i \in shown : Cardinality(upto(i)) = n => i = e[n]
    BY <1>4, <1>6
  <2> QED BY <2>1, <2>2
<1>8. Screens(h) = [n \in 1..N |-> CHOOSE i \in shown : Cardinality(upto(i)) = n]
  BY <1>5 DEF Screens
<1>9. e = [n \in 1..N |-> e[n]]
  BY <1>1
<1> HIDE DEF upto, shown, N
<1> QED BY <1>7, <1>8, <1>9

-----------------------------------------------------------------------------
LEMMA AppendFront ==
    ASSUME NEW S, NEW s \in Seq(S), NEW x \in S
    PROVE  /\ Append(s, x) \in Seq(S) /\ Len(Append(s, x)) = Len(s) + 1 /\ Len(s) \in Nat
           /\ Append(s, x)[Len(s) + 1] = x
           /\ \A i \in 1..Len(s) : Append(s, x)[i] = s[i] /\ s[i] \in S
           /\ SubSeq(Append(s, x), 1, Len(s)) = s
<1>1. /\ Append(s, x) \in Seq(S) /\ Len(Append(s, x)) = Len(s) + 1 /\ Len(s) \in Nat
      /\ Append(s, x)[Len(s) + 1] = x
      /\ \A i \in 1..Len(s) : Append(s, x)[i] = s[i] /\ s[i] \in S
  BY AppendProperties, LenProperties, ElementOfSeq
<1>2. \A i \in 1..Len(s) : Append(s, x)[i] \in S
  BY <1>1
<1>3. /\ SubSeq(Append(s, x), 1, Len(s)) \in Seq(S)
      /\ Len(SubSeq(Append(s, x), 1, Len(s))) = Len(s)
      /\ \A i \in 1..Len(s) : SubSeq(Append(s, x), 1, Len(s))[i] = Append(s, x)[i]
  <2> DEFINE a == Append(s, x)
  <2> HIDE DEF a
  <2>1. \A i \in 1..Len(s) : a[i] \in S
    BY <1>2 DEF a
  <2>2. /\ SubSeq(a, 1, Len(s)) \in Seq(S)
        /\ Len(SubSeq(a, 1, Len(s))) = IF 1 <= Len(s) THEN Len(s) - 1 + 1 ELSE 0
        /\ \A i \in 1..Len(s) - 1 + 1 : SubSeq(a, 1, Len(s))[i] = a[1 + i - 1]
    BY <1>1, <2>1, SubSeqProperties
  <2> QED BY <1>1, <2>2 DEF a
<1> QED BY <1>1, <1>3, SeqEqual

LEMMA EnumeratesAppend ==
    ASSUME NEW h \in Seq(Message), NEW e, Enumerates(e, h), NEW x \in Message
    PROVE  /\ x.kind # "screen" => Enumerates(e, Append(h, x))
           /\ x.kind = "screen" => Enumerates(Append(e, Len(h) + 1), Append(h, x))
<1> DEFINE g == Append(h, x)
           L == Len(h)
<1>1. /\ g \in Seq(Message) /\ Len(g) = L + 1 /\ L \in Nat /\ g[L + 1] = x
      /\ \A i \in 1..L : g[i] = h[i]
  BY AppendFront
<1>2. e \in Seq(1..L) /\ Len(e) \in Nat /\ \A n \in 1..Len(e) : e[n] \in 1..L
  BY ElementOfSeq, LenProperties DEF Enumerates
<1>3. e \in Seq(1..L + 1)
  BY <1>1, <1>2, SeqMonotonic
<1>4. \A i \in 1..L + 1 : i \in 1..L \/ i = L + 1
  BY <1>1
<1>5. CASE x.kind # "screen"
  <2> HIDE DEF g, L
  <2>1. \A n \in 1..Len(e) : g[e[n]].kind = "screen"
    BY <1>1, <1>2 DEF Enumerates, L
  <2>2. \A i \in 1..L + 1 : g[i].kind = "screen" => \E n \in 1..Len(e) : e[n] = i
    BY <1>1, <1>4, <1>5 DEF Enumerates, L
  <2>3. Enumerates(e, g)
    BY <1>1, <1>3, <2>1, <2>2 DEF Enumerates
  <2> QED BY <1>5, <2>3 DEF g
<1>6. CASE x.kind = "screen"
  <2> DEFINE d == Append(e, L + 1)
  <2>1. L + 1 \in 1..L + 1
    BY <1>1
  <2>2. /\ d \in Seq(1..L + 1) /\ Len(d) = Len(e) + 1 /\ d[Len(e) + 1] = L + 1
        /\ \A n \in 1..Len(e) : d[n] = e[n]
    BY <1>3, <2>1, AppendFront
  <2>3. \A n \in 1..Len(e) + 1 : n \in 1..Len(e) \/ n = Len(e) + 1
    BY <1>2
  <2> HIDE DEF d, g, L
  <2>4. \A n \in 1..Len(d) : g[d[n]].kind = "screen"
    BY <1>1, <1>2, <1>6, <2>2, <2>3, SMTT(30) DEF Enumerates, L
  <2>5. ASSUME NEW m \in 1..Len(d), NEW n \in 1..Len(d), m < n PROVE d[m] < d[n]
    <3>1. m \in 1..Len(e)
      BY <1>2, <2>2, <2>5
    <3>2. CASE n \in 1..Len(e)
      BY <2>2, <2>5, <3>1, <3>2 DEF Enumerates
    <3>3. CASE n = Len(e) + 1
      <4>1. d[m] \in 1..L /\ d[n] = L + 1
        BY <1>2, <2>2, <3>1, <3>3
      <4> QED BY <1>1, <4>1
    <3> QED BY <2>2, <2>3, <3>2, <3>3
  <2>6. \A i \in 1..L + 1 : g[i].kind = "screen" => \E n \in 1..Len(d) : d[n] = i
    <3> SUFFICES ASSUME NEW i \in 1..L + 1, g[i].kind = "screen"
                 PROVE  \E n \in 1..Len(d) : d[n] = i
      OBVIOUS
    <3>1. CASE i = L + 1
      <4>1. Len(e) + 1 \in 1..Len(d)
        BY <1>2, <2>2
      <4> QED BY <2>2, <3>1, <4>1
    <3>2. CASE i \in 1..L
      <4>1. PICK n \in 1..Len(e) : e[n] = i
        BY <1>1, <3>2 DEF Enumerates, L
      <4>2. n \in 1..Len(d)
        BY <1>2, <2>2
      <4> QED BY <2>2, <4>1, <4>2
    <3> QED BY <1>4, <3>1, <3>2
  <2>7. Enumerates(d, g)
    BY <1>1, <2>2, <2>4, <2>5, <2>6 DEF Enumerates
  <2> QED BY <1>6, <2>7 DEF d, g, L
<1> QED BY <1>5, <1>6

LEMMA Prefix ==
    ASSUME NEW S, NEW s \in Seq(S), NEW n \in 0..Len(s)
    PROVE  /\ SubSeq(s, 1, n) \in Seq(S) /\ Len(SubSeq(s, 1, n)) = n /\ n \in Nat
           /\ \A i \in 1..n : SubSeq(s, 1, n)[i] = s[i] /\ i \in 1..Len(s)
<1>1. n \in Nat /\ Len(s) \in Nat /\ \A i \in 1..n : i \in 1..Len(s) /\ s[i] \in S
  BY LenProperties, ElementOfSeq
<1>2. /\ SubSeq(s, 1, n) \in Seq(S)
      /\ Len(SubSeq(s, 1, n)) = IF 1 <= n THEN n - 1 + 1 ELSE 0
      /\ \A i \in 1..n - 1 + 1 : SubSeq(s, 1, n)[i] = s[1 + i - 1]
  BY <1>1, SubSeqProperties
<1> QED BY <1>1, <1>2

(* Where the n-th turn begins and ends.                                      *)
LEMMA TurnPlaces ==
    ASSUME NEW h \in Seq(Message), NEW e, Enumerates(e, h)
    PROVE  /\ Len(h) \in Nat /\ Len(e) \in Nat /\ DOMAIN e = 1..Len(e)
           /\ \A n \in 1..Len(e) : /\ e[n] \in 1..Len(h) /\ TurnEnd(e, h, n) \in e[n]..Len(h)
                                   /\ n < Len(e) => e[n + 1] = TurnEnd(e, h, n) + 1
<1>1. Len(h) \in Nat /\ Len(e) \in Nat /\ DOMAIN e = 1..Len(e)
  BY LenProperties DEF Enumerates
<1>2. \A n \in 1..Len(e) : e[n] \in 1..Len(h)
  BY ElementOfSeq DEF Enumerates
<1>3. ASSUME NEW n \in 1..Len(e)
      PROVE  /\ TurnEnd(e, h, n) \in e[n]..Len(h)
             /\ n < Len(e) => e[n + 1] = TurnEnd(e, h, n) + 1
  <2>1. e[n] \in 1..Len(h)
    BY <1>2
  <2>2. CASE n = Len(e)
    BY <1>1, <2>1, <2>2 DEF TurnEnd
  <2>3. CASE n # Len(e)
    <3> DEFINE N == Len(e)
    <3> HIDE DEF N
    <3>4. N \in Nat /\ n \in 1..N /\ n # N
      BY <1>1, <2>3 DEF N
    <3>5. n + 1 \in 1..N /\ n < n + 1
      BY <3>4
    <3>1. n + 1 \in 1..Len(e) /\ n < n + 1
      BY <3>5 DEF N
    <3>2. e[n + 1] \in 1..Len(h) /\ e[n] < e[n + 1]
      BY <1>2, <3>1 DEF Enumerates
    <3>3. TurnEnd(e, h, n) = e[n + 1] - 1
      BY <2>3 DEF TurnEnd
    <3> QED BY <1>1, <2>1, <3>2, <3>3
  <2> QED BY <2>2, <2>3
<1> QED BY <1>1, <1>2, <1>3

LEMMA TurnKept ==
    ASSUME NEW g, NEW h, NEW first \in Nat \ {0}, NEW last \in Nat, NEW n,
           IsTurn(g, first, last, n), \A i \in 1..last : h[i] = g[i]
    PROVE  IsTurn(h, first, last, n)
<1>1. first \in 1..last /\ first + 1 \in 1..last /\ first + 2 \in 1..last /\ first + 2 <= last
  BY DEF IsTurn
<1>2. \A i \in first + 3..last : i \in 1..last
  OBVIOUS
<1> QED BY <1>1, <1>2 DEF IsTurn

(* What follows the last whole turn leaves the turns before it as they are.  *)
LEMMA TurnsKept ==
    ASSUME NEW g \in Seq(Message), NEW k \in Nat, Closed(g, k),
           NEW h \in Seq(Message), Len(h) > Len(g), \A i \in 1..Len(g) : h[i] = g[i],
           Enumerates(Append(Screens(g), Len(g) + 1), h)
    PROVE  /\ Through(Screens(h), h, k) /\ Len(Screens(h)) = k + 1
           /\ Screens(h)[k + 1] = Len(g) + 1
<1> DEFINE e == Screens(g)
           d == Append(e, Len(g) + 1)
<1>1. Enumerates(e, g) /\ Len(e) = k
  BY DEF Closed, Through
<1>2. Len(g) \in Nat /\ Len(h) \in Nat /\ e \in Seq(1..Len(g))
  BY <1>1, LenProperties DEF Enumerates
<1>3. e \in Seq(Nat) /\ Len(g) + 1 \in Nat
  BY <1>2, SeqMonotonic
<1>4. Len(d) = k + 1 /\ d[k + 1] = Len(g) + 1 /\ \A n \in 1..k : d[n] = e[n]
  BY <1>1, <1>3, AppendFront
<1>5. Screens(h) = d
  BY ScreensAre
<1> HIDE DEF d, e
<1>6. ASSUME NEW n \in 1..k PROVE IsTurn(h, d[n], TurnEnd(d, h, n), n)
  <2>1. IsTurn(g, e[n], TurnEnd(e, g, n), n)
    BY DEF Closed, Through, e
  <2>2. /\ e[n] \in 1..Len(g) /\ TurnEnd(e, g, n) \in e[n]..Len(g)
        /\ n < Len(e) => e[n + 1] = TurnEnd(e, g, n) + 1
    BY <1>1, TurnPlaces
  <2>3. TurnEnd(d, h, n) = TurnEnd(e, g, n)
    <3>1. n # k + 1 /\ n \in Nat
      OBVIOUS
    <3>2. TurnEnd(d, h, n) = d[n + 1] - 1
      BY <1>4, <3>1 DEF TurnEnd
    <3>3. CASE n = k
      BY <1>1, <1>2, <1>4, <3>2, <3>3 DEF TurnEnd
    <3>4. CASE n # k
      <4>1. n + 1 \in 1..k
        BY <3>4
      <4> QED BY <1>1, <1>4, <3>2, <3>4, <4>1 DEF TurnEnd
    <3> QED BY <3>3, <3>4
  <2>4. /\ e[n] \in Nat \ {0} /\ TurnEnd(e, g, n) \in Nat
        /\ \A i \in 1..TurnEnd(e, g, n) : h[i] = g[i]
    BY <1>2, <2>2
  <2>5. IsTurn(h, e[n], TurnEnd(e, g, n), n)
    BY <2>1, <2>4, TurnKept
  <2> QED BY <1>4, <2>3, <2>5
<1>7. k \in 0..Len(d)
  BY <1>4
<1>8. Through(d, h, k)
  BY <1>6, <1>7 DEF Through, d, e
<1> QED BY <1>4, <1>5, <1>8

LEMMA Messages ==
    ASSUME NEW k \in Nat
    PROVE  /\ Msg("screen", k) \in Message /\ Msg("reply", k) \in Message
           /\ Msg("results", k) \in Message /\ Msg("say", k) \in Message /\ Goal \in Message
           /\ Msg("screen", k).kind = "screen" /\ Msg("reply", k).kind = "reply"
           /\ Msg("results", k).kind = "results" /\ Msg("say", k).kind = "say" /\ Goal.kind = "goal"
BY DEF Msg, Message, Goal

(* A screen begins a turn, which an error leaves as it is.                   *)
LEMMA Begins ==
    ASSUME NEW g \in Seq(Message), NEW k \in Nat, Closed(g, k),
           NEW h, h = Append(g, Msg("screen", k + 1))
    PROVE  /\ h \in Seq(Message) /\ Begun(h, k)
           /\ Through(Screens(h), h, k) /\ Len(Screens(h)) = k + 1
<1>1. Msg("screen", k + 1) \in Message /\ Msg("screen", k + 1).kind = "screen"
  BY Messages
<1>2. /\ h \in Seq(Message) /\ Len(h) = Len(g) + 1 /\ Len(g) \in Nat /\ SubSeq(h, 1, Len(g)) = g
      /\ \A i \in 1..Len(g) : h[i] = g[i]
  BY <1>1, AppendFront
<1>3. Begun(h, k)
  <2>1. Len(g) \in 0..Len(h)
    BY <1>2
  <2> QED BY <1>2, <2>1 DEF Begun
<1>4. Enumerates(Append(Screens(g), Len(g) + 1), h)
  <2>1. Enumerates(Screens(g), g)
    BY DEF Closed, Through
  <2> QED BY <1>1, <2>1, EnumeratesAppend
<1>5. Len(h) > Len(g)
  BY <1>2
<1>6. Through(Screens(h), h, k) /\ Len(Screens(h)) = k + 1
  BY <1>2, <1>4, <1>5, TurnsKept
<1> QED BY <1>2, <1>3, <1>6

LEMMA Replies ==
    ASSUME NEW g \in Seq(Message), NEW k \in Nat, Begun(g, k),
           NEW h, h = Append(g, Msg("reply", k + 1))
    PROVE  /\ h \in Seq(Message) /\ Replied(h, k)
           /\ Through(Screens(h), h, k) /\ Len(Screens(h)) = k + 1
<1>1. Msg("reply", k + 1) \in Message /\ Msg("reply", k + 1).kind # "screen"
  BY Messages
<1>2. /\ h \in Seq(Message) /\ Len(h) = Len(g) + 1 /\ Len(g) \in Nat /\ SubSeq(h, 1, Len(g)) = g
      /\ \A i \in 1..Len(g) : h[i] = g[i]
  BY <1>1, AppendFront
<1>3. Replied(h, k)
  <2>1. Len(g) \in 0..Len(h)
    BY <1>2
  <2> QED BY <1>2, <2>1 DEF Replied
<1>4. PICK n \in 0..Len(g) :
        Closed(SubSeq(g, 1, n), k) /\ g = Append(SubSeq(g, 1, n), Msg("screen", k + 1))
  BY DEF Begun
<1> DEFINE f == SubSeq(g, 1, n)
<1>5. /\ f \in Seq(Message) /\ Len(f) = n /\ n \in Nat
      /\ \A i \in 1..n : f[i] = g[i] /\ i \in 1..Len(g)
  BY Prefix
<1>6. Msg("screen", k + 1) \in Message /\ Msg("screen", k + 1).kind = "screen"
  BY Messages
<1> HIDE DEF f
<1>7. Closed(f, k) /\ g = Append(f, Msg("screen", k + 1))
  BY <1>4 DEF f
<1>8. Enumerates(Append(Screens(f), Len(f) + 1), g)
  BY <1>5, <1>6, <1>7, EnumeratesAppend DEF Closed, Through
<1>9. Enumerates(Append(Screens(f), Len(f) + 1), h)
  BY <1>1, <1>8, EnumeratesAppend
<1>10. Len(g) = Len(f) + 1 /\ Len(f) \in Nat /\ \A i \in 1..Len(f) : g[i] = f[i]
  BY <1>5, <1>6, <1>7, AppendFront
<1>11. Len(h) > Len(f)
  BY <1>2, <1>10
<1>12. \A i \in 1..Len(f) : h[i] = f[i]
  <2> TAKE i \in 1..Len(f)
  <2>1. i \in 1..Len(g)
    BY <1>10
  <2> QED BY <1>2, <1>10, <2>1
<1>13. h \in Seq(Message) /\ f \in Seq(Message)
  BY <1>2, <1>5
<1>14. Through(Screens(h), h, k) /\ Len(Screens(h)) = k + 1
  BY <1>7, <1>9, <1>11, <1>12, <1>13, TurnsKept, ZenonT(60)
<1> QED BY <1>2, <1>3, <1>14

(* The results end it.                                                       *)
LEMMA Closes ==
    ASSUME NEW g \in Seq(Message), NEW k \in Nat, Replied(g, k),
           NEW h, h = Append(g, Msg("results", k + 1))
    PROVE  h \in Seq(Message) /\ Closed(h, k + 1)
<1> DEFINE S == Msg("screen", k + 1)
           R == Msg("reply", k + 1)
           T == Msg("results", k + 1)
<1>1. /\ S \in Message /\ R \in Message /\ T \in Message
      /\ S.kind = "screen" /\ R.kind # "screen" /\ T.kind # "screen"
  BY Messages
<1>2. PICK m \in 0..Len(g) : Begun(SubSeq(g, 1, m), k) /\ g = Append(SubSeq(g, 1, m), R)
  BY DEF Replied
<1> DEFINE f == SubSeq(g, 1, m)
<1>3. f \in Seq(Message)
  BY Prefix
<1>4. PICK n \in 0..Len(f) : Closed(SubSeq(f, 1, n), k) /\ f = Append(SubSeq(f, 1, n), S)
  BY <1>2 DEF Begun
<1> DEFINE c == SubSeq(f, 1, n)
<1>5. c \in Seq(Message)
  BY <1>3, Prefix
<1> HIDE DEF c, S, R, T
<1>6. Closed(c, k) /\ f = Append(c, S)
  BY <1>4 DEF c
<1> HIDE DEF f
<1>7. g = Append(f, R) /\ h = Append(g, T)
  BY <1>2 DEF f, T
<1>8. /\ Len(f) = Len(c) + 1 /\ Len(c) \in Nat /\ f[Len(c) + 1] = S
      /\ \A i \in 1..Len(c) : f[i] = c[i]
  BY <1>1, <1>5, <1>6, AppendFront
<1>9. /\ Len(g) = Len(f) + 1 /\ g[Len(f) + 1] = R /\ \A i \in 1..Len(f) : g[i] = f[i]
  BY <1>1, <1>3, <1>7, AppendFront
<1>10. /\ h \in Seq(Message) /\ Len(h) = Len(g) + 1 /\ h[Len(g) + 1] = T
       /\ \A i \in 1..Len(g) : h[i] = g[i]
  BY <1>1, <1>7, AppendFront
<1>11. Enumerates(Append(Screens(c), Len(c) + 1), f)
  BY <1>1, <1>5, <1>6, EnumeratesAppend DEF Closed, Through
<1>12. Enumerates(Append(Screens(c), Len(c) + 1), g)
  BY <1>1, <1>3, <1>7, <1>11, EnumeratesAppend
<1>13. Enumerates(Append(Screens(c), Len(c) + 1), h)
  BY <1>1, <1>7, <1>12, EnumeratesAppend
<1>14. Len(h) = Len(c) + 3 /\ Len(h) > Len(c)
  BY <1>8, <1>9, <1>10
<1>21. \A i \in 1..Len(c) : h[i] = c[i]
  <2> TAKE i \in 1..Len(c)
  <2>1. i \in 1..Len(f) /\ i \in 1..Len(g)
    BY <1>8, <1>9
  <2> QED BY <1>8, <1>9, <1>10, <2>1
<1>22. h \in Seq(Message)
  BY <1>10
<1>15. /\ Through(Screens(h), h, k) /\ Len(Screens(h)) = k + 1
       /\ Screens(h)[k + 1] = Len(c) + 1
  BY <1>5, <1>6, <1>13, <1>14, <1>21, <1>22, TurnsKept
<1>16. h[Len(c) + 1] = S /\ h[Len(c) + 2] = R /\ h[Len(c) + 3] = T
  BY <1>8, <1>9, <1>10
<1>17. TurnEnd(Screens(h), h, k + 1) = Len(c) + 3
  BY <1>14, <1>15 DEF TurnEnd
<1>18. IsTurn(h, Len(c) + 1, Len(c) + 3, k + 1)
  <2>1. \A i \in Len(c) + 1 + 3..Len(c) + 3 : FALSE
    BY <1>8
  <2>2. Len(c) + 1 + 2 <= Len(c) + 3 /\ Len(c) + 1 + 1 = Len(c) + 2 /\ Len(c) + 1 + 2 = Len(c) + 3
    BY <1>8
  <2> QED BY <1>16, <2>1, <2>2 DEF IsTurn, S, R, T
<1>19. \A n_1 \in 1..k + 1 : n_1 \in 1..k \/ n_1 = k + 1
  OBVIOUS
<1>20. Through(Screens(h), h, k + 1)
  BY <1>15, <1>17, <1>18, <1>19 DEF Through
<1> QED BY <1>10, <1>15, <1>20 DEF Closed

(* What the caller says is the end of the last turn, or of the preamble.     *)
LEMMA SaysAfter ==
    ASSUME NEW g \in Seq(Message), NEW k \in Nat, Closed(g, k),
           NEW h, h = Append(g, Msg("say", 0))
    PROVE  h \in Seq(Message) /\ Closed(h, k)
<1> DEFINE e == Screens(g)
           x == Msg("say", 0)
<1>1. x \in Message /\ x.kind = "say" /\ x.kind # "screen"
  BY Messages
<1> HIDE DEF e, x
<1>2. Enumerates(e, g) /\ Len(e) = k /\ h = Append(g, x)
  BY DEF Closed, Through, e, x
<1>3. /\ h \in Seq(Message) /\ Len(h) = Len(g) + 1 /\ Len(g) \in Nat /\ h[Len(g) + 1] = x
      /\ \A i \in 1..Len(g) : h[i] = g[i]
  BY <1>1, <1>2, AppendFront
<1>4. Enumerates(e, h)
  BY <1>1, <1>2, EnumeratesAppend
<1>5. Screens(h) = e
  BY <1>3, <1>4, ScreensAre
<1>6. ASSUME NEW n \in 1..k PROVE IsTurn(h, e[n], TurnEnd(e, h, n), n)
  <2>1. IsTurn(g, e[n], TurnEnd(e, g, n), n)
    BY DEF Closed, Through, e
  <2>2. /\ e[n] \in 1..Len(g) /\ TurnEnd(e, g, n) \in e[n]..Len(g)
    BY <1>2, TurnPlaces
  <2>3. /\ e[n] \in Nat \ {0} /\ TurnEnd(e, g, n) \in Nat
        /\ \A i \in 1..TurnEnd(e, g, n) : h[i] = g[i]
    BY <1>3, <2>2
  <2>4. IsTurn(h, e[n], TurnEnd(e, g, n), n)
    BY <2>1, <2>3, TurnKept
  <2>5. CASE n # k
    <3>1. TurnEnd(e, h, n) = TurnEnd(e, g, n)
      BY <1>2, <2>5 DEF TurnEnd
    <3> QED BY <2>4, <3>1
  <2>6. CASE n = k
    <3>1. TurnEnd(e, g, n) = Len(g) /\ TurnEnd(e, h, n) = Len(g) + 1
      BY <1>2, <1>3, <2>6 DEF TurnEnd
    <3>2. \A i \in e[n] + 3..Len(g) + 1 : i \in e[n] + 3..Len(g) \/ i = Len(g) + 1
      BY <1>3
    <3>3. e[n] + 2 <= Len(g) + 1
      <4>1. e[n] + 2 <= Len(g)
        BY <2>1, <3>1 DEF IsTurn
      <4> QED BY <1>3, <2>2, <4>1
    <3> QED BY <1>1, <1>3, <2>4, <3>1, <3>2, <3>3 DEF IsTurn
  <2> QED BY <2>5, <2>6
<1>7. Through(e, h, k)
  <2>1. k \in 0..Len(e)
    BY <1>2
  <2> QED BY <1>4, <1>6, <2>1 DEF Through
<1> QED BY <1>2, <1>3, <1>5, <1>7 DEF Closed

LEMMA NewIsClosed == <<Goal>> \in Seq(Message) /\ Closed(<<Goal>>, 0)
<1> DEFINE h == <<Goal>>
<1>1. Goal \in Message /\ Goal.kind # "screen"
  BY Messages
<1>2. h \in Seq(Message) /\ Len(h) = 1 /\ h[1] = Goal
  BY <1>1
<1>3. <<>> \in Seq(1..Len(h)) /\ Len(<<>>) = 0
  BY EmptySeq
<1>4. \A i \in 1..1 : i = 1
  OBVIOUS
<1> HIDE DEF h
<1>5. Enumerates(<<>>, h)
  BY <1>1, <1>2, <1>3, <1>4 DEF Enumerates
<1>6. Screens(h) = <<>>
  BY <1>2, <1>5, ScreensAre
<1>7. Through(<<>>, h, 0)
  BY <1>3, <1>5 DEF Through
<1>8. Closed(h, 0)
  BY <1>3, <1>6, <1>7 DEF Closed
<1> QED BY <1>2, <1>8 DEF h

(* goto cuts behind the n-th turn, and what is left has n turns.             *)
LEMMA Cuts ==
    ASSUME NEW h \in Seq(Message), NEW k \in Nat, Through(Screens(h), h, k), NEW n \in 1..k
    PROVE  /\ SubSeq(h, 1, turnBoundaries(h)[n]) \in Seq(Message)
           /\ Closed(SubSeq(h, 1, turnBoundaries(h)[n]), n)
<1> DEFINE e == Screens(h)
           E == TurnEnd(e, h, n)
           g == SubSeq(h, 1, E)
           d == SubSeq(e, 1, n)
<1> HIDE DEF e, E, g, d
<1>1. Enumerates(e, h) /\ k <= Len(e) /\ Len(e) \in Nat
  BY LenProperties DEF Through, Enumerates, e
<1>2. n \in Nat /\ n \in 1..Len(e) /\ n \in 0..Len(e)
  BY <1>1
<1>3. /\ Len(h) \in Nat /\ DOMAIN e = 1..Len(e)
      /\ \A m \in 1..Len(e) : /\ e[m] \in 1..Len(h) /\ TurnEnd(e, h, m) \in e[m]..Len(h)
                              /\ m < Len(e) => e[m + 1] = TurnEnd(e, h, m) + 1
  BY <1>1, TurnPlaces
<1>4. e \in Seq(1..Len(h))
  BY <1>1 DEF Enumerates
<1>5. e[n] \in 1..Len(h) /\ E \in e[n]..Len(h) /\ E \in 0..Len(h) /\ E \in Nat
  BY <1>2, <1>3 DEF E
<1>6. turnBoundaries(h)[n] = E
  BY <1>2, <1>3 DEF turnBoundaries, TurnEnd, e, E
<1>7. /\ g \in Seq(Message) /\ Len(g) = E /\ \A i \in 1..E : g[i] = h[i] /\ i \in 1..Len(h)
  BY <1>5, Prefix DEF g
<1>8. /\ d \in Seq(1..Len(h)) /\ Len(d) = n /\ \A i \in 1..n : d[i] = e[i] /\ i \in 1..Len(e)
  BY <1>2, <1>4, Prefix DEF d
<1>9. \A m \in 1..n : e[m] \in 1..E
  <2> TAKE m \in 1..n
  <2>1. m \in 1..Len(e) /\ m \in Nat
    BY <1>8
  <2>2. CASE m = n
    BY <1>5, <2>2
  <2>3. CASE m # n
    <3>1. m < n
      BY <2>3
    <3>2. e[m] < e[n] /\ e[m] \in 1..Len(h)
      BY <1>1, <1>2, <1>3, <2>1, <3>1 DEF Enumerates
    <3> QED BY <1>5, <3>2
  <2> QED BY <2>2, <2>3
<1>10. d \in Seq(1..E)
  <2>1. \A m \in 1..n : d[m] \in 1..E
    BY <1>8, <1>9
  <2>2. SubSeq(d, 1, Len(d)) = d
    BY <1>8, SubSeqFull
  <2>3. SubSeq(d, 1, n) \in Seq(1..E)
    BY <1>2, <2>1, SubSeqProperties
  <2> QED BY <1>8, <2>2, <2>3
<1>11. \A m \in 1..n : g[d[m]].kind = "screen"
  <2> TAKE m \in 1..n
  <2>1. d[m] = e[m] /\ e[m] \in 1..E /\ m \in 1..Len(e)
    BY <1>8, <1>9
  <2>2. h[e[m]].kind = "screen"
    BY <1>1, <2>1 DEF Enumerates
  <2> QED BY <1>7, <2>1, <2>2
<1>12. \A m, i \in 1..n : m < i => d[m] < d[i]
  BY <1>1, <1>8 DEF Enumerates
<1>13. \A i \in 1..E : g[i].kind = "screen" => \E m \in 1..n : d[m] = i
  <2> SUFFICES ASSUME NEW i \in 1..E, g[i].kind = "screen" PROVE \E m \in 1..n : d[m] = i
    OBVIOUS
  <2>1. h[i].kind = "screen" /\ i \in 1..Len(h)
    BY <1>7
  <2>2. PICK m \in 1..Len(e) : e[m] = i
    BY <1>1, <2>1 DEF Enumerates
  <2>3. m <= n
    <3> SUFFICES ASSUME n < m PROVE FALSE
      BY <1>2
    <3>1. n < Len(e) /\ n + 1 \in 1..Len(e)
      BY <1>1, <1>2
    <3>2. e[n + 1] = E + 1
      BY <1>2, <1>3, <3>1 DEF E
    <3>3. n + 1 = m \/ n + 1 < m
      BY <1>2
    <3>4. n + 1 < m => e[n + 1] < e[m]
      BY <1>1, <3>1 DEF Enumerates
    <3> QED BY <1>5, <2>2, <3>2, <3>3, <3>4
  <2>4. m \in 1..n
    BY <2>3
  <2> QED BY <1>8, <2>2, <2>4
<1>14. Enumerates(d, g)
  BY <1>7, <1>8, <1>10, <1>11, <1>12, <1>13 DEF Enumerates
<1>15. Screens(g) = d
  BY <1>7, <1>14, ScreensAre
<1>16. ASSUME NEW m \in 1..n PROVE IsTurn(g, d[m], TurnEnd(d, g, m), m)
  <2>1. m \in 1..Len(e) /\ m \in 1..k /\ d[m] = e[m]
    BY <1>8
  <2>2. IsTurn(h, e[m], TurnEnd(e, h, m), m)
    BY <2>1 DEF Through, e
  <2>3. TurnEnd(d, g, m) = TurnEnd(e, h, m) /\ TurnEnd(e, h, m) \in 0..E
    <3>1. CASE m = n
      BY <1>5, <1>7, <1>8, <3>1 DEF TurnEnd, E
    <3>2. CASE m # n
      <4>1. m + 1 \in 1..n /\ m < Len(e) /\ m # Len(e)
        BY <1>2, <2>1, <3>2
      <4>2. d[m + 1] = e[m + 1] /\ e[m + 1] \in 1..E
        BY <1>8, <1>9, <4>1
      <4>3. TurnEnd(d, g, m) = d[m + 1] - 1 /\ TurnEnd(e, h, m) = e[m + 1] - 1
        BY <1>8, <3>2, <4>1 DEF TurnEnd
      <4> QED BY <1>5, <4>2, <4>3
    <3> QED BY <3>1, <3>2
  <2>4. e[m] \in Nat \ {0} /\ TurnEnd(e, h, m) \in Nat
    BY <1>9, <1>5, <2>3
  <2>5. \A i \in 1..TurnEnd(e, h, m) : g[i] = h[i]
    BY <1>5, <1>7, <2>3
  <2>6. IsTurn(g, e[m], TurnEnd(e, h, m), m)
    BY <2>2, <2>4, <2>5, TurnKept
  <2> QED BY <2>1, <2>3, <2>6
<1>17. Through(d, g, n)
  BY <1>2, <1>8, <1>14, <1>16 DEF Through
<1>18. g \in Seq(Message) /\ Closed(g, n)
  BY <1>7, <1>8, <1>15, <1>17 DEF Closed
<1> QED BY <1>6, <1>18 DEF g

(* The n-th turn, as the property has it.                                    *)
LEMMA TurnsAre ==
    ASSUME NEW h \in Seq(Message), NEW k \in Nat, Through(Screens(h), h, k), NEW n \in 1..k,
           NEW turn, turn = TurnGroup(h, n)
    PROVE  /\ SubSeq(turn, 1, 3) = <<Msg("screen", n), Msg("reply", n), Msg("results", n)>>
           /\ \A i \in 4..Len(turn) : turn[i].kind = "say"
<1> DEFINE e == Screens(h)
           E == TurnEnd(e, h, n)
<1> HIDE DEF e, E
<1>1. Enumerates(e, h) /\ k <= Len(e) /\ Len(e) \in Nat
  BY LenProperties DEF Through, Enumerates, e
<1>2. n \in Nat /\ n \in 1..Len(e)
  BY <1>1
<1>3. /\ Len(h) \in Nat /\ DOMAIN e = 1..Len(e) /\ e[n] \in 1..Len(h) /\ E \in e[n]..Len(h)
  BY <1>1, <1>2, TurnPlaces DEF E
<1>4. turn = SubSeq(h, e[n], E)
  BY <1>2, <1>3 DEF TurnGroup, turnBoundaries, TurnEnd, e, E
<1>5. IsTurn(h, e[n], E, n)
  BY DEF Through, e, E
<1>6. e[n] + 2 <= E
  BY <1>5 DEF IsTurn
<1>7. \A i \in e[n]..E : h[i] \in Message
  BY <1>3, ElementOfSeq
<1>8. /\ turn \in Seq(Message)
      /\ Len(turn) = IF e[n] <= E THEN E - e[n] + 1 ELSE 0
      /\ \A i \in 1..E - e[n] + 1 : turn[i] = h[e[n] + i - 1]
  BY <1>3, <1>4, <1>7, SubSeqProperties, SMTT(30)
<1>9. Len(turn) = E - e[n] + 1 /\ Len(turn) >= 3 /\ Len(turn) \in Nat
  BY <1>3, <1>6, <1>8
<1>10. /\ turn[1] = Msg("screen", n) /\ turn[2] = Msg("reply", n) /\ turn[3] = Msg("results", n)
  <2>1. turn[1] = h[e[n]] /\ turn[2] = h[e[n] + 1] /\ turn[3] = h[e[n] + 2]
    <3>1. 1 \in 1..E - e[n] + 1 /\ 2 \in 1..E - e[n] + 1 /\ 3 \in 1..E - e[n] + 1
      BY <1>3, <1>6
    <3>2. e[n] + 1 - 1 = e[n] /\ e[n] + 2 - 1 = e[n] + 1 /\ e[n] + 3 - 1 = e[n] + 2
      BY <1>3
    <3>3. turn[1] = h[e[n] + 1 - 1] /\ turn[2] = h[e[n] + 2 - 1] /\ turn[3] = h[e[n] + 3 - 1]
      BY <1>8, <3>1
    <3> QED BY <3>2, <3>3
  <2> QED BY <1>5, <2>1 DEF IsTurn
<1>11. \A i \in 4..Len(turn) : turn[i].kind = "say"
  <2> TAKE i \in 4..Len(turn)
  <2>1. i \in 1..E - e[n] + 1 /\ e[n] + i - 1 \in e[n] + 3..E
    BY <1>3, <1>9, SMTT(30)
  <2> QED BY <1>5, <1>8, <2>1 DEF IsTurn
<1>12. SubSeq(turn, 1, 3) = <<Msg("screen", n), Msg("reply", n), Msg("results", n)>>
  <2> DEFINE s == SubSeq(turn, 1, 3)
             t == <<Msg("screen", n), Msg("reply", n), Msg("results", n)>>
  <2>1. 3 \in 0..Len(turn)
    BY <1>9
  <2>2. s \in Seq(Message) /\ Len(s) = 3 /\ \A i \in 1..3 : s[i] = turn[i]
    BY <1>8, <2>1, Prefix
  <2>3. Msg("screen", n) \in Message /\ Msg("reply", n) \in Message /\ Msg("results", n) \in Message
    BY <1>2, Messages
  <2>4. /\ t \in Seq(Message) /\ Len(t) = 3
        /\ t[1] = Msg("screen", n) /\ t[2] = Msg("reply", n) /\ t[3] = Msg("results", n)
    BY <2>3
  <2>5. \A i \in 1..3 : i = 1 \/ i = 2 \/ i = 3
    OBVIOUS
  <2> HIDE DEF s, t
  <2>6. \A i \in 1..3 : s[i] = t[i]
    BY <1>10, <2>2, <2>4, <2>5
  <2>7. s = t
    BY <2>2, <2>4, <2>6, SeqEqual
  <2> QED BY <2>7 DEF s, t
<1> QED BY <1>11, <1>12

-----------------------------------------------------------------------------
(* After a step or before one the task is t, but for its status and flags,   *)
(* and only a task that runs goes on.                                        *)
Resumes(t) ==
    /\ task' \in Tasks /\ loop' \in Loops /\ task'.alive = t.alive
    /\ task'.history = t.history /\ task'.steps = t.steps /\ task'.counter = t.counter
    /\ task'.status = "error" <=> t.status = "error"
    /\ \/ loop'.pc = "free"
       \/ t.status = "running" /\ ~t.pause /\ loop'.pc = "gate"
       \/ t.status = "running" /\ ~t.pause /\ loop'.pc = "capture" /\ loop'.step = t.counter + 1

LEMMA FreeLoop == Free \in Loops /\ Free.pc = "free"
BY DEF Free, Loops

LEMMA TaskFields ==
    ASSUME NEW t \in Tasks
    PROVE  /\ t.alive \in BOOLEAN /\ t.status \in Statuses /\ t.history \in Seq(Message)
           /\ t.steps \in Seq(Nat) /\ t.counter \in Nat /\ t.pause \in BOOLEAN
           /\ t.latched \in BOOLEAN
BY DEF Tasks

LEMMA EndedKeeps ==
    ASSUME NEW t \in Tasks, NEW u, u = Ended(t)
    PROVE  /\ u \in Tasks /\ u.history = t.history /\ u.steps = t.steps /\ u.counter = t.counter
           /\ u.status = "error" <=> t.status = "error"
           /\ u.alive = t.alive
<1>1. CASE t.status # "running"
  BY <1>1 DEF Ended
<1>2. CASE t.status = "running"
  <2>1. PICK v \in {"paused", "done"} : u = [t EXCEPT !.status = v]
    BY <1>2 DEF Ended
  <2> QED BY <1>2, <2>1 DEF Tasks, Statuses
<1> QED BY <1>1, <1>2

LEMMA HeadResumes ==
    ASSUME NEW t \in Tasks, LoopHead(t)
    PROVE  Resumes(t)
<1>1. CASE GoesOn(t)
  <2>1. task' = t /\ loop' = [pc |-> "capture", step |-> t.counter + 1, how |-> "run"]
    BY <1>1 DEF LoopHead
  <2>2. t.status = "running" /\ ~t.pause
    BY <1>1 DEF GoesOn
  <2>3. t.counter + 1 \in Nat
    BY TaskFields
  <2>4. loop' \in Loops /\ loop'.pc = "capture" /\ loop'.step = t.counter + 1
    BY <2>1, <2>3 DEF Loops
  <2> QED BY <2>1, <2>2, <2>4 DEF Resumes
<1>2. CASE ~GoesOn(t)
  <2>1. task' = Ended(t) /\ loop' = Free
    BY <1>2 DEF LoopHead
  <2> QED BY <2>1, EndedKeeps, FreeLoop DEF Resumes
<1> QED BY <1>1, <1>2

LEMMA AfterResumes ==
    ASSUME NEW t \in Tasks, loop \in Loops, AfterStep(t)
    PROVE  Resumes(t)
<1>1. CASE loop.how = "exec"
  BY <1>1, FreeLoop DEF AfterStep, Resumes
<1>2. CASE loop.how # "exec" /\ SingleStep /\ GoesOn(t) /\ ~t.latched
  <2>1. task' = t /\ loop' = [loop EXCEPT !.pc = "gate"]
    BY <1>2 DEF AfterStep
  <2>2. loop' \in Loops /\ loop'.pc = "gate"
    BY <2>1 DEF Loops
  <2> QED BY <1>2, <2>1, <2>2 DEF Resumes, GoesOn
<1>3. CASE loop.how # "exec" /\ ~(SingleStep /\ GoesOn(t) /\ ~t.latched)
  <2>1. PICK u : u = (IF SingleStep /\ GoesOn(t) THEN [t EXCEPT !.latched = FALSE] ELSE t)
    OBVIOUS
  <2>2. LoopHead(u)
    BY <1>3, <2>1 DEF AfterStep
  <2>3. /\ u \in Tasks /\ u.history = t.history /\ u.steps = t.steps /\ u.counter = t.counter
        /\ u.status = t.status /\ u.pause = t.pause /\ u.alive = t.alive
    BY <2>1 DEF Tasks
  <2>4. Resumes(u)
    BY <2>2, <2>3, HeadResumes
  <2> QED BY <2>3, <2>4 DEF Resumes
<1> QED BY <1>1, <1>2, <1>3

LEMMA OrderOfStatus ==
    ASSUME NEW h, NEW steps, NEW s, NEW u, s = "error" => u = "error", InOrder(h, steps, s)
    PROVE  InOrder(h, steps, u)
BY DEF InOrder

(* When nothing is being saved, a task in order goes on in order.            *)
LEMMA ResumesInOrder ==
    ASSUME TurnInv, saving.at = "no", UNCHANGED <<saving, disk>>,
           NEW t \in Tasks, t.alive, Resumes(t), t.counter = Len(t.steps),
           InOrder(t.history, t.steps, t.status)
    PROVE  TurnInv'
<1>1. TurnTypes'
  BY DEF TurnInv, TurnTypes, Resumes
<1>2. Copies'
  BY DEF TurnInv, Copies, Resumes
<1>3. InOrder(task'.history, task'.steps, task'.status)
  BY OrderOfStatus DEF Resumes
<1>4. t.status = "running" => Closed(task'.history, Len(task'.steps))
  BY DEF Resumes, InOrder
<1>5. Conversation'
  <2>1. task'.counter = Len(task'.steps) /\ \A n \in 1..Len(task'.steps) : task'.steps[n] = n
    BY <1>3 DEF Resumes, InOrder
  <2>2. CASE loop'.pc = "free"
    BY <1>3, <2>1, <2>2 DEF Conversation
  <2>3. CASE t.status = "running" /\ loop'.pc = "gate"
    BY <1>4, <2>1, <2>3 DEF Conversation
  <2>4. CASE t.status = "running" /\ loop'.pc = "capture" /\ loop'.step = t.counter + 1
    BY <1>4, <2>1, <2>4 DEF Conversation, Resumes
  <2> QED BY <2>2, <2>3, <2>4 DEF Resumes
<1> QED BY <1>1, <1>2, <1>5 DEF TurnInv

-----------------------------------------------------------------------------
LEMMA TypesOf ==
    ASSUME TurnInv
    PROVE  /\ task \in Tasks /\ loop \in Loops /\ task.history \in Seq(Message)
           /\ task.steps \in Seq(Nat) /\ Len(task.steps) \in Nat
           /\ task.counter = Len(task.steps) /\ task.status \in Statuses
           /\ \A n \in 1..Len(task.steps) : task.steps[n] = n
BY TaskFields, LenProperties DEF TurnInv, TurnTypes, Conversation

(* While a step runs nothing is saved, and it is the next one.               *)
LEMMA Working ==
    ASSUME TurnInv, loop.pc \in {"capture", "elements", "think", "act"}
    PROVE  saving.at = "no" /\ loop.step = Len(task.steps) + 1 /\ task.alive
BY DEF TurnInv, Copies, Conversation

(* Only the history and the place in the step change.                        *)
LEMMA StepGoes ==
    ASSUME TurnInv, loop.pc \in {"capture", "elements", "think"},
           NEW pc \in {"elements", "think", "act"}, NEW h \in Seq(Message),
           task' = [task EXCEPT !.history = h], loop' = [loop EXCEPT !.pc = pc],
           UNCHANGED <<saving, disk>>,
           pc = "elements" => Closed(h, Len(task.steps)),
           pc = "think" => Begun(h, Len(task.steps)),
           pc = "act" => Replied(h, Len(task.steps))
    PROVE  TurnInv'
<1>1. /\ task' \in Tasks /\ task'.history = h /\ task'.steps = task.steps
      /\ task'.counter = task.counter /\ task'.alive = task.alive
  BY TypesOf DEF Tasks
<1>2. loop' \in Loops /\ loop'.pc = pc /\ loop'.step = loop.step
  BY TypesOf DEF Loops
<1>3. TurnTypes'
  BY <1>1, <1>2 DEF TurnInv, TurnTypes
<1>4. Conversation'
  BY <1>1, <1>2, TypesOf, Working DEF Conversation
<1>5. Copies'
  BY <1>1, Working DEF TurnInv, Copies
<1> QED BY <1>3, <1>4, <1>5 DEF TurnInv

LEMMA SameHistory ==
    ASSUME NEW t \in Tasks
    PROVE  t = [t EXCEPT !.history = t.history]
BY DEF Tasks

LEMMA ObservingTurns ==
    ASSUME TurnInv, Captured \/ Listed \/ CallsTool
    PROVE  TurnInv'
<1> DEFINE k == Len(task.steps)
<1>1. UNCHANGED <<saving, disk>>
  BY DEF Captured, Listed, CallsTool
<1>2. k \in Nat /\ k + 1 \in Nat
  BY TypesOf
<1>3. ASSUME loop.pc \in {"capture", "elements"}, task' = [task EXCEPT !.history = Pushed("screen")],
             loop' = [loop EXCEPT !.pc = "think"]
      PROVE  TurnInv'
  <2>1. Pushed("screen") = Append(task.history, Msg("screen", k + 1))
    BY <1>3, Working DEF Pushed
  <2>2. Closed(task.history, k)
    BY <1>3 DEF TurnInv, Conversation
  <2>3. Pushed("screen") \in Seq(Message) /\ Begun(Pushed("screen"), k)
    BY <1>2, <2>1, <2>2, Begins, TypesOf
  <2> QED BY <1>1, <1>3, <2>3, StepGoes
<1>4. CASE Captured /\ ~Native
  <2>1. task' = [task EXCEPT !.history = task.history]
    BY <1>4, TypesOf, SameHistory DEF Captured
  <2>2. loop.pc = "capture" /\ loop' = [loop EXCEPT !.pc = "elements"]
    BY <1>4 DEF Captured
  <2>3. Closed(task.history, k)
    BY <2>2 DEF TurnInv, Conversation
  <2> QED BY <1>1, <2>1, <2>2, <2>3, StepGoes, TypesOf
<1>5. CASE Captured /\ Native
  <2>1. /\ loop.pc = "capture" /\ loop' = [loop EXCEPT !.pc = "think"]
        /\ task' = [task EXCEPT !.history = Pushed("screen")]
    BY <1>5 DEF Captured
  <2> QED BY <1>3, <2>1
<1>6. CASE Listed
  <2>1. /\ loop.pc = "elements" /\ loop' = [loop EXCEPT !.pc = "think"]
        /\ task' = [task EXCEPT !.history = Pushed("screen")]
    BY <1>6 DEF Listed
  <2> QED BY <1>3, <2>1
<1>7. CASE CallsTool
  <2>1. /\ loop.pc = "think" /\ loop' = [loop EXCEPT !.pc = "act"]
        /\ task' = [task EXCEPT !.history = Pushed("reply")]
    BY <1>7 DEF CallsTool
  <2>2. Pushed("reply") = Append(task.history, Msg("reply", k + 1))
    BY <2>1, Working DEF Pushed
  <2>3. Begun(task.history, k)
    BY <2>1 DEF TurnInv, Conversation
  <2>4. Pushed("reply") \in Seq(Message) /\ Replied(Pushed("reply"), k)
    BY <1>2, <2>2, <2>3, Replies, TypesOf
  <2> QED BY <1>1, <2>1, <2>4, StepGoes
<1> QED BY <1>4, <1>5, <1>6, <1>7

LEMMA FailsTurns ==
    ASSUME TurnInv, ObserveFails \/ ThinkFails
    PROVE  TurnInv'
<1>1. UNCHANGED <<saving, disk>>
  BY DEF ObserveFails, ThinkFails
<1>2. CASE ObserveFails
  <2>1. loop.pc \in {"capture", "elements"} /\ loop' = Free /\ task' = task
    BY <1>2 DEF ObserveFails
  <2>2. Closed(task.history, Len(task.steps))
    BY <2>1 DEF TurnInv, Conversation
  <2>3. InOrder(task.history, task.steps, task.status)
    BY <2>2, TypesOf DEF InOrder
  <2>4. Resumes(task)
    BY <2>1, FreeLoop, TypesOf DEF Resumes
  <2> QED BY <1>1, <2>1, <2>3, <2>4, ResumesInOrder, Working, TypesOf
<1>3. CASE ThinkFails
  <2> DEFINE t == [task EXCEPT !.status = "error"]
  <2>1. loop.pc = "think" /\ AfterStep(t)
    BY <1>3 DEF ThinkFails
  <2>2. /\ t \in Tasks /\ t.history = task.history /\ t.steps = task.steps
        /\ t.counter = task.counter /\ t.status = "error" /\ t.alive = task.alive
    BY TypesOf DEF Tasks, Statuses
  <2> HIDE DEF t
  <2>3. Begun(task.history, Len(task.steps))
    BY <2>1 DEF TurnInv, Conversation
  <2>4. InOrder(t.history, t.steps, t.status)
    BY <2>2, <2>3, TypesOf DEF InOrder
  <2>5. Resumes(t)
    BY <2>1, <2>2, AfterResumes, TypesOf
  <2> QED BY <1>1, <2>1, <2>2, <2>4, <2>5, ResumesInOrder, Working, TypesOf
<1> QED BY <1>2, <1>3

(* A step whose turn is whole is entered in the list of steps.               *)
LEMMA StepCommitted ==
    ASSUME TurnInv, loop.pc \in {"think", "act"}, UNCHANGED <<saving, disk>>,
           NEW h \in Seq(Message), Closed(h, Len(task.steps) + 1),
           NEW finished \in BOOLEAN,
           AfterStep([Committed([task EXCEPT !.history = h])
                        EXCEPT !.status = IF finished THEN "done" ELSE @])
    PROVE  TurnInv'
<1> DEFINE k == Len(task.steps)
           t == [Committed([task EXCEPT !.history = h])
                   EXCEPT !.status = IF finished THEN "done" ELSE @]
<1>1. k \in Nat /\ loop.step = k + 1 /\ k + 1 \in Nat
  BY TypesOf, Working
<1>2. /\ Append(task.steps, loop.step) \in Seq(Nat)
      /\ Len(Append(task.steps, loop.step)) = k + 1
      /\ Append(task.steps, loop.step)[k + 1] = k + 1
      /\ \A n \in 1..k : Append(task.steps, loop.step)[n] = task.steps[n]
  BY <1>1, AppendFront, TypesOf
<1>3. \A n \in 1..k + 1 : n \in 1..k \/ n = k + 1
  BY <1>1
<1>4. \A n \in 1..k + 1 : Append(task.steps, loop.step)[n] = n
  BY <1>2, <1>3, TypesOf
<1>5. /\ t \in Tasks /\ t.history = h /\ t.steps = Append(task.steps, loop.step)
      /\ t.counter = k + 1 /\ t.alive = task.alive
  BY <1>1, <1>2, TypesOf DEF Tasks, Statuses, Committed
<1> HIDE DEF t
<1>6. InOrder(t.history, t.steps, t.status)
  BY <1>2, <1>4, <1>5 DEF InOrder
<1>7. AfterStep(t)
  BY DEF t
<1>8. Resumes(t)
  BY <1>5, <1>7, AfterResumes, TypesOf
<1>9. t.counter = Len(t.steps)
  BY <1>2, <1>5
<1> QED BY <1>5, <1>6, <1>8, <1>9, ResumesInOrder, Working

LEMMA AnsweredTurns ==
    ASSUME TurnInv, NEW finished \in BOOLEAN, Talks(finished) \/ Acted(finished)
    PROVE  TurnInv'
<1> DEFINE k == Len(task.steps)
<1>1. k \in Nat /\ k + 1 \in Nat /\ task.history \in Seq(Message)
  BY TypesOf
<1>2. CASE Talks(finished)
  <2> DEFINE g == Pushed("reply")
             h == Pushed("reply") \o <<Msg("results", loop.step)>>
  <2>1. /\ loop.pc = "think" /\ UNCHANGED <<saving, disk>>
        /\ AfterStep([Committed([task EXCEPT !.history = h])
                        EXCEPT !.status = IF finished THEN "done" ELSE @])
    BY <1>2 DEF Talks
  <2>2. loop.step = k + 1 /\ Begun(task.history, k)
    BY <2>1, Working DEF TurnInv, Conversation
  <2>3. g = Append(task.history, Msg("reply", k + 1))
    BY <2>2 DEF Pushed
  <2>4. g \in Seq(Message) /\ Replied(g, k)
    BY <1>1, <2>2, <2>3, Replies
  <2>5. Msg("results", k + 1) \in Message
    BY <1>1, Messages
  <2>6. h = Append(g, Msg("results", k + 1))
    <3>1. \A s \in Seq(Message), m \in Message : s \o <<m>> = Append(s, m)
      BY AppendIsConcat
    <3> QED BY <2>2, <2>4, <2>5, <3>1
  <2> HIDE DEF g
  <2>7. h \in Seq(Message) /\ Closed(h, k + 1)
    BY <1>1, <2>4, <2>6, Closes
  <2> HIDE DEF h
  <2> QED BY <2>1, <2>7, StepCommitted
<1>3. CASE Acted(finished)
  <2> DEFINE h == Pushed("results")
  <2>1. /\ loop.pc = "act" /\ UNCHANGED <<saving, disk>>
        /\ AfterStep([Committed([task EXCEPT !.history = h])
                        EXCEPT !.status = IF finished THEN "done" ELSE @])
    BY <1>3 DEF Acted
  <2>2. loop.step = k + 1 /\ Replied(task.history, k)
    BY <2>1, Working DEF TurnInv, Conversation
  <2>3. h = Append(task.history, Msg("results", k + 1))
    BY <2>2 DEF Pushed
  <2>4. h \in Seq(Message) /\ Closed(h, k + 1)
    BY <1>1, <2>2, <2>3, Closes
  <2> HIDE DEF h
  <2> QED BY <2>1, <2>4, StepCommitted
<1> QED BY <1>2, <1>3

-----------------------------------------------------------------------------
(* Before it may run again a task has no open turn.                          *)
LEMMA Startable ==
    ASSUME TurnInv, loop.pc = "free", task.status # "error"
    PROVE  Closed(task.history, Len(task.steps))
BY DEF TurnInv, Conversation, InOrder

LEMMA RunTurns ==
    ASSUME Patient, TurnInv, run
    PROVE  TurnInv'
<1> DEFINE t == [task EXCEPT !.status = "running", !.pause = FALSE, !.latched = FALSE]
<1>1. /\ loop.pc = "free" /\ saving.at = "no" /\ task.status # "error" /\ LoopHead(t) /\ task.alive
      /\ UNCHANGED <<saving, disk>>
  BY DEF run, Saved
<1>2. /\ t \in Tasks /\ t.history = task.history /\ t.steps = task.steps
      /\ t.counter = task.counter /\ t.alive = task.alive
  BY TypesOf DEF Tasks, Statuses
<1> HIDE DEF t
<1>3. InOrder(t.history, t.steps, t.status)
  BY <1>1, <1>2, Startable, TypesOf DEF InOrder
<1>4. Resumes(t) /\ t.counter = Len(t.steps)
  BY <1>1, <1>2, HeadResumes, TypesOf
<1> QED BY <1>1, <1>2, <1>3, <1>4, ResumesInOrder

LEMMA ExecTurns ==
    ASSUME Patient, TurnInv, exec
    PROVE  TurnInv'
<1> DEFINE k == Len(task.steps)
<1>1. /\ loop.pc = "free" /\ saving.at = "no" /\ task.status # "error" /\ task.alive
      /\ UNCHANGED <<saving, disk>>
      /\ loop' = [pc |-> "capture", step |-> task.counter + 1, how |-> "exec"]
  BY DEF exec, Saved
<1>2. Closed(task.history, k) /\ k \in Nat
  BY <1>1, Startable, TypesOf
<1>3. PICK h : /\ h \in Seq(Message) /\ Closed(h, k)
               /\ task' = [task EXCEPT !.history = h]
  <2>1. CASE task' = task
    BY <1>2, <2>1, SameHistory, TypesOf
  <2>2. CASE task' = [task EXCEPT !.history = Append(@, Msg("say", 0))]
    <3>1. /\ Append(task.history, Msg("say", 0)) \in Seq(Message)
          /\ Closed(Append(task.history, Msg("say", 0)), k)
      BY <1>2, SaysAfter, TypesOf
    <3> QED BY <2>2, <3>1
  <2> QED BY <2>1, <2>2 DEF exec
<1>4. /\ task' \in Tasks /\ task'.history = h /\ task'.steps = task.steps
      /\ task'.counter = task.counter /\ task'.alive = task.alive
  BY <1>3, TypesOf DEF Tasks
<1>5. loop' \in Loops /\ loop'.pc = "capture" /\ loop'.step = k + 1
  BY <1>1, <1>2, TypesOf DEF Loops
<1>6. TurnTypes'
  BY <1>1, <1>4, <1>5 DEF TurnInv, TurnTypes
<1>7. Conversation'
  BY <1>3, <1>4, <1>5, TypesOf DEF Conversation
<1>8. Copies'
  BY <1>1, <1>4 DEF TurnInv, Copies
<1> QED BY <1>6, <1>7, <1>8 DEF TurnInv

(* A flag of the task may change whatever it does.                           *)
LEMMA FlagTurns ==
    ASSUME TurnInv, UNCHANGED <<loop, saving, disk>>, task' \in Tasks,
           task'.history = task.history, task'.steps = task.steps,
           task'.counter = task.counter, task'.status = task.status, task'.alive = task.alive
    PROVE  TurnInv'
<1>1. TurnTypes'
  BY DEF TurnInv, TurnTypes
<1>2. Conversation'
  BY DEF TurnInv, Conversation
<1>3. Copies'
  BY DEF TurnInv, Copies
<1> QED BY <1>1, <1>2, <1>3 DEF TurnInv

(* A loop that ends at its gate leaves the conversation, also to who saves it. *)
LEMMA GateTurns ==
    ASSUME TurnInv, loop.pc = "gate", NEW t \in Tasks, t.history = task.history,
           t.steps = task.steps, t.counter = task.counter, t.alive = task.alive,
           Resumes(t), loop'.pc = "free",
           UNCHANGED <<saving, disk>>
    PROVE  TurnInv'
<1>1. TurnTypes'
  BY DEF TurnInv, TurnTypes, Resumes
<1>2. Closed(task.history, Len(task.steps))
  BY DEF TurnInv, Conversation
<1>3. Conversation'
  BY <1>2, TypesOf DEF Conversation, Resumes, InOrder
<1>4. Copies'
  BY DEF TurnInv, Copies, Resumes
<1> QED BY <1>1, <1>3, <1>4 DEF TurnInv

LEMMA PauseTurns ==
    ASSUME TurnInv, pause
    PROVE  TurnInv'
<1> DEFINE t == [task EXCEPT !.pause = TRUE]
<1>1. UNCHANGED <<saving, disk>>
  BY DEF pause
<1>2. /\ t \in Tasks /\ t.history = task.history /\ t.steps = task.steps
      /\ t.counter = task.counter /\ t.status = task.status /\ t.pause = TRUE
      /\ t.alive = task.alive
  BY TypesOf DEF Tasks
<1> HIDE DEF t
<1>3. CASE loop.pc = "gate"
  <2>1. LoopHead(t)
    BY <1>3 DEF pause, t
  <2>2. Resumes(t)
    BY <1>2, <2>1, HeadResumes
  <2>3. loop'.pc = "free"
    BY <1>2, <2>2 DEF Resumes
  <2> QED BY <1>1, <1>2, <1>3, <2>2, <2>3, GateTurns
<1>4. CASE loop.pc # "gate"
  <2>1. task' = t /\ loop' = loop
    BY <1>4 DEF pause, t
  <2> QED BY <1>1, <1>2, <2>1, FlagTurns
<1> QED BY <1>3, <1>4

LEMMA StepTurns ==
    ASSUME Patient, TurnInv, step
    PROVE  TurnInv'
<1>1. saving.at = "no" /\ task.alive /\ UNCHANGED <<saving, disk>>
  BY DEF step, Saved
<1>2. CASE loop.pc = "gate" /\ GoesOn(task)
  <2>1. /\ task' = task
        /\ loop' = [loop EXCEPT !.pc = "capture", !.step = task.counter + 1]
    BY <1>2 DEF step
  <2>2. task.counter + 1 \in Nat
    BY TypesOf
  <2>3. loop' \in Loops /\ loop'.pc = "capture" /\ loop'.step = task.counter + 1
    BY <2>1, <2>2, TypesOf DEF Loops
  <2>4. Resumes(task)
    BY <1>2, <2>1, <2>3, TypesOf DEF Resumes, GoesOn
  <2>5. InOrder(task.history, task.steps, task.status)
    BY <1>2, TypesOf DEF TurnInv, Conversation, InOrder
  <2> QED BY <1>1, <2>4, <2>5, ResumesInOrder, TypesOf
<1>3. CASE loop.pc = "gate" /\ ~GoesOn(task)
  <2>1. task' = Ended(task) /\ loop' = Free
    BY <1>3 DEF step
  <2>2. Resumes(task)
    BY <2>1, EndedKeeps, FreeLoop, TypesOf DEF Resumes
  <2> QED BY <1>1, <1>3, <2>1, <2>2, FreeLoop, GateTurns, TypesOf
<1>4. CASE loop.pc # "gate"
  <2>1. task' = [task EXCEPT !.latched = TRUE] /\ loop' = loop
    BY <1>4 DEF step
  <2>2. /\ task' \in Tasks /\ task'.history = task.history /\ task'.steps = task.steps
        /\ task'.counter = task.counter /\ task'.status = task.status /\ task'.alive = task.alive
    BY <2>1, TypesOf DEF Tasks
  <2> QED BY <1>1, <2>1, <2>2, FlagTurns
<1> QED BY <1>2, <1>3, <1>4

(* A turn that is open is one more than the steps.                           *)
LEMMA TurnsThrough ==
    ASSUME NEW h \in Seq(Message), NEW k \in Nat, Closed(h, k) \/ Begun(h, k) \/ Replied(h, k)
    PROVE  Through(Screens(h), h, k) /\ Len(Screens(h)) \in k..k + 1
<1>1. CASE Closed(h, k)
  BY <1>1 DEF Closed
<1>2. CASE Begun(h, k)
  <2>1. PICK n \in 0..Len(h) :
          Closed(SubSeq(h, 1, n), k) /\ h = Append(SubSeq(h, 1, n), Msg("screen", k + 1))
    BY <1>2 DEF Begun
  <2>2. SubSeq(h, 1, n) \in Seq(Message)
    BY Prefix
  <2>3. Through(Screens(h), h, k) /\ Len(Screens(h)) = k + 1
    BY <2>1, <2>2, Begins
  <2>4. k + 1 \in k..k + 1
    OBVIOUS
  <2> QED BY <2>3, <2>4
<1>3. CASE Replied(h, k)
  <2>1. PICK n \in 0..Len(h) :
          Begun(SubSeq(h, 1, n), k) /\ h = Append(SubSeq(h, 1, n), Msg("reply", k + 1))
    BY <1>3 DEF Replied
  <2>2. SubSeq(h, 1, n) \in Seq(Message)
    BY Prefix
  <2>3. Through(Screens(h), h, k) /\ Len(Screens(h)) = k + 1
    BY <2>1, <2>2, Replies
  <2>4. k + 1 \in k..k + 1
    OBVIOUS
  <2> QED BY <2>3, <2>4
<1> QED BY <1>1, <1>2, <1>3

LEMMA GotoTurns ==
    ASSUME Patient, TurnInv, goto
    PROVE  TurnInv'
<1> DEFINE k == Len(task.steps)
<1>1. /\ loop.pc \in {"free", "gate"} /\ saving.at = "no" /\ saving' = saving /\ disk' = disk
      /\ task.alive
      /\ loop' = loop
  BY DEF goto, Saved
<1>2. PICK n \in 0..k : task' = Rewound(n)
  BY DEF goto
<1>3. n \in Nat /\ k \in Nat
  BY TypesOf
<1>4. Through(Screens(task.history), task.history, k)
  <2>1. Closed(task.history, k) \/ Begun(task.history, k)
    BY <1>1 DEF TurnInv, Conversation, InOrder
  <2> QED BY <1>3, <2>1, TurnsThrough, TypesOf
<1>5. PICK h : h = (IF n = 0 THEN <<Goal>>
                    ELSE SubSeq(task.history, 1, turnBoundaries(task.history)[n]))
  OBVIOUS
<1>6. h \in Seq(Message) /\ Closed(h, n)
  <2>1. CASE n = 0
    BY <1>5, <2>1, NewIsClosed
  <2>2. CASE n # 0
    <3>1. n \in 1..k
      BY <1>3, <2>2
    <3> QED BY <1>3, <1>4, <1>5, <2>2, <3>1, Cuts, TypesOf
  <2> QED BY <2>1, <2>2
<1>7. /\ SubSeq(task.steps, 1, n) \in Seq(Nat) /\ Len(SubSeq(task.steps, 1, n)) = n
      /\ \A m \in 1..n : SubSeq(task.steps, 1, n)[m] = m
  BY Prefix, TypesOf
<1>8. /\ task' \in Tasks /\ task'.history = h /\ task'.steps = SubSeq(task.steps, 1, n)
      /\ task'.counter = n /\ task'.status = "idle" /\ task'.alive = task.alive
  <2>1. task' = [task EXCEPT !.history = h, !.steps = SubSeq(task.steps, 1, n), !.counter = n,
                             !.status = "idle", !.pause = FALSE]
    BY <1>2, <1>5 DEF Rewound
  <2> QED BY <1>3, <1>6, <1>7, <2>1, TypesOf DEF Tasks, Statuses
<1>9. TurnTypes'
  BY <1>1, <1>8 DEF TurnInv, TurnTypes
<1>10. Conversation'
  BY <1>1, <1>6, <1>7, <1>8 DEF Conversation, InOrder
<1>11. Copies'
  BY <1>1, <1>8 DEF TurnInv, Copies
<1> QED BY <1>9, <1>10, <1>11 DEF TurnInv

-----------------------------------------------------------------------------
LEMMA NewTaskTurns ==
    /\ NewTask \in Tasks /\ NewTask.history = <<Goal>> /\ NewTask.steps = <<>>
    /\ NewTask.counter = 0 /\ Len(NewTask.steps) = 0 /\ NewTask.alive
    /\ InOrder(NewTask.history, NewTask.steps, NewTask.status)
<1>1. <<>> \in Seq(Nat) /\ Len(<<>>) = 0
  BY EmptySeq
<1>2. NewTask \in Tasks /\ NewTask.history = <<Goal>> /\ NewTask.steps = <<>> /\ NewTask.counter = 0 /\ NewTask.alive
  BY <1>1, NewIsClosed DEF NewTask, Tasks, Statuses
<1>3. \A n \in 1..0 : FALSE
  OBVIOUS
<1> QED BY <1>1, <1>2, <1>3, NewIsClosed DEF InOrder

LEMMA NothingCopied ==
    /\ NotSaving \in Saves /\ NotSaving.at = "no" /\ NotSaving.old = FALSE
    /\ NoFile \in Files /\ NoFile.is = "none"
    /\ [NoFile EXCEPT !.is = "torn"] \in Files /\ [NoFile EXCEPT !.is = "torn"].is = "torn"
<1>1. <<>> \in Seq(Nat) /\ <<>> \in Seq(Message)
  BY EmptySeq
<1> QED BY <1>1 DEF NotSaving, NoFile, Saves, Files, Statuses

(* A task whose loop rests.                                                  *)
LEMMA RestingInOrder ==
    ASSUME task \in Tasks, loop = Free, task.counter = Len(task.steps),
           InOrder(task.history, task.steps, task.status)
    PROVE  Conversation
BY FreeLoop DEF Conversation, InOrder

LEMMA InitTurns == TaskInit => TurnInv
<1> SUFFICES ASSUME TaskInit PROVE TurnInv
  OBVIOUS
<1>1. task = NewTask /\ loop = Free /\ saving = NotSaving /\ disk = NoFile
  BY DEF TaskInit
<1>2. TurnTypes
  BY <1>1, NewTaskTurns, NothingCopied, FreeLoop DEF TurnTypes
<1>3. Conversation
  BY <1>1, NewTaskTurns, RestingInOrder
<1>4. Copies
  BY <1>1, NothingCopied, FreeLoop DEF Copies
<1> QED BY <1>2, <1>3, <1>4 DEF TurnInv

LEMMA SaveTurns ==
    ASSUME Patient, TurnInv, SaveBegins \/ SaveSerialises \/ SaveEnds
    PROVE  TurnInv'
<1>1. task' = task /\ loop' = loop
  BY DEF SaveBegins, SaveSerialises, SaveEnds
<1>2. Conversation'
  BY <1>1 DEF TurnInv, Conversation
<1>3. saving \in Saves /\ disk \in Files
  BY DEF TurnInv, TurnTypes
<1>4. CASE SaveBegins
  <2>1. /\ saving' = [NotSaving EXCEPT !.at = "mkdir", !.status = task.status] /\ task.alive
        /\ loop.pc \in {"free", "gate"} /\ disk' = disk
    BY <1>4 DEF SaveBegins
  <2>2. saving' \in Saves /\ saving'.at = "mkdir" /\ saving'.old = FALSE /\ saving'.status = task.status
    BY <2>1, NothingCopied, TypesOf DEF Saves, NotSaving
  <2>3. InOrder(task.history, task.steps, task.status)
    BY <2>1, TypesOf DEF TurnInv, Conversation, InOrder
  <2>4. TurnTypes'
    BY <1>1, <2>1, <2>2 DEF TurnInv, TurnTypes
  <2>5. Copies'
    BY <1>1, <2>1, <2>2, <2>3 DEF TurnInv, Copies
  <2> QED BY <1>2, <2>4, <2>5 DEF TurnInv
<1>5. CASE SaveSerialises
  <2>1. saving.at = "mkdir" /\ ~saving.old /\ disk' = disk /\ loop.pc \in {"free", "gate"}
    BY <1>5 DEF SaveSerialises, TurnInv, Copies
  <2>2. saving' = [saving EXCEPT !.at = "write", !.old = TRUE,
                                 !.history = task.history, !.steps = task.steps]
    BY <1>5, <2>1 DEF SaveSerialises
  <2>3. /\ saving' \in Saves /\ saving'.at = "write" /\ saving'.status = saving.status
        /\ saving'.history = task.history /\ saving'.steps = task.steps
    BY <1>3, <2>2, TypesOf DEF Saves
  <2>4. TurnTypes'
    BY <1>1, <2>1, <2>3 DEF TurnInv, TurnTypes
  <2>5. Copies'
    BY <1>1, <2>1, <2>3 DEF TurnInv, Copies
  <2> QED BY <1>2, <2>4, <2>5 DEF TurnInv
<1>6. CASE SaveEnds
  <2>1. /\ saving.at = "write" /\ saving' = NotSaving
        /\ disk' = [is |-> "file", status |-> saving.status,
                    history |-> saving.history, steps |-> saving.steps]
    BY <1>6 DEF SaveEnds
  <2>2. /\ disk' \in Files /\ disk'.status = saving.status /\ disk'.history = saving.history
        /\ disk'.steps = saving.steps
    BY <1>3, <2>1 DEF Saves, Files
  <2>3. TurnTypes'
    BY <1>1, <2>1, <2>2, NothingCopied DEF TurnInv, TurnTypes
  <2>4. Copies'
    BY <1>1, <2>1, <2>2, NothingCopied DEF TurnInv, Copies
  <2> QED BY <1>2, <2>3, <2>4 DEF TurnInv
<1> QED BY <1>4, <1>5, <1>6

LEMMA DiesTurns ==
    ASSUME TurnInv, TaskDies
    PROVE  TurnInv'
<1> DEFINE t == [NewTask EXCEPT !.alive = FALSE]
<1>1. /\ task' = t /\ loop' = Free /\ saving' = NotSaving
      /\ disk' = disk \/ disk' = [NoFile EXCEPT !.is = "torn"]
  BY DEF TaskDies
<1>2. /\ t \in Tasks /\ t.counter = 0 /\ t.history = NewTask.history /\ t.steps = NewTask.steps
      /\ t.status = NewTask.status
  BY NewTaskTurns DEF Tasks
<1> HIDE DEF t
<1>3. InOrder(t.history, t.steps, t.status) /\ t.counter = Len(t.steps)
  BY <1>2, NewTaskTurns
<1>4. disk' \in Files /\ (disk'.is = "file" => disk' = disk)
  BY <1>1, NothingCopied DEF TurnInv, TurnTypes
<1>5. TurnTypes'
  BY <1>1, <1>2, <1>4, NothingCopied, FreeLoop DEF TurnTypes
<1>6. Conversation'
  BY <1>1, <1>2, <1>3, FreeLoop DEF Conversation, InOrder
<1>7. Copies'
  BY <1>1, <1>4, NothingCopied, FreeLoop DEF TurnInv, Copies
<1> QED BY <1>5, <1>6, <1>7 DEF TurnInv

(* A new process begins with a conversation in order.                        *)
LEMMA BirthTurns ==
    ASSUME TurnInv, createTask \/ fromSnapshot
    PROVE  TurnInv'
<1>1. ~task.alive /\ UNCHANGED <<loop, saving, disk>>
  BY DEF createTask, fromSnapshot
<1>2. loop.pc = "free" /\ saving.at = "no" /\ loop \in Loops
  BY <1>1 DEF TurnInv, Copies, TurnTypes
<1>3. ASSUME NEW t \in Tasks, task' = t, t.alive, t.counter = Len(t.steps),
             InOrder(t.history, t.steps, t.status)
      PROVE  TurnInv'
  <2>1. Resumes(t)
    BY <1>1, <1>2, <1>3 DEF Resumes
  <2> QED BY <1>1, <1>2, <1>3, <2>1, ResumesInOrder
<1>4. CASE createTask
  <2>1. task' = NewTask
    BY <1>4 DEF createTask
  <2> QED BY <1>3, <2>1, NewTaskTurns
<1>5. CASE fromSnapshot
  <2>1. PICK v : v = (IF disk.status = "running" THEN "idle" ELSE disk.status)
    OBVIOUS
  <2> DEFINE t == [NewTask EXCEPT !.history = disk.history, !.steps = disk.steps,
                                  !.status = v, !.counter = Len(disk.steps)]
  <2>2. task' = t /\ disk.is = "file"
    BY <1>5, <2>1 DEF fromSnapshot
  <2>3. /\ disk.history \in Seq(Message) /\ disk.steps \in Seq(Nat) /\ disk.status \in Statuses
    BY DEF TurnInv, TurnTypes, Files
  <2>4. Len(disk.steps) \in Nat
    BY <2>3, LenProperties
  <2>5. v \in Statuses /\ (disk.status = "error" => v = "error")
    BY <2>1, <2>3 DEF Statuses
  <2>6. /\ t \in Tasks /\ t.history = disk.history /\ t.steps = disk.steps
        /\ t.status = v /\ t.counter = Len(disk.steps) /\ t.alive
    BY <2>3, <2>4, <2>5, NewTaskTurns DEF Tasks
  <2> HIDE DEF t
  <2>7. InOrder(disk.history, disk.steps, v)
    BY <2>2, <2>5, OrderOfStatus DEF TurnInv, Copies
  <2> QED BY <1>3, <2>2, <2>6, <2>7
<1> QED BY <1>4, <1>5

LEMMA NextTurns == ASSUME Patient, TurnInv, [TaskNext]_taskVars PROVE TurnInv'
<1>1. CASE UNCHANGED taskVars
  BY <1>1 DEF taskVars, TurnInv, TurnTypes, Conversation, Copies
<1>2. CASE Think
  BY <1>2, FailsTurns, ObservingTurns, AnsweredTurns DEF Think
<1>3. CASE Platform
  BY <1>3, FailsTurns, ObservingTurns, AnsweredTurns DEF Platform
<1>4. CASE Caller
  BY <1>4, RunTurns, ExecTurns, PauseTurns, StepTurns, GotoTurns DEF Caller
<1>5. CASE Disk
  BY <1>5, SaveTurns, DiesTurns, BirthTurns DEF Disk
<1> QED BY <1>1, <1>2, <1>3, <1>4, <1>5 DEF TaskNext

LEMMA TurnsAreSteps == TurnInv => TurnsMatchSteps
<1> SUFFICES ASSUME TurnInv PROVE TurnsMatchSteps
  OBVIOUS
<1> DEFINE h == task.history
           k == Len(task.steps)
<1>1. k \in Nat /\ h \in Seq(Message) /\ DOMAIN task.steps = 1..k
  BY TypesOf, LenProperties
<1>2. Closed(h, k) \/ Begun(h, k) \/ Replied(h, k)
  <2>1. loop.pc \in {"free", "capture", "elements", "think", "act", "gate"}
    BY TypesOf DEF Loops
  <2> QED BY <2>1 DEF TurnInv, Conversation, InOrder
<1>3. Through(Screens(h), h, k) /\ Len(Screens(h)) \in k..k + 1
  BY <1>1, <1>2, TurnsThrough
<1>4. ASSUME NEW n \in 1..k, NEW turn, turn = TurnGroup(h, n)
      PROVE  /\ SubSeq(turn, 1, 3) = <<Msg("screen", n), Msg("reply", n), Msg("results", n)>>
             /\ \A i \in 4..Len(turn) : turn[i].kind = "say"
  BY <1>1, <1>3, <1>4, TurnsAre
<1> HIDE DEF h
<1>5. \A n \in 1..k : LET turn == TurnGroup(h, n)
                      IN  /\ SubSeq(turn, 1, 3) = <<Msg("screen", n), Msg("reply", n), Msg("results", n)>>
                          /\ \A i \in 4..Len(turn) : turn[i].kind = "say"
  BY <1>4
<1> QED BY <1>1, <1>3, <1>5, TypesOf DEF TurnsMatchSteps, h

(* For a caller that saves between steps and awaits it, the conversation is  *)
(* cut where a step ended: after errors, rewinds, what the caller said,      *)
(* crashes and loading, for every number of steps and length of history.     *)
THEOREM TurnsAreCut == Patient => (TaskSpec => []TurnsMatchSteps)
<1> SUFFICES ASSUME Patient PROVE TaskSpec => []TurnsMatchSteps
  OBVIOUS
<1> QED BY InitTurns, NextTurns, TurnsAreSteps, PTL DEF TaskSpec

(* The same of the task with its tools on the local input device.           *)
THEOREM LocalTurns == Patient => (Spec => []TurnsMatchSteps)
BY TurnsAreCut, LocalTaskIsATask, PTL

-----------------------------------------------------------------------------
(* A conversation begins with its goal, and until the first screen there is  *)
(* nothing else but what the caller says.                                    *)
Opens(h) ==
    /\ 1 \in 1..Len(h) /\ h[1] = Goal
    /\ \A i \in 2..Len(h) : (\A j \in 1..i : h[j].kind # "screen") => h[i].kind = "say"

OpenInv ==
    /\ Opens(task.history)
    /\ saving.old => Opens(saving.history)
    /\ saving.at = "write" => saving.old
    /\ disk.is = "file" => Opens(disk.history)

SeenInv == TurnInv /\ OpenInv

LEMMA NewOpens == Opens(<<Goal>>)
<1> DEFINE h == <<Goal>>
<1>1. h \in Seq(Message) /\ Len(h) = 1 /\ h[1] = Goal
  BY Messages
<1> HIDE DEF h
<1>2. Opens(h)
  BY <1>1 DEF Opens
<1> QED BY <1>2 DEF h

(* A prefix of it begins like it.                                            *)
LEMMA CutOpens ==
    ASSUME NEW h \in Seq(Message), Opens(h), NEW n \in 1..Len(h)
    PROVE  Opens(SubSeq(h, 1, n))
<1> DEFINE g == SubSeq(h, 1, n)
<1>1. n \in 0..Len(h) /\ Len(h) \in Nat
  BY LenProperties
<1>2. Len(g) = n /\ n \in Nat /\ \A i \in 1..n : g[i] = h[i] /\ i \in 1..Len(h)
  BY <1>1, Prefix
<1> HIDE DEF g
<1>3. 1 \in 1..n
  BY <1>2
<1>4. ASSUME NEW i \in 2..n, \A j \in 1..i : g[j].kind # "screen" PROVE g[i].kind = "say"
  <2>1. i \in 2..Len(h) /\ i \in 1..n /\ \A j \in 1..i : j \in 1..n
    BY <1>1, <1>2
  <2>2. \A j \in 1..i : h[j].kind # "screen"
    BY <1>2, <1>4, <2>1
  <2> QED BY <1>2, <2>1, <2>2 DEF Opens
<1>5. Opens(g)
  BY <1>2, <1>3, <1>4 DEF Opens
<1> QED BY <1>5 DEF g

(* So does what it grows to, if it is answered only when it has a screen.    *)
LEMMA GrowsOpen ==
    ASSUME NEW h \in Seq(Message), Opens(h), NEW x \in Message,
           x.kind \in {"say", "screen"} \/ \E j \in 1..Len(h) : h[j].kind = "screen"
    PROVE  Opens(Append(h, x))
<1> DEFINE g == Append(h, x)
<1>1. /\ Len(g) = Len(h) + 1 /\ Len(h) \in Nat /\ g[Len(h) + 1] = x
      /\ \A i \in 1..Len(h) : g[i] = h[i]
  BY AppendFront
<1> HIDE DEF g
<1>2. 1 \in 1..Len(h) /\ 1 \in 1..Len(g)
  BY <1>1 DEF Opens
<1>3. ASSUME NEW i \in 2..Len(g), \A j \in 1..i : g[j].kind # "screen" PROVE g[i].kind = "say"
  <2>1. CASE i \in 2..Len(h)
    <3>1. i \in 1..Len(h) /\ \A j \in 1..i : j \in 1..Len(h)
      BY <1>1, <2>1
    <3> QED BY <1>1, <1>3, <2>1, <3>1 DEF Opens
  <2>2. CASE i = Len(h) + 1
    <3>1. i \in 1..i /\ \A j \in 1..Len(h) : j \in 1..i
      BY <1>1, <2>2
    <3> QED BY <1>1, <1>3, <2>2, <3>1
  <2> QED BY <1>1, <2>1, <2>2
<1>4. Opens(g)
  BY <1>1, <1>2, <1>3 DEF Opens
<1> QED BY <1>4 DEF g

(* A model that was asked was shown a screen.                                *)
LEMMA ShownBefore ==
    ASSUME NEW h \in Seq(Message), NEW k \in Nat, Begun(h, k) \/ Replied(h, k)
    PROVE  \E j \in 1..Len(h) : h[j].kind = "screen"
<1>1. ASSUME NEW g \in Seq(Message), Begun(g, k) PROVE \E j \in 1..Len(g) : g[j].kind = "screen"
  <2>1. PICK n \in 0..Len(g) :
          Closed(SubSeq(g, 1, n), k) /\ g = Append(SubSeq(g, 1, n), Msg("screen", k + 1))
    BY <1>1 DEF Begun
  <2>2. SubSeq(g, 1, n) \in Seq(Message)
    BY Prefix
  <2>3. Msg("screen", k + 1) \in Message /\ Msg("screen", k + 1).kind = "screen"
    BY Messages
  <2> DEFINE f == SubSeq(g, 1, n)
  <2>4. f \in Seq(Message) /\ g = Append(f, Msg("screen", k + 1))
    BY <2>1, <2>2
  <2> HIDE DEF f
  <2>5. Len(g) = Len(f) + 1 /\ Len(f) \in Nat /\ g[Len(f) + 1] = Msg("screen", k + 1)
    BY <2>3, <2>4, AppendFront
  <2>6. Len(f) + 1 \in 1..Len(g)
    BY <2>5
  <2> QED BY <2>3, <2>5, <2>6
<1>2. CASE Replied(h, k)
  <2>1. PICK n \in 0..Len(h) :
          Begun(SubSeq(h, 1, n), k) /\ h = Append(SubSeq(h, 1, n), Msg("reply", k + 1))
    BY <1>2 DEF Replied
  <2>2. /\ SubSeq(h, 1, n) \in Seq(Message) /\ Len(SubSeq(h, 1, n)) = n
        /\ \A i \in 1..n : SubSeq(h, 1, n)[i] = h[i] /\ i \in 1..Len(h)
    BY Prefix
  <2> QED BY <1>1, <2>1, <2>2
<1> QED BY <1>1, <1>2

-----------------------------------------------------------------------------
(* A step that leaves what is saved only has to leave the goal in front.     *)
LEMMA OpenTask ==
    ASSUME OpenInv, UNCHANGED <<saving, disk>>, Opens(task'.history)
    PROVE  OpenInv'
BY DEF OpenInv

LEMMA CommittedHistory ==
    ASSUME TurnInv, NEW h \in Seq(Message), NEW finished \in BOOLEAN,
           AfterStep([Committed([task EXCEPT !.history = h])
                        EXCEPT !.status = IF finished THEN "done" ELSE @])
    PROVE  task'.history = h
<1> DEFINE t == [Committed([task EXCEPT !.history = h])
                   EXCEPT !.status = IF finished THEN "done" ELSE @]
<1>1. loop.step \in Nat
  BY TypesOf DEF Loops
<1>2. Append(task.steps, loop.step) \in Seq(Nat)
  BY <1>1, AppendFront, TypesOf
<1>3. t \in Tasks /\ t.history = h
  BY <1>1, <1>2, TypesOf DEF Tasks, Statuses, Committed
<1> HIDE DEF t
<1>4. AfterStep(t)
  BY DEF t
<1> QED BY <1>3, <1>4, AfterResumes, TypesOf DEF Resumes

LEMMA StepsOpen ==
    ASSUME SeenInv, Think \/ Platform
    PROVE  OpenInv'
<1> DEFINE k == Len(task.steps)
<1>1. /\ task \in Tasks /\ task.history \in Seq(Message) /\ Opens(task.history) /\ k \in Nat
      /\ TurnInv /\ OpenInv
  BY TypesOf DEF SeenInv, OpenInv
<1>2. loop \in Loops /\ loop.step \in Nat
  BY <1>1, TypesOf DEF Loops
<1>3. /\ Msg("screen", loop.step) \in Message /\ Msg("screen", loop.step).kind = "screen"
      /\ Msg("reply", loop.step) \in Message /\ Msg("results", loop.step) \in Message
  BY <1>2, Messages
<1>4. UNCHANGED <<saving, disk>>
  BY DEF Think, Platform, ThinkFails, CallsTool, Talks, Captured, Listed, ObserveFails, Acted
<1>5. loop.pc \in {"think", "act"} => \E j \in 1..Len(task.history) : task.history[j].kind = "screen"
  BY <1>1, ShownBefore DEF TurnInv, Conversation
<1>6. CASE ObserveFails
  BY <1>1, <1>4, <1>6, OpenTask DEF ObserveFails
<1>7. CASE ThinkFails
  <2> DEFINE t == [task EXCEPT !.status = "error"]
  <2>1. t \in Tasks /\ t.history = task.history
    BY <1>1, TypesOf DEF Tasks, Statuses
  <2> HIDE DEF t
  <2>2. AfterStep(t)
    BY <1>7 DEF ThinkFails, t
  <2>3. task'.history = task.history
    BY <1>2, <2>1, <2>2, AfterResumes DEF Resumes
  <2> QED BY <1>1, <1>4, <2>3, OpenTask
<1>8. CASE Captured \/ Listed
  <2>1. task' = task \/ task' = [task EXCEPT !.history = Append(task.history, Msg("screen", loop.step))]
    BY <1>8 DEF Captured, Listed, Pushed
  <2>2. task'.history = task.history \/ task'.history = Append(task.history, Msg("screen", loop.step))
    BY <1>1, <2>1 DEF Tasks
  <2>3. Opens(task'.history)
    BY <1>1, <1>3, <2>2, GrowsOpen
  <2> QED BY <1>1, <1>4, <2>3, OpenTask
<1>9. CASE CallsTool
  <2>1. /\ task' = [task EXCEPT !.history = Append(task.history, Msg("reply", loop.step))]
        /\ loop.pc = "think"
    BY <1>9 DEF CallsTool, Pushed
  <2>2. task'.history = Append(task.history, Msg("reply", loop.step))
    BY <1>1, <2>1 DEF Tasks
  <2>3. Opens(task'.history)
    BY <1>1, <1>3, <1>5, <2>1, <2>2, GrowsOpen
  <2> QED BY <1>1, <1>4, <2>3, OpenTask
<1>10. ASSUME NEW finished \in BOOLEAN, Talks(finished) PROVE OpenInv'
  <2> DEFINE g == Append(task.history, Msg("reply", loop.step))
             h == Append(g, Msg("results", loop.step))
  <2>1. /\ loop.pc = "think"
        /\ AfterStep([Committed([task EXCEPT !.history = Pushed("reply") \o <<Msg("results", loop.step)>>])
                        EXCEPT !.status = IF finished THEN "done" ELSE @])
    BY <1>10 DEF Talks
  <2>2. /\ g \in Seq(Message) /\ Len(g) = Len(task.history) + 1 /\ Len(task.history) \in Nat
        /\ \A i \in 1..Len(task.history) : g[i] = task.history[i]
    BY <1>1, <1>3, AppendFront
  <2>3. h \in Seq(Message)
    BY <1>3, <2>2, AppendFront
  <2>4. Opens(g) /\ \E j \in 1..Len(g) : g[j].kind = "screen"
    BY <1>1, <1>3, <1>5, <2>1, <2>2, GrowsOpen
  <2>5. Opens(h)
    BY <1>3, <2>2, <2>4, GrowsOpen
  <2>6. Pushed("reply") \o <<Msg("results", loop.step)>> = h
    <3>1. \A s \in Seq(Message), m \in Message : s \o <<m>> = Append(s, m)
      BY AppendIsConcat
    <3> QED BY <1>3, <2>2, <3>1 DEF Pushed
  <2> HIDE DEF h
  <2>7. task'.history = h
    BY <1>1, <2>1, <2>3, <2>6, CommittedHistory
  <2> QED BY <1>1, <1>4, <2>5, <2>7, OpenTask
<1>11. ASSUME NEW finished \in BOOLEAN, Acted(finished) PROVE OpenInv'
  <2> DEFINE h == Append(task.history, Msg("results", loop.step))
  <2>1. /\ loop.pc = "act"
        /\ AfterStep([Committed([task EXCEPT !.history = h])
                        EXCEPT !.status = IF finished THEN "done" ELSE @])
    BY <1>11 DEF Acted, Pushed
  <2>2. h \in Seq(Message)
    BY <1>1, <1>3, AppendFront
  <2>3. Opens(h)
    BY <1>1, <1>3, <1>5, <2>1, GrowsOpen
  <2> HIDE DEF h
  <2>4. task'.history = h
    BY <1>1, <2>1, <2>2, CommittedHistory
  <2> QED BY <1>1, <1>4, <2>3, <2>4, OpenTask
<1> QED BY <1>6, <1>7, <1>8, <1>9, <1>10, <1>11 DEF Think, Platform

LEMMA CallerOpens ==
    ASSUME Patient, SeenInv, Caller
    PROVE  OpenInv'
<1>1. /\ task \in Tasks /\ task.history \in Seq(Message) /\ Opens(task.history)
      /\ TurnInv /\ OpenInv
  BY TypesOf DEF SeenInv, OpenInv
<1>2. ASSUME NEW t \in Tasks, t.history = task.history, LoopHead(t), UNCHANGED <<saving, disk>>
      PROVE  OpenInv'
  <2>1. task'.history = task.history
    BY <1>2, HeadResumes DEF Resumes
  <2> QED BY <1>1, <1>2, <2>1, OpenTask
<1>3. CASE run
  <2> DEFINE t == [task EXCEPT !.status = "running", !.pause = FALSE, !.latched = FALSE]
  <2>1. t \in Tasks /\ t.history = task.history
    BY <1>1 DEF Tasks, Statuses
  <2> HIDE DEF t
  <2>2. LoopHead(t) /\ UNCHANGED <<saving, disk>>
    BY <1>3 DEF run, t
  <2> QED BY <1>2, <2>1, <2>2
<1>4. CASE exec
  <2>1. /\ UNCHANGED <<saving, disk>>
        /\ task' = task \/ task' = [task EXCEPT !.history = Append(task.history, Msg("say", 0))]
    BY <1>4 DEF exec
  <2>2. task'.history = task.history \/ task'.history = Append(task.history, Msg("say", 0))
    BY <1>1, <2>1 DEF Tasks
  <2>3. Msg("say", 0) \in Message /\ Msg("say", 0).kind = "say"
    BY Messages
  <2>4. Opens(task'.history)
    BY <1>1, <2>2, <2>3, GrowsOpen
  <2> QED BY <1>1, <2>1, <2>4, OpenTask
<1>5. CASE pause
  <2> DEFINE t == [task EXCEPT !.pause = TRUE]
  <2>1. t \in Tasks /\ t.history = task.history
    BY <1>1 DEF Tasks
  <2> HIDE DEF t
  <2>2. UNCHANGED <<saving, disk>> /\ (LoopHead(t) \/ task' = t)
    BY <1>5 DEF pause, t
  <2> QED BY <1>1, <1>2, <2>1, <2>2, OpenTask
<1>6. CASE step
  <2>1. /\ UNCHANGED <<saving, disk>>
        /\ \/ task' = task \/ task' = Ended(task) \/ task' = [task EXCEPT !.latched = TRUE]
    BY <1>6 DEF step
  <2>2. task'.history = task.history
    BY <1>1, <2>1, EndedKeeps DEF Tasks
  <2> QED BY <1>1, <2>1, <2>2, OpenTask
<1>7. CASE goto
  <2>1. saving' = saving /\ disk' = disk
    BY <1>7 DEF goto, Saved
  <2>2. PICK n \in 0..Len(task.steps) : task' = Rewound(n)
    BY <1>7 DEF goto
  <2> DEFINE h == task.history
             cut == IF n = 0 THEN <<Goal>> ELSE SubSeq(h, 1, turnBoundaries(h)[n])
  <2>3. Opens(cut)
    <3>1. CASE n = 0
      BY <3>1, NewOpens
    <3>2. CASE n # 0
      <4>1. Len(task.steps) \in Nat /\ loop.pc \in {"free", "gate"}
        BY <1>1, <1>7, TypesOf DEF goto
      <4>2. Closed(h, Len(task.steps)) \/ Begun(h, Len(task.steps))
        BY <1>1, <4>1 DEF TurnInv, Conversation, InOrder
      <4>3. Through(Screens(h), h, Len(task.steps))
        BY <1>1, <4>1, <4>2, TurnsThrough
      <4> DEFINE e == Screens(h)
      <4> HIDE DEF e
      <4>4. Enumerates(e, h) /\ n \in 1..Len(e)
        BY <3>2, <4>1, <4>3, LenProperties DEF Through, Enumerates, e
      <4>5. /\ DOMAIN e = 1..Len(e) /\ e[n] \in 1..Len(h) /\ TurnEnd(e, h, n) \in e[n]..Len(h)
            /\ Len(h) \in Nat
        BY <1>1, <4>4, TurnPlaces
      <4>6. turnBoundaries(h)[n] = TurnEnd(e, h, n)
        BY <4>4, <4>5 DEF turnBoundaries, TurnEnd, e
      <4>7. turnBoundaries(h)[n] \in 1..Len(h)
        BY <4>5, <4>6
      <4> QED BY <1>1, <3>2, <4>7, CutOpens
    <3> QED BY <3>1, <3>2
  <2> HIDE DEF cut, h
  <2>4. task' = [task EXCEPT !.history = cut, !.steps = SubSeq(@, 1, n), !.counter = n,
                             !.status = "idle", !.pause = FALSE]
    BY <2>2 DEF Rewound, cut, h
  <2>5. task'.history = cut
    BY <1>1, <2>4 DEF Tasks
  <2> QED BY <1>1, <2>1, <2>3, <2>5, OpenTask
<1> QED BY <1>3, <1>4, <1>5, <1>6, <1>7 DEF Caller

LEMMA DiskOpens ==
    ASSUME SeenInv, Disk
    PROVE  OpenInv'
<1>1. /\ task \in Tasks /\ Opens(task.history) /\ saving \in Saves /\ disk \in Files /\ OpenInv
  BY TypesOf DEF SeenInv, OpenInv, TurnInv, TurnTypes
<1>2. Opens(NewTask.history)
  BY NewOpens, NewTaskTurns
<1>3. CASE SaveBegins
  <2>1. /\ saving' = [NotSaving EXCEPT !.at = "mkdir", !.status = task.status]
        /\ task' = task /\ disk' = disk
    BY <1>3 DEF SaveBegins
  <2>2. saving'.old = FALSE /\ saving'.at = "mkdir"
    BY <2>1 DEF NotSaving
  <2> QED BY <1>1, <2>1, <2>2 DEF OpenInv
<1>4. CASE SaveSerialises
  <2>1. task' = task /\ disk' = disk
    BY <1>4 DEF SaveSerialises
  <2>2. /\ saving'.old
        /\ \/ saving.old /\ saving'.history = saving.history
           \/ saving'.history = task.history
    BY <1>1, <1>4 DEF SaveSerialises, Saves
  <2> QED BY <1>1, <2>1, <2>2 DEF OpenInv
<1>5. CASE SaveEnds
  <2>1. saving.at = "write" /\ saving' = NotSaving /\ disk'.history = saving.history /\ task' = task
    BY <1>5 DEF SaveEnds
  <2> QED BY <1>1, <2>1, NothingCopied DEF OpenInv
<1>6. CASE TaskDies
  <2>1. /\ task' = [NewTask EXCEPT !.alive = FALSE] /\ saving' = NotSaving
        /\ disk' = disk \/ disk' = [NoFile EXCEPT !.is = "torn"]
    BY <1>6 DEF TaskDies
  <2>2. task'.history = NewTask.history
    BY <2>1 DEF NewTask
  <2>3. disk'.is = "file" => disk' = disk
    BY <2>1, NothingCopied
  <2> QED BY <1>1, <1>2, <2>1, <2>2, <2>3, NothingCopied DEF OpenInv
<1>7. CASE createTask \/ fromSnapshot
  <2>1. /\ saving' = saving /\ disk' = disk
        /\ \/ task'.history = NewTask.history
           \/ disk.is = "file" /\ task'.history = disk.history
    BY <1>7 DEF createTask, fromSnapshot, NewTask
  <2> QED BY <1>1, <1>2, <2>1, OpenTask DEF OpenInv
<1> QED BY <1>3, <1>4, <1>5, <1>6, <1>7 DEF Disk

LEMMA InitSeen == TaskInit => SeenInv
<1> SUFFICES ASSUME TaskInit PROVE SeenInv
  OBVIOUS
<1>1. task = NewTask /\ saving = NotSaving /\ disk = NoFile
  BY DEF TaskInit
<1> QED BY <1>1, InitTurns, NewOpens, NewTaskTurns, NothingCopied DEF SeenInv, OpenInv

LEMMA NextSeen == ASSUME Patient, SeenInv, [TaskNext]_taskVars PROVE SeenInv'
<1>1. TurnInv'
  BY NextTurns DEF SeenInv
<1>2. CASE UNCHANGED taskVars
  BY <1>1, <1>2 DEF taskVars, SeenInv, OpenInv
<1> QED BY <1>1, <1>2, StepsOpen, CallerOpens, DiskOpens DEF TaskNext, SeenInv

-----------------------------------------------------------------------------
(* The last of some places.                                                  *)
LEMMA LastOf ==
    ASSUME NEW N \in Nat, NEW S \in SUBSET (1..N), S # {}
    PROVE  \E x \in S : \A y \in S : y <= x
<1> DEFINE T == {N - x : x \in S}
<1>1. T \in SUBSET Nat /\ T # {}
  <2>1. \A x \in S : N - x \in Nat
    OBVIOUS
  <2>2. T \in SUBSET Nat
    BY <2>1
  <2>3. PICK x \in S : TRUE
    OBVIOUS
  <2>4. N - x \in T
    OBVIOUS
  <2> QED BY <2>2, <2>4
<1>2. PICK z \in T : \A y \in T : ~(<<y, z>> \in OpToRel(<, Nat))
  BY <1>1, NatLessThanWellFounded, WFMin
<1>3. PICK x \in S : z = N - x
  BY <1>2
<1>4. ASSUME NEW y \in S PROVE y <= x
  <2>1. N - y \in T /\ N - y \in Nat /\ z \in Nat
    BY <1>1, <1>2
  <2>2. <<N - y, z>> \in Nat \X Nat /\ <<N - y, z>> \notin OpToRel(<, Nat)
    BY <1>2, <2>1
  <2> HIDE DEF T
  <2>3. ~(<<N - y, z>>[1] < <<N - y, z>>[2])
    BY <2>2, Zenon DEF OpToRel
  <2>4. ~(N - y < z)
    BY <2>3
  <2>5. x \in Nat /\ y \in Nat
    OBVIOUS
  <2> QED BY <1>3, <2>4, <2>5
<1> QED BY <1>4

(* What a model is asked about: k whole turns and a screen, which is the last *)
(* message.                                                                  *)
Asking(h, e, k) ==
    /\ Enumerates(e, h) /\ Len(e) = k + 1 /\ e[k + 1] = Len(h)
    /\ h[Len(h)] = Msg("screen", k + 1)
    /\ \A n \in 1..k : IsTurn(h, e[n], TurnEnd(e, h, n), n)
    /\ Opens(h)

LEMMA AskingModel ==
    ASSUME NEW h \in Seq(Message), NEW k \in Nat, Begun(h, k), Opens(h)
    PROVE  Asking(h, Screens(h), k)
<1>1. PICK n \in 0..Len(h) :
        Closed(SubSeq(h, 1, n), k) /\ h = Append(SubSeq(h, 1, n), Msg("screen", k + 1))
  BY DEF Begun
<1> DEFINE g == SubSeq(h, 1, n)
<1>2. g \in Seq(Message)
  BY Prefix
<1> HIDE DEF g
<1>3. Closed(g, k) /\ h = Append(g, Msg("screen", k + 1))
  BY <1>1 DEF g
<1>4. Through(Screens(h), h, k) /\ Len(Screens(h)) = k + 1
  BY <1>2, <1>3, Begins
<1>5. Msg("screen", k + 1) \in Message /\ Msg("screen", k + 1).kind = "screen"
  BY Messages
<1>6. /\ Len(h) = Len(g) + 1 /\ Len(g) \in Nat /\ h[Len(g) + 1] = Msg("screen", k + 1)
      /\ \A i \in 1..Len(g) : h[i] = g[i]
  BY <1>2, <1>3, <1>5, AppendFront
<1>7. Enumerates(Append(Screens(g), Len(g) + 1), h)
  <2>1. Enumerates(Screens(g), g)
    BY <1>3 DEF Closed, Through
  <2> QED BY <1>2, <1>3, <1>5, <2>1, EnumeratesAppend
<1>8. Len(h) > Len(g)
  BY <1>6
<1>9. Screens(h)[k + 1] = Len(h)
  BY <1>2, <1>3, <1>6, <1>7, <1>8, TurnsKept
<1> QED BY <1>4, <1>6, <1>9 DEF Asking, Through

(* What is where in it.                                                      *)
InTurn(h, e, k, n, d, j) ==
    /\ n \in 1..k + 1 /\ d \in {0, 1, 2} /\ (d # 0 => n \in 1..k)
    /\ j = e[n] + d
    /\ h[j] = Msg(IF d = 0 THEN "screen" ELSE IF d = 1 THEN "reply" ELSE "results", n)

LEMMA AskingPlaces ==
    ASSUME NEW h \in Seq(Message), NEW k \in Nat, NEW e, Asking(h, e, k)
    PROVE  /\ Len(h) \in Nat /\ e[1] \in 2..Len(h) /\ DOMAIN e = 1..k + 1
           /\ \A n \in 1..k + 1 : /\ e[n] \in 1..Len(h) /\ InTurn(h, e, k, n, 0, e[n])
           /\ \A n \in 1..k : /\ e[n] + 2 < e[n + 1] /\ IsTurn(h, e[n], e[n + 1] - 1, n)
                              /\ InTurn(h, e, k, n, 1, e[n] + 1)
                              /\ InTurn(h, e, k, n, 2, e[n] + 2)
           /\ \A m, n \in 1..k + 1 : m < n => e[m] + 2 < e[n]
<1>1. Enumerates(e, h) /\ Len(e) = k + 1
  BY DEF Asking
<1>2. /\ Len(h) \in Nat /\ DOMAIN e = 1..k + 1
      /\ \A n \in 1..k + 1 : /\ e[n] \in 1..Len(h) /\ TurnEnd(e, h, n) \in e[n]..Len(h)
                             /\ n < k + 1 => e[n + 1] = TurnEnd(e, h, n) + 1
  BY <1>1, TurnPlaces
<1>3. ASSUME NEW n \in 1..k
      PROVE  /\ e[n] + 2 < e[n + 1] /\ IsTurn(h, e[n], e[n + 1] - 1, n) /\ n \in 1..k + 1
             /\ InTurn(h, e, k, n, 0, e[n]) /\ InTurn(h, e, k, n, 1, e[n] + 1)
             /\ InTurn(h, e, k, n, 2, e[n] + 2)
  <2>1. n \in 1..k + 1 /\ n < k + 1
    OBVIOUS
  <2>2. e[n + 1] = TurnEnd(e, h, n) + 1 /\ TurnEnd(e, h, n) \in Nat /\ e[n] \in Nat
    BY <1>2, <2>1
  <2>3. IsTurn(h, e[n], TurnEnd(e, h, n), n)
    BY DEF Asking
  <2>4. TurnEnd(e, h, n) = e[n + 1] - 1
    BY <2>2
  <2>5. IsTurn(h, e[n], e[n + 1] - 1, n)
    BY <2>3, <2>4
  <2>6. e[n] + 2 < e[n + 1]
    BY <2>2, <2>3 DEF IsTurn
  <2>7. e[n] = e[n] + 0
    BY <2>2
  <2> QED BY <2>1, <2>3, <2>5, <2>6, <2>7 DEF IsTurn, InTurn
<1>4. InTurn(h, e, k, k + 1, 0, e[k + 1])
  <2>1. k + 1 \in 1..k + 1 /\ e[k + 1] = e[k + 1] + 0
    BY <1>2
  <2> QED BY <2>1 DEF Asking, InTurn
<1>5. \A n \in 1..k + 1 : n \in 1..k \/ n = k + 1
  OBVIOUS
<1>6. ASSUME NEW m \in 1..k + 1, NEW n \in 1..k + 1, m < n PROVE e[m] + 2 < e[n]
  <2>1. m \in 1..k /\ m + 1 \in 1..k + 1
    BY <1>6
  <2>5. \A i \in 1..k + 1 : e[i] \in Nat
    BY <1>2
  <2>6. e[m] + 2 < e[m + 1]
    BY <1>3, <2>1
  <2>2. e[m] + 2 < e[m + 1] /\ e[m] \in Nat /\ e[m + 1] \in Nat /\ e[n] \in Nat
    BY <2>1, <2>5, <2>6
  <2>3. CASE m + 1 = n
    BY <2>2, <2>3
  <2>4. CASE m + 1 < n
    <3>1. e[m + 1] < e[n]
      BY <1>1, <2>1, <2>4 DEF Enumerates
    <3> QED BY <2>2, <3>1
  <2> QED BY <1>6, <2>1, <2>3, <2>4
<1>7. e[1] \in 2..Len(h)
  <2>1. 1 \in 1..k + 1
    OBVIOUS
  <2>2. e[1] \in 1..Len(h) /\ h[e[1]].kind = "screen"
    BY <1>1, <1>2, <2>1 DEF Enumerates
  <2>3. h[1].kind = "goal"
    BY Messages DEF Asking, Opens
  <2> QED BY <1>2, <2>2, <2>3
<1> QED BY <1>2, <1>3, <1>4, <1>5, <1>6, <1>7

LEMMA AskingHolds ==
    ASSUME NEW h \in Seq(Message), NEW k \in Nat, NEW e, Asking(h, e, k), NEW j \in 1..Len(h)
    PROVE  \/ h[j].kind = "say"
           \/ j = 1 /\ h[j] = Goal
           \/ \E n \in 1..k + 1, d \in {0, 1, 2} : InTurn(h, e, k, n, d, j)
<1>1. /\ Len(h) \in Nat /\ e[1] \in 2..Len(h)
      /\ \A n \in 1..k + 1 : e[n] \in 1..Len(h) /\ InTurn(h, e, k, n, 0, e[n])
      /\ \A n \in 1..k : /\ e[n] + 2 < e[n + 1] /\ IsTurn(h, e[n], e[n + 1] - 1, n)
                         /\ InTurn(h, e, k, n, 1, e[n] + 1)
                         /\ InTurn(h, e, k, n, 2, e[n] + 2)
      /\ \A m, n \in 1..k + 1 : m < n => e[m] + 2 < e[n]
  BY AskingPlaces
<1>2. CASE j < e[1]
  <2>1. j = 1 => h[j] = Goal
    BY DEF Asking, Opens
  <2>2. j # 1 => h[j].kind = "say"
    <3> SUFFICES ASSUME j # 1 PROVE h[j].kind = "say"
      OBVIOUS
    <3>1. j \in 2..Len(h)
      BY <1>1
    <3>2. ASSUME NEW i \in 1..j PROVE h[i].kind # "screen"
      <4>1. SUFFICES ASSUME h[i].kind = "screen" PROVE FALSE
        OBVIOUS
      <4>2. i \in 1..Len(h) /\ i < e[1]
        BY <1>1, <1>2
      <4>3. PICK n \in 1..k + 1 : e[n] = i
        BY <4>1, <4>2 DEF Asking, Enumerates
      <4>4. n = 1 \/ 1 < n
        OBVIOUS
      <4>5. 1 \in 1..k + 1
        OBVIOUS
      <4>6. 1 < n => e[1] + 2 < e[n]
        BY <1>1, <4>5
      <4> QED BY <1>1, <4>2, <4>3, <4>4, <4>6
    <3> QED BY <3>1, <3>2 DEF Asking, Opens
  <2> QED BY <2>1, <2>2
<1>3. CASE ~(j < e[1])
  <2> DEFINE S == {n \in 1..k + 1 : e[n] <= j}
  <2>1. S \in SUBSET (1..k + 1) /\ S # {}
    <3>1. 1 \in 1..k + 1 /\ e[1] <= j
      BY <1>1, <1>3
    <3> QED BY <3>1
  <2>2. k + 1 \in Nat
    OBVIOUS
  <2>3. PICK n \in S : \A m \in S : m <= n
    BY <2>1, <2>2, LastOf
  <2>4. n \in 1..k + 1 /\ e[n] <= j
    BY <2>3
  <2>5. CASE n = k + 1
    <3>1. e[n] = Len(h)
      BY <2>5 DEF Asking
    <3>2. j = e[n]
      BY <1>1, <2>4, <3>1
    <3> QED BY <1>1, <2>4, <3>2
  <2>6. CASE n # k + 1
    <3>1. n \in 1..k /\ n + 1 \in 1..k + 1 /\ ~(n + 1 <= n)
      BY <2>4, <2>6
    <3>2. n + 1 \notin S
      BY <2>3, <3>1
    <3>3. ~(e[n + 1] <= j)
      BY <3>1, <3>2
    <3>4. e[n] \in Nat /\ e[n + 1] \in Nat
      BY <1>1, <3>1
    <3>5. j = e[n] \/ j = e[n] + 1 \/ j = e[n] + 2 \/ j \in e[n] + 3..e[n + 1] - 1
      BY <2>4, <3>3, <3>4
    <3>6. j \in e[n] + 3..e[n + 1] - 1 => h[j].kind = "say"
      BY <1>1, <3>1 DEF IsTurn
    <3> QED BY <1>1, <2>4, <3>1, <3>5, <3>6
  <2> QED BY <2>5, <2>6
<1> QED BY <1>2, <1>3

-----------------------------------------------------------------------------
(* What the model is sent, before images are left out: the first p messages, *)
(* s lines, and the end of the conversation from a.                          *)
Sent == Message \cup [kind : {"line"}, step : Nat]

Split(k, w) == IF k + 1 > w THEN k + 1 - w ELSE 0

Composed(list, h, p, s, a) ==
    /\ list \in Seq(Sent) /\ Len(list) = p + s + (Len(h) - a + 1)
    /\ \A i \in 1..p : list[i] = h[i]
    /\ \A i \in 1..s : list[p + i] = Msg("line", i)
    /\ \A i \in a..Len(h) : list[i - a + p + s + 1] = h[i]

(* The line of a turn has the number of its step.                            *)
LEMMA LineIs ==
    ASSUME NEW h \in Seq(Message), NEW k \in Nat, Through(Screens(h), h, k), NEW n \in 1..k
    PROVE  compactTurnLine(TurnGroup(h, n)) = Msg("line", n)
<1> DEFINE e == Screens(h)
           E == TurnEnd(e, h, n)
           turn == TurnGroup(h, n)
<1> HIDE DEF e, E, turn
<1>1. Enumerates(e, h) /\ k <= Len(e) /\ Len(e) \in Nat
  BY LenProperties DEF Through, Enumerates, e
<1>2. n \in 1..Len(e)
  BY <1>1
<1>3. /\ Len(h) \in Nat /\ DOMAIN e = 1..Len(e) /\ e[n] \in 1..Len(h) /\ E \in e[n]..Len(h)
  BY <1>1, <1>2, TurnPlaces DEF E
<1>4. turn = SubSeq(h, e[n], E)
  BY <1>2, <1>3 DEF TurnGroup, turnBoundaries, TurnEnd, e, E, turn
<1>5. IsTurn(h, e[n], E, n) /\ e[n] + 2 <= E
  BY DEF Through, e, E, IsTurn
<1>6. \A i \in e[n]..E : h[i] \in Message
  BY <1>3, ElementOfSeq
<1>7. /\ turn \in Seq(Message)
      /\ Len(turn) = IF e[n] <= E THEN E - e[n] + 1 ELSE 0
      /\ \A i \in 1..E - e[n] + 1 : turn[i] = h[e[n] + i - 1]
  BY <1>3, <1>4, <1>6, SubSeqProperties, SMTT(30)
<1>8. 1 \in 1..E - e[n] + 1 /\ 2 \in 1..E - e[n] + 1 /\ e[n] + 1 - 1 = e[n] /\ e[n] + 2 - 1 = e[n] + 1
  BY <1>3, <1>5
<1>9. turn[1] = Msg("screen", n) /\ turn[2] = Msg("reply", n)
  BY <1>5, <1>7, <1>8 DEF IsTurn
<1>10. 2 \in DOMAIN turn
  <2>1. Len(turn) = E - e[n] + 1 /\ DOMAIN turn = 1..Len(turn)
    BY <1>3, <1>7, LenProperties
  <2> QED BY <1>8, <2>1
<1>11. turn[2].kind = "reply" /\ turn[1].step = n
  BY <1>9 DEF Msg
<1> QED BY <1>10, <1>11 DEF compactTurnLine, turn

LEMMA ComposedIs ==
    ASSUME NEW h \in Seq(Message), NEW p \in 0..Len(h), NEW s \in Nat, NEW a \in 1..Len(h),
           NEW lines, lines = [n \in 1..s |-> Msg("line", n)]
    PROVE  Composed(SubSeq(h, 1, p) \o lines \o SubSeq(h, a, Len(h)), h, p, s, a)
<1> DEFINE x == SubSeq(h, 1, p)
           z == SubSeq(h, a, Len(h))
           xl == x \o lines
           list == xl \o z
<1>1. Len(h) \in Nat /\ p \in Nat /\ \A i \in 1..Len(h) : h[i] \in Message
  BY LenProperties, ElementOfSeq
<1>2. x \in Seq(Message) /\ Len(x) = p /\ \A i \in 1..p : x[i] = h[i]
  BY Prefix
<1>3. \A i \in a..Len(h) : h[i] \in Message
  BY <1>1
<1>4. /\ z \in Seq(Message)
      /\ Len(z) = IF a <= Len(h) THEN Len(h) - a + 1 ELSE 0
      /\ \A i \in 1..Len(h) - a + 1 : z[i] = h[a + i - 1]
  BY <1>1, <1>3, SubSeqProperties
<1>5. Len(z) = Len(h) - a + 1 /\ Len(z) \in Nat
  BY <1>1, <1>4
<1>6. \A n \in 1..s : Msg("line", n) \in Sent
  BY DEF Msg, Sent
<1>7. lines \in Seq(Sent) /\ Len(lines) = s /\ \A i \in 1..s : lines[i] = Msg("line", i)
  BY <1>6
<1>8. Message \subseteq Sent
  BY DEF Sent
<1>9. x \in Seq(Sent) /\ z \in Seq(Sent)
  BY <1>2, <1>4, <1>8, SeqMonotonic
<1> HIDE DEF x, z
<1>10. /\ xl \in Seq(Sent) /\ Len(xl) = p + s
       /\ \A i \in 1..p + s : xl[i] = IF i <= p THEN x[i] ELSE lines[i - p]
  <2>1. /\ x \o lines \in Seq(Sent) /\ Len(x \o lines) = Len(x) + Len(lines)
        /\ \A i \in 1..Len(x) + Len(lines) : (x \o lines)[i] =
              IF i <= Len(x) THEN x[i] ELSE lines[i - Len(x)]
    BY <1>7, <1>9, ConcatProperties, Zenon
  <2> QED BY <1>2, <1>7, <2>1
<1> HIDE DEF xl
<1>11. /\ list \in Seq(Sent) /\ Len(list) = p + s + (Len(h) - a + 1)
       /\ \A i \in 1..p + s + (Len(h) - a + 1) :
             list[i] = IF i <= p + s THEN xl[i] ELSE z[i - (p + s)]
  <2>1. /\ xl \o z \in Seq(Sent) /\ Len(xl \o z) = Len(xl) + Len(z)
        /\ \A i \in 1..Len(xl) + Len(z) : (xl \o z)[i] =
              IF i <= Len(xl) THEN xl[i] ELSE z[i - Len(xl)]
    BY <1>9, <1>10, ConcatProperties, Zenon
  <2> QED BY <1>5, <1>10, <2>1
<1> HIDE DEF list
<1>12. ASSUME NEW i \in 1..p PROVE list[i] = h[i]
  <2>1. i \in 1..p + s /\ i <= p + s /\ i <= p /\ i \in 1..p + s + (Len(h) - a + 1)
    BY <1>1
  <2> QED BY <1>2, <1>10, <1>11, <2>1
<1>13. ASSUME NEW i \in 1..s PROVE list[p + i] = Msg("line", i)
  <2>1. /\ p + i \in 1..p + s /\ p + i <= p + s /\ ~(p + i <= p) /\ p + i - p = i
        /\ p + i \in 1..p + s + (Len(h) - a + 1)
    BY <1>1
  <2> QED BY <1>7, <1>10, <1>11, <2>1
<1>14. ASSUME NEW i \in a..Len(h) PROVE list[i - a + p + s + 1] = h[i]
  <2> DEFINE j == i - a + p + s + 1
             m == i - a + 1
  <2>1. /\ j \in 1..p + s + (Len(h) - a + 1) /\ ~(j <= p + s) /\ j - (p + s) = m
        /\ m \in 1..Len(h) - a + 1 /\ a + m - 1 = i
    BY <1>1
  <2>2. list[j] = z[m] /\ z[m] = h[i]
    <3> HIDE DEF j, m
    <3> QED BY <1>4, <1>11, <2>1
  <2> QED BY <2>2
<1> QED BY <1>11, <1>12, <1>13, <1>14 DEF Composed, list, xl, x, z

Prunes(h, e, s, w, keep) ==
    \E list : /\ Composed(list, h, e[1] - 1, s, e[s + 1])
              /\ pruneForModel(h, w, keep) = capImages(list, keep)

LEMMA PrunedIs ==
    ASSUME NEW h \in Seq(Message), NEW k \in Nat, NEW e, e = Screens(h), Asking(h, e, k),
           NEW w \in Nat \ {0}, NEW keep \in Nat, NEW s, s = Split(k, w)
    PROVE  Prunes(h, e, s, w, keep)
<1>1. s \in 0..k
  BY DEF Split
<1>2. /\ Len(h) \in Nat /\ e[1] \in 2..Len(h) /\ DOMAIN e = 1..k + 1 /\ Len(e) = k + 1
      /\ \A n \in 1..k + 1 : e[n] \in 1..Len(h)
  BY AskingPlaces DEF Asking
<1>3. e # <<>>
  <2>1. 1 \in DOMAIN e
    BY <1>2
  <2> QED BY <2>1
<1>4. s + 1 \in 1..k + 1 /\ s # k + 1 /\ s \in Nat
  BY <1>1
<1>5. ASSUME NEW n \in 1..s PROVE compactTurnLine(TurnGroup(h, n)) = Msg("line", n)
  <2>1. n \in 1..k /\ k \in 0..Len(e)
    BY <1>1, <1>2
  <2>2. Through(Screens(h), h, k)
    BY <2>1 DEF Asking, Through
  <2> QED BY <2>1, <2>2, LineIs
<1> DEFINE lines == [n \in 1..s |-> Msg("line", n)]
           list == SubSeq(h, 1, e[1] - 1) \o lines \o SubSeq(h, e[s + 1], Len(h))
<1>6. [n \in 1..s |-> compactTurnLine(TurnGroup(h, n))] = lines
  BY <1>5
<1>7. Preamble(h) = SubSeq(h, 1, e[1] - 1)
  BY <1>3 DEF Preamble
<1>8. pruneForModel(h, w, keep) = capImages(list, keep)
  <2> DEFINE rest == IF s = Len(e) THEN <<>> ELSE SubSeq(h, e[s + 1], Len(h))
  <2>1. rest = SubSeq(h, e[s + 1], Len(h))
    BY <1>2, <1>4
  <2>2. s = IF Len(Screens(h)) > w THEN Len(Screens(h)) - w ELSE 0
    BY <1>2 DEF Split
  <2>3. pruneForModel(h, w, keep)
          = capImages(Preamble(h) \o [n \in 1..s |-> compactTurnLine(TurnGroup(h, n))] \o rest, keep)
    BY <2>2 DEF pruneForModel
  <2> HIDE DEF rest, lines
  <2> QED BY <1>6, <1>7, <2>1, <2>3
<1>9. e[1] - 1 \in 0..Len(h) /\ e[s + 1] \in 1..Len(h)
  BY <1>2, <1>4
<1>10. Composed(list, h, e[1] - 1, s, e[s + 1])
  <2> HIDE DEF list
  <2>1. lines = [n \in 1..s |-> Msg("line", n)]
    OBVIOUS
  <2> HIDE DEF lines
  <2> QED BY <1>4, <1>9, <2>1, ComposedIs DEF list
<1> HIDE DEF list, lines
<1> QED BY <1>8, <1>10 DEF Prunes

-----------------------------------------------------------------------------
(* Where the screen of the n-th step is in what the model is sent.           *)
Shift(e, s) == e[1] + s - e[s + 1]
Place(e, s, n) == e[n] + Shift(e, s)

(* The goal, s lines, and the turns that follow, with the last screen.       *)
Placed(list, e, k, s) ==
    /\ Len(list) \in Nat /\ e[1] - 1 \in Nat \ {0} /\ list[1] = Goal
    /\ Place(e, s, k + 1) = Len(list)
    /\ \A n \in 1..s : e[1] - 1 + n \in 1..Len(list) /\ list[e[1] - 1 + n] = Msg("line", n)
    /\ \A n \in s + 1..k + 1 : /\ Place(e, s, n) \in 1..Len(list)
                               /\ list[Place(e, s, n)] = Msg("screen", n)
    /\ \A m, n \in s + 1..k + 1 : m < n => Place(e, s, m) + 2 < Place(e, s, n)
    /\ \A n \in s + 1..k : /\ Place(e, s, n) + 1 \in 1..Len(list)
                           /\ Place(e, s, n) + 2 \in 1..Len(list)
                           /\ list[Place(e, s, n) + 1] = Msg("reply", n)
                           /\ list[Place(e, s, n) + 2] = Msg("results", n)

Known(list, e, k, s, i) ==
    \/ list[i].kind = "say" \/ i = 1
    \/ \E n \in 1..s : i = e[1] - 1 + n
    \/ \E n \in s + 1..k + 1 : i = Place(e, s, n)
    \/ \E n \in s + 1..k : i = Place(e, s, n) + 1 \/ i = Place(e, s, n) + 2

(* What is behind the s lines.                                               *)
LEMMA ShiftIs ==
    ASSUME NEW h \in Seq(Message), NEW k \in Nat, NEW e, Asking(h, e, k), NEW s \in 0..k,
           NEW list, Composed(list, h, e[1] - 1, s, e[s + 1])
    PROVE  /\ Shift(e, s) \in Int /\ Len(list) = Len(h) + Shift(e, s) /\ Len(h) \in Nat
           /\ e[s + 1] \in 1..Len(h) /\ e[1] \in 2..Len(h)
           /\ e[s + 1] + Shift(e, s) = e[1] + s
           /\ \A i \in e[s + 1]..Len(h) :
                 i + Shift(e, s) \in 1..Len(list) /\ list[i + Shift(e, s)] = h[i]
<1> DEFINE c == Shift(e, s)
<1> HIDE DEF c
<1>1. /\ Len(h) \in Nat /\ e[1] \in 2..Len(h) /\ \A n \in 1..k + 1 : e[n] \in 1..Len(h)
  BY AskingPlaces
<1>2. s + 1 \in 1..k + 1 /\ s \in Nat
  OBVIOUS
<1>3. PICK f \in 2..Len(h), a \in 1..Len(h) : f = e[1] /\ a = e[s + 1]
  BY <1>1, <1>2
<1>4. /\ Len(list) = f - 1 + s + (Len(h) - a + 1)
      /\ \A i \in a..Len(h) : list[i - a + (f - 1) + s + 1] = h[i]
  BY <1>3 DEF Composed
<1>5. c = f + s - a
  BY <1>3 DEF Shift, c
<1>6. c \in Int /\ Len(list) = Len(h) + c /\ a + c = f + s
  <2>1. f \in Nat /\ a \in Nat /\ s \in Nat /\ Len(h) \in Nat
    BY <1>1, <1>2
  <2>2. Len(list) = f - 1 + s + (Len(h) - a + 1)
    BY <1>4
  <2>3. c \in Int /\ a + c = f + s
    BY <1>5, <2>1
  <2>4. Len(list) = Len(h) + c
    BY <1>5, <2>1, <2>2
  <2> QED BY <2>3, <2>4
<1>7. ASSUME NEW i \in a..Len(h) PROVE i + c \in 1..Len(list) /\ list[i + c] = h[i]
  <2>1. i - a + (f - 1) + s + 1 = i + c
    BY <1>1, <1>2, <1>5
  <2>2. i + c \in 1..Len(h) + c
    BY <1>1, <1>2, <1>5
  <2> QED BY <1>4, <1>6, <2>1, <2>2
<1> QED BY <1>1, <1>3, <1>6, <1>7 DEF c

(* What follows s turns belongs to later ones.                               *)
LEMMA PlacesAre ==
    ASSUME NEW h \in Seq(Message), NEW k \in Nat, NEW e, Asking(h, e, k), NEW s \in 0..k,
           NEW list, Composed(list, h, e[1] - 1, s, e[s + 1])
    PROVE  Placed(list, e, k, s)
<1> DEFINE c == Shift(e, s)
           a == e[s + 1]
<1>1. /\ \A n \in 1..k + 1 : e[n] \in 1..Len(h) /\ h[e[n]] = Msg("screen", n)
      /\ \A n \in 1..k : /\ e[n] + 2 < e[n + 1]
                         /\ h[e[n] + 1] = Msg("reply", n) /\ h[e[n] + 2] = Msg("results", n)
      /\ \A m, n \in 1..k + 1 : m < n => e[m] + 2 < e[n]
  BY AskingPlaces DEF InTurn
<1>2. /\ c \in Int /\ Len(list) = Len(h) + c /\ Len(h) \in Nat
      /\ a \in 1..Len(h) /\ e[1] \in 2..Len(h) /\ a + c = e[1] + s
      /\ \A j \in a..Len(h) : j + c \in 1..Len(list) /\ list[j + c] = h[j]
  BY ShiftIs
<1>3. s + 1 \in 1..k + 1 /\ s \in Nat
  OBVIOUS
<1>4. \A n : Place(e, s, n) = e[n] + c
  BY DEF Place
<1> HIDE DEF c, a
<1>5. e[1] - 1 \in Nat \ {0} /\ Len(list) \in Nat
  <2>1. Len(list) = Len(h) + c /\ a <= Len(h) /\ a + c >= 0
    BY <1>2, <1>3
  <2>2. a \in Nat /\ Len(h) \in Nat /\ c \in Int
    BY <1>2
  <2> QED BY <1>2, <2>1, <2>2
<1>6. list[1] = Goal
  <2>1. 1 \in 1..e[1] - 1
    BY <1>2
  <2>2. h[1] = Goal
    BY DEF Asking, Opens
  <2>3. \A i \in 1..e[1] - 1 : list[i] = h[i]
    BY DEF Composed
  <2> QED BY <2>1, <2>2, <2>3
<1>7. ASSUME NEW n \in s + 1..k + 1 PROVE n \in 1..k + 1 /\ e[n] \in a..Len(h)
  <2>1. n \in 1..k + 1 /\ (n = s + 1 \/ s + 1 < n)
    BY <1>3
  <2>2. e[n] \in 1..Len(h) /\ (s + 1 < n => a + 2 < e[n])
    BY <1>1, <1>3, <2>1 DEF a
  <2>3. n = s + 1 => e[n] = a
    BY DEF a
  <2> QED BY <1>2, <2>1, <2>2, <2>3
<1>8. Place(e, s, k + 1) = Len(list)
  BY <1>2, <1>4 DEF Asking
<1>9. ASSUME NEW n \in 1..s PROVE e[1] - 1 + n \in 1..Len(list) /\ list[e[1] - 1 + n] = Msg("line", n)
  <2>1. list[e[1] - 1 + n] = Msg("line", n)
    BY DEF Composed
  <2>2. e[1] \in Nat /\ a \in Nat /\ c \in Int /\ Len(h) \in Nat /\ s \in Nat /\ n \in 1..s
    BY <1>2, <1>3
  <2>3. e[1] + s <= Len(list) /\ 2 <= e[1]
    BY <1>2, <2>2
  <2> QED BY <1>5, <2>1, <2>2, <2>3
<1>11. ASSUME NEW n \in s + 1..k + 1
       PROVE  Place(e, s, n) \in 1..Len(list) /\ list[Place(e, s, n)] = Msg("screen", n)
  <2>1. e[n] + c \in 1..Len(list) /\ list[e[n] + c] = h[e[n]]
    BY <1>2, <1>7
  <2> QED BY <1>1, <1>4, <1>7, <2>1
<1>12. ASSUME NEW m \in s + 1..k + 1, NEW n \in s + 1..k + 1, m < n
       PROVE  Place(e, s, m) + 2 < Place(e, s, n)
  <2>1. m \in 1..k + 1 /\ n \in 1..k + 1
    BY <1>7
  <2>5. e[m] \in Nat /\ e[n] \in Nat
    BY <1>1, <1>2, <2>1, SMTT(30)
  <2>2. PICK x \in Nat, y \in Nat : x = e[m] /\ y = e[n]
    BY <2>5
  <2>3. x + 2 < y
    BY <1>1, <1>12, <2>1, <2>2
  <2>4. x + c + 2 < y + c
    BY <1>2, <2>3, SMTT(30)
  <2> QED BY <1>4, <2>2, <2>4
<1>13. ASSUME NEW n \in s + 1..k
       PROVE  /\ Place(e, s, n) + 1 \in 1..Len(list) /\ Place(e, s, n) + 2 \in 1..Len(list)
              /\ list[Place(e, s, n) + 1] = Msg("reply", n)
              /\ list[Place(e, s, n) + 2] = Msg("results", n)
  <2>1. n \in 1..k /\ n + 1 \in 1..k + 1 /\ n \in s + 1..k + 1
    BY <1>3
  <2>8. e[n] \in a..Len(h) /\ e[n + 1] \in 1..Len(h) /\ e[n] + 2 < e[n + 1]
    BY <1>1, <1>7, <2>1
  <2>9. e[n] \in Nat /\ e[n + 1] \in Nat
    BY <1>2, <2>8, SMTT(30)
  <2>2. PICK x \in Nat, y \in Nat : x = e[n] /\ y = e[n + 1]
    BY <2>9
  <2>3. a <= x /\ x + 2 < y /\ y <= Len(h)
    BY <1>2, <2>2, <2>8
  <2>4. x + 1 \in a..Len(h) /\ x + 2 \in a..Len(h)
    BY <1>2, <2>3
  <2>5. /\ x + 1 + c \in 1..Len(list) /\ list[x + 1 + c] = h[x + 1]
        /\ x + 2 + c \in 1..Len(list) /\ list[x + 2 + c] = h[x + 2]
    BY <1>2, <2>4
  <2>6. x + 1 + c = x + c + 1 /\ x + 2 + c = x + c + 2
    BY <1>2
  <2>7. Place(e, s, n) = x + c /\ h[x + 1] = Msg("reply", n) /\ h[x + 2] = Msg("results", n)
    BY <1>1, <1>4, <2>1, <2>2
  <2> QED BY <2>5, <2>6, <2>7
<1> QED BY <1>5, <1>6, <1>8, <1>9, <1>11, <1>12, <1>13 DEF Placed

(* And nothing else is there, but what the caller said.                      *)
LEMMA NothingElse ==
    ASSUME NEW h \in Seq(Message), NEW k \in Nat, NEW e, Asking(h, e, k), NEW s \in 0..k,
           NEW list, Composed(list, h, e[1] - 1, s, e[s + 1]), NEW i \in 1..Len(list)
    PROVE  Known(list, e, k, s, i)
<1> DEFINE c == Shift(e, s)
           a == e[s + 1]
<1>1. /\ \A n \in 1..k + 1 : e[n] \in 1..Len(h)
      /\ \A m, n \in 1..k + 1 : m < n => e[m] + 2 < e[n]
  BY AskingPlaces
<1>2. /\ c \in Int /\ Len(list) = Len(h) + c /\ Len(h) \in Nat
      /\ a \in 1..Len(h) /\ e[1] \in 2..Len(h) /\ a + c = e[1] + s
      /\ \A j \in a..Len(h) : j + c \in 1..Len(list) /\ list[j + c] = h[j]
  BY ShiftIs
<1>3. s + 1 \in 1..k + 1 /\ s \in Nat /\ i \in Nat
  OBVIOUS
<1>4. \A n : Place(e, s, n) = e[n] + c
  BY DEF Place
<1>5. ASSUME NEW n \in 1..k + 1, NEW d \in {0, 1, 2}, NEW j, InTurn(h, e, k, n, d, j)
      PROVE  j = e[n] + d /\ (d # 0 => n \in 1..k) /\ e[n] \in Nat
  <2>1. e[n] \in Nat
    BY <1>1, <1>2
  <2> QED BY <1>5, <2>1 DEF InTurn
<1>6. ASSUME NEW n \in 1..k + 1 PROVE e[1] <= e[n]
  <2>1. 1 \in 1..k + 1 /\ (n = 1 \/ 1 < n)
    OBVIOUS
  <2>2. 1 < n => e[1] + 2 < e[n]
    BY <1>1, <2>1
  <2>7. e[1] \in Nat /\ e[n] \in Nat
    BY <1>1, <1>2, <2>1, SMTT(30)
  <2>3. PICK x \in Nat, y \in Nat : x = e[1] /\ y = e[n]
    BY <2>7
  <2>4. n = 1 => x = y
    BY <2>3
  <2>5. 1 < n => x + 2 < y
    BY <2>2, <2>3
  <2>6. x <= y
    BY <2>1, <2>4, <2>5
  <2> QED BY <2>3, <2>6
<1>7. ASSUME NEW n \in 1..k + 1, ~(s + 1 <= n) PROVE e[n] + 2 < a
  BY <1>1, <1>3, <1>7
<1> HIDE DEF c, a
<1>8. PICK f \in 2..Len(h) : f = e[1]
  BY <1>2
<1>9. CASE i < f
  <2>1. i \in 1..Len(h) /\ i \in 1..e[1] - 1
    BY <1>2, <1>3, <1>8, <1>9
  <2>2. list[i] = h[i]
    BY <2>1 DEF Composed
  <2>3. CASE \E n \in 1..k + 1, d \in {0, 1, 2} : InTurn(h, e, k, n, d, i)
    <3>1. PICK n \in 1..k + 1, d \in {0, 1, 2} : InTurn(h, e, k, n, d, i)
      BY <2>3
    <3>2. PICK x \in Nat : x = e[n]
      BY <1>5, <3>1
    <3>3. i = x + d /\ f <= x /\ d \in Nat
      BY <1>5, <1>6, <1>8, <3>1, <3>2, SMTT(30)
    <3> QED BY <1>2, <1>9, <3>3
  <2> QED BY <2>1, <2>2, <2>3, AskingHolds DEF Known
<1>10. CASE f <= i /\ i < f + s
  <2> DEFINE n == i - f + 1
  <2>1. n \in 1..s /\ i = f - 1 + n
    BY <1>2, <1>3, <1>10
  <2> HIDE DEF n
  <2> QED BY <1>8, <2>1 DEF Known
<1>11. CASE f + s <= i
  <2> DEFINE j == i - c
  <2>1. j \in Int /\ i = j + c
    BY <1>2, <1>3, SMTT(30)
  <2>2. a + c = f + s /\ i <= Len(h) + c /\ a \in Nat
    BY <1>2, <1>8
  <2> HIDE DEF j
  <2>3. j \in a..Len(h)
    BY <1>2, <1>11, <2>1, <2>2
  <2>4. j \in 1..Len(h) /\ list[i] = h[j]
    BY <1>2, <2>1, <2>3, SMTT(30)
  <2>5. j # 1
    <3>1. f <= a
      BY <1>3, <1>6, <1>8 DEF a
    <3> QED BY <1>2, <2>3, <3>1
  <2>6. CASE \E n \in 1..k + 1, d \in {0, 1, 2} : InTurn(h, e, k, n, d, j)
    <3>1. PICK n \in 1..k + 1, d \in {0, 1, 2} : InTurn(h, e, k, n, d, j)
      BY <2>6
    <3>2. PICK x \in Nat : x = e[n]
      BY <1>5, <3>1
    <3>3. j = x + d /\ (d # 0 => n \in 1..k) /\ d \in {0, 1, 2}
      BY <1>5, <3>1, <3>2
    <3>4. s + 1 <= n
      <4>1. ~(s + 1 <= n) => x + 2 < a
        BY <1>7, <3>2
      <4> QED BY <1>2, <2>3, <3>3, <4>1
    <3>5. n \in s + 1..k + 1 /\ (d # 0 => n \in s + 1..k)
      BY <1>3, <3>3, <3>4
    <3>6. Place(e, s, n) = x + c
      BY <1>4, <3>2
    <3>7. i = x + c + d
      BY <1>2, <2>1, <3>3
    <3>8. x + c + 0 = x + c
      BY <1>2
    <3> QED BY <3>3, <3>5, <3>6, <3>7, <3>8 DEF Known
  <2> QED BY <2>4, <2>5, <2>6, AskingHolds DEF Known
<1> QED BY <1>2, <1>3, <1>9, <1>10, <1>11

-----------------------------------------------------------------------------
LEMMA ScreensSent ==
    ASSUME NEW h \in Seq(Message), NEW k \in Nat, NEW e, Asking(h, e, k), NEW s \in 0..k,
           NEW list, Composed(list, h, e[1] - 1, s, e[s + 1])
    PROVE  Screens(list) = [m \in 1..k + 1 - s |-> Place(e, s, s + m)]
<1> DEFINE d == [m \in 1..k + 1 - s |-> Place(e, s, s + m)]
<1>1. Placed(list, e, k, s) /\ \A i \in 1..Len(list) : Known(list, e, k, s, i)
  BY PlacesAre, NothingElse, Zenon
<1>2. s \in Nat /\ k + 1 - s \in Nat
  OBVIOUS
<1>3. \A m \in 1..k + 1 - s : s + m \in s + 1..k + 1
  BY <1>2
<1>4. d \in Seq(1..Len(list)) /\ Len(d) = k + 1 - s /\ \A m \in 1..k + 1 - s : d[m] = Place(e, s, s + m)
  BY <1>1, <1>2, <1>3 DEF Placed
<1> HIDE DEF d
<1>5. ASSUME NEW m \in 1..Len(d) PROVE list[d[m]].kind = "screen"
  <2>1. d[m] = Place(e, s, s + m) /\ s + m \in s + 1..k + 1
    BY <1>3, <1>4
  <2>2. list[d[m]] = Msg("screen", s + m)
    BY <1>1, <2>1 DEF Placed
  <2> QED BY <2>2 DEF Msg
<1>6. ASSUME NEW m \in 1..Len(d), NEW n \in 1..Len(d), m < n PROVE d[m] < d[n]
  <2>1. s + m \in s + 1..k + 1 /\ s + n \in s + 1..k + 1 /\ s + m < s + n
    BY <1>2, <1>3, <1>4, <1>6
  <2>2. Place(e, s, s + m) + 2 < Place(e, s, s + n) /\ Place(e, s, s + m) \in 1..Len(list)
        /\ Place(e, s, s + n) \in 1..Len(list)
    BY <1>1, <2>1 DEF Placed
  <2>3. Place(e, s, s + m) \in Nat /\ Place(e, s, s + n) \in Nat
    BY <1>1, <2>2, SMTT(30) DEF Placed
  <2>4. d[m] = Place(e, s, s + m) /\ d[n] = Place(e, s, s + n)
    BY <1>4
  <2> HIDE DEF d
  <2>5. d[m] \in Nat /\ d[n] \in Nat /\ d[m] + 2 < d[n]
    BY <2>2, <2>4, <2>3
  <2> QED BY <2>5
<1>7. ASSUME NEW i \in 1..Len(list), list[i].kind = "screen" PROVE \E m \in 1..Len(d) : d[m] = i
  <2>1. /\ i # 1
        /\ \A n \in 1..s : i # e[1] - 1 + n
        /\ \A n \in s + 1..k : i # Place(e, s, n) + 1 /\ i # Place(e, s, n) + 2
    <3>1. /\ \A x : /\ Msg("line", x).kind # "screen" /\ Msg("reply", x).kind # "screen"
                     /\ Msg("results", x).kind # "screen"
          /\ Goal.kind # "screen"
      BY DEF Msg, Goal
    <3> QED BY <1>1, <1>7, <3>1 DEF Placed
  <2>2. PICK n \in s + 1..k + 1 : i = Place(e, s, n)
    BY <1>1, <1>7, <2>1 DEF Known
  <2>3. n - s \in 1..k + 1 - s /\ s + (n - s) = n
    BY <1>2
  <2>4. d[n - s] = i
    BY <1>4, <2>2, <2>3
  <2> QED BY <1>4, <2>3, <2>4
<1>8. Enumerates(d, list)
  BY <1>4, <1>5, <1>6, <1>7 DEF Enumerates
<1>9. list \in Seq(Sent)
  BY DEF Composed
<1> QED BY <1>8, <1>9, ScreensAre DEF d

(* What the model sees: the goal, s lines, the turns after them whole, the   *)
(* images of the newest screens, and what the caller said.                   *)
Sees(seen, k, s, keep, p, q) ==
    /\ Len(seen) \in Nat /\ DOMAIN seen = 1..Len(seen) /\ seen[1] = Goal /\ p \in Nat \ {0}
    /\ q[k + 1] = Len(seen)
    /\ \A n \in 1..s : p + n \in 1..Len(seen) /\ seen[p + n] = Msg("line", n)
    /\ \A n \in s + 1..k + 1 :
          /\ q[n] \in 1..Len(seen)
          /\ seen[q[n]] = Msg(IF n > k + 1 - keep THEN "screen" ELSE "omitted", n)
    /\ \A n \in s + 1..k :
          /\ q[n] + 1 \in 1..Len(seen) /\ seen[q[n] + 1] = Msg("reply", n)
          /\ q[n] + 2 \in 1..Len(seen) /\ seen[q[n] + 2] = Msg("results", n)
    /\ \A i \in 1..Len(seen) :
          \/ seen[i].kind = "say" \/ i = 1
          \/ \E n \in 1..s : i = p + n
          \/ \E n \in s + 1..k + 1 : i = q[n]
          \/ \E n \in s + 1..k : i = q[n] + 1 \/ i = q[n] + 2

LEMMA SeesAsked ==
    ASSUME NEW h \in Seq(Message), NEW k \in Nat, NEW e, Asking(h, e, k), NEW s \in 0..k,
           NEW list, Composed(list, h, e[1] - 1, s, e[s + 1]), NEW keep \in Nat
    PROVE  Sees(capImages(list, keep), k, s, keep, e[1] - 1,
                [n \in s + 1..k + 1 |-> Place(e, s, n)])
<1> DEFINE seen == capImages(list, keep)
           d == Screens(list)
           q == [n \in s + 1..k + 1 |-> Place(e, s, n)]
           p == e[1] - 1
           kept == {d[i] : i \in {j \in DOMAIN d : j > Len(d) - keep}}
<1>1. /\ Placed(list, e, k, s)
      /\ Len(list) \in Nat /\ p \in Nat \ {0} /\ list[1] = Goal
      /\ Place(e, s, k + 1) = Len(list)
      /\ \A n \in s + 1..k + 1 : /\ Place(e, s, n) \in 1..Len(list)
                                 /\ list[Place(e, s, n)] = Msg("screen", n)
  <2>1. Placed(list, e, k, s)
    BY PlacesAre, Zenon
  <2> QED BY <2>1 DEF Placed
<1>2. \A i \in 1..Len(list) : Known(list, e, k, s, i)
  BY NothingElse, Zenon
<1>3. list \in Seq(Sent) /\ DOMAIN list = 1..Len(list)
  BY LenProperties DEF Composed
<1>4. d = [m \in 1..k + 1 - s |-> Place(e, s, s + m)]
  BY ScreensSent
<1> HIDE DEF d, p
<1>5. s \in Nat /\ k + 1 - s \in Nat
  OBVIOUS
<1>6. /\ DOMAIN d = 1..k + 1 - s /\ Len(d) = k + 1 - s
      /\ \A m \in 1..k + 1 - s : d[m] = Place(e, s, s + m)
  <2>1. \A m \in 1..k + 1 - s : s + m \in s + 1..k + 1
    BY <1>5
  <2>2. d \in Seq(1..Len(list))
    BY <1>1, <1>4, <1>5, <2>1 DEF Placed
  <2> QED BY <1>4, <1>5, <2>2
<1>7. seen = [i \in 1..Len(list) |-> IF list[i].kind = "screen" /\ i \notin kept
                                     THEN Msg("omitted", list[i].step) ELSE list[i]]
  BY <1>3 DEF capImages, d
<1> HIDE DEF seen
<1>8. /\ DOMAIN seen = 1..Len(list)
      /\ \A i \in 1..Len(list) : list[i].kind # "screen" => seen[i] = list[i]
      /\ \A i \in 1..Len(list) : list[i].kind = "screen" =>
            seen[i] = IF i \in kept THEN list[i] ELSE Msg("omitted", list[i].step)
  <2> HIDE DEF kept
  <2> QED BY <1>7
<1>9. Len(seen) = Len(list)
  <2> DEFINE S == {seen[i] : i \in 1..Len(list)}
  <2>1. seen \in [1..Len(list) -> S]
    <3> HIDE DEF kept
    <3> QED BY <1>7
  <2> HIDE DEF S
  <2>2. seen \in Seq(S)
    BY <1>1, <2>1
  <2> QED BY <1>1, <1>8, <2>2, LenProperties
<1>10. ASSUME NEW n \in s + 1..k + 1
       PROVE  seen[Place(e, s, n)] = Msg(IF n > k + 1 - keep THEN "screen" ELSE "omitted", n)
  <2>1. /\ Place(e, s, n) \in 1..Len(list) /\ list[Place(e, s, n)] = Msg("screen", n)
        /\ list[Place(e, s, n)].kind = "screen" /\ list[Place(e, s, n)].step = n
    BY <1>1 DEF Msg
  <2>2. n - s \in 1..k + 1 - s /\ s + (n - s) = n /\ n \in Nat
    BY <1>5
  <2>3. d[n - s] = Place(e, s, n)
    BY <1>6, <2>2
  <2>4. CASE n > k + 1 - keep
    <3>1. n - s > k + 1 - s - keep
      BY <1>5, <2>2, <2>4
    <3>2. n - s \in DOMAIN d /\ n - s > Len(d) - keep
      BY <1>6, <2>2, <3>1
    <3>3. Place(e, s, n) \in kept
      BY <2>3, <3>2
    <3> HIDE DEF kept
    <3> QED BY <1>8, <2>1, <2>4, <3>3
  <2>5. CASE ~(n > k + 1 - keep)
    <3>1. ASSUME Place(e, s, n) \in kept PROVE FALSE
      <4>1. PICK m \in DOMAIN d : m > Len(d) - keep /\ d[m] = Place(e, s, n)
        BY <3>1
      <4>2. m \in 1..k + 1 - s /\ m > k + 1 - s - keep /\ Place(e, s, s + m) = Place(e, s, n)
        BY <1>6, <4>1
      <4>3. s + m \in s + 1..k + 1 /\ s + m > n
        BY <1>5, <2>2, <2>5, <4>2
      <4>4. Place(e, s, n) + 2 < Place(e, s, s + m)
        BY <1>1, <2>2, <4>3 DEF Placed
      <4>5. Place(e, s, n) \in Nat
        BY <1>1, <2>1
      <4> QED BY <4>2, <4>4, <4>5
    <3>2. Place(e, s, n) \notin kept
      BY <3>1
    <3> HIDE DEF kept
    <3> QED BY <1>8, <2>1, <2>5, <3>2
  <2> QED BY <2>4, <2>5
<1> HIDE DEF kept
<1>11. \A n \in s + 1..k + 1 : q[n] = Place(e, s, n)
  OBVIOUS
<1>12. \A n \in s + 1..k : n \in s + 1..k + 1 /\ q[n] = Place(e, s, n)
  BY <1>5, <1>11
<1>13. k + 1 \in s + 1..k + 1 /\ 1 \in 1..Len(list)
  <2>1. k + 1 \in s + 1..k + 1
    BY <1>5
  <2> QED BY <1>1, <2>1
<1> HIDE DEF q
<1>14. seen[1] = Goal /\ q[k + 1] = Len(seen)
  <2>1. list[1].kind # "screen"
    BY <1>1 DEF Goal, Msg
  <2> QED BY <1>1, <1>8, <1>9, <1>11, <1>13, <2>1
<1>15. ASSUME NEW n \in 1..s PROVE p + n \in 1..Len(seen) /\ seen[p + n] = Msg("line", n)
  <2>1. p + n \in 1..Len(list) /\ list[p + n] = Msg("line", n)
    BY <1>1 DEF Placed, p
  <2>2. list[p + n].kind # "screen"
    BY <2>1 DEF Msg
  <2> QED BY <1>8, <1>9, <2>1, <2>2
<1>16. \A n \in s + 1..k + 1 :
          /\ q[n] \in 1..Len(seen)
          /\ seen[q[n]] = Msg(IF n > k + 1 - keep THEN "screen" ELSE "omitted", n)
  BY <1>1, <1>9, <1>10, <1>11
<1>17. ASSUME NEW n \in s + 1..k
       PROVE  /\ q[n] + 1 \in 1..Len(seen) /\ seen[q[n] + 1] = Msg("reply", n)
              /\ q[n] + 2 \in 1..Len(seen) /\ seen[q[n] + 2] = Msg("results", n)
  <2>1. q[n] = Place(e, s, n)
    BY <1>12
  <2>2. /\ q[n] + 1 \in 1..Len(list) /\ list[q[n] + 1] = Msg("reply", n)
        /\ q[n] + 2 \in 1..Len(list) /\ list[q[n] + 2] = Msg("results", n)
    BY <1>1, <2>1 DEF Placed
  <2>3. list[q[n] + 1].kind # "screen" /\ list[q[n] + 2].kind # "screen"
    BY <2>2 DEF Msg
  <2> QED BY <1>8, <1>9, <2>2, <2>3
<1>18. ASSUME NEW i \in 1..Len(seen)
       PROVE  \/ seen[i].kind = "say" \/ i = 1
              \/ \E n \in 1..s : i = p + n
              \/ \E n \in s + 1..k + 1 : i = q[n]
              \/ \E n \in s + 1..k : i = q[n] + 1 \/ i = q[n] + 2
  <2>1. i \in 1..Len(list)
    BY <1>9
  <2>2. list[i].kind = "say" => seen[i].kind = "say"
    BY <1>8, <2>1
  <2> QED BY <1>2, <1>11, <1>12, <2>1, <2>2 DEF Known, p
<1>19. Sees(seen, k, s, keep, p, q)
  BY <1>1, <1>8, <1>9, <1>14, <1>15, <1>16, <1>17, <1>18 DEF Sees
<1> QED BY <1>19 DEF seen, q, p

-----------------------------------------------------------------------------
LEMMA SeenIs ==
    ASSUME NEW seen, NEW k \in Nat, NEW s \in 0..k, NEW keep, NEW p, NEW q,
           Sees(seen, k, s, keep, p, q), NEW i \in DOMAIN seen
    PROVE  \/ seen[i].kind = "say"
           \/ i = 1 /\ seen[i].kind = "goal"
           \/ \E n \in 1..s : i = p + n /\ seen[i].kind = "line" /\ seen[i].step = n
           \/ \E n \in s + 1..k + 1 :
                 /\ i = q[n] /\ seen[i].step = n
                 /\ seen[i].kind = IF n > k + 1 - keep THEN "screen" ELSE "omitted"
           \/ \E n \in s + 1..k : i = q[n] + 1 /\ seen[i].kind = "reply" /\ seen[i].step = n
           \/ \E n \in s + 1..k : i = q[n] + 2 /\ seen[i].kind = "results" /\ seen[i].step = n
<1>1. i \in 1..Len(seen)
  BY DEF Sees
<1>2. \A x, n : Msg(x, n).kind = x /\ Msg(x, n).step = n
  BY DEF Msg
<1>3. CASE i = 1
  BY <1>2, <1>3 DEF Sees, Goal
<1>4. CASE \E n \in 1..s : i = p + n
  BY <1>2, <1>4 DEF Sees
<1>5. CASE \E n \in s + 1..k + 1 : i = q[n]
  <2>1. PICK n \in s + 1..k + 1 : i = q[n]
    BY <1>5
  <2>2. seen[i] = Msg(IF n > k + 1 - keep THEN "screen" ELSE "omitted", n)
    BY <2>1 DEF Sees
  <2>3. seen[i].step = n /\ seen[i].kind = IF n > k + 1 - keep THEN "screen" ELSE "omitted"
    BY <1>2, <2>2
  <2> QED BY <2>1, <2>3
<1>6. CASE \E n \in s + 1..k : i = q[n] + 1 \/ i = q[n] + 2
  BY <1>2, <1>6, SMTT(30) DEF Sees
<1> QED BY <1>1, <1>3, <1>4, <1>5, <1>6 DEF Sees

LEMMA EachOnce ==
    ASSUME NEW seen, NEW k \in Nat, NEW w \in Nat \ {0}, NEW keep \in Nat,
           NEW s, s = Split(k, w), NEW p, NEW q, Sees(seen, k, s, keep, p, q)
    PROVE  LET Of(kind) == {seen[i].step : i \in {j \in DOMAIN seen : seen[j].kind = kind}}
               now      == k + 1
               verbatim == {n \in 1..now - 1 : n > now - w}
           IN  /\ Head(seen) = Goal /\ Last(seen).step = now
               /\ Of("screen") = {n \in verbatim \cup {now} : n > now - keep}
               /\ Of("line") = (1..now - 1) \ verbatim
               /\ Of("reply") = verbatim /\ Of("results") = verbatim
               /\ \A i, j \in DOMAIN seen :
                     (seen[i].kind # "say" /\ seen[i] = seen[j]) => i = j
<1> DEFINE Of(kind) == {seen[i].step : i \in {j \in DOMAIN seen : seen[j].kind = kind}}
           now      == k + 1
           verbatim == {n \in 1..now - 1 : n > now - w}
<1>1. s \in 0..k /\ s \in Nat
  BY DEF Split
<1>2. verbatim = s + 1..k
  BY DEF Split
<1>3. verbatim \cup {now} = s + 1..k + 1 /\ (1..now - 1) \ verbatim = 1..s
  BY <1>1, <1>2
<1> HIDE DEF verbatim
<1>4. \A x, n : Msg(x, n).kind = x /\ Msg(x, n).step = n
  BY DEF Msg
<1>5. Head(seen) = Goal
  BY DEF Sees
<1>6. Last(seen).step = now
  <2>1. k + 1 \in s + 1..k + 1
    BY <1>1
  <2>2. seen[q[k + 1]].step = k + 1
    BY <1>4, <2>1 DEF Sees
  <2> QED BY <2>2 DEF Sees, Last
<1>7. Of("screen") = {n \in s + 1..k + 1 : n > now - keep}
  <2>1. ASSUME NEW i \in DOMAIN seen, seen[i].kind = "screen"
        PROVE  seen[i].step \in {n \in s + 1..k + 1 : n > now - keep}
    BY <1>1, <2>1, SeenIs
  <2>2. ASSUME NEW n \in s + 1..k + 1, n > now - keep
        PROVE  \E i \in DOMAIN seen : seen[i].kind = "screen" /\ seen[i].step = n
    BY <1>4, <2>2 DEF Sees
  <2> QED BY <2>1, <2>2
<1>8. Of("line") = 1..s
  <2>1. ASSUME NEW i \in DOMAIN seen, seen[i].kind = "line" PROVE seen[i].step \in 1..s
    BY <1>1, <2>1, SeenIs
  <2>2. ASSUME NEW n \in 1..s
        PROVE  \E i \in DOMAIN seen : seen[i].kind = "line" /\ seen[i].step = n
    BY <1>4 DEF Sees
  <2> QED BY <2>1, <2>2
<1>9. Of("reply") = s + 1..k
  <2>1. ASSUME NEW i \in DOMAIN seen, seen[i].kind = "reply" PROVE seen[i].step \in s + 1..k
    BY <1>1, <2>1, SeenIs
  <2>2. ASSUME NEW n \in s + 1..k
        PROVE  \E i \in DOMAIN seen : seen[i].kind = "reply" /\ seen[i].step = n
    <3>1. q[n] + 1 \in DOMAIN seen /\ seen[q[n] + 1] = Msg("reply", n)
      BY DEF Sees
    <3> QED BY <1>4, <3>1
  <2> QED BY <2>1, <2>2
<1>10. Of("results") = s + 1..k
  <2>1. ASSUME NEW i \in DOMAIN seen, seen[i].kind = "results" PROVE seen[i].step \in s + 1..k
    BY <1>1, <2>1, SeenIs
  <2>2. ASSUME NEW n \in s + 1..k
        PROVE  \E i \in DOMAIN seen : seen[i].kind = "results" /\ seen[i].step = n
    <3>1. q[n] + 2 \in DOMAIN seen /\ seen[q[n] + 2] = Msg("results", n)
      BY DEF Sees
    <3> QED BY <1>4, <3>1
  <2> QED BY <2>1, <2>2
<1>11. ASSUME NEW i \in DOMAIN seen, NEW j \in DOMAIN seen,
              seen[i].kind # "say", seen[i] = seen[j]
       PROVE  i = j
  <2>1. \/ i = 1 /\ seen[i].kind = "goal"
        \/ \E n \in 1..s : i = p + n /\ seen[i].kind = "line" /\ seen[i].step = n
        \/ \E n \in s + 1..k + 1 :
              /\ i = q[n] /\ seen[i].step = n
              /\ seen[i].kind = IF n > k + 1 - keep THEN "screen" ELSE "omitted"
        \/ \E n \in s + 1..k : i = q[n] + 1 /\ seen[i].kind = "reply" /\ seen[i].step = n
        \/ \E n \in s + 1..k : i = q[n] + 2 /\ seen[i].kind = "results" /\ seen[i].step = n
    BY <1>1, <1>11, SeenIs
  <2>2. \/ j = 1 /\ seen[i].kind = "goal"
        \/ \E n \in 1..s : j = p + n /\ seen[i].kind = "line" /\ seen[i].step = n
        \/ \E n \in s + 1..k + 1 :
              /\ j = q[n] /\ seen[i].step = n
              /\ seen[i].kind = IF n > k + 1 - keep THEN "screen" ELSE "omitted"
        \/ \E n \in s + 1..k : j = q[n] + 1 /\ seen[i].kind = "reply" /\ seen[i].step = n
        \/ \E n \in s + 1..k : j = q[n] + 2 /\ seen[i].kind = "results" /\ seen[i].step = n
    BY <1>1, <1>11, SeenIs
  <2> QED BY <2>1, <2>2
<1>12. /\ Of("screen") = {n \in verbatim \cup {now} : n > now - keep}
       /\ Of("line") = (1..now - 1) \ verbatim
       /\ Of("reply") = verbatim /\ Of("results") = verbatim
  <2> HIDE DEF Of
  <2> QED BY <1>2, <1>3, <1>7, <1>8, <1>9, <1>10
<1> QED BY <1>5, <1>6, <1>11, <1>12 DEF verbatim

(* The model is asked with the conversation as SeenInv has it.               *)
LEMMA SeenIsRight ==
    ASSUME SeenInv, ContextWindow # 0
    PROVE  SeesEveryStepOnce
<1> SUFFICES ASSUME loop.pc = "think" PROVE SeesEveryStepOnce
  BY DEF SeesEveryStepOnce
<1> DEFINE h == task.history
           k == Len(task.steps)
           e == Screens(h)
           s == Split(k, ContextWindow)
           seen == pruneForModel(h, ContextWindow, KeepScreenshots)
<1>1. k \in Nat /\ h \in Seq(Message) /\ loop.step = k + 1
  BY TypesOf, Working DEF SeenInv
<1>2. Begun(h, k) /\ Opens(h)
  BY DEF SeenInv, OpenInv, TurnInv, Conversation
<1>3. ContextWindow \in Nat \ {0} /\ KeepScreenshots \in Nat
  BY LocalAssumption
<1> HIDE DEF h, k
<1>4. Asking(h, e, k)
  BY <1>1, <1>2, AskingModel
<1>5. PICK list : Composed(list, h, e[1] - 1, s, e[s + 1]) /\ seen = capImages(list, KeepScreenshots)
  <2>1. e = Screens(h) /\ s = Split(k, ContextWindow)
    OBVIOUS
  <2>2. Prunes(h, e, s, ContextWindow, KeepScreenshots)
    <3> HIDE DEF e, s
    <3> QED BY <1>1, <1>3, <1>4, <2>1, PrunedIs, Zenon
  <2> QED BY <2>2 DEF Prunes
<1>6. s \in 0..k
  BY <1>1, <1>3 DEF Split
<1> HIDE DEF e, s, seen
<1>7. Sees(seen, k, s, KeepScreenshots, e[1] - 1, [n \in s + 1..k + 1 |-> Place(e, s, n)])
  BY <1>1, <1>3, <1>4, <1>5, <1>6, SeesAsked
<1>8. s = Split(k, ContextWindow)
  BY DEF s
<1>9. LET Of(kind) == {seen[i].step : i \in {j \in DOMAIN seen : seen[j].kind = kind}}
          now      == k + 1
          verbatim == {n \in 1..now - 1 : n > now - ContextWindow}
      IN  /\ Head(seen) = Goal /\ Last(seen).step = now
          /\ Of("screen") = {n \in verbatim \cup {now} : n > now - KeepScreenshots}
          /\ Of("line") = (1..now - 1) \ verbatim
          /\ Of("reply") = verbatim /\ Of("results") = verbatim
          /\ \A i, j \in DOMAIN seen :
                (seen[i].kind # "say" /\ seen[i] = seen[j]) => i = j
  BY <1>1, <1>3, <1>7, <1>8, EachOnce
<1> QED BY <1>1, <1>9 DEF SeesEveryStepOnce, seen, h

(* What the model is asked with has the goal, the screen of this step and    *)
(* every earlier step once, whole or as a line of its own number, for every  *)
(* window of at least one turn, every number of pictures kept and every      *)
(* length of the conversation; for a caller that saves between steps.        *)
THEOREM EveryStepIsSeenOnce ==
    Patient /\ ContextWindow # 0 => (Spec => []SeesEveryStepOnce)
<1> SUFFICES ASSUME Patient, ContextWindow # 0 PROVE Spec => []SeesEveryStepOnce
  OBVIOUS
<1>1. TaskSpec => []SeenInv
  BY InitSeen, NextSeen, PTL DEF TaskSpec
<1> QED BY <1>1, SeenIsRight, LocalTaskIsATask, PTL

-----------------------------------------------------------------------------
(* The input device.  What a call does is a fold over its events, and the    *)
(* fold, a text of any length and the chords are followed by induction over  *)
(* the numbers of their parts.                                               *)
LEMMA LeastIn ==
    ASSUME NEW S \in SUBSET Nat, S # {}
    PROVE  \E m \in S : \A n \in S : m <= n
<1>1. PICK m \in S : \A n \in S : ~(<<n, m>> \in OpToRel(<, Nat))
  BY NatLessThanWellFounded, WFMin
<1>2. ASSUME NEW n \in S PROVE m <= n
  <2>1. <<n, m>> \in Nat \X Nat /\ <<n, m>> \notin OpToRel(<, Nat)
    BY <1>1
  <2>2. ~(<<n, m>>[1] < <<n, m>>[2])
    BY <2>1, Zenon DEF OpToRel
  <2> QED BY <2>2
<1> QED BY <1>2

LEMMA InductionOnNat ==
    ASSUME NEW S, 0 \in S, \A n \in Nat : n \in S => n + 1 \in S
    PROVE  \A n \in Nat : n \in S
<1> SUFFICES ASSUME Nat \ S # {} PROVE FALSE
  OBVIOUS
<1>1. PICK m \in Nat \ S : \A n \in Nat \ S : m <= n
  BY LeastIn
<1>2. m # 0 /\ m - 1 \in Nat /\ m - 1 \in S
  BY <1>1
<1> QED BY <1>2

(* The fold over the events is defined on the sets of their positions, the   *)
(* last one first.                                                           *)
Folds(d, s, N, f) ==
    f = [I \in SUBSET N |->
            IF I = {} THEN d
            ELSE LET x == Max(I) IN Received(f[I \ {x}], s[x])]

(* What the device is after some events.                                     *)
After(d, s) == FoldLeft(Received, d, s)

LEMMA FoldOf ==
    ASSUME NEW d, NEW s
    PROVE  After(d, s) = (CHOOSE f : Folds(d, s, DOMAIN s, f))[DOMAIN s]
BY DEF After, FoldLeft, MapThenFoldSet, Folds

LEMMA MaxIs ==
    ASSUME NEW n \in Nat, NEW I \in SUBSET (1..n), I # {}
    PROVE  Max(I) \in I /\ \A j \in I : j <= Max(I)
<1> DEFINE T == {n - i : i \in I}
<1>1. T \in SUBSET Nat /\ T # {}
  <2>1. ASSUME NEW i \in I PROVE n - i \in Nat
    OBVIOUS
  <2> QED BY <2>1
<1> HIDE DEF T
<1>2. PICK t \in T : \A u \in T : t <= u
  BY <1>1, LeastIn
<1>3. PICK i \in I : t = n - i
  BY DEF T
<1>4. ASSUME NEW j \in I PROVE i >= j
  <2>1. n - j \in T
    BY DEF T
  <2>2. n - i <= n - j
    BY <1>2, <1>3, <2>1
  <2> QED BY <2>2
<1>5. \E x \in I : \A y \in I : x >= y
  BY <1>4
<1>6. Max(I) \in I /\ \A y \in I : Max(I) >= y
  BY <1>5, Zenon DEF Max
<1> QED BY <1>6

LEMMA FoldExists ==
    ASSUME NEW d, NEW s, NEW N \in Nat
    PROVE  \E f : Folds(d, s, 1..N, f)
<1> DEFINE S == {n \in Nat : \E f : Folds(d, s, 1..n, f)}
<1>1. 0 \in S
  <2> DEFINE f == [I \in SUBSET (1..0) |-> d]
  <2>1. \A I \in SUBSET (1..0) : I = {}
    OBVIOUS
  <2>2. f = [I \in SUBSET (1..0) |->
            IF I = {} THEN d
            ELSE LET x == Max(I) IN Received(f[I \ {x}], s[x])]
    BY <2>1
  <2>3. Folds(d, s, 1..0, f)
    BY <2>2, Zenon DEF Folds
  <2> QED BY <2>3
<1>2. ASSUME NEW n \in Nat, n \in S PROVE n + 1 \in S
  <2>1. PICK f : Folds(d, s, 1..n, f)
    BY <1>2
  <2> DEFINE F(I) == IF n + 1 \in I THEN Received(f[I \ {n + 1}], s[n + 1]) ELSE f[I]
             g == [I \in SUBSET (1..(n + 1)) |-> F(I)]
             H(I, h) == IF I = {} THEN d ELSE LET x == Max(I) IN Received(h[I \ {x}], s[x])
  <2>2. \A I \in SUBSET (1..n) : f[I] = H(I, f)
    BY <2>1, Zenon DEF Folds
  <2>3. \A I \in SUBSET (1..n) : I \in SUBSET (1..(n + 1)) /\ n + 1 \notin I /\ g[I] = f[I]
    OBVIOUS
  <2>4. ASSUME NEW I \in SUBSET (1..(n + 1)) PROVE F(I) = H(I, g)
    <3>1. CASE n + 1 \in I
      <4>0. n + 1 \in Nat /\ I # {}
        BY <3>1
      <4>a. Max(I) \in I /\ \A j \in I : j <= Max(I)
        BY <4>0, MaxIs, Zenon
      <4>1. I # {} /\ Max(I) \in I /\ n + 1 <= Max(I)
        BY <3>1, <4>0, <4>a, Zenon
      <4>b. \A x : x \in 1..(n + 1) /\ n + 1 <= x => x = n + 1
        OBVIOUS
      <4>c. I \subseteq 1..(n + 1)
        OBVIOUS
      <4>2. Max(I) = n + 1
        BY <4>1, <4>b, <4>c, Zenon
      <4>3. I \ {n + 1} \in SUBSET (1..n)
        OBVIOUS
      <4>4. g[I \ {n + 1}] = f[I \ {n + 1}]
        BY <4>3, <2>3
      <4>5. H(I, g) = Received(g[I \ {n + 1}], s[n + 1])
        BY <4>1, <4>2, Zenon
      <4> QED BY <3>1, <4>4, <4>5, Zenon
    <3>2. CASE n + 1 \notin I
      <4>1. I \in SUBSET (1..n)
        BY <3>2
      <4>2. F(I) = H(I, f)
        BY <3>2, <4>1, <2>2, Zenon
      <4>3. CASE I = {}
        BY <4>2, <4>3, Zenon
      <4>4. CASE I # {}
        <5> DEFINE x == Max(I)
        <5>1. I \ {x} \in SUBSET (1..n)
          BY <4>1
        <5>2. g[I \ {x}] = f[I \ {x}]
          BY <5>1, <2>3
        <5> QED BY <5>2, <4>2, <4>4, Zenon
      <4> QED BY <4>3, <4>4
    <3> QED BY <3>1, <3>2
  <2>5. g = [I \in SUBSET (1..(n + 1)) |-> H(I, g)]
    BY <2>4, Zenon
  <2>6. Folds(d, s, 1..(n + 1), g)
    BY <2>5, Zenon DEF Folds
  <2> QED BY <2>6
<1> HIDE DEF S
<1>3. N \in S
  BY <1>1, <1>2, InductionOnNat
<1> QED BY <1>3 DEF S

LEMMA MaxOfNext ==
    ASSUME NEW n \in Nat, NEW I \in SUBSET (1..(n + 1)), n + 1 \in I
    PROVE  I # {} /\ Max(I) = n + 1 /\ I \ {n + 1} \in SUBSET (1..n)
<1>1. n + 1 \in Nat /\ I # {}
  OBVIOUS
<1>2. Max(I) \in I /\ \A j \in I : j <= Max(I)
  BY <1>1, MaxIs, Zenon
<1>3. n + 1 <= Max(I)
  BY <1>2, Zenon
<1>4. \A x : x \in 1..(n + 1) /\ n + 1 <= x => x = n + 1
  OBVIOUS
<1>5. I \subseteq 1..(n + 1)
  OBVIOUS
<1>6. Max(I) = n + 1
  BY <1>2, <1>3, <1>4, <1>5, Zenon
<1> QED BY <1>1, <1>6

LEMMA FoldsAgree ==
    ASSUME NEW d, NEW s, NEW t, NEW f, NEW g, NEW k \in Nat,
           Folds(d, s, 1..k, f), Folds(d, t, 1..(k + 1), g),
           \A i \in 1..k : s[i] = t[i]
    PROVE  \A I \in SUBSET (1..k) : f[I] = g[I]
<1> DEFINE S == {n \in Nat : n <= k => \A I \in SUBSET (1..n) : f[I] = g[I]}
           H(I, h, u) == IF I = {} THEN d ELSE LET x == Max(I) IN Received(h[I \ {x}], u[x])
<1>1. \A I \in SUBSET (1..k) : f[I] = H(I, f, s)
  BY Zenon DEF Folds
<1>2. \A I \in SUBSET (1..(k + 1)) : g[I] = H(I, g, t)
  BY Zenon DEF Folds
<1>3. 0 \in S
  <2>1. ASSUME NEW I \in SUBSET (1..0) PROVE f[I] = g[I]
    <3>1. I = {} /\ I \in SUBSET (1..k) /\ I \in SUBSET (1..(k + 1))
      OBVIOUS
    <3> QED BY <3>1, <1>1, <1>2, Zenon
  <2> QED BY <2>1
<1>4. ASSUME NEW n \in Nat, n \in S PROVE n + 1 \in S
  <2>1. n + 1 \in Nat
    OBVIOUS
  <2>2. SUFFICES ASSUME n + 1 <= k, NEW I \in SUBSET (1..(n + 1)) PROVE f[I] = g[I]
    BY <2>1, Zenon
  <2>3. \A J \in SUBSET (1..n) : f[J] = g[J]
    <3>1. n <= k
      BY <2>2
    <3> QED BY <3>1, <1>4
  <2>4. CASE n + 1 \notin I
    <3>1. I \in SUBSET (1..n)
      BY <2>4
    <3> QED BY <3>1, <2>3
  <2>5. CASE n + 1 \in I
    <3>1. I # {} /\ Max(I) = n + 1 /\ I \ {n + 1} \in SUBSET (1..n)
      BY <2>5, MaxOfNext, Zenon
    <3>2. I \in SUBSET (1..k) /\ I \in SUBSET (1..(k + 1)) /\ s[n + 1] = t[n + 1]
      BY <2>2
    <3>3. f[I] = Received(f[I \ {n + 1}], s[n + 1])
      BY <1>1, <3>1, <3>2, Zenon
    <3>4. g[I] = Received(g[I \ {n + 1}], t[n + 1])
      BY <1>2, <3>1, <3>2, Zenon
    <3>5. f[I \ {n + 1}] = g[I \ {n + 1}]
      BY <3>1, <2>3, Zenon
    <3> QED BY <3>2, <3>3, <3>4, <3>5, Zenon
  <2> QED BY <2>4, <2>5
<1> HIDE DEF S
<1>5. k \in S
  BY <1>3, <1>4, InductionOnNat
<1> QED BY <1>5 DEF S

LEMMA FoldNothing ==
    ASSUME NEW d
    PROVE  After(d, <<>>) = d
<1>1. DOMAIN <<>> = 1..0 /\ {} \in SUBSET (1..0) /\ 1..0 = {}
  OBVIOUS
<1> DEFINE f == CHOOSE g : Folds(d, <<>>, 1..0, g)
<1>2. Folds(d, <<>>, 1..0, f)
  <2>0. 0 \in Nat
    OBVIOUS
  <2>1. \E g : Folds(d, <<>>, 1..0, g)
    BY <2>0, FoldExists, Zenon
  <2> QED BY <2>1, Zenon
<1>3. After(d, <<>>) = f[1..0]
  BY FoldOf, <1>1
<1> HIDE DEF f
<1>4. f[{}] = d
  BY <1>1, <1>2, Zenon DEF Folds
<1> QED BY <1>1, <1>3, <1>4

(* An event more is received by what the device is after those before it.    *)
LEMMA FoldOneMore ==
    ASSUME NEW d, NEW s, NEW e, NEW n \in Nat, DOMAIN s = 1..n,
           NEW t, DOMAIN t = 1..(n + 1), t[n + 1] = e, \A i \in 1..n : t[i] = s[i]
    PROVE  After(d, t) = Received(After(d, s), e)
<1> DEFINE f == CHOOSE h : Folds(d, s, DOMAIN s, h)
           g == CHOOSE h : Folds(d, t, DOMAIN t, h)
<1>1. Folds(d, s, 1..n, f)
  <2>1. \E h : Folds(d, s, 1..n, h)
    BY FoldExists, Zenon
  <2>2. \E h : Folds(d, s, DOMAIN s, h)
    BY <2>1, Zenon
  <2>3. Folds(d, s, DOMAIN s, f)
    BY <2>2, Zenon
  <2> QED BY <2>3, Zenon
<1>2. Folds(d, t, 1..(n + 1), g)
  <2>0. n + 1 \in Nat
    OBVIOUS
  <2>1. \E h : Folds(d, t, 1..(n + 1), h)
    BY <2>0, FoldExists, Zenon
  <2>2. \E h : Folds(d, t, DOMAIN t, h)
    BY <2>1, Zenon
  <2>3. Folds(d, t, DOMAIN t, g)
    BY <2>2, Zenon
  <2> QED BY <2>3, Zenon
<1>3. After(d, s) = f[1..n]
  <2>1. After(d, s) = f[DOMAIN s]
    BY FoldOf, Zenon
  <2> HIDE DEF f
  <2> QED BY <2>1, Zenon
<1>4. After(d, t) = g[1..(n + 1)]
  <2>1. After(d, t) = g[DOMAIN t]
    BY FoldOf, Zenon
  <2> HIDE DEF g
  <2> QED BY <2>1, Zenon
<1> HIDE DEF f, g
<1>5. n <= n /\ n <= n + 1 /\ n + 1 \in Nat
  OBVIOUS
<1>a. \A i \in 1..n : s[i] = t[i]
  OBVIOUS
<1>6. \A I \in SUBSET (1..n) : f[I] = g[I]
  BY <1>1, <1>2, <1>a, FoldsAgree
<1>7. /\ 1..(n + 1) \in SUBSET (1..(n + 1)) /\ n + 1 \in 1..(n + 1)
      /\ (1..(n + 1)) \ {n + 1} = 1..n /\ 1..n \in SUBSET (1..n)
  OBVIOUS
<1>8. 1..(n + 1) # {} /\ Max(1..(n + 1)) = n + 1
  BY <1>7, MaxOfNext, Zenon
<1>9. g[1..(n + 1)] = Received(g[1..n], t[n + 1])
  BY <1>2, <1>7, <1>8, Zenon DEF Folds
<1> QED BY <1>3, <1>4, <1>6, <1>7, <1>9, Zenon

Codes == {"KEY_A", "KEY_1", "KEY_ENTER", "KEY_ESC", "KEY_LEFTCTRL", "KEY_LEFTALT",
          "KEY_LEFTMETA", "KEY_LEFTSHIFT", "BTN_LEFT"}
KeyEvents == [ev : {"key"}, code : Codes, down : BOOLEAN]
IsEvent(e) == e \in KeyEvents \/ e.ev \in {"abs", "wheel"}
IsDevice(d) == {"held", "text", "at"} \subseteq DOMAIN d /\ d.held \subseteq Codes

LEMMA ReceivesKey ==
    ASSUME NEW d, IsDevice(d), NEW e \in KeyEvents
    PROVE  /\ IsDevice(Received(d, e))
           /\ Received(d, e).held = IF e.down THEN d.held \cup {e.code} ELSE d.held \ {e.code}
<1>1. e.ev = "key" /\ e.code \in Codes
  BY DEF KeyEvents
<1>2. \E t : Received(d, e) =
        [d EXCEPT !.held = IF e.down THEN @ \cup {e.code} ELSE @ \ {e.code}, !.text = t]
  BY <1>1 DEF Received
<1> QED BY <1>1, <1>2 DEF IsDevice

LEMMA ReceivesOther ==
    ASSUME NEW d, IsDevice(d), NEW e, e.ev \in {"abs", "wheel"}
    PROVE  /\ IsDevice(Received(d, e))
           /\ Received(d, e).held = d.held /\ Received(d, e).text = d.text
BY DEF Received, IsDevice

Part(s, n) == [i \in 1..n |-> s[i]]

LEMMA PartOneMore ==
    ASSUME NEW d, NEW s, NEW n \in Nat
    PROVE  After(d, Part(s, n + 1)) = Received(After(d, Part(s, n)), s[n + 1])
<1>1. /\ DOMAIN Part(s, n) = 1..n /\ DOMAIN Part(s, n + 1) = 1..(n + 1)
      /\ Part(s, n + 1)[n + 1] = s[n + 1] /\ \A i \in 1..n : Part(s, n + 1)[i] = Part(s, n)[i]
  BY DEF Part
<1> QED BY <1>1, FoldOneMore

LEMMA PartOfNone ==
    ASSUME NEW d, NEW s
    PROVE  After(d, Part(s, 0)) = d
<1>1. Part(s, 0) = <<>>
  BY DEF Part
<1> QED BY <1>1, FoldNothing

(* The last event of a key that is down is that it was pressed; or it was    *)
(* down already, and has no event.                                           *)
About(e, c) == e.ev = "key" /\ e.code = c
LeftDown(s, n, c) == \E i \in 1..n : About(s[i], c) /\ s[i].down /\ \A j \in i + 1..n : ~About(s[j], c)
Untold(s, n, c) == \A i \in 1..n : ~About(s[i], c)
HeldAt(d, s, n) ==
    LET r == After(d, Part(s, n))
    IN  IsDevice(r) /\ \A c \in r.held : (c \in d.held /\ Untold(s, n, c)) \/ LeftDown(s, n, c)

LEMMA HeldNext ==
    ASSUME NEW d, NEW s, NEW n \in Nat, HeldAt(d, s, n), IsEvent(s[n + 1])
    PROVE  HeldAt(d, s, n + 1)
<1> DEFINE r == After(d, Part(s, n))
           q == Received(r, s[n + 1])
<1>1. After(d, Part(s, n + 1)) = q
  BY PartOneMore
<1>2. IsDevice(r) /\ \A c \in r.held : (c \in d.held /\ Untold(s, n, c)) \/ LeftDown(s, n, c)
  BY DEF HeldAt
<1> HIDE DEF r
<1>3. ASSUME NEW c, ~About(s[n + 1], c)
      PROVE  /\ Untold(s, n, c) => Untold(s, n + 1, c)
             /\ LeftDown(s, n, c) => LeftDown(s, n + 1, c)
  <2>1. ASSUME Untold(s, n, c), NEW i \in 1..(n + 1) PROVE ~About(s[i], c)
    <3>1. i = n + 1 \/ i \in 1..n
      OBVIOUS
    <3> QED BY <3>1, <1>3, <2>1, Zenon DEF Untold
  <2>2. ASSUME LeftDown(s, n, c) PROVE LeftDown(s, n + 1, c)
    <3>1. PICK i \in 1..n : About(s[i], c) /\ s[i].down /\ \A j \in i + 1..n : ~About(s[j], c)
      BY <2>2 DEF LeftDown
    <3>2. ASSUME NEW j \in i + 1..(n + 1) PROVE ~About(s[j], c)
      <4>1. j = n + 1 \/ j \in i + 1..n
        OBVIOUS
      <4> QED BY <4>1, <3>1, <1>3, Zenon
    <3>3. i \in 1..(n + 1)
      OBVIOUS
    <3> QED BY <3>1, <3>2, <3>3, Zenon DEF LeftDown
  <2>3. Untold(s, n, c) => Untold(s, n + 1, c)
    BY <2>1, Zenon DEF Untold
  <2> QED BY <2>2, <2>3
<1>4. CASE s[n + 1] \in KeyEvents
  <2>1. IsDevice(q) /\ q.held = IF s[n + 1].down THEN r.held \cup {s[n + 1].code} ELSE r.held \ {s[n + 1].code}
    BY <1>2, <1>4, ReceivesKey
  <2> HIDE DEF q
  <2>2. ASSUME NEW c \in q.held PROVE (c \in d.held /\ Untold(s, n + 1, c)) \/ LeftDown(s, n + 1, c)
    <3>1. CASE About(s[n + 1], c)
      <4>1. s[n + 1].down
        BY <2>1, <3>1 DEF About
      <4>2. n + 1 \in 1..(n + 1) /\ (n + 1) + 1..(n + 1) = {}
        OBVIOUS
      <4> QED BY <3>1, <4>1, <4>2 DEF LeftDown
    <3>2. CASE ~About(s[n + 1], c)
      <4>1. c \in r.held
        BY <2>1, <3>2, <1>4 DEF About, KeyEvents
      <4> QED BY <4>1, <1>2, <1>3, <3>2
    <3> QED BY <3>1, <3>2
  <2> QED BY <1>1, <2>1, <2>2, Zenon DEF HeldAt
<1>5. CASE s[n + 1].ev \in {"abs", "wheel"}
  <2>1. IsDevice(q) /\ q.held = r.held
    BY <1>2, <1>5, ReceivesOther
  <2> HIDE DEF q
  <2>2. \A c : ~About(s[n + 1], c)
    BY <1>5 DEF About
  <2>3. ASSUME NEW c \in q.held PROVE (c \in d.held /\ Untold(s, n + 1, c)) \/ LeftDown(s, n + 1, c)
    BY <1>2, <1>3, <2>1, <2>2
  <2> QED BY <1>1, <2>1, <2>3, Zenon DEF HeldAt
<1> QED BY <1>4, <1>5 DEF IsEvent

LEMMA HeldAll ==
    ASSUME NEW d, IsDevice(d), NEW s, NEW n \in Nat, \A i \in 1..n : IsEvent(s[i])
    PROVE  HeldAt(d, s, n)
<1> DEFINE S == {k \in Nat : k <= n => HeldAt(d, s, k)}
<1>1. 0 \in S
  <2>1. \A c : Untold(s, 0, c)
    BY DEF Untold
  <2> QED BY <2>1, PartOfNone DEF HeldAt
<1>2. ASSUME NEW k \in Nat, k \in S PROVE k + 1 \in S
  <2>1. ASSUME k + 1 <= n PROVE HeldAt(d, s, k + 1)
    <3>1. k <= n /\ k + 1 \in 1..n
      BY <2>1
    <3> QED BY <3>1, <1>2, HeldNext
  <2> QED BY <2>1
<1> HIDE DEF S
<1>3. n \in S
  BY <1>1, <1>2, InductionOnNat
<1> QED BY <1>3 DEF S

(* Whatever of a call is emitted, only its keys and those held before are    *)
(* down; a call that lifts each key it presses leaves none of its keys down. *)
Lifts(s, n) ==
    \A i \in 1..n : \A c : About(s[i], c) /\ s[i].down
        => \E j \in i + 1..n : About(s[j], c) /\ ~s[j].down

\* The keys the first n events name, and what carrying those events out leaves.
KeysUpTo(s, n) == {s[i].code : i \in {j \in 1..n : s[j].ev = "key"}}
Leaves(d, s, n, r) ==
    /\ IsDevice(r)
    /\ r.held \subseteq d.held \cup KeysUpTo(s, n)
    /\ Lifts(s, n) => r.held \subseteq d.held \ KeysUpTo(s, n)

LEMMA KeysAmongAll ==
    ASSUME NEW s, NEW n \in Nat, NEW m \in Nat, n <= m, DOMAIN s = 1..m
    PROVE  KeysUpTo(s, n) \subseteq KeysOf(s) /\ (n = m => KeysUpTo(s, n) = KeysOf(s))
<1>1. \A j : j \in 1..n => j \in DOMAIN s
  OBVIOUS
<1>2. KeysUpTo(s, n) \subseteq KeysOf(s)
  BY <1>1, Zenon DEF KeysUpTo, KeysOf
<1>3. n = m => KeysUpTo(s, n) = KeysOf(s)
  BY Zenon DEF KeysUpTo, KeysOf
<1> QED BY <1>2, <1>3

LEMMA HeldAfter ==
    ASSUME NEW d, IsDevice(d), NEW s, NEW n \in Nat, \A i \in 1..n : IsEvent(s[i])
    PROVE  Leaves(d, s, n, After(d, Part(s, n)))
<1> DEFINE r == After(d, Part(s, n))
<1>1. HeldAt(d, s, n)
  BY HeldAll
<1>2. IsDevice(r) /\ \A c \in r.held : (c \in d.held /\ Untold(s, n, c)) \/ LeftDown(s, n, c)
  BY <1>1 DEF HeldAt
<1>3. ASSUME NEW c, LeftDown(s, n, c) PROVE c \in KeysUpTo(s, n) /\ ~Lifts(s, n)
  BY <1>3 DEF LeftDown, Lifts, About, KeysUpTo
<1>4. ASSUME NEW c, Untold(s, n, c) PROVE c \notin KeysUpTo(s, n)
  BY <1>4 DEF Untold, About, KeysUpTo
<1> HIDE DEF r
<1>5. Leaves(d, s, n, r)
  BY <1>2, <1>3, <1>4 DEF Leaves
<1> QED BY <1>5, Zenon DEF r

-----------------------------------------------------------------------------
(* The events of the calls.                                                  *)
LEMMA FirstOf ==
    ASSUME NEW n \in Nat, NEW I \in SUBSET (1..n), NEW m, m = IF I # {} THEN Min(I) ELSE 0
    PROVE  \/ I = {} /\ m = 0
           \/ m \in I /\ m \in 1..n /\ \A i \in 1..(m - 1) : i \notin I
<1>1. CASE I # {}
  <2>1. I \in SUBSET Nat
    OBVIOUS
  <2>2. PICK z \in I : \A j \in I : z <= j
    BY <1>1, <2>1, LeastIn
  <2>3. Min(I) \in I /\ \A j \in I : Min(I) <= j
    <3>1. \E x \in I : \A y \in I : x =< y
      BY <2>2
    <3> QED BY <3>1, Zenon DEF Min
  <2> DEFINE k == Min(I)
  <2>4. k \in I /\ \A j \in I : k <= j
    BY <2>3
  <2> HIDE DEF k
  <2>5. k \in 1..n /\ \A i \in 1..(k - 1) : i \notin I
    BY <2>4
  <2> QED BY <1>1, <2>4, <2>5, Zenon DEF k
<1> QED BY <1>1

LEMMA StopsAt ==
    ASSUME NEW s, NEW n \in Nat, Len(s) = n
    PROVE  \/ UpToStop(s) = 0 /\ \A i \in 1..n : s[i] # Stop
           \/ /\ UpToStop(s) \in 1..n /\ s[UpToStop(s)] = Stop
              /\ \A i \in 1..(UpToStop(s) - 1) : s[i] # Stop
<1> DEFINE I == {i \in 1..n : s[i] = Stop}
           m == IF I # {} THEN Min(I) ELSE 0
<1>1. UpToStop(s) = m
  BY DEF UpToStop, SelectInSeq
<1>2. I \in SUBSET (1..n)
  OBVIOUS
<1>3. \/ I = {} /\ m = 0
      \/ m \in I /\ m \in 1..n /\ \A i \in 1..(m - 1) : i \notin I
  <2> HIDE DEF I
  <2> QED BY <1>2, FirstOf
<1> HIDE DEF m
<1>4. CASE I = {} /\ m = 0
  BY <1>1, <1>4
<1>5. CASE m \in I /\ m \in 1..n /\ \A i \in 1..(m - 1) : i \notin I
  <2>1. ASSUME NEW i \in 1..(m - 1) PROVE s[i] # Stop
    <3>1. i \in 1..n
      BY <1>5
    <3> QED BY <1>5, <3>1
  <2> QED BY <1>1, <1>5, <2>1
<1> QED BY <1>3, <1>4, <1>5

LEMMA BadAt ==
    ASSUME NEW s, NEW n \in Nat, Len(s) = n
    PROVE  LET bad == SelectInSeq(s, LAMBDA c : char_to_key(c) = {})
           IN  \/ bad = 0 /\ \A i \in 1..n : char_to_key(s[i]) # {}
               \/ /\ bad \in 1..n /\ char_to_key(s[bad]) = {}
                  /\ \A i \in 1..(bad - 1) : char_to_key(s[i]) # {}
<1> DEFINE I == {i \in 1..n : char_to_key(s[i]) = {}}
           m == IF I # {} THEN Min(I) ELSE 0
<1>1. SelectInSeq(s, LAMBDA c : char_to_key(c) = {}) = m
  BY DEF SelectInSeq
<1>2. I \in SUBSET (1..n)
  OBVIOUS
<1>3. \/ I = {} /\ m = 0
      \/ m \in I /\ m \in 1..n /\ \A i \in 1..(m - 1) : i \notin I
  <2> HIDE DEF I
  <2> QED BY <1>2, FirstOf
<1> HIDE DEF m
<1>4. CASE I = {} /\ m = 0
  BY <1>1, <1>4
<1>5. CASE m \in I /\ m \in 1..n /\ \A i \in 1..(m - 1) : i \notin I
  <2>1. ASSUME NEW i \in 1..(m - 1) PROVE char_to_key(s[i]) # {}
    <3>1. i \in 1..n
      BY <1>5
    <3> QED BY <1>5, <3>1
  <2> QED BY <1>1, <1>5, <2>1
<1> QED BY <1>3, <1>4, <1>5

(* A key by its name, and the keys of a chord: position i is lifted at its   *)
(* mirror image.                                                             *)
LEMMA KeyboardIs ==
    ASSUME NEW k \in Keyboard
    PROVE  \/ k.code = "KEY_A" /\ k.plain = "a" /\ k.shifted = "A"
           \/ k.code = "KEY_1" /\ k.plain = "1" /\ k.shifted = "!"
<1> DEFINE a == [code |-> "KEY_A", plain |-> "a", shifted |-> "A", letter |-> TRUE]
           b == [code |-> "KEY_1", plain |-> "1", shifted |-> "!", letter |-> FALSE]
<1>1. k = a \/ k = b
  BY Zenon DEF Keyboard
<1>2. a.code = "KEY_A" /\ a.plain = "a" /\ a.shifted = "A"
  OBVIOUS
<1>3. b.code = "KEY_1" /\ b.plain = "1" /\ b.shifted = "!"
  OBVIOUS
<1> HIDE DEF a, b
<1> QED BY <1>1, <1>2, <1>3

LEMMA KeyOfName ==
    ASSUME NEW name, NEW isDown \in BOOLEAN
    PROVE  /\ parse_key(name) \subseteq Codes
           /\ KeyOrStop(parse_key(name), isDown) \in KeyEvents \cup {Stop}
<1>1. ASSUME NEW x, NEW y \in char_to_code(x) PROVE y \in Codes
  <2>1. PICK k \in Keyboard : y = k.code
    BY Zenon DEF char_to_code
  <2> QED BY <2>1, KeyboardIs DEF Codes
<1>b. DOMAIN KeyNames = {"enter", "escape", "ctrl", "alt", "super", "leftshift"}
  BY DEF KeyNames
<1>c. /\ KeyNames["enter"] = "KEY_ENTER" /\ KeyNames["escape"] = "KEY_ESC"
      /\ KeyNames["ctrl"] = "KEY_LEFTCTRL" /\ KeyNames["alt"] = "KEY_LEFTALT"
      /\ KeyNames["super"] = "KEY_LEFTMETA" /\ KeyNames["leftshift"] = "KEY_LEFTSHIFT"
  BY DEF KeyNames
<1>2. \A x : x \in DOMAIN KeyNames => KeyNames[x] \in Codes
  <2> SUFFICES ASSUME NEW x \in DOMAIN KeyNames PROVE KeyNames[x] \in Codes
    OBVIOUS
  <2> HIDE DEF KeyNames
  <2>1. x \in {"enter", "escape", "ctrl", "alt", "super", "leftshift"}
    BY <1>b, Zenon
  <2>2. KeyNames[x] \in {"KEY_ENTER", "KEY_ESC", "KEY_LEFTCTRL", "KEY_LEFTALT", "KEY_LEFTMETA",
                         "KEY_LEFTSHIFT"}
    BY <2>1, <1>c, Zenon
  <2> QED BY <2>2 DEF Codes
<1>3. parse_key(name) \subseteq Codes
  BY <1>1, <1>2 DEF parse_key
<1>4. ASSUME parse_key(name) # {} PROVE (CHOOSE c \in parse_key(name) : TRUE) \in Codes
  BY <1>3, <1>4
<1> QED BY <1>3, <1>4 DEF KeyOrStop, Key, KeyEvents

LEMMA ChordIs ==
    ASSUME NEW names \in Seq(STRING), names # <<>>
    PROVE  /\ keypress(names) \in Seq(KeyEvents \cup {Stop})
           /\ Len(keypress(names)) = 2 * Len(names)
           /\ \A i \in 1..2 * Len(names) :
                 keypress(names)[i] = IF i <= Len(names) THEN KeyOrStop(parse_key(names[i]), TRUE)
                                      ELSE KeyOrStop(parse_key(names[2 * Len(names) + 1 - i]), FALSE)
<1> DEFINE n == Len(names)
           P(i) == KeyOrStop(parse_key(names[i]), TRUE)
           U(i) == KeyOrStop(parse_key(names[i]), FALSE)
           E == KeyEvents \cup {Stop}
           mods == Front(names)
           a == [i \in DOMAIN mods |-> KeyOrStop(parse_key(mods[i]), TRUE)]
           b == tapKey(Last(names))
           c == [i \in DOMAIN mods |-> KeyOrStop(parse_key(mods[i]), FALSE)]
<1>1. n \in Nat \ {0} /\ \A i \in 1..n : names[i] \in STRING
  OBVIOUS
<1>2. \A i \in 1..n : P(i) \in E /\ U(i) \in E
  BY <1>1, KeyOfName
<1>3. DOMAIN mods = 1..(n - 1) /\ \A i \in 1..(n - 1) : mods[i] = names[i]
  BY <1>1 DEF Front
<1> HIDE DEF n, P, U, E, mods
<1>4. a \in Seq(E) /\ Len(a) = n - 1 /\ \A i \in 1..(n - 1) : a[i] = P(i)
  <2>1. a = [i \in 1..(n - 1) |-> P(i)]
    BY <1>3 DEF P, U
  <2>2. \A i \in 1..(n - 1) : P(i) \in E
    BY <1>1, <1>2
  <2> HIDE DEF a
  <2> QED BY <1>1, <2>1, <2>2
<1>5. c \in Seq(E) /\ Len(c) = n - 1 /\ \A i \in 1..(n - 1) : c[i] = U(i)
  <2>1. c = [i \in 1..(n - 1) |-> U(i)]
    BY <1>3 DEF P, U
  <2>2. \A i \in 1..(n - 1) : U(i) \in E
    BY <1>1, <1>2
  <2> HIDE DEF c
  <2> QED BY <1>1, <2>1, <2>2
<1>6. b = <<P(n), U(n)>>
  BY DEF tapKey, Last, P, U, n
<1>7. b \in Seq(E) /\ Len(b) = 2 /\ b[1] = P(n) /\ b[2] = U(n)
  <2>1. P(n) \in E /\ U(n) \in E
    BY <1>1, <1>2
  <2> HIDE DEF b
  <2> QED BY <1>6, <2>1
<1>8. keypress(names) = a \o b \o Reverse(c)
  BY DEF keypress, mods
<1> HIDE DEF a, b, c
<1> DEFINE r == Reverse(c)
<1>9. r \in Seq(E) /\ Len(r) = n - 1 /\ \A i \in 1..(n - 1) : r[i] = U(n - i)
  <2>1. r = [i \in 1..(n - 1) |-> c[(n - 1 - i) + 1]]
    BY <1>5 DEF Reverse
  <2>2. \A i \in 1..(n - 1) : (n - 1 - i) + 1 \in 1..(n - 1) /\ (n - 1 - i) + 1 = n - i
    BY <1>1
  <2>3. \A i \in 1..(n - 1) : c[(n - 1 - i) + 1] \in E
    BY <1>5, <2>2
  <2> HIDE DEF r
  <2> QED BY <1>1, <1>5, <2>1, <2>2, <2>3
<1> HIDE DEF r
<1> DEFINE w == keypress(names)
           ab == a \o b
<1>10. w = ab \o r
  BY <1>8 DEF r
<1>13. /\ ab \in Seq(E) /\ Len(ab) = n + 1
       /\ \A i \in 1..(n - 1) : ab[i] = P(i)
       /\ ab[n] = P(n) /\ ab[n + 1] = U(n)
  <2>1. ab \in Seq(E) /\ Len(ab) = Len(a) + Len(b)
        /\ \A i \in 1..(Len(a) + Len(b)) : ab[i] = IF i <= Len(a) THEN a[i] ELSE b[i - Len(a)]
    BY <1>4, <1>7, ConcatProperties
  <2> HIDE DEF ab
  <2>2. Len(a) + Len(b) = n + 1 /\ Len(a) = n - 1
    BY <1>1, <1>4, <1>7
  <2>3. \A i \in 1..(n + 1) : ab[i] = IF i <= n - 1 THEN a[i] ELSE b[i - (n - 1)]
    BY <2>1, <2>2
  <2>4. ASSUME NEW i \in 1..(n - 1) PROVE ab[i] = P(i)
    BY <1>1, <1>4, <2>3
  <2>5. ab[n] = b[1] /\ ab[n + 1] = b[2]
    <3>1. /\ n \in 1..(n + 1) /\ n - (n - 1) = 1 /\ ~(n <= n - 1)
          /\ n + 1 \in 1..(n + 1) /\ (n + 1) - (n - 1) = 2 /\ ~(n + 1 <= n - 1)
      BY <1>1
    <3> QED BY <2>3, <3>1, Zenon
  <2> QED BY <1>7, <2>1, <2>2, <2>4, <2>5
<1> HIDE DEF w, ab
<1>14. w \in Seq(E) /\ Len(w) = Len(ab) + Len(r)
       /\ \A i \in 1..(Len(ab) + Len(r)) : w[i] = IF i <= Len(ab) THEN ab[i] ELSE r[i - Len(ab)]
  BY <1>9, <1>10, <1>13, ConcatProperties
<1>11. w \in Seq(E) /\ Len(w) = 2 * n
  BY <1>1, <1>13, <1>9, <1>14
<1>12. ASSUME NEW i \in 1..2 * n
       PROVE  w[i] = IF i <= n THEN P(i) ELSE U(2 * n + 1 - i)
  <2>1. CASE i <= n - 1
    BY <1>1, <1>13, <1>9, <1>14, <2>1
  <2>2. CASE i = n
    BY <1>1, <1>13, <1>9, <1>14, <2>2
  <2>3. CASE i = n + 1
    BY <1>1, <1>13, <1>9, <1>14, <2>3
  <2>4. CASE i > n + 1
    <3>1. i - n - 1 \in 1..(n - 1) /\ n - (i - n - 1) = 2 * n + 1 - i
      BY <1>1, <2>4
    <3>2. w[i] = r[i - n - 1]
      BY <1>1, <1>13, <1>9, <1>14, <2>4
    <3> QED BY <1>1, <1>9, <2>4, <3>1, <3>2
  <2> QED BY <1>1, <2>1, <2>2, <2>3, <2>4
<1> QED BY <1>11, <1>12, Zenon DEF w, P, U, E, n

LEMMA ChordLifts ==
    ASSUME NEW names \in Seq(STRING), names # <<>>,
           \A i \in 1..2 * Len(names) : keypress(names)[i] # Stop
    PROVE  Lifts(keypress(names), 2 * Len(names))
<1> DEFINE n == Len(names)
           w == keypress(names)
           codes(i) == parse_key(names[i])
<1>1. n \in Nat \ {0}
  OBVIOUS
<1>2. \A i \in 1..2 * n : w[i] = IF i <= n THEN KeyOrStop(codes(i), TRUE)
                                 ELSE KeyOrStop(codes(2 * n + 1 - i), FALSE)
  BY ChordIs, Zenon
<1> HIDE DEF n, w, codes
<1>3. ASSUME NEW i \in 1..2 * n, NEW c, About(w[i], c), w[i].down
      PROVE  \E j \in i + 1..2 * n : About(w[j], c) /\ ~w[j].down
  <2>1. w[i] # Stop
    BY DEF w, n
  <2>2. i <= n
    <3>1. SUFFICES ASSUME i > n PROVE FALSE
      BY <1>1
    <3>2. w[i] = KeyOrStop(codes(2 * n + 1 - i), FALSE)
      <4>1. ~(i <= n)
        BY <1>1, <3>1
      <4> QED BY <1>2, <4>1, Zenon
    <3> QED BY <1>3, <2>1, <3>2 DEF KeyOrStop, Key
  <2> DEFINE j == 2 * n + 1 - i
  <2>3. j \in i + 1..2 * n /\ j \in 1..2 * n /\ ~(j <= n) /\ 2 * n + 1 - j = i
    BY <1>1, <2>2
  <2> HIDE DEF j
  <2>4. w[i] = KeyOrStop(codes(i), TRUE) /\ w[j] = KeyOrStop(codes(i), FALSE) /\ w[j] # Stop
    BY <1>2, <2>2, <2>3 DEF w, n
  <2>5. About(w[j], c) /\ ~w[j].down
    BY <1>3, <2>1, <2>4 DEF KeyOrStop, Key, About
  <2> QED BY <2>3, <2>5
<1> QED BY <1>3, Zenon DEF Lifts, w, n

-----------------------------------------------------------------------------
(* Sequences of events that leave nothing down of their own.                 *)
Events(x) == KeyEvents \cup {Stop, [ev |-> "wheel"], [ev |-> "abs", at |-> scale(x, ScreenHint)]}
Solid(g, x) ==
    /\ g \in Seq(Events(x))
    /\ \A i \in 1..Len(g) : IsEvent(g[i]) /\ g[i] # Stop
    /\ Lifts(g, Len(g))

LEMMA EventsAre ==
    ASSUME NEW x, NEW e \in Events(x), e # Stop
    PROVE  IsEvent(e)
BY DEF Events, IsEvent

LEMMA StopIsNone == ~IsEvent(Stop)
BY DEF IsEvent, Stop, KeyEvents

LEMMA SolidJoin ==
    ASSUME NEW x, NEW g, NEW h, Solid(g, x), Solid(h, x)
    PROVE  Solid(g \o h, x)
<1> DEFINE w == g \o h
           m == Len(g)
           n == Len(h)
<1>1. /\ w \in Seq(Events(x)) /\ Len(w) = m + n /\ m \in Nat /\ n \in Nat
      /\ \A i \in 1..(m + n) : w[i] = IF i <= m THEN g[i] ELSE h[i - m]
  BY ConcatProperties DEF Solid
<1>2. /\ \A i \in 1..m : IsEvent(g[i]) /\ g[i] # Stop
      /\ \A i \in 1..n : IsEvent(h[i]) /\ h[i] # Stop
      /\ Lifts(g, m) /\ Lifts(h, n)
  BY DEF Solid
<1> HIDE DEF w, m, n
<1>3. ASSUME NEW i \in 1..(m + n) PROVE IsEvent(w[i]) /\ w[i] # Stop
  BY <1>1, <1>2, <1>3
<1>4. ASSUME NEW i \in 1..(m + n), NEW c, About(w[i], c), w[i].down
      PROVE  \E j \in i + 1..(m + n) : About(w[j], c) /\ ~w[j].down
  <2>1. CASE i <= m
    <3>1. i \in 1..m /\ w[i] = g[i]
      BY <1>1, <2>1
    <3>2. PICK j \in i + 1..m : About(g[j], c) /\ ~g[j].down
      BY <1>2, <1>4, <3>1 DEF Lifts
    <3>3. j \in i + 1..(m + n) /\ w[j] = g[j]
      BY <1>1, <3>1
    <3> QED BY <3>2, <3>3
  <2>2. CASE i > m
    <3>1. i - m \in 1..n /\ w[i] = h[i - m]
      BY <1>1, <2>2
    <3>2. PICK j \in (i - m) + 1..n : About(h[j], c) /\ ~h[j].down
      BY <1>2, <1>4, <3>1 DEF Lifts
    <3>3. j + m \in i + 1..(m + n) /\ w[j + m] = h[j]
      <4>1. j + m \in 1..(m + n) /\ ~(j + m <= m) /\ (j + m) - m = j /\ j + m \in i + 1..(m + n)
        BY <1>1, <2>2
      <4> QED BY <1>1, <4>1
    <3> QED BY <3>2, <3>3
  <2> QED BY <1>1, <2>1, <2>2
<1>5. Lifts(w, m + n)
  BY <1>4, Zenon DEF Lifts
<1> QED BY <1>1, <1>3, <1>5, Zenon DEF Solid, w

LEMMA TapIsSolid ==
    ASSUME NEW x, NEW code \in Codes
    PROVE  Solid(<<Key(code, TRUE), Key(code, FALSE)>>, x)
<1> DEFINE a == Key(code, TRUE)
           b == Key(code, FALSE)
           w == <<a, b>>
<1>1. /\ a \in KeyEvents /\ b \in KeyEvents /\ a # Stop /\ b # Stop
      /\ \A c : (About(a, c) <=> c = code) /\ (About(b, c) <=> c = code)
      /\ ~b.down
  BY DEF Key, KeyEvents, Stop, About
<1> HIDE DEF a, b
<1>2. w \in Seq(Events(x)) /\ Len(w) = 2 /\ w[1] = a /\ w[2] = b
  BY <1>1 DEF Events
<1> HIDE DEF w
<1>3. \A i \in 1..2 : IsEvent(w[i]) /\ w[i] # Stop
  BY <1>1, <1>2 DEF IsEvent
<1>4. Lifts(w, 2)
  <2>1. ASSUME NEW i \in 1..2, NEW c, About(w[i], c), w[i].down
        PROVE  \E j \in i + 1..2 : About(w[j], c) /\ ~w[j].down
    <3>1. i = 1 \/ i = 2
      OBVIOUS
    <3>2. i = 1
      BY <1>1, <1>2, <2>1, <3>1
    <3>3. 2 \in i + 1..2
      BY <3>2
    <3> QED BY <1>1, <1>2, <2>1, <3>2, <3>3
  <2> QED BY <2>1, Zenon DEF Lifts
<1> QED BY <1>2, <1>3, <1>4, Zenon DEF Solid, w, a, b

LEMMA ShiftedIsSolid ==
    ASSUME NEW x, NEW code \in Codes \ {"KEY_LEFTSHIFT"}
    PROVE  Solid(<<Key("KEY_LEFTSHIFT", TRUE), Key(code, TRUE), Key(code, FALSE),
                   Key("KEY_LEFTSHIFT", FALSE)>>, x)
<1> DEFINE a == Key(code, TRUE)
           b == Key(code, FALSE)
           p == Key("KEY_LEFTSHIFT", TRUE)
           q == Key("KEY_LEFTSHIFT", FALSE)
           w == <<p, a, b, q>>
<1>1. /\ {a, b, p, q} \subseteq KeyEvents /\ a # Stop /\ b # Stop /\ p # Stop /\ q # Stop
      /\ \A c : (About(a, c) <=> c = code) /\ (About(b, c) <=> c = code)
      /\ \A c : (About(p, c) <=> c = "KEY_LEFTSHIFT") /\ (About(q, c) <=> c = "KEY_LEFTSHIFT")
      /\ ~b.down /\ ~q.down
  BY DEF Key, KeyEvents, Stop, About, Codes
<1> HIDE DEF a, b, p, q
<1>2. w \in Seq(Events(x)) /\ Len(w) = 4 /\ w[1] = p /\ w[2] = a /\ w[3] = b /\ w[4] = q
  BY <1>1 DEF Events
<1> HIDE DEF w
<1>3. \A i \in 1..4 : IsEvent(w[i]) /\ w[i] # Stop
  BY <1>1, <1>2 DEF IsEvent
<1>4. Lifts(w, 4)
  <2>1. ASSUME NEW i \in 1..4, NEW c, About(w[i], c), w[i].down
        PROVE  \E j \in i + 1..4 : About(w[j], c) /\ ~w[j].down
    <3>1. i = 1 \/ i = 2 \/ i = 3 \/ i = 4
      OBVIOUS
    <3>2. i = 1 \/ i = 2
      BY <1>1, <1>2, <2>1, <3>1
    <3>3. CASE i = 1
      <4>1. 4 \in i + 1..4
        BY <3>3
      <4> QED BY <1>1, <1>2, <2>1, <3>3, <4>1
    <3>4. CASE i = 2
      <4>1. 3 \in i + 1..4
        BY <3>4
      <4> QED BY <1>1, <1>2, <2>1, <3>4, <4>1
    <3> QED BY <3>2, <3>3, <3>4
  <2> QED BY <2>1, Zenon DEF Lifts
<1> QED BY <1>2, <1>3, <1>4, Zenon DEF Solid, w, a, b, p, q

LEMMA PointerIsSolid ==
    ASSUME NEW x
    PROVE  Solid(moveTo(x), x) /\ Solid(click(x), x) /\ Solid(scroll(x), x)
<1> DEFINE a == [ev |-> "abs", at |-> scale(x, ScreenHint)]
           b == [ev |-> "wheel"]
<1>1. ASSUME NEW e \in {a, b} PROVE Solid(<<e>>, x)
  <2>1. e \in Events(x)
    BY Zenon DEF Events
  <2>2. e # Stop /\ \A c : ~About(e, c)
    BY DEF Stop, About
  <2>3. IsEvent(e)
    BY <2>1, <2>2, EventsAre
  <2> DEFINE w == <<e>>
  <2>4. w \in Seq(Events(x)) /\ Len(w) = 1 /\ w[1] = e
    BY <2>1
  <2> HIDE DEF w, a, b
  <2>5. \A i \in 1..1 : i = 1
    OBVIOUS
  <2>6. Lifts(w, 1)
    BY <2>2, <2>4, <2>5 DEF Lifts
  <2>7. \A i \in 1..1 : IsEvent(w[i]) /\ w[i] # Stop
    BY <2>2, <2>3, <2>4, <2>5
  <2> QED BY <2>4, <2>6, <2>7, Zenon DEF Solid, w
<1>2. Solid(<<a>>, x) /\ Solid(<<b>>, x)
  BY <1>1
<1>3. "BTN_LEFT" \in Codes
  BY DEF Codes
<1>4. Solid(<<a>> \o <<Key("BTN_LEFT", TRUE), Key("BTN_LEFT", FALSE)>>, x)
  BY <1>2, <1>3, TapIsSolid, SolidJoin
<1>5. Solid(<<a>> \o <<b>>, x)
  BY <1>2, SolidJoin
<1> QED BY <1>2, <1>4, <1>5 DEF moveTo, click, scroll

-----------------------------------------------------------------------------
(* The text a program reads.                                                 *)
LEMMA SeqOfOne ==
    ASSUME NEW x
    PROVE  SetToSeq({x}) = <<x>>
<1>1. Cardinality({x}) = 1
  BY FS_Singleton
<1>2. <<x>> \in [1..1 -> {x}] /\ IsInjective(<<x>>)
  BY DEF IsInjective
<1>3. \A f \in [1..1 -> {x}] : f = <<x>>
  OBVIOUS
<1>4. SetToSeq({x}) = CHOOSE f \in [1..1 -> {x}] : IsInjective(f)
  BY <1>1 DEF SetToSeq
<1>5. SetToSeq({x}) \in [1..1 -> {x}]
  BY <1>2, <1>4, Zenon
<1> QED BY <1>3, <1>5

LEMMA ReadsNothing ==
    ASSUME NEW d, IsDevice(d), NEW e \in KeyEvents, e.down = FALSE \/ e.code \notin {"KEY_A", "KEY_1"}
    PROVE  Received(d, e).text = d.text
<1>1. e.ev = "key"
  BY DEF KeyEvents
<1> DEFINE typed == {IF "KEY_LEFTSHIFT" \in d.held THEN k.shifted ELSE k.plain :
                         k \in {q \in Keyboard : q.code = e.code}}
<1>2. e.down = FALSE \/ typed = {}
  <2>1. ASSUME e.code \notin {"KEY_A", "KEY_1"} PROVE {q \in Keyboard : q.code = e.code} = {}
    BY <2>1, KeyboardIs
  <2> QED BY <2>1
<1> HIDE DEF typed
<1>3. \E h : Received(d, e) = [d EXCEPT !.held = h, !.text = d.text]
  BY <1>1, <1>2 DEF Received, typed
<1> QED BY <1>3 DEF IsDevice

LEMMA ReadsLetter ==
    ASSUME NEW d, IsDevice(d), d.held \subseteq {"KEY_LEFTSHIFT"}, NEW k \in Keyboard
    PROVE  Received(d, Key(k.code, TRUE)).text =
               d.text \o <<IF "KEY_LEFTSHIFT" \in d.held THEN k.shifted ELSE k.plain>>
<1> DEFINE e == Key(k.code, TRUE)
           read == IF "KEY_LEFTSHIFT" \in d.held THEN k.shifted ELSE k.plain
           keys == {q \in Keyboard : q.code = k.code}
           typed == {IF "KEY_LEFTSHIFT" \in d.held THEN q.shifted ELSE q.plain : q \in keys}
           shortcut == d.held \cap {"KEY_LEFTCTRL", "KEY_LEFTALT", "KEY_LEFTMETA"} # {}
<1>1. e.ev = "key" /\ e.code = k.code /\ e.down = TRUE
  BY DEF Key
<1>2. \A q \in keys : q.shifted = k.shifted /\ q.plain = k.plain
  BY KeyboardIs
<1>3. k \in keys
  OBVIOUS
<1>4. typed = {read}
  BY <1>2, <1>3
<1>5. ~shortcut
  OBVIOUS
<1>6. Received(d, e) = LET t == typed s == shortcut IN
        [d EXCEPT !.held = IF e.down THEN @ \cup {e.code} ELSE @ \ {e.code},
                  !.text = IF e.down /\ t # {} /\ ~s THEN @ \o SetToSeq(t) ELSE @]
  BY <1>1 DEF Received
<1>7. typed # {} /\ SetToSeq(typed) = <<read>>
  BY <1>4, SeqOfOne
<1> HIDE DEF e, read, typed, shortcut, keys
<1>8. \E h : Received(d, e) = [d EXCEPT !.held = h, !.text = d.text \o <<read>>]
  BY <1>1, <1>5, <1>6, <1>7
<1>9. Received(d, e).text = d.text \o <<read>>
  BY <1>8 DEF IsDevice
<1> QED BY <1>9, Zenon DEF e, read

LEMMA FourInOne ==
    ASSUME NEW a, NEW b, NEW c, NEW d
    PROVE  <<a>> \o <<b, c>> \o <<d>> = <<a, b, c, d>>
<1> DEFINE S == {a, b, c, d}
           u == <<a>> \o <<b, c>>
           w == u \o <<d>>
           v == <<a, b, c, d>>
<1>1. <<a>> \in Seq(S) /\ <<b, c>> \in Seq(S) /\ <<d>> \in Seq(S)
  OBVIOUS
<1>2. u \in Seq(S) /\ Len(u) = 3 /\ \A i \in 1..3 : u[i] = IF i <= 1 THEN <<a>>[i] ELSE <<b, c>>[i - 1]
  BY <1>1, ConcatProperties
<1>3. u[1] = a /\ u[2] = b /\ u[3] = c
  BY <1>2
<1> HIDE DEF u
<1>4. w \in Seq(S) /\ Len(w) = 4 /\ \A i \in 1..4 : w[i] = IF i <= 3 THEN u[i] ELSE <<d>>[i - 3]
  <2>1. /\ w \in Seq(S) /\ Len(w) = Len(u) + Len(<<d>>)
        /\ \A i \in 1..Len(u) + Len(<<d>>) :
              w[i] = IF i <= Len(u) THEN u[i] ELSE <<d>>[i - Len(u)]
    BY <1>1, <1>2, ConcatProperties, Zenon
  <2>2. Len(u) + Len(<<d>>) = 4 /\ Len(u) = 3
    BY <1>2
  <2> QED BY <2>1, <2>2, Zenon
<1>5. w[1] = a /\ w[2] = b /\ w[3] = c /\ w[4] = d
  BY <1>3, <1>4
<1>6. v \in Seq(S) /\ Len(v) = 4 /\ v[1] = a /\ v[2] = b /\ v[3] = c /\ v[4] = d
  OBVIOUS
<1> HIDE DEF w, v
<1>7. \A i \in 1..4 : w[i] = v[i]
  <2>1. \A i \in 1..4 : i = 1 \/ i = 2 \/ i = 3 \/ i = 4
    OBVIOUS
  <2> QED BY <2>1, <1>5, <1>6
<1>8. w = v
  BY <1>4, <1>6, <1>7, SeqEqual
<1> QED BY <1>8, Zenon DEF w, v, u

(* A character that has a key is what its events type.                       *)
LEMMA CharIs ==
    ASSUME NEW c, char_to_key(c) # {}
    PROVE  \E k \in Keyboard :
               \/ /\ c = k.shifted
                  /\ type_char(c) = <<Key("KEY_LEFTSHIFT", TRUE), Key(k.code, TRUE),
                                      Key(k.code, FALSE), Key("KEY_LEFTSHIFT", FALSE)>>
               \/ /\ c = k.plain
                  /\ type_char(c) = <<Key(k.code, TRUE), Key(k.code, FALSE)>>
<1> DEFINE k == CHOOSE q \in char_to_key(c) : TRUE
           a == Key("KEY_LEFTSHIFT", TRUE)
           b == Key("KEY_LEFTSHIFT", FALSE)
           t == <<Key(k.code, TRUE), Key(k.code, FALSE)>>
<1>1. k \in Keyboard /\ c \in {k.plain, k.shifted}
  BY Zenon DEF char_to_key
<1>2. type_char(c) = IF NeedsShift(c) THEN <<a>> \o t \o <<b>> ELSE t
  BY Zenon DEF type_char
<1>3. <<a>> \o t \o <<b>> = <<a, Key(k.code, TRUE), Key(k.code, FALSE), b>>
  <2> DEFINE p == Key(k.code, TRUE)
             q == Key(k.code, FALSE)
  <2> HIDE DEF a, b, p, q
  <2> QED BY FourInOne, Zenon DEF p, q
<1>4. NeedsShift(c) => c = k.shifted
  <2>1. ASSUME NeedsShift(c) PROVE c = k.shifted
    <3>1. PICK q \in Keyboard : c = q.shifted
      BY <2>1, Zenon DEF NeedsShift
    <3> HIDE DEF k
    <3> QED BY <1>1, <3>1, KeyboardIs
  <2> QED BY <2>1
<1>5. ~NeedsShift(c) => c = k.plain
  BY <1>1, Zenon DEF NeedsShift
<1> HIDE DEF k
<1> QED BY <1>1, <1>2, <1>3, <1>4, <1>5, Zenon

LEMMA AfterOneMore ==
    ASSUME NEW d, NEW S, NEW g \in Seq(S), NEW e \in S
    PROVE  After(d, g \o <<e>>) = Received(After(d, g), e)
<1> DEFINE t == g \o <<e>>
           n == Len(g)
<1>1. /\ n \in Nat /\ DOMAIN g = 1..n /\ DOMAIN t = 1..(n + 1) /\ t[n + 1] = e
      /\ \A i \in 1..n : t[i] = g[i]
  OBVIOUS
<1> HIDE DEF t, n
<1>2. After(d, t) = Received(After(d, g), e)
  BY <1>1, FoldOneMore
<1> QED BY <1>2, Zenon DEF t

(* What a device is when all a text's keys are up again.                     *)
Read(d, g, t) ==
    IsDevice(After(d, g)) /\ After(d, g).held = {} /\ After(d, g).text = t

LEMMA KeyStep ==
    ASSUME NEW r, IsDevice(r), NEW c \in Codes, NEW isDown \in BOOLEAN
    PROVE  /\ IsDevice(Received(r, Key(c, isDown)))
           /\ Received(r, Key(c, isDown)).held = IF isDown THEN r.held \cup {c} ELSE r.held \ {c}
<1>1. Key(c, isDown) \in KeyEvents /\ Key(c, isDown).down = isDown /\ Key(c, isDown).code = c
  BY DEF Key, KeyEvents
<1> QED BY <1>1, ReceivesKey

LEMMA TapReads ==
    ASSUME NEW r, IsDevice(r), NEW k \in Keyboard, r.held \subseteq {"KEY_LEFTSHIFT"},
           NEW q, q = Received(Received(r, Key(k.code, TRUE)), Key(k.code, FALSE))
    PROVE  /\ IsDevice(q) /\ q.held = r.held
           /\ q.text = r.text \o <<IF "KEY_LEFTSHIFT" \in r.held THEN k.shifted ELSE k.plain>>
<1> DEFINE p == Received(r, Key(k.code, TRUE))
<1>1. k.code \in Codes /\ k.code # "KEY_LEFTSHIFT"
  BY KeyboardIs DEF Codes
<1>2. IsDevice(p) /\ p.held = r.held \cup {k.code}
  BY <1>1, KeyStep
<1>3. p.text = r.text \o <<IF "KEY_LEFTSHIFT" \in r.held THEN k.shifted ELSE k.plain>>
  BY ReadsLetter
<1> HIDE DEF p
<1>4. q = Received(p, Key(k.code, FALSE))
  BY DEF p
<1>5. IsDevice(q) /\ q.held = p.held \ {k.code}
  <2>1. /\ IsDevice(Received(p, Key(k.code, FALSE)))
        /\ Received(p, Key(k.code, FALSE)).held
              = IF FALSE THEN p.held \cup {k.code} ELSE p.held \ {k.code}
    BY <1>1, <1>2, KeyStep, Zenon
  <2> QED BY <1>4, <2>1
<1>6. q.text = p.text
  <2>1. Key(k.code, FALSE) \in KeyEvents /\ Key(k.code, FALSE).down = FALSE
    BY <1>1 DEF Key, KeyEvents
  <2> QED BY <1>2, <1>4, <2>1, ReadsNothing
<1>7. q.held = r.held
  BY <1>1, <1>2, <1>5
<1> QED BY <1>3, <1>5, <1>6, <1>7

LEMMA ShiftReads ==
    ASSUME NEW r, IsDevice(r), NEW isDown \in BOOLEAN,
           NEW q, q = Received(r, Key("KEY_LEFTSHIFT", isDown))
    PROVE  /\ IsDevice(q) /\ q.text = r.text
           /\ q.held = IF isDown THEN r.held \cup {"KEY_LEFTSHIFT"} ELSE r.held \ {"KEY_LEFTSHIFT"}
<1>1. "KEY_LEFTSHIFT" \in Codes
  BY DEF Codes
<1>2. /\ Key("KEY_LEFTSHIFT", isDown) \in KeyEvents
      /\ Key("KEY_LEFTSHIFT", isDown).code \notin {"KEY_A", "KEY_1"}
  BY <1>1 DEF Key, KeyEvents
<1> QED BY <1>1, <1>2, KeyStep, ReadsNothing, ZenonT(60)

LEMMA JoinIs ==
    ASSUME NEW S, NEW g \in Seq(S), NEW h \in Seq(S)
    PROVE  /\ Part(g \o h, Len(g)) = g /\ Part(g \o h, Len(g) + Len(h)) = g \o h
           /\ \A i \in 1..Len(h) : (g \o h)[Len(g) + i] = h[i]
<1> DEFINE w == g \o h
<1>1. w \in Seq(S) /\ Len(w) = Len(g) + Len(h) /\ Len(g) \in Nat /\ Len(h) \in Nat
      /\ \A i \in 1..Len(g) + Len(h) : w[i] = IF i <= Len(g) THEN g[i] ELSE h[i - Len(g)]
  BY ConcatProperties
<1> HIDE DEF w
<1>2. g = [i \in 1..Len(g) |-> g[i]] /\ w = [i \in 1..Len(w) |-> w[i]]
  BY <1>1
<1>3. \A i \in 1..Len(g) : w[i] = g[i]
  BY <1>1
<1>4. \A i \in 1..Len(h) : w[Len(g) + i] = h[i]
  BY <1>1
<1>5. Part(w, Len(g)) = g /\ Part(w, Len(g) + Len(h)) = w
  BY <1>1, <1>2, <1>3, Zenon DEF Part
<1> QED BY <1>4, <1>5 DEF w

LEMMA AfterTwo ==
    ASSUME NEW d, NEW S, NEW g \in Seq(S), NEW p \in S, NEW q \in S
    PROVE  After(d, g \o <<p, q>>) = Received(Received(After(d, g), p), q)
<1> DEFINE h == <<p, q>>
           w == g \o h
           n == Len(g)
<1>1. h \in Seq(S) /\ Len(h) = 2 /\ h[1] = p /\ h[2] = q /\ n \in Nat
  OBVIOUS
<1> HIDE DEF h
<1>2. Part(w, n) = g /\ Part(w, n + 2) = w /\ \A i \in 1..2 : w[n + i] = h[i]
  <2>1. Part(w, n) = g /\ Part(w, n + Len(h)) = w /\ \A i \in 1..Len(h) : w[n + i] = h[i]
    BY <1>1, JoinIs, Zenon
  <2> HIDE DEF w, n
  <2> QED BY <1>1, <2>1, Zenon
<1> HIDE DEF w, n
<1>3. w[n + 1] = p /\ w[n + 2] = q
  BY <1>1, <1>2
<1>4. n + 1 \in Nat /\ (n + 1) + 1 = n + 2
  BY <1>1
<1>5. After(d, Part(w, n + 1)) = Received(After(d, Part(w, n)), p)
  BY <1>1, <1>3, PartOneMore
<1>6. After(d, Part(w, n + 2)) = Received(After(d, Part(w, n + 1)), q)
  BY <1>3, <1>4, PartOneMore
<1> QED BY <1>2, <1>5, <1>6 DEF w, h

LEMMA AfterFour ==
    ASSUME NEW d, NEW S, NEW g \in Seq(S), NEW a \in S, NEW p \in S, NEW q \in S, NEW b \in S
    PROVE  After(d, g \o <<a, p, q, b>>)
             = Received(Received(Received(Received(After(d, g), a), p), q), b)
<1> DEFINE h == <<a, p, q, b>>
           w == g \o h
           n == Len(g)
<1>1. h \in Seq(S) /\ Len(h) = 4 /\ h[1] = a /\ h[2] = p /\ h[3] = q /\ h[4] = b /\ n \in Nat
  OBVIOUS
<1> HIDE DEF h
<1>2. Part(w, n) = g /\ Part(w, n + 4) = w /\ \A i \in 1..4 : w[n + i] = h[i]
  <2>1. Part(w, n) = g /\ Part(w, n + Len(h)) = w /\ \A i \in 1..Len(h) : w[n + i] = h[i]
    BY <1>1, JoinIs, Zenon
  <2> HIDE DEF w, n
  <2> QED BY <1>1, <2>1, Zenon
<1> HIDE DEF w, n
<1>3. w[n + 1] = a /\ w[n + 2] = p /\ w[n + 3] = q /\ w[n + 4] = b
  BY <1>1, <1>2
<1>4. /\ n + 1 \in Nat /\ (n + 1) + 1 = n + 2 /\ n + 2 \in Nat /\ (n + 2) + 1 = n + 3
      /\ n + 3 \in Nat /\ (n + 3) + 1 = n + 4
  BY <1>1
<1>5. After(d, Part(w, n + 1)) = Received(After(d, Part(w, n)), a)
  BY <1>1, <1>3, PartOneMore
<1>6. After(d, Part(w, n + 2)) = Received(After(d, Part(w, n + 1)), p)
  BY <1>3, <1>4, PartOneMore
<1>7. After(d, Part(w, n + 3)) = Received(After(d, Part(w, n + 2)), q)
  BY <1>3, <1>4, PartOneMore
<1>8. After(d, Part(w, n + 4)) = Received(After(d, Part(w, n + 3)), b)
  BY <1>3, <1>4, PartOneMore
<1> QED BY <1>2, <1>5, <1>6, <1>7, <1>8 DEF w, h

(* The events of one character more.                                         *)
LEMMA CharStep ==
    ASSUME NEW x, NEW g, Solid(g, x), NEW c, char_to_key(c) # {}
    PROVE  /\ Solid(g \o type_char(c), x)
           /\ \A d, t : Read(d, g, t) => Read(d, g \o type_char(c), t \o <<c>>)
<1> DEFINE a == Key("KEY_LEFTSHIFT", TRUE)
           b == Key("KEY_LEFTSHIFT", FALSE)
           p(k) == Key(k.code, TRUE)
           q(k) == Key(k.code, FALSE)
<1>1. PICK k \in Keyboard :
         \/ c = k.shifted /\ type_char(c) = <<a, p(k), q(k), b>>
         \/ c = k.plain /\ type_char(c) = <<p(k), q(k)>>
  BY CharIs, Zenon
<1>2. k.code \in Codes \ {"KEY_LEFTSHIFT"} /\ "KEY_LEFTSHIFT" \in Codes
  BY KeyboardIs DEF Codes
<1>3. Solid(type_char(c), x)
  BY <1>1, <1>2, TapIsSolid, ShiftedIsSolid
<1>4. Solid(g \o type_char(c), x)
  BY <1>3, SolidJoin
<1> DEFINE S == Events(x)
<1>5. g \in Seq(S) /\ a \in S /\ b \in S /\ p(k) \in S /\ q(k) \in S
  BY <1>2 DEF Solid, Events, Key, KeyEvents
<1>6. \A d : Received(Received(d, p(k)), q(k)) = Received(Received(d, Key(k.code, TRUE)), Key(k.code, FALSE))
  OBVIOUS
<1> HIDE DEF S
<1>7. ASSUME NEW d, NEW t, Read(d, g, t), c = k.plain, type_char(c) = <<p(k), q(k)>>
      PROVE  Read(d, g \o type_char(c), t \o <<c>>)
  <2> DEFINE r == After(d, g)
             z == Received(Received(r, p(k)), q(k))
  <2>1. After(d, g \o <<p(k), q(k)>>) = z
    <3> DEFINE P == p(k)
               Q == q(k)
    <3>1. P \in S /\ Q \in S
      BY <1>5
    <3> HIDE DEF P, Q
    <3>2. After(d, g \o <<P, Q>>) = Received(Received(After(d, g), P), Q)
      BY <1>5, <3>1, AfterTwo
    <3> QED BY <3>2, Zenon DEF P, Q
  <2>2. IsDevice(r) /\ r.held = {} /\ r.text = t
    BY <1>7 DEF Read
  <2> HIDE DEF r
  <2>3. IsDevice(z) /\ z.held = r.held /\ z.text = r.text \o <<k.plain>>
    BY <2>2, TapReads
  <2> HIDE DEF z
  <2> QED BY <1>7, <2>1, <2>2, <2>3 DEF Read
<1>8. ASSUME NEW d, NEW t, Read(d, g, t), c = k.shifted, type_char(c) = <<a, p(k), q(k), b>>
      PROVE  Read(d, g \o type_char(c), t \o <<c>>)
  <2> DEFINE r == After(d, g)
             y == Received(r, a)
             z == Received(Received(y, p(k)), q(k))
             u == Received(z, b)
  <2>1. After(d, g \o <<a, p(k), q(k), b>>) = u
    <3> DEFINE P == p(k)
               Q == q(k)
    <3>1. P \in S /\ Q \in S
      BY <1>5
    <3> HIDE DEF P, Q, a, b
    <3>2. After(d, g \o <<a, P, Q, b>>)
             = Received(Received(Received(Received(After(d, g), a), P), Q), b)
      BY <1>5, <3>1, AfterFour
    <3> QED BY <3>2, Zenon DEF P, Q
  <2>2. IsDevice(r) /\ r.held = {} /\ r.text = t
    BY <1>8 DEF Read
  <2> HIDE DEF r
  <2>3. IsDevice(y) /\ y.text = r.text /\ y.held = IF TRUE THEN r.held \cup {"KEY_LEFTSHIFT"} ELSE r.held \ {"KEY_LEFTSHIFT"}
    BY <2>2, ShiftReads, Zenon
  <2>4. y.held = {"KEY_LEFTSHIFT"}
    BY <2>2, <2>3
  <2> HIDE DEF y
  <2>5. IsDevice(z) /\ z.held = y.held /\ z.text = y.text \o <<k.shifted>>
    BY <2>3, <2>4, TapReads
  <2> HIDE DEF z
  <2>6. IsDevice(u) /\ u.text = z.text /\ u.held = IF FALSE THEN z.held \cup {"KEY_LEFTSHIFT"} ELSE z.held \ {"KEY_LEFTSHIFT"}
    BY <2>5, ShiftReads, Zenon
  <2> HIDE DEF u
  <2>7. u.held = {} /\ u.text = t \o <<c>>
    BY <1>8, <2>2, <2>3, <2>4, <2>5, <2>6
  <2> QED BY <1>8, <2>1, <2>6, <2>7 DEF Read
<1> QED BY <1>1, <1>4, <1>7, <1>8, Zenon

(* A text's events, character by character.                                  *)
Flattens(s, n, f) ==
    f = [i \in 1..n |-> IF i = 1 THEN s[i] ELSE f[i - 1] \o s[i]]

LEMMA FlattenExists ==
    ASSUME NEW s, NEW N \in Nat
    PROVE  \E f : Flattens(s, N, f)
<1> DEFINE S == {n \in Nat : \E f : Flattens(s, n, f)}
<1>1. 0 \in S
  <2> DEFINE f == [i \in 1..0 |-> 0]
  <2>1. f = [i \in 1..0 |-> IF i = 1 THEN s[i] ELSE f[i - 1] \o s[i]]
    OBVIOUS
  <2>2. Flattens(s, 0, f)
    BY <2>1, Zenon DEF Flattens
  <2> QED BY <2>2
<1>2. ASSUME NEW n \in Nat, n \in S PROVE n + 1 \in S
  <2>1. PICK f : Flattens(s, n, f)
    BY <1>2
  <2> DEFINE next == IF n + 1 = 1 THEN s[n + 1] ELSE f[n] \o s[n + 1]
             g == [i \in 1..(n + 1) |-> IF i = n + 1 THEN next ELSE f[i]]
  <2>2. \A i \in 1..n : f[i] = IF i = 1 THEN s[i] ELSE f[i - 1] \o s[i]
    BY <2>1, Zenon DEF Flattens
  <2> HIDE DEF next
  <2>3. /\ \A i \in 1..n : g[i] = f[i]
        /\ g[n + 1] = next
    OBVIOUS
  <2>4. ASSUME NEW i \in 1..(n + 1)
        PROVE  (IF i = n + 1 THEN next ELSE f[i]) = IF i = 1 THEN s[i] ELSE g[i - 1] \o s[i]
    <3>1. CASE i = n + 1 /\ i = 1
      BY <3>1 DEF next
    <3>2. CASE i = n + 1 /\ i # 1
      <4>1. n \in 1..n /\ i - 1 = n
        BY <3>2
      <4>2. g[n] = f[n]
        BY <2>3, <4>1
      <4> HIDE DEF g
      <4>3. next = f[n] \o s[n + 1]
        BY <3>2 DEF next
      <4> QED BY <3>2, <4>1, <4>2, <4>3
    <3>3. CASE i # n + 1
      <4>1. i \in 1..n /\ (i # 1 => i - 1 \in 1..n)
        BY <3>3
      <4>2. i # 1 => g[i - 1] = f[i - 1]
        BY <2>3, <4>1
      <4> HIDE DEF g
      <4>3. f[i] = IF i = 1 THEN s[i] ELSE f[i - 1] \o s[i]
        BY <2>2, <4>1, Zenon
      <4> QED BY <3>3, <4>2, <4>3, Zenon
    <3> QED BY <3>1, <3>2, <3>3
  <2>5. g = [i \in 1..(n + 1) |-> IF i = 1 THEN s[i] ELSE g[i - 1] \o s[i]]
    BY <2>4, Zenon
  <2>6. Flattens(s, n + 1, g)
    BY <2>5, Zenon DEF Flattens
  <2> QED BY <2>6
<1> HIDE DEF S
<1>3. N \in S
  BY <1>1, <1>2, InductionOnNat
<1> QED BY <1>3 DEF S

LEMMA FlattenIs ==
    ASSUME NEW s, Len(s) \in Nat \ {0}
    PROVE  \E f : /\ FlattenSeq(s) = f[Len(s)] /\ f[1] = s[1]
                  /\ \A i \in 2..Len(s) : f[i] = f[i - 1] \o s[i]
<1> DEFINE n == Len(s)
           f == CHOOSE g : Flattens(s, n, g)
<1>1. Flattens(s, n, f)
  <2>1. \E g : Flattens(s, n, g)
    BY FlattenExists
  <2> QED BY <2>1, Zenon
<1>2. FlattenSeq(s) = f[n]
  BY DEF FlattenSeq, Flattens
<1> HIDE DEF f
<1>3. \A i \in 1..n : f[i] = IF i = 1 THEN s[i] ELSE f[i - 1] \o s[i]
  BY <1>1, Zenon DEF Flattens
<1>4. 1 \in 1..n /\ \A i \in 2..n : i \in 1..n /\ i # 1
  OBVIOUS
<1> QED BY <1>2, <1>3, <1>4, Zenon

LEMMA CharEvents ==
    ASSUME NEW x, NEW c
    PROVE  type_char(c) \in Seq(Events(x))
<1>1. CASE char_to_key(c) = {}
  <2>1. Stop \in Events(x)
    BY DEF Events
  <2>2. type_char(c) = <<Stop>>
    BY <1>1 DEF type_char
  <2> HIDE DEF Stop
  <2> QED BY <2>1, <2>2
<1>2. CASE char_to_key(c) # {}
  <2> DEFINE p(k) == Key(k.code, TRUE)
             q(k) == Key(k.code, FALSE)
  <2>1. PICK k \in Keyboard :
         \/ type_char(c) = <<Key("KEY_LEFTSHIFT", TRUE), p(k), q(k), Key("KEY_LEFTSHIFT", FALSE)>>
         \/ type_char(c) = <<p(k), q(k)>>
    BY <1>2, CharIs, Zenon
  <2>2. k.code \in Codes \ {"KEY_LEFTSHIFT"}
    BY KeyboardIs DEF Codes
  <2>3. Solid(type_char(c), x)
    BY <2>1, <2>2, TapIsSolid, ShiftedIsSolid
  <2> QED BY <2>3 DEF Solid
<1> QED BY <1>1, <1>2

IsRun(x, text, g, G) ==
    /\ G[0] = g /\ G[Len(text)] = g \o type_text(text)
    /\ \A k \in 1..Len(text) : G[k] = G[k - 1] \o type_char(text[k])
    /\ \A k \in 0..Len(text) : G[k] \in Seq(Events(x))

LEMMA TextRuns ==
    ASSUME NEW x, NEW text \in Seq(STRING), NEW g \in Seq(Events(x))
    PROVE  \E G : IsRun(x, text, g, G)
<1> DEFINE n == Len(text)
           E == Events(x)
           s == [i \in DOMAIN text |-> type_char(text[i])]
<1>1. n \in Nat /\ DOMAIN text = 1..n
  OBVIOUS
<1>2. s \in Seq(Seq(E)) /\ Len(s) = n /\ \A i \in 1..n : s[i] = type_char(text[i]) /\ s[i] \in Seq(E)
  <2>1. \A i \in 1..n : type_char(text[i]) \in Seq(E)
    BY CharEvents, Zenon
  <2>2. s = [i \in 1..n |-> type_char(text[i])]
    BY <1>1
  <2> HIDE DEF n, E, s
  <2>3. s \in [1..n -> Seq(E)]
    BY <2>1, <2>2, Zenon
  <2> QED BY <1>1, <2>1, <2>2, <2>3
<1>3. type_text(text) = FlattenSeq(s)
  BY DEF type_text
<1> HIDE DEF s, n, E
<1>4. CASE n = 0
  <2> DEFINE G == [k \in 0..0 |-> g]
  <2>1. s = <<>>
    BY <1>2, <1>4
  <2>2. type_text(text) = <<>>
    BY <1>2, <1>3, <1>4, <2>1 DEF FlattenSeq
  <2>3. g \o <<>> = g
    BY ConcatEmptySeq
  <2>4. G[0] = g
    OBVIOUS
  <2> HIDE DEF G
  <2>5. \A k \in 0..n : G[k] \in Seq(E)
    BY <1>4, <2>4 DEF E
  <2>6. G[n] = g \o type_text(text)
    BY <1>4, <2>2, <2>3, <2>4
  <2>7. \A k \in 1..n : G[k] = G[k - 1] \o type_char(text[k])
    BY <1>4
  <2> QED BY <2>4, <2>5, <2>6, <2>7, Zenon DEF n, E, IsRun
<1>5. CASE n # 0
  <2>1. PICK f : /\ FlattenSeq(s) = f[n] /\ f[1] = s[1]
                 /\ \A i \in 2..n : f[i] = f[i - 1] \o s[i]
    BY <1>1, <1>2, <1>5, FlattenIs
  <2> DEFINE G == [k \in 0..n |-> IF k = 0 THEN g ELSE g \o f[k]]
  <2>2. G[0] = g /\ \A k \in 1..n : G[k] = g \o f[k]
    BY <1>1
  <2> HIDE DEF G
  <2>3. \A k \in 1..n : f[k] \in Seq(E)
    <3> DEFINE S == {k \in Nat : k + 1 <= n => f[k + 1] \in Seq(E)}
    <3>1. 0 \in S
      BY <1>1, <1>2, <1>5, <2>1
    <3>2. ASSUME NEW k \in Nat, k \in S PROVE k + 1 \in S
      <4>1. ASSUME (k + 1) + 1 <= n PROVE f[(k + 1) + 1] \in Seq(E)
        <5> DEFINE j == (k + 1) + 1
        <5>1. j \in 2..n /\ j - 1 = k + 1 /\ j \in 1..n /\ k + 1 <= n
          BY <1>1, <4>1
        <5>2. f[k + 1] \in Seq(E)
          BY <3>2, <5>1
        <5> HIDE DEF j
        <5>3. f[j] = f[k + 1] \o s[j] /\ s[j] \in Seq(E)
          BY <1>2, <2>1, <5>1
        <5>4. f[j] \in Seq(E)
          BY <5>2, <5>3, ConcatProperties
        <5> QED BY <5>4 DEF j
      <4> QED BY <4>1
    <3> HIDE DEF S
    <3>3. \A k \in Nat : k \in S
      BY <3>1, <3>2, InductionOnNat
    <3>4. ASSUME NEW k \in 1..n PROVE f[k] \in Seq(E)
      <4>1. k - 1 \in S /\ (k - 1) + 1 = k /\ k <= n
        BY <1>1, <3>3
      <4> QED BY <4>1 DEF S
    <3> QED BY <3>4
  <2>4. \A k \in 0..n : G[k] \in Seq(E)
    <3>1. \A k \in 0..n : k = 0 \/ k \in 1..n
      BY <1>1
    <3>2. \A k \in 1..n : g \o f[k] \in Seq(E)
      BY <2>3, ConcatProperties DEF E
    <3> QED BY <2>2, <3>1, <3>2 DEF E
  <2>5. ASSUME NEW k \in 1..n PROVE G[k] = G[k - 1] \o type_char(text[k])
    <3>1. s[k] = type_char(text[k]) /\ s[k] \in Seq(E)
      BY <1>2
    <3>2. CASE k = 1
      <4>1. k - 1 = 0
        BY <3>2
      <4>2. G[k] = g \o s[k]
        BY <2>1, <2>2, <3>2, Zenon
      <4> QED BY <2>2, <3>1, <4>1, <4>2, Zenon
    <3>3. CASE k # 1
      <4>1. k \in 2..n /\ k - 1 \in 1..n
        BY <1>1, <3>3
      <4>2. G[k] = g \o (f[k - 1] \o s[k])
        BY <2>1, <2>2, <4>1, Zenon
      <4>3. f[k - 1] \in Seq(E) /\ g \in Seq(E)
        BY <2>3, <4>1 DEF E
      <4> DEFINE u == f[k - 1]
                 v == s[k]
      <4>4. u \in Seq(E) /\ v \in Seq(E)
        BY <3>1, <4>3
      <4> HIDE DEF u, v
      <4>5. (g \o u) \o v = g \o (u \o v)
        BY <4>3, <4>4, ConcatAssociative, SMTT(30)
      <4>6. G[k - 1] = g \o u
        BY <2>2, <4>1 DEF u
      <4> QED BY <3>1, <4>2, <4>5, <4>6, Zenon DEF u, v
    <3> QED BY <3>2, <3>3
  <2>6. G[n] = g \o type_text(text)
    BY <1>1, <1>3, <1>5, <2>1, <2>2
  <2> QED BY <2>2, <2>4, <2>5, <2>6, Zenon DEF n, E, IsRun
<1> QED BY <1>4, <1>5

LEMMA ClickReads ==
    ASSUME NEW x, NEW d, IsDevice(d), d.held = {}, d.text = <<>>
    PROVE  Read(d, click(x), <<>>)
<1> DEFINE e == [ev |-> "abs", at |-> scale(x, ScreenHint)]
           E == Events(x)
           p == Key("BTN_LEFT", TRUE)
           q == Key("BTN_LEFT", FALSE)
           g == <<e>>
           r == After(d, g)
           y == Received(r, p)
           z == Received(y, q)
<1>1. e \in E /\ p \in E /\ q \in E
  BY Zenon DEF Events, Key, KeyEvents, Codes
<1>2. e.ev = "abs"
  OBVIOUS
<1>3. "BTN_LEFT" \in Codes
  BY DEF Codes
<1>4. p \in KeyEvents /\ q \in KeyEvents /\ p.code = "BTN_LEFT" /\ q.code = "BTN_LEFT"
  BY <1>3 DEF Key, KeyEvents
<1>5. click(x) = g \o <<p, q>>
  BY DEF click, moveTo
<1> HIDE DEF e, E
<1>6. /\ DOMAIN <<>> = 1..0 /\ DOMAIN g = 1..(0 + 1) /\ g[0 + 1] = e
      /\ \A i \in 1..0 : g[i] = <<>>[i]
  OBVIOUS
<1>7. g \in Seq(E)
  BY <1>1
<1> HIDE DEF g
<1>8. After(d, g) = Received(After(d, <<>>), e)
  BY <1>6, FoldOneMore
<1>9. r = Received(d, e)
  BY <1>8, FoldNothing
<1>10. IsDevice(r) /\ r.held = {} /\ r.text = <<>>
  BY <1>2, <1>9, ReceivesOther
<1> HIDE DEF r
<1>11. After(d, g \o <<p, q>>) = Received(Received(After(d, g), p), q)
  <2> HIDE DEF p, q
  <2> QED BY <1>1, <1>7, AfterTwo
<1>12. /\ IsDevice(y) /\ y.held = IF TRUE THEN r.held \cup {"BTN_LEFT"} ELSE r.held \ {"BTN_LEFT"}
       /\ y.text = r.text
  <2>1. IsDevice(y) /\ y.held = IF TRUE THEN r.held \cup {"BTN_LEFT"} ELSE r.held \ {"BTN_LEFT"}
    BY <1>3, <1>10, KeyStep, Zenon
  <2>2. y.text = r.text
    BY <1>4, <1>10, ReadsNothing
  <2> QED BY <2>1, <2>2
<1> HIDE DEF y
<1>13. /\ IsDevice(z) /\ z.held = IF FALSE THEN y.held \cup {"BTN_LEFT"} ELSE y.held \ {"BTN_LEFT"}
       /\ z.text = y.text
  <2>1. IsDevice(z) /\ z.held = IF FALSE THEN y.held \cup {"BTN_LEFT"} ELSE y.held \ {"BTN_LEFT"}
    BY <1>3, <1>12, KeyStep, Zenon
  <2>2. z.text = y.text
    BY <1>4, <1>12, ReadsNothing
  <2> QED BY <2>1, <2>2
<1>14. After(d, click(x)) = z
  BY <1>5, <1>11, Zenon DEF z, y, r
<1> HIDE DEF z
<1>15. z.held = {} /\ z.text = <<>>
  BY <1>10, <1>12, <1>13
<1> QED BY <1>13, <1>14, <1>15 DEF Read

Runs(x, text, G) ==
    /\ \A k \in 1..Len(text) : G[k] = G[k - 1] \o type_char(text[k])
    /\ \A k \in 0..Len(text) : G[k] \in Seq(Events(x))

LEMMA TextTypes ==
    ASSUME NEW x, NEW text \in Seq(STRING), NEW G, Runs(x, text, G), Solid(G[0], x),
           NEW m \in 0..Len(text), \A i \in 1..m : char_to_key(text[i]) # {}
    PROVE  /\ Solid(G[m], x)
           /\ \A d : Read(d, G[0], <<>>) => Read(d, G[m], SubSeq(text, 1, m))
<1> DEFINE n == Len(text)
           T(k) == SubSeq(text, 1, k)
           S == {k \in Nat : k <= m => /\ Solid(G[k], x)
                                       /\ \A d : Read(d, G[0], <<>>) => Read(d, G[k], T(k))}
<1>1. n \in Nat /\ m \in Nat /\ m <= n
  OBVIOUS
<1>2. T(0) = <<>>
  BY <1>1
<1>3. \A k \in 1..n : T(k) = T(k - 1) \o <<text[k]>>
  <2>1. ASSUME NEW k \in 1..n PROVE T(k) = T(k - 1) \o <<text[k]>>
    <3> DEFINE u == T(k)
               v == T(k - 1)
               w == v \o <<text[k]>>
    <3>1. u \in Seq(STRING) /\ Len(u) = k /\ \A i \in 1..k : u[i] = text[i]
      OBVIOUS
    <3>2. v \in Seq(STRING) /\ Len(v) = k - 1 /\ \A i \in 1..(k - 1) : v[i] = text[i]
      OBVIOUS
    <3> HIDE DEF u, v
    <3>3. w \in Seq(STRING) /\ Len(w) = k /\ (\A i \in 1..(k - 1) : w[i] = v[i]) /\ w[k] = text[k]
      BY <3>2
    <3> HIDE DEF w
    <3>4. \A i \in 1..k : u[i] = w[i]
      BY <3>1, <3>2, <3>3, SMTT(30)
    <3>5. u = w
      BY <3>1, <3>3, <3>4, SeqEqual
    <3> QED BY <3>5, Zenon DEF u, v, w
  <2> QED BY <2>1
<1> HIDE DEF T, n
<1>4. 0 \in S
  BY <1>1, <1>2
<1>5. ASSUME NEW k \in Nat, k \in S PROVE k + 1 \in S
  <2>1. SUFFICES ASSUME k + 1 <= m
                 PROVE  /\ Solid(G[k + 1], x)
                        /\ \A d : Read(d, G[0], <<>>) => Read(d, G[k + 1], T(k + 1))
    OBVIOUS
  <2> DEFINE j == k + 1
             g == G[k]
             c == text[j]
  <2>2. k <= m /\ j \in 1..n /\ j \in 1..m /\ j - 1 = k
    BY <1>1, <2>1
  <2>3. Solid(g, x) /\ \A d : Read(d, G[0], <<>>) => Read(d, g, T(k))
    BY <1>5, <2>2
  <2> HIDE DEF j, g
  <2>4. G[j] = g \o type_char(c) /\ T(j) = T(k) \o <<c>> /\ char_to_key(c) # {}
    BY <1>3, <2>2, Zenon DEF Runs, g, n
  <2> HIDE DEF c
  <2>5. Solid(G[j], x) /\ \A d : Read(d, G[0], <<>>) => Read(d, G[j], T(j))
    BY <2>3, <2>4, CharStep, Zenon
  <2> QED BY <2>5 DEF j
<1> HIDE DEF S
<1>6. m \in S
  BY <1>1, <1>4, <1>5, InductionOnNat
<1>7. Solid(G[m], x) /\ \A d : Read(d, G[0], <<>>) => Read(d, G[m], T(m))
  <2>1. m <= m
    BY <1>1
  <2> QED BY <1>6, <2>1, Zenon DEF S
<1> QED BY <1>7, Zenon DEF T

BeginsWith(u, v) ==
    /\ Len(u) \in Nat /\ Len(v) \in Nat /\ Len(u) <= Len(v)
    /\ \A i \in 1..Len(u) : v[i] = u[i]

LEMMA TextPrefix ==
    ASSUME NEW x, NEW text \in Seq(STRING), NEW G, Runs(x, text, G), NEW m \in 0..Len(text)
    PROVE  BeginsWith(G[m], G[Len(text)])
<1> DEFINE n == Len(text)
           a == Len(G[m])
           E == Events(x)
           S == {k \in Nat : m + k <= n => /\ a <= Len(G[m + k])
                                           /\ \A i \in 1..a : G[m + k][i] = G[m][i]}
<1>1. n \in Nat /\ m \in Nat /\ m <= n
  OBVIOUS
<1>2. /\ \A k \in 1..n : G[k] = G[k - 1] \o type_char(text[k])
      /\ \A k \in 0..n : G[k] \in Seq(E)
  BY DEF Runs
<1>3. \A k \in 1..n : type_char(text[k]) \in Seq(E)
  BY CharEvents
<1> HIDE DEF n, E
<1>4. \A k \in 0..n : Len(G[k]) \in Nat
  BY <1>2
<1>5. a \in Nat
  BY <1>1, <1>4
<1>6. 0 \in S
  BY <1>1, <1>5
<1>7. ASSUME NEW k \in Nat, k \in S PROVE k + 1 \in S
  <2>1. SUFFICES ASSUME m + (k + 1) <= n
                 PROVE  a <= Len(G[m + (k + 1)]) /\ \A i \in 1..a : G[m + (k + 1)][i] = G[m][i]
    OBVIOUS
  <2> DEFINE j == m + (k + 1)
             g == G[m + k]
             h == type_char(text[j])
             w == G[j]
  <2>2. j \in 1..n /\ j - 1 = m + k /\ m + k \in 0..n /\ m + k <= n
    BY <1>1, <2>1
  <2>3. g \in Seq(E) /\ h \in Seq(E)
    BY <1>2, <1>3, <2>2
  <2>4. a <= Len(g) /\ \A i \in 1..a : g[i] = G[m][i]
    BY <1>7, <2>2
  <2> HIDE DEF j
  <2>5. w = g \o h
    BY <1>2, <2>2, Zenon
  <2> HIDE DEF g, h, w, a
  <2>6. /\ Len(w) = Len(g) + Len(h) /\ Len(g) \in Nat /\ Len(h) \in Nat
        /\ \A i \in 1..Len(g) + Len(h) : w[i] = IF i <= Len(g) THEN g[i] ELSE h[i - Len(g)]
    BY <2>3, <2>5, ConcatProperties
  <2>7. a <= Len(w)
    BY <1>5, <2>4, <2>6
  <2>8. \A i \in 1..a : w[i] = g[i]
    BY <1>5, <2>4, <2>6
  <2> QED BY <2>4, <2>7, <2>8 DEF w, j
<1> HIDE DEF S
<1>8. n - m \in S /\ m + (n - m) = n /\ n \in 0..n
  BY <1>1, <1>6, <1>7, InductionOnNat
<1>9. a <= Len(G[n]) /\ \A i \in 1..a : G[n][i] = G[m][i]
  <2>1. n <= n
    BY <1>1
  <2> QED BY <1>8, <2>1, Zenon DEF S
<1>10. Len(G[n]) \in Nat
  BY <1>4, <1>8
<1> QED BY <1>5, <1>9, <1>10, Zenon DEF BeginsWith, n, a

WholeOf(events) ==
    LET stop == UpToStop(events) IN IF stop = 0 THEN events ELSE SubSeq(events, 1, stop - 1)

LEMMA NothingIsSolid == ASSUME NEW x PROVE Solid(<<>>, x)
BY DEF Solid, Lifts

LEMMA SolidIsWhole ==
    ASSUME NEW x, NEW g, Solid(g, x)
    PROVE  UpToStop(g) = 0 /\ WholeOf(g) = g
<1>1. Len(g) \in Nat /\ \A i \in 1..Len(g) : g[i] # Stop
  BY DEF Solid
<1>2. UpToStop(g) = 0
  BY <1>1, StopsAt
<1> QED BY <1>2 DEF WholeOf

LEMMA StopAtOnce == UpToStop(<<Stop>>) = 1 /\ WholeOf(<<Stop>>) = <<>>
<1> DEFINE g == <<Stop>>
<1>1. Len(g) = 1 /\ g[1] = Stop
  OBVIOUS
<1> HIDE DEF g
<1>2. UpToStop(g) \in 1..1
  <2>1. 1 \in Nat /\ 1 \in 1..1
    OBVIOUS
  <2> QED BY <1>1, <2>1, StopsAt
<1>3. UpToStop(g) = 1
  BY <1>2
<1>4. SubSeq(g, 1, 0) = <<>>
  <2> HIDE DEF Stop
  <2> QED BY DEF g
<1> QED BY <1>3, <1>4 DEF WholeOf, g

(* A text is emitted up to the first character without a key.                *)
LEMMA TextWhole ==
    ASSUME NEW x, NEW text \in Seq(STRING), NEW bad,
           \/ bad = 0 /\ \A i \in 1..Len(text) : char_to_key(text[i]) # {}
           \/ /\ bad \in 1..Len(text) /\ char_to_key(text[bad]) = {}
              /\ \A i \in 1..(bad - 1) : char_to_key(text[i]) # {},
           NEW t, t = IF bad = 0 THEN text ELSE SubSeq(text, 1, bad - 1),
           NEW events, events = click(x) \o type_text(text)
    PROVE  /\ Solid(WholeOf(events), x)
           /\ \A d : IsDevice(d) /\ d.held = {} /\ d.text = <<>> => Read(d, WholeOf(events), t)
<1> DEFINE n == Len(text)
           m == IF bad = 0 THEN n ELSE bad - 1
<1>1. n \in Nat
  OBVIOUS
<1>2. \/ bad = 0 /\ \A i \in 1..n : char_to_key(text[i]) # {}
      \/ /\ bad \in 1..n /\ char_to_key(text[bad]) = {}
         /\ \A i \in 1..(bad - 1) : char_to_key(text[i]) # {}
  OBVIOUS
<1>3. m \in 0..n /\ \A i \in 1..m : char_to_key(text[i]) # {}
  BY <1>1, <1>2
<1>4. t = SubSeq(text, 1, m)
  BY <1>1
<1>5. Solid(click(x), x)
  BY PointerIsSolid
<1>6. click(x) \in Seq(Events(x))
  BY <1>5 DEF Solid
<1>7. PICK G : /\ G[0] = click(x) /\ G[n] = events /\ Runs(x, text, G)
  <2>1. PICK G : IsRun(x, text, click(x), G)
    BY <1>6, TextRuns
  <2>2. G[0] = click(x) /\ G[n] = events /\ Runs(x, text, G)
    BY <2>1, Zenon DEF IsRun, Runs
  <2> QED BY <2>2, Zenon
<1> HIDE DEF m, n
<1>8. Solid(G[m], x) /\ \A d : Read(d, G[0], <<>>) => Read(d, G[m], t)
  BY <1>3, <1>4, <1>5, <1>7, TextTypes, Zenon DEF n
<1>9. WholeOf(events) = G[m]
  <2>1. CASE bad = 0
    BY <2>1, <1>7, <1>8, SolidIsWhole DEF m
  <2>2. CASE bad # 0
    <3> DEFINE a == Len(G[m])
               s == UpToStop(events)
    <3>1. bad \in 1..n /\ char_to_key(text[bad]) = {} /\ m = bad - 1 /\ bad \in 0..n
      BY <1>1, <1>2, <2>2 DEF m
    <3>2. G[bad] = G[m] \o <<Stop>>
      BY <3>1, <1>7 DEF Runs, type_char, n
    <3>3. G[m] \in Seq(Events(x)) /\ Stop \in Events(x) /\ events \in Seq(Events(x))
      <4>1. n \in 0..n
        BY <1>1
      <4> QED BY <1>3, <1>7, <4>1 DEF Runs, Events, n
    <3>4. a \in Nat /\ \A i \in 1..a : events[i] = G[m][i]
      <4>1. m \in 0..Len(text)
        BY <1>3 DEF n
      <4>2. BeginsWith(G[m], G[Len(text)])
        BY <1>7, <4>1, TextPrefix
      <4> QED BY <1>7, <4>2, Zenon DEF n, BeginsWith
    <3>5. Len(G[bad]) = a + 1 /\ G[bad][a + 1] = Stop
      <4> HIDE DEF Stop
      <4> QED BY <3>2, <3>3
    <3>6. /\ Len(events) \in Nat /\ Len(G[bad]) <= Len(events)
          /\ \A i \in 1..Len(G[bad]) : events[i] = G[bad][i]
      <4>1. bad \in 0..Len(text)
        BY <3>1 DEF n
      <4>2. BeginsWith(G[bad], G[Len(text)])
        BY <1>7, <4>1, TextPrefix
      <4> QED BY <1>7, <4>2, Zenon DEF n, BeginsWith
    <3> HIDE DEF a
    <3>7. a + 1 <= Len(events) /\ events[a + 1] = Stop /\ a + 1 \in 1..Len(events)
      BY <3>4, <3>5, <3>6
    <3>8. \A i \in 1..a : events[i] # Stop
      BY <1>8, <3>4 DEF Solid, a
    <3>9. \/ s = 0 /\ \A i \in 1..Len(events) : events[i] # Stop
          \/ /\ s \in 1..Len(events) /\ events[s] = Stop
             /\ \A i \in 1..(s - 1) : events[i] # Stop
      BY <3>6, StopsAt
    <3> HIDE DEF s
    <3>10. s = a + 1
      <4>1. s # 0
        BY <3>7, <3>9
      <4>2. s \in 1..Len(events) /\ events[s] = Stop /\ \A i \in 1..(s - 1) : events[i] # Stop
        BY <3>9, <4>1
      <4>3. ~(s <= a)
        <5>1. s <= a => s \in 1..a
          BY <3>6, <4>2
        <5> QED BY <3>8, <4>2, <5>1, Zenon
      <4>4. ~(a + 1 <= s - 1)
        <5>1. a + 1 <= s - 1 => a + 1 \in 1..(s - 1)
          BY <3>4, <4>2
        <5> QED BY <3>7, <4>2, <5>1, Zenon
      <4> QED BY <3>4, <3>6, <4>2, <4>3, <4>4
    <3>11. SubSeq(events, 1, a) = G[m]
      <4> DEFINE u == SubSeq(events, 1, a)
                 v == G[m]
      <4>1. u \in Seq(Events(x)) /\ Len(u) = a /\ \A i \in 1..a : u[i] = events[i]
        BY <3>3, <3>4, <3>6, <3>7
      <4>2. v \in Seq(Events(x)) /\ Len(v) = a /\ \A i \in 1..a : v[i] = events[i]
        BY <3>3, <3>4 DEF a
      <4>a. \A i \in 1..a : u[i] = v[i]
        BY <4>1, <4>2
      <4> HIDE DEF u, v
      <4>3. u = v
        BY <4>1, <4>2, <4>a, SeqEqual
      <4> QED BY <4>3 DEF u, v
    <3>12. s # 0 /\ s - 1 = a
      BY <3>4, <3>10
    <3> QED BY <3>11, <3>12 DEF WholeOf, s
  <2> QED BY <2>1, <2>2
<1> QED BY <1>7, <1>8, <1>9, ClickReads, Zenon

LEMMA ChordWhole ==
    ASSUME NEW names \in Seq(STRING), names # <<>>, NEW events, events = keypress(names)
    PROVE  /\ WholeOf(events) \in Seq(Events(0))
           /\ \A i \in 1..Len(WholeOf(events)) : IsEvent(WholeOf(events)[i])
           /\ UpToStop(events) = 0 => Lifts(WholeOf(events), Len(WholeOf(events)))
<1> DEFINE n == Len(events)
           s == UpToStop(events)
           w == WholeOf(events)
           E == KeyEvents \cup {Stop}
<1>1. events \in Seq(E) /\ n = 2 * Len(names) /\ n \in Nat
  <2>1. events \in Seq(E) /\ n = 2 * Len(names)
    BY ChordIs, Zenon
  <2> HIDE DEF E
  <2> QED BY <2>1
<1>2. \/ s = 0 /\ \A i \in 1..n : events[i] # Stop
      \/ /\ s \in 1..n /\ events[s] = Stop
         /\ \A i \in 1..(s - 1) : events[i] # Stop
  BY <1>1, StopsAt
<1> HIDE DEF n, s
<1>3. CASE s = 0
  <2>1. w = events
    BY <1>3 DEF WholeOf, s
  <2>2. Lifts(events, n)
    BY <1>1, <1>2, <1>3, ChordLifts DEF n
  <2>3. \A i \in 1..n : events[i] \in KeyEvents
    BY <1>1, <1>2, <1>3 DEF n
  <2>4. events \in Seq(Events(0))
    BY <1>1 DEF Events
  <2>5. \A i \in 1..n : IsEvent(events[i])
    BY <2>3 DEF IsEvent
  <2> QED BY <2>1, <2>2, <2>4, <2>5 DEF n
<1>4. CASE s # 0
  <2>1. w = SubSeq(events, 1, s - 1)
    BY <1>4 DEF WholeOf, s
  <2>2. s \in 1..n /\ \A i \in 1..(s - 1) : events[i] # Stop
    BY <1>2, <1>4
  <2>3. w \in Seq(E) /\ Len(w) = s - 1 /\ \A i \in 1..(s - 1) : w[i] = events[i]
    BY <1>1, <2>1, <2>2 DEF n
  <2> HIDE DEF w
  <2>4. \A i \in 1..Len(w) : w[i] \in KeyEvents
    BY <2>2, <2>3
  <2>5. w \in Seq(Events(0))
    BY <2>3 DEF Events
  <2>6. \A i \in 1..Len(w) : IsEvent(w[i])
    BY <2>4 DEF IsEvent
  <2> QED BY <1>4, <2>5, <2>6 DEF w, s
<1> QED BY <1>3, <1>4

(* What the events of a call do: they are a device's, and leave none of the  *)
(* call's keys down unless it is a chord that stops; a call that types types *)
(* what can be typed.                                                        *)
Goes(toolCall, events, w) ==
    /\ \E x : w \in Seq(Events(x))
    /\ \A i \in 1..Len(w) : IsEvent(w[i])
    /\ UpToStop(events) = 0 \/ toolCall.tool # "keypress" => Lifts(w, Len(w))
    /\ toolCall.tool = "type" =>
          \A d : IsDevice(d) /\ d.held = {} /\ d.text = <<>> => Read(d, w, Typeable(toolCall))

LEMMA SolidGoes ==
    ASSUME NEW toolCall, toolCall.tool # "type", NEW events, NEW x, NEW w, Solid(w, x)
    PROVE  Goes(toolCall, events, w)
BY DEF Goes, Solid

LEMMA CallGoes ==
    ASSUME NEW toolCall \in Calls
    PROVE  Goes(toolCall, eventsOf(toolCall), WholeOf(eventsOf(toolCall)))
<1> DEFINE e == eventsOf(toolCall)
           x == toolCall.at
<1>1. CASE toolCall.tool = "keypress"
  <2>1. toolCall.keys \in Seq(STRING) /\ toolCall.keys # <<>>
    BY <1>1, CallsAssumption
  <2>2. e = keypress(toolCall.keys)
    BY <1>1 DEF eventsOf
  <2> HIDE DEF e
  <2>3. /\ WholeOf(e) \in Seq(Events(0))
        /\ \A i \in 1..Len(WholeOf(e)) : IsEvent(WholeOf(e)[i])
        /\ UpToStop(e) = 0 => Lifts(WholeOf(e), Len(WholeOf(e)))
    BY <2>1, <2>2, ChordWhole
  <2>4. Goes(toolCall, e, WholeOf(e))
    BY <1>1, <2>3 DEF Goes
  <2> QED BY <2>4 DEF e
<1>2. CASE toolCall.tool \in {"click", "scroll"}
  <2>1. e = At(toolCall.mark, IF toolCall.tool = "click" THEN click(x) ELSE scroll(x))
    BY <1>2 DEF eventsOf
  <2> HIDE DEF e
  <2>2. CASE toolCall.mark = "unknown"
    <3>1. WholeOf(e) = <<>>
      BY <2>1, <2>2, StopAtOnce DEF At
    <3>2. Solid(WholeOf(e), x)
      BY <3>1, NothingIsSolid
    <3>3. Goes(toolCall, e, WholeOf(e))
      BY <1>2, <3>2, SolidGoes
    <3> QED BY <3>3 DEF e
  <2>3. CASE toolCall.mark # "unknown"
    <3>1. e = click(x) \/ e = scroll(x)
      BY <2>1, <2>3 DEF At
    <3>2. Solid(e, x)
      BY <3>1, PointerIsSolid
    <3>3. Solid(WholeOf(e), x)
      BY <3>2, SolidIsWhole
    <3>4. Goes(toolCall, e, WholeOf(e))
      BY <1>2, <3>3, SolidGoes
    <3> QED BY <3>4 DEF e
  <2> QED BY <2>2, <2>3
<1>3. CASE toolCall.tool = "type"
  <2>1. toolCall.text \in Seq(STRING)
    BY <1>3, CallsAssumption
  <2>2. e = At(toolCall.mark, click(x) \o type_text(toolCall.text))
    BY <1>3 DEF eventsOf
  <2> HIDE DEF e
  <2>3. CASE toolCall.mark = "unknown"
    <3>1. WholeOf(e) = <<>> /\ Typeable(toolCall) = <<>>
      BY <2>2, <2>3, StopAtOnce DEF At, Typeable
    <3>2. Solid(WholeOf(e), x)
      BY <3>1, NothingIsSolid
    <3>3. \A d : IsDevice(d) /\ d.held = {} /\ d.text = <<>> => Read(d, WholeOf(e), Typeable(toolCall))
      BY <3>1, FoldNothing DEF Read
    <3>4. Goes(toolCall, e, WholeOf(e))
      BY <1>3, <3>2, <3>3 DEF Goes, Solid
    <3> QED BY <3>4 DEF e
  <2>4. CASE toolCall.mark # "unknown"
    <3> DEFINE text == toolCall.text
               bad == SelectInSeq(text, LAMBDA c : char_to_key(c) = {})
               t == IF bad = 0 THEN text ELSE SubSeq(text, 1, bad - 1)
    <3>1. Typeable(toolCall) = t
      BY <1>3, <2>4, Zenon DEF Typeable
    <3>2. \/ bad = 0 /\ \A i \in 1..Len(text) : char_to_key(text[i]) # {}
          \/ /\ bad \in 1..Len(text) /\ char_to_key(text[bad]) = {}
             /\ \A i \in 1..(bad - 1) : char_to_key(text[i]) # {}
      <4>1. Len(text) \in Nat
        BY <2>1
      <4> QED BY <4>1, BadAt
    <3> HIDE DEF bad, text
    <3>3. e = click(x) \o type_text(text) /\ text \in Seq(STRING)
      BY <2>1, <2>2, <2>4 DEF At, text
    <3>4. t = IF bad = 0 THEN text ELSE SubSeq(text, 1, bad - 1)
      OBVIOUS
    <3> HIDE DEF t
    <3>5. /\ Solid(WholeOf(e), x)
          /\ \A d : IsDevice(d) /\ d.held = {} /\ d.text = <<>> => Read(d, WholeOf(e), t)
      BY <3>2, <3>3, <3>4, TextWhole
    <3>6. Goes(toolCall, e, WholeOf(e))
      BY <1>3, <3>1, <3>5 DEF Goes, Solid
    <3> QED BY <3>6 DEF e
  <2> QED BY <2>3, <2>4
<1> QED BY <1>1, <1>2, <1>3, CallsAssumption

-----------------------------------------------------------------------------
(* The inductive invariant: the device is one, what is down on it was left   *)
(* down by a failure, and a report without failures is of what was asked.    *)
DeviceInv ==
    /\ IsDevice(dev) /\ dev.text = <<>>
    /\ todo \in Seq(Calls)
    /\ HeldByFailures /\ TypedAsAsked

LEMMA EmitKeeps ==
    ASSUME DeviceInv, NEW toolCall \in Calls, NEW d, IsDevice(d), d.held = dev.held, d.text = <<>>,
           Emit(d, toolCall)
    PROVE  IsDevice(dev') /\ dev'.text = <<>> /\ HeldByFailures' /\ TypedAsAsked'
<1> DEFINE events == eventsOf(toolCall)
           stop   == UpToStop(events)
           whole  == WholeOf(events)
           N      == Len(whole)
<1>1. Plan[toolCall] = events
  BY DEF Plan
<1>2. PICK n \in 0..N :
         LET broken == n < N \/ (stop # 0 /\ toolCall.tool = "keypress")
             after  == After(d, SubSeq(whole, 1, n))
         IN  /\ dev' = [after EXCEPT !.text = <<>>, !.at = 0]
             /\ stuck' = IF broken THEN stuck \cup KeysOf(whole) ELSE stuck \ KeysOf(whole)
             /\ report' = [asked |-> Typeable(toolCall), got |-> after.text,
                           clean |-> stuck = {} /\ n = N /\ toolCall.tool = "type",
                           aim |-> IF n > 0 /\ toolCall.tool # "keypress" THEN toolCall.at ELSE -1,
                           at |-> after.at]
  BY <1>1, ZenonT(60) DEF Emit, After, WholeOf
<1>3. Goes(toolCall, events, whole)
  BY CallGoes
<1> HIDE DEF events, whole
<1>4. PICK x : whole \in Seq(Events(x))
  BY <1>3, Zenon DEF Goes
<1>5. /\ \A i \in 1..N : IsEvent(whole[i])
      /\ stop = 0 \/ toolCall.tool # "keypress" => Lifts(whole, N)
      /\ toolCall.tool = "type" =>
            \A r : IsDevice(r) /\ r.held = {} /\ r.text = <<>> => Read(r, whole, Typeable(toolCall))
  BY <1>3, Zenon DEF Goes
<1> HIDE DEF stop
<1>6. N \in Nat /\ DOMAIN whole = 1..N /\ n \in Nat /\ n <= N
  BY <1>4
<1>7. SubSeq(whole, 1, n) = Part(whole, n)
  BY <1>4, <1>6 DEF Part
<1> DEFINE after == After(d, Part(whole, n))
           broken == n < N \/ (stop # 0 /\ toolCall.tool = "keypress")
           K == KeysUpTo(whole, n)
<1>8. /\ dev' = [after EXCEPT !.text = <<>>, !.at = 0]
      /\ stuck' = IF broken THEN stuck \cup KeysOf(whole) ELSE stuck \ KeysOf(whole)
      /\ report'.asked = Typeable(toolCall) /\ report'.got = after.text
      /\ report'.clean = (stuck = {} /\ n = N /\ toolCall.tool = "type")
  BY <1>2, <1>7
<1>9. \A i \in 1..n : IsEvent(whole[i])
  BY <1>5, <1>6
<1> HIDE DEF N
<1>10. Leaves(d, whole, n, after)
  BY <1>6, <1>9, HeldAfter, Zenon
<1> HIDE DEF after
<1>11. /\ IsDevice(after)
       /\ after.held \subseteq d.held \cup K
       /\ Lifts(whole, n) => after.held \subseteq d.held \ K
  BY <1>10, Zenon DEF Leaves
<1>12. IsDevice(dev') /\ dev'.text = <<>> /\ dev'.held = after.held
  BY <1>8, <1>11 DEF IsDevice
<1>13. d.held \subseteq stuck
  BY DEF DeviceInv, HeldByFailures
<1>14. K \subseteq KeysOf(whole) /\ (n = N => K = KeysOf(whole))
  BY <1>6, KeysAmongAll
<1> HIDE DEF K
<1>15. dev'.held \subseteq stuck'
  <2>1. CASE broken
    BY <1>8, <1>11, <1>12, <1>13, <1>14, <2>1
  <2>2. CASE ~broken
    <3>1. n = N /\ Lifts(whole, n)
      BY <1>5, <1>6, <2>2
    <3> HIDE DEF broken
    <3> QED BY <1>8, <1>11, <1>12, <1>13, <1>14, <2>2, <3>1
  <2> QED BY <2>1, <2>2
<1>16. ASSUME report'.clean PROVE report'.got = report'.asked
  <2>1. stuck = {} /\ n = N /\ toolCall.tool = "type"
    BY <1>8, <1>16
  <2>2. d.held = {}
    BY <1>13, <2>1
  <2>3. Read(d, whole, Typeable(toolCall))
    BY <1>5, <2>1, <2>2
  <2>4. Part(whole, n) = whole
    BY <1>4, <1>6, <2>1 DEF Part, N
  <2> QED BY <1>8, <2>3, <2>4 DEF Read, after
<1> QED BY <1>12, <1>15, <1>16 DEF HeldByFailures, TypedAsAsked

LEMMA InitDevice == Init => DeviceInv
<1> SUFFICES ASSUME Init PROVE DeviceInv
  OBVIOUS
<1>1. dev = NoDevice /\ stuck = {} /\ report = NoReport /\ todo = <<>>
  BY DEF Init, DeviceInit
<1>2. IsDevice(NoDevice) /\ NoDevice.text = <<>> /\ NoDevice.held = {}
  BY DEF NoDevice, IsDevice
<1>3. report.clean = FALSE
  BY <1>1 DEF NoReport
<1> QED BY <1>1, <1>2, <1>3 DEF DeviceInv, HeldByFailures, TypedAsAsked

LEMMA NextDevice == DeviceInv /\ [Next]_vars => DeviceInv'
<1> SUFFICES ASSUME DeviceInv, [Next]_vars PROVE DeviceInv'
  OBVIOUS
<1> USE DEF DeviceInv
<1>0. NoReport.clean = FALSE
  BY DEF NoReport
<1>1. ASSUME UNCHANGED deviceVars, todo' \in Seq(Calls) PROVE DeviceInv'
  BY <1>1 DEF deviceVars, HeldByFailures, TypedAsAsked
<1>2. CASE CallsTools
  <2>1. UNCHANGED deviceVars /\ todo' \in UNION {[1..n -> Calls] : n \in 1..MaxCalls}
    BY <1>2, Zenon DEF CallsTools
  <2>2. PICK n \in 1..MaxCalls : todo' \in [1..n -> Calls]
    BY <2>1
  <2>3. n \in Nat
    BY LocalAssumption
  <2>4. todo' \in Seq(Calls)
    BY <2>2, <2>3
  <2> QED BY <1>1, <2>1, <2>4
<1>3. CASE RunsTool
  <2>1. Perform(Head(todo)) /\ todo # <<>> /\ todo' = Tail(todo)
    BY <1>3, Zenon DEF RunsTool
  <2>2. Head(todo) \in Calls /\ todo' \in Seq(Calls)
    BY <2>1
  <2>3. CASE Emit([dev EXCEPT !.is = "open"], Head(todo))
    <3> DEFINE d == [dev EXCEPT !.is = "open"]
    <3>1. IsDevice(d) /\ d.held = dev.held /\ d.text = <<>>
      BY DEF IsDevice
    <3> HIDE DEF d
    <3>2. Emit(d, Head(todo))
      BY <2>3, Zenon DEF d
    <3>3. IsDevice(dev') /\ dev'.text = <<>> /\ HeldByFailures' /\ TypedAsAsked'
      BY <2>2, <3>1, <3>2, EmitKeeps
    <3> QED BY <2>2, <3>3
  <2>4. CASE dev' = [dev EXCEPT !.is = "absent"] /\ report' = NoReport /\ UNCHANGED stuck
    <3>1. IsDevice(dev') /\ dev'.held = dev.held /\ dev'.text = <<>>
      BY <2>4 DEF IsDevice
    <3> QED BY <1>0, <2>2, <2>4, <3>1 DEF HeldByFailures, TypedAsAsked
  <2> QED BY <2>1, <2>3, <2>4, Zenon DEF Perform
<1>4. CASE ActEnds
  <2>1. report' = NoReport /\ UNCHANGED <<dev, stuck, todo>>
    BY <1>4, Zenon DEF ActEnds
  <2> QED BY <1>0, <2>1 DEF HeldByFailures, TypedAsAsked
<1>5. CASE Dies
  <2>1. dev' = NoDevice /\ stuck' = {} /\ report' = NoReport /\ todo' = <<>>
    BY <1>5, Zenon DEF Dies, DeviceCloses
  <2>2. IsDevice(NoDevice) /\ NoDevice.text = <<>> /\ NoDevice.held = {}
    BY DEF NoDevice, IsDevice
  <2> QED BY <1>0, <2>1, <2>2 DEF HeldByFailures, TypedAsAsked
<1>6. CASE TaskAlone /\ UNCHANGED <<deviceVars, todo>>
  BY <1>1, <1>6
<1>7. CASE UNCHANGED vars
  BY <1>1, <1>7 DEF vars
<1> QED BY <1>2, <1>3, <1>4, <1>5, <1>6, <1>7, Zenon DEF Next

(* Whatever chords, texts and clicks a model asks for, and wherever a write  *)
(* fails or a name has no key: a key that is down between two calls was left *)
(* down by a call that failed, and no call has lifted it since.              *)
THEOREM KeysComeUp == Spec => []HeldByFailures
<1>1. DeviceInv => HeldByFailures
  BY DEF DeviceInv
<1> QED BY <1>1, InitDevice, NextDevice, PTL DEF Spec

(* Every text arrives as it was asked for, in case and symbols, up to its    *)
(* first character without a key, unless a write failed or a key was left    *)
(* down.                                                                     *)
THEOREM TextArrives == Spec => []TypedAsAsked
<1>1. DeviceInv => TypedAsAsked
  BY DEF DeviceInv
<1> QED BY <1>1, InitDevice, NextDevice, PTL DEF Spec

-----------------------------------------------------------------------------
(* The task on a remote screen.  Sequences only matter by what is in them    *)
(* and how often an id is.                                                   *)
IsSeq(s) == \E S : s \in Seq(S)
Els(s) == {s[i] : i \in DOMAIN s}
Has(frames, id) == \E frame \in frames : frame.id = id
Once(s, id) == \A i, j \in DOMAIN s : s[i].id = id /\ s[j].id = id => i = j

HandShake == Frame("HAND_SHAKE", 0, Empty)
IsRequest(frame) == frame.type = "REQUEST" /\ frame.id \in Ids
Observing == {"capture", "elements"}

RemoteTypes ==
    /\ DOMAIN link = Conns /\ DOMAIN up = Conns /\ DOMAIN down = Conns
    /\ DOMAIN ready = Conns /\ DOMAIN torn = Conns /\ DOMAIN waiting = Conns
    /\ DOMAIN settled = Conns /\ DOMAIN settled[Client] = Ids
    /\ DOMAIN minting = Conns /\ DOMAIN terminal = Conns /\ DOMAIN serving = Conns

(* What is on its way.                                                       *)
FrameTypes ==
    /\ IsSeq(up[Client]) /\ IsSeq(waiting[Client]) /\ IsSeq(down[Client])
    /\ \A frame \in Els(waiting[Client]) : IsRequest(frame)
    /\ \A frame \in Els(up[Client]) : frame = HandShake \/ IsRequest(frame)
    /\ \A frame \in serving[Client] : IsRequest(frame)

(* The loop of the task awaits a call only where it makes one, and has seen  *)
(* something only after it.                                                  *)
SightOK ==
    /\ call \in Ids \cup {None}
    /\ call # None => loop.pc \in {"capture", "elements", "act"}
    /\ DOMAIN sight = {"picture", "table"}
    /\ loop.pc \notin {"elements", "think"} => sight = NoSight

(* The connection is made in this order, once.                               *)
Shaking == link[Client] = "new" \/ minting[Client] = TRUE \/ HandShake \in Els(up[Client])
Unmade == \/ link[Client] = "new" /\ up[Client] = <<>> /\ minting[Client] # TRUE
          \/ link[Client] # "new" /\ up[Client] = <<HandShake>> /\ minting[Client] # TRUE
          \/ link[Client] # "new" /\ up[Client] = <<>> /\ minting[Client] = TRUE

Refused == settled[Client][call].how \in {"no", "bad"}

Untouched ==
    Shaking => /\ Unmade
               /\ ready[Client] # "ok" /\ serving[Client] = {} /\ down[Client] = <<>>
               /\ loop.pc \in {"free", "capture"} /\ (call # None => Refused)

NotReady ==
    /\ ready[Client] = "wait" =>
         /\ \A frame \in Els(up[Client]) : frame = HandShake
         /\ serving[Client] = {}
         /\ \A frame \in Els(down[Client]) : frame.id = 0
    /\ ready[Client] # "wait" => waiting[Client] = <<>>

(* There is one frame of the call that the task awaits, or none.             *)
OneFrame ==
    call # None =>
      /\ Once(waiting[Client], call) /\ Once(up[Client], call) /\ Once(down[Client], call)
      /\ \A f, g \in serving[Client] : f.id = call /\ g.id = call => f = g
      /\ Has(Els(up[Client]), call) => ~Has(serving[Client], call) /\ ~Has(Els(down[Client]), call)
      /\ Has(serving[Client], call) => ~Has(Els(down[Client]), call)

Wire == RemoteTypes /\ FrameTypes /\ SightOK /\ Untouched /\ NotReady /\ OneFrame

-----------------------------------------------------------------------------
LEMMA EmptyFacts == IsSeq(<<>>) /\ Els(<<>>) = {} /\ \A id : Once(<<>>, id)
<1>1. <<>> \in Seq({})
  BY EmptySeq
<1>2. DOMAIN <<>> = {}
  BY <1>1, EmptySeq, LenProperties
<1> QED BY <1>1, <1>2 DEF IsSeq, Els, Once

LEMMA OneFacts ==
    ASSUME NEW e
    PROVE  /\ IsSeq(<<e>>) /\ Els(<<e>>) = {e} /\ Tail(<<e>>) = <<>> /\ Head(<<e>>) = e
           /\ \A id : Once(<<e>>, id)
<1>1. <<e>> \in Seq({e}) /\ Len(<<e>>) = 1 /\ <<e>>[1] = e /\ DOMAIN <<e>> = 1..1
  OBVIOUS
<1>2. Tail(<<e>>) \in Seq({e}) /\ Len(Tail(<<e>>)) = 0
  BY <1>1, HeadTailProperties
<1>3. Tail(<<e>>) = <<>>
  BY <1>2, EmptySeq
<1>4. IsSeq(<<e>>)
  BY <1>1 DEF IsSeq
<1>5. Els(<<e>>) = {e} /\ \A id : Once(<<e>>, id)
  BY <1>1 DEF Els, Once
<1>6. Head(<<e>>) = e
  BY <1>1
<1> QED BY <1>3, <1>4, <1>5, <1>6

LEMMA TailFacts ==
    ASSUME NEW s, IsSeq(s), s # <<>>
    PROVE  /\ IsSeq(Tail(s)) /\ Head(s) \in Els(s) /\ Els(s) = Els(Tail(s)) \cup {Head(s)}
           /\ \A id : Once(s, id) => /\ Once(Tail(s), id)
                                     /\ Head(s).id = id => ~Has(Els(Tail(s)), id)
<1>1. PICK S : s \in Seq(S)
  BY DEF IsSeq
<1>2. /\ Head(s) \in S /\ Tail(s) \in Seq(S) /\ Len(Tail(s)) = Len(s) - 1
      /\ \A i \in 1..Len(Tail(s)) : Tail(s)[i] = s[i + 1]
  BY <1>1, HeadTailProperties
<1>3. Len(s) \in Nat \ {0} /\ DOMAIN s = 1..Len(s) /\ DOMAIN Tail(s) = 1..Len(Tail(s))
  BY <1>1, <1>2, EmptySeq, LenProperties
<1>4. Head(s) = s[1] /\ 1 \in DOMAIN s
  BY <1>1, <1>3
<1>5. Els(s) = Els(Tail(s)) \cup {Head(s)}
  <2>1. ASSUME NEW i \in DOMAIN s PROVE s[i] \in Els(Tail(s)) \cup {Head(s)}
    <3>1. CASE i = 1
      BY <3>1, <1>4
    <3>2. CASE i # 1
      <4>1. i - 1 \in DOMAIN Tail(s) /\ Tail(s)[i - 1] = s[i]
        BY <3>2, <1>2, <1>3
      <4> QED BY <4>1 DEF Els
    <3> QED BY <3>1, <3>2
  <2>2. ASSUME NEW i \in DOMAIN Tail(s) PROVE Tail(s)[i] \in Els(s)
    BY <1>2, <1>3 DEF Els
  <2> QED BY <1>4, <2>1, <2>2 DEF Els
<1>6. ASSUME NEW id, Once(s, id)
      PROVE  Once(Tail(s), id) /\ (Head(s).id = id => ~Has(Els(Tail(s)), id))
  <2>1. \A i \in DOMAIN Tail(s) : i + 1 \in DOMAIN s /\ Tail(s)[i] = s[i + 1] /\ i \in Nat \ {0}
    BY <1>2, <1>3
  <2>2. \A i, j \in DOMAIN Tail(s) : i + 1 = j + 1 => i = j
    BY <2>1
  <2>3. Once(Tail(s), id)
    BY <1>6, <2>1, <2>2 DEF Once
  <2>4. ASSUME Head(s).id = id, NEW i \in DOMAIN Tail(s), Tail(s)[i].id = id PROVE FALSE
    <3>1. i + 1 = 1
      BY <1>4, <1>6, <2>1, <2>4 DEF Once
    <3> QED BY <3>1, <2>1
  <2> QED BY <2>3, <2>4 DEF Has, Els
<1> QED BY <1>2, <1>4, <1>5, <1>6 DEF IsSeq, Els

LEMMA ConcatFacts ==
    ASSUME NEW s, NEW t, IsSeq(s), IsSeq(t)
    PROVE  /\ IsSeq(s \o t) /\ Els(s \o t) = Els(s) \cup Els(t)
           /\ \A id : Once(s, id) /\ Once(t, id) /\ ~(Has(Els(s), id) /\ Has(Els(t), id))
                      => Once(s \o t, id)
<1>1. PICK S, T : s \in Seq(S) /\ t \in Seq(T)
  BY DEF IsSeq
<1>2. s \in Seq(S \cup T) /\ t \in Seq(S \cup T)
  <2>1. S \subseteq S \cup T /\ T \subseteq S \cup T
    OBVIOUS
  <2> QED BY <1>1, <2>1, SeqMonotonic
<1> DEFINE u == s \o t
<1>3. /\ u \in Seq(S \cup T) /\ Len(u) = Len(s) + Len(t)
      /\ \A i \in 1..Len(s) + Len(t) : u[i] = IF i <= Len(s) THEN s[i] ELSE t[i - Len(s)]
  BY <1>2, ConcatProperties
<1>4. /\ Len(s) \in Nat /\ Len(t) \in Nat /\ DOMAIN s = 1..Len(s) /\ DOMAIN t = 1..Len(t)
      /\ DOMAIN u = 1..Len(s) + Len(t)
  BY <1>1, <1>3, LenProperties
<1> HIDE DEF u
<1>5. \A i \in DOMAIN s : i \in DOMAIN u /\ u[i] = s[i]
  BY <1>3, <1>4
<1>6. \A i \in DOMAIN t : i + Len(s) \in DOMAIN u /\ u[i + Len(s)] = t[i]
  BY <1>3, <1>4
<1>7. \A i \in DOMAIN u : \/ i \in DOMAIN s /\ u[i] = s[i]
                          \/ i - Len(s) \in DOMAIN t /\ u[i] = t[i - Len(s)] /\ i > Len(s)
  BY <1>3, <1>4
<1>8. Els(u) = Els(s) \cup Els(t)
  <2>1. Els(u) \subseteq Els(s) \cup Els(t)
    BY <1>7 DEF Els
  <2>2. Els(s) \subseteq Els(u)
    BY <1>5 DEF Els
  <2>3. Els(t) \subseteq Els(u)
    BY <1>6 DEF Els
  <2> QED BY <2>1, <2>2, <2>3
<1>9. ASSUME NEW id, Once(s, id), Once(t, id), ~(Has(Els(s), id) /\ Has(Els(t), id))
      PROVE  Once(u, id)
  <2> SUFFICES ASSUME NEW i \in DOMAIN u, NEW j \in DOMAIN u, u[i].id = id, u[j].id = id
               PROVE  i = j
    BY DEF Once
  <2>1. CASE i \in DOMAIN s /\ u[i] = s[i] /\ j \in DOMAIN s /\ u[j] = s[j]
    BY <1>9, <2>1 DEF Once
  <2>2. CASE /\ i - Len(s) \in DOMAIN t /\ u[i] = t[i - Len(s)]
             /\ j - Len(s) \in DOMAIN t /\ u[j] = t[j - Len(s)]
    <3>1. i - Len(s) = j - Len(s)
      BY <1>9, <2>2 DEF Once
    <3> QED BY <3>1, <1>4
  <2>3. ASSUME NEW k \in DOMAIN u, NEW l \in DOMAIN u, u[k].id = id, u[l].id = id,
               k \in DOMAIN s, u[k] = s[k], l - Len(s) \in DOMAIN t, u[l] = t[l - Len(s)]
        PROVE  FALSE
    BY <1>9, <2>3 DEF Has, Els
  <2> QED BY <1>7, <2>1, <2>2, <2>3
<1> QED BY <1>3, <1>8, <1>9 DEF u, IsSeq

LEMMA AppendFacts ==
    ASSUME NEW s, NEW e, IsSeq(s)
    PROVE  /\ IsSeq(Append(s, e)) /\ Els(Append(s, e)) = Els(s) \cup {e}
           /\ \A id : Once(s, id) /\ (e.id = id => ~Has(Els(s), id)) => Once(Append(s, e), id)
<1>1. PICK S : s \in Seq(S)
  BY DEF IsSeq
<1>2. s \in Seq(S \cup {e})
  <2>1. S \subseteq S \cup {e}
    OBVIOUS
  <2> QED BY <1>1, <2>1, SeqMonotonic
<1>3. Append(s, e) = s \o <<e>>
  BY <1>2
<1>4. Has(Els(<<e>>), e.id) /\ \A id : Has(Els(<<e>>), id) => e.id = id
  BY OneFacts DEF Has
<1> QED BY <1>3, <1>4, ConcatFacts, OneFacts
-----------------------------------------------------------------------------
(* A request under way that may change the screen is one the task awaits.    *)
InFlight == Els(waiting[Client]) \cup Els(up[Client]) \cup serving[Client]

InputsAwaited ==
    \A frame \in InFlight :
       \/ frame = HandShake \/ frame.body.method \in Observing
       \/ call # None /\ loop.pc = "act" /\ frame.id = call /\ settled[Client][call].how = "no"

TellsTrue(how, body) ==
    /\ how = "BLOB" => body = render(terminal[Client])
    /\ how = "RESULT" => body = elements(terminal[Client])

(* What the task is about to be told is how the screen is.                   *)
AnswersTrue ==
    call # None /\ loop.pc \in Observing =>
      /\ \A frame \in InFlight : frame.id = call => frame.body.method = loop.pc
      /\ \A frame \in Els(down[Client]) : frame.id = call => TellsTrue(frame.type, frame.body)
      /\ TellsTrue(settled[Client][call].how, settled[Client][call].body)

PictureTrue == loop.pc = "elements" => sight.picture = render(terminal[Client])

Fresh == InputsAwaited /\ AnswersTrue /\ PictureTrue /\ SeesTheTerminal

(* The connection went before the model was asked: it is not asked any more. *)
Lost ==
    /\ torn[Client] /\ sight = NoSight /\ loop.pc # "think"
    /\ call # None /\ loop.pc \in Observing => Refused

(* The inductive invariant: the frames of the connection are in order, and   *)
(* what the task has seen or will be told of the screen is so, or it will    *)
(* not ask its model any more.                                               *)
TruthInv == GateInv /\ Wire /\ (Lost \/ Fresh)

SameStep == loop' = loop /\ call' = call /\ sight' = sight

-----------------------------------------------------------------------------
LEMMA SettleFacts ==
    RemoteTypes => \A c \in Conns : \A ids, how, body :
      /\ DOMAIN Settle(c, ids, how, body) = Conns
      /\ DOMAIN Settle(c, ids, how, body)[Client] = Ids
      /\ c # Client => Settle(c, ids, how, body)[Client] = settled[Client]
BY RemoteAssumption DEF RemoteTypes, Settle

LEMMA Settled ==
    RemoteTypes => \A ids, how, body : \A id \in Ids :
        Settle(Client, ids, how, body)[Client][id] =
            IF id \in ids /\ settled[Client][id].how = "no"
            THEN [how |-> how, body |-> body] ELSE settled[Client][id]
BY RemoteAssumption DEF RemoteTypes, Settle

LEMMA TypesKept == ASSUME RemoteTypes, [RemoteNext]_remoteVars PROVE RemoteTypes'
<1> USE DEF RemoteTypes
<1>1. CASE UNCHANGED scoutVars
  BY <1>1 DEF scoutVars, netVars, clientVars, serverVars
<1>2. ASSUME NEW c \in Conns, Connect(c) \/ Cut(c) PROVE RemoteTypes'
  BY <1>2 DEF Connect, Cut, clientVars, serverVars
<1>3. CASE ServerStops
  BY <1>3 DEF ServerStops, clientVars, serverVars
<1>4. ASSUME NEW c \in Conns, Teardown(c), link' = link \/ link' = [link EXCEPT ![c] = "cut"],
             UNCHANGED <<up, down, serverVars>>
      PROVE RemoteTypes'
  BY <1>4 DEF Teardown, Settle, serverVars
<1>5. ASSUME NEW c \in Conns, Receive(c) PROVE RemoteTypes'
  <2>1. /\ link' = link /\ torn' = torn /\ minting' = minting /\ terminal' = terminal
        /\ serving' = serving /\ down' = [down EXCEPT ![c] = Tail(@)]
    BY <1>5 DEF Receive, serverVars
  <2>2. CASE Head(down[c]).type = "HAND_SHAKE_ACK"
    BY <1>5, <2>1, <2>2 DEF Receive
  <2>3. CASE Head(down[c]).type # "HAND_SHAKE_ACK"
    <3>1. /\ DOMAIN ready' = Conns /\ DOMAIN waiting' = Conns /\ DOMAIN up' = Conns
          /\ \/ settled' = Settle(c, IdsOf(waiting[c]), "bad", Empty)
             \/ settled' = Settle(c, {Head(down[c]).id} \cap pending[c],
                                  IF Head(down[c]).type = "ERROR" THEN "bad" ELSE Head(down[c]).type,
                                  Head(down[c]).body)
      BY <1>5, <2>3 DEF Receive
    <3>2. DOMAIN settled' = Conns /\ DOMAIN settled'[Client] = Ids
      <4>1. PICK ids, how, body : settled' = Settle(c, ids, how, body)
        BY <3>1, Zenon
      <4> QED BY <4>1, SettleFacts
    <3> QED BY <2>1, <3>1, <3>2
  <2> QED BY <2>2, <2>3
<1>6. ASSUME NEW c \in Conns, ServerReads(c) \/ ServerCloses(c) PROVE RemoteTypes'
  BY <1>6 DEF ServerReads, ServerCloses, clientVars, netVars
<1>7. ASSUME NEW c \in Conns, Mint(c) \/ MintFails(c) \/ Reply(c) PROVE RemoteTypes'
  BY <1>7 DEF Mint, MintFails, Reply, Send, clientVars
<1>8. CASE Issue
  BY <1>8, RemoteAssumption DEF Issue, Asks, Call, Mark, serverVars
<1>9. CASE UNCHANGED <<netVars, ready, torn, waiting, pending, serverVars>>
           /\ \E how : settled' = Mark(Client, call, how)
  BY <1>9, RemoteAssumption DEF Mark, netVars, serverVars
<1>10. ASSUME NEW c \in Conns, Remote(c) \/ Close(c) PROVE RemoteTypes'
  <2>1. CASE Close(c)
    BY <1>4, <2>1 DEF Close
  <2>2. CASE ClientLosesConnection(c)
    BY <1>4, <2>2 DEF ClientLosesConnection, netVars
  <2> QED BY <1>10, <1>2, <1>5, <1>6, <1>7, <2>1, <2>2 DEF Remote
<1>11. CASE Observed \/ InputDone \/ CaptureTimesOut
  BY <1>11, <1>9 DEF Observed, InputDone, CaptureTimesOut, Taken
<1>12. CASE Thinking \/ ToolsEnd \/ (Caller /\ UNCHANGED <<scoutVars, stepVars>>)
            \/ UNCHANGED remoteVars
  BY <1>12, <1>1 DEF Thinking, ToolsEnd, remoteVars
<1> QED BY <1>2, <1>3, <1>8, <1>10, <1>11, <1>12 DEF RemoteNext, OnTheWire

(* The other connections are not the task's.                                 *)
LEMMA OthersKeep ==
    ASSUME RemoteTypes, NEW c \in Conns, c # Client, Remote(c) \/ Cut(c) \/ Close(c)
    PROVE  /\ link'[Client] = link[Client] /\ up'[Client] = up[Client]
           /\ down'[Client] = down[Client] /\ ready'[Client] = ready[Client]
           /\ torn'[Client] = torn[Client] /\ waiting'[Client] = waiting[Client]
           /\ settled'[Client] = settled[Client] /\ minting'[Client] = minting[Client]
           /\ terminal'[Client] = terminal[Client] /\ serving'[Client] = serving[Client]
<1> USE RemoteAssumption DEF RemoteTypes
<1>1. CASE Connect(c) \/ Cut(c) \/ ServerReads(c) \/ ServerCloses(c)
  BY <1>1 DEF Connect, Cut, ServerReads, ServerCloses, clientVars, serverVars, netVars
<1>2. CASE ClientLosesConnection(c) \/ Close(c)
  BY <1>2 DEF ClientLosesConnection, Close, Teardown, Settle, netVars, serverVars
<1>3. CASE Receive(c)
  BY <1>3 DEF Receive, Settle, serverVars
<1>4. CASE Mint(c) \/ MintFails(c) \/ Reply(c)
  BY <1>4 DEF Mint, MintFails, Reply, Send, clientVars
<1> QED BY <1>1, <1>2, <1>3, <1>4 DEF Remote

LEMMA SameKeeps ==
    ASSUME Wire, Lost \/ Fresh, SameStep, RemoteTypes',
           up'[Client] = up[Client], down'[Client] = down[Client],
           ready'[Client] = ready[Client], torn'[Client] = torn[Client],
           waiting'[Client] = waiting[Client], settled'[Client] = settled[Client],
           minting'[Client] = minting[Client], terminal'[Client] = terminal[Client],
           serving'[Client] = serving[Client],
           link'[Client] = link[Client] \/ link'[Client] = "cut"
    PROVE  Wire' /\ (Lost' \/ Fresh')
<1>1. FrameTypes' /\ SightOK' /\ NotReady' /\ OneFrame'
  BY DEF Wire, FrameTypes, SightOK, NotReady, OneFrame, SameStep
<1>2. Untouched'
  BY EmptyFacts DEF Wire, Untouched, Shaking, Unmade, Refused, SameStep
<1>3. Lost => Lost'
  BY DEF Lost, SameStep, Refused
<1>4. Fresh => Fresh'
  BY DEF Fresh, InputsAwaited, AnswersTrue, PictureTrue, SeesTheTerminal, TellsTrue, InFlight,
         SameStep
<1> QED BY <1>1, <1>2, <1>3, <1>4 DEF Wire
-----------------------------------------------------------------------------
(* Each end of the task's connection.                                        *)
LEMMA ConnectKeeps ==
    ASSUME Wire, Lost \/ Fresh, SameStep, RemoteTypes', Connect(Client)
    PROVE  Wire' /\ (Lost' \/ Fresh')
<1>1. /\ link[Client] = "new" /\ ~torn[Client] /\ link'[Client] = "open" /\ up'[Client] = <<HandShake>>
      /\ down' = down /\ ready' = ready /\ torn' = torn /\ waiting' = waiting
      /\ settled' = settled /\ minting' = minting /\ terminal' = terminal /\ serving' = serving
  BY RemoteAssumption DEF Wire, RemoteTypes, Connect, clientVars, serverVars, HandShake
<1>2. /\ up[Client] = <<>> /\ minting[Client] # TRUE /\ ready[Client] # "ok"
      /\ serving[Client] = {} /\ down[Client] = <<>>
      /\ loop.pc \in {"free", "capture"} /\ (call # None => Refused)
  BY <1>1 DEF Wire, Untouched, Shaking, Unmade
<1>3. call # None => call \in Ids /\ call # 0
  BY SessionAssumption DEF Wire, SightOK
<1>4. Els(up[Client]) = {} /\ Els(up'[Client]) = {HandShake} /\ HandShake.id = 0
  BY <1>1, <1>2, EmptyFacts, OneFacts DEF HandShake, Frame
<1>5. FrameTypes'
  BY <1>1, <1>4, OneFacts DEF Wire, FrameTypes
<1>6. SightOK'
  BY DEF Wire, SightOK, SameStep
<1>7. Untouched'
  BY <1>1, <1>2 DEF Wire, Untouched, Unmade, SameStep, Refused
<1>8. NotReady'
  BY <1>1, <1>4 DEF Wire, NotReady
<1>9. OneFrame'
  BY <1>1, <1>2, <1>3, <1>4, OneFacts DEF Wire, OneFrame, SameStep, Has
<1>10. Lost => Lost'
  BY <1>1 DEF Lost
<1>11. Fresh => Fresh'
  <2>1. InFlight' = InFlight \cup {HandShake}
    BY <1>1, <1>4 DEF InFlight
  <2>2. InputsAwaited => InputsAwaited'
    BY <1>1, <2>1 DEF InputsAwaited, SameStep
  <2>3. AnswersTrue => AnswersTrue'
    BY <1>1, <1>3, <1>4, <2>1 DEF AnswersTrue, TellsTrue, SameStep
  <2> QED BY <1>1, <2>2, <2>3 DEF Fresh, PictureTrue, SeesTheTerminal, SameStep
<1> QED BY <1>5, <1>6, <1>7, <1>8, <1>9, <1>10, <1>11 DEF Wire

LEMMA TeardownKeeps ==
    ASSUME Wire, Lost \/ Fresh, SameStep, RemoteTypes', Teardown(Client), ~torn[Client],
           UNCHANGED <<up, down, serverVars>>,
           link'[Client] = link[Client] \/ link'[Client] = "cut"
    PROVE  Wire' /\ (Lost' \/ Fresh')
<1>1. /\ up' = up /\ down' = down /\ minting' = minting /\ terminal' = terminal
      /\ serving' = serving /\ torn'[Client] = TRUE /\ waiting'[Client] = <<>>
      /\ ready'[Client] = IF ready[Client] = "wait" THEN "bad" ELSE ready[Client]
  BY RemoteAssumption DEF Wire, RemoteTypes, Teardown, serverVars
<1>2. \A id \in Ids : settled'[Client][id] = settled[Client][id]
                      \/ settled'[Client][id] = [how |-> "bad", body |-> Empty]
  BY Settled DEF Wire, Teardown
<1>3. call # None => call \in Ids
  BY DEF Wire, SightOK
<1>4. FrameTypes'
  BY <1>1, EmptyFacts DEF Wire, FrameTypes
<1>5. SightOK'
  BY DEF Wire, SightOK, SameStep
<1>6. Refused /\ call # None => Refused'
  BY <1>2, <1>3 DEF Refused, SameStep
<1>7. Untouched'
  <2> SUFFICES ASSUME Shaking'
               PROVE  /\ Unmade' /\ ready'[Client] # "ok" /\ serving[Client] = {}
                      /\ down[Client] = <<>> /\ loop.pc \in {"free", "capture"}
                      /\ call # None => Refused
    BY <1>1, <1>6 DEF Untouched, SameStep
  <2>1. Shaking
    BY <1>1 DEF Shaking
  <2>2. Unmade'
    BY <1>1, <2>1, EmptyFacts DEF Wire, Untouched, Unmade, Shaking
  <2> QED BY <1>1, <2>1, <2>2 DEF Wire, Untouched
<1>8. NotReady'
  BY <1>1 DEF Wire, NotReady
<1>9. OneFrame'
  BY <1>1, EmptyFacts DEF Wire, OneFrame, SameStep
<1>10. ~Lost
  BY DEF Lost
<1>11. CASE loop.pc = "act"
  <2>1. sight = NoSight
    BY <1>11 DEF Wire, SightOK
  <2> QED BY <1>1, <1>4, <1>5, <1>7, <1>8, <1>9, <1>11, <2>1 DEF Wire, Lost, SameStep, Observing
<1>12. CASE loop.pc # "act"
  <2>1. InFlight' \subseteq InFlight
    BY <1>1, EmptyFacts DEF InFlight
  <2>2. InputsAwaited'
    BY <1>10, <1>12, <2>1 DEF Fresh, InputsAwaited
  <2>3. AnswersTrue'
    BY <1>1, <1>2, <1>3, <1>10, <2>1 DEF Fresh, AnswersTrue, TellsTrue, SameStep
  <2>4. PictureTrue' /\ SeesTheTerminal'
    BY <1>1, <1>10 DEF Fresh, PictureTrue, SeesTheTerminal, SameStep
  <2> QED BY <1>4, <1>5, <1>7, <1>8, <1>9, <2>2, <2>3, <2>4 DEF Wire, Fresh
<1> QED BY <1>11, <1>12

LEMMA ReadsKeeps ==
    ASSUME Wire, Lost \/ Fresh, SameStep, RemoteTypes', ServerReads(Client)
    PROVE  Wire' /\ (Lost' \/ Fresh')
<1> DEFINE frame == Head(up[Client])
<1>1. /\ up[Client] # <<>> /\ up'[Client] = Tail(up[Client])
      /\ link' = link /\ down' = down /\ ready' = ready /\ torn' = torn /\ waiting' = waiting
      /\ settled' = settled /\ terminal' = terminal
      /\ \/ frame.type = "HAND_SHAKE" /\ minting'[Client] = TRUE /\ serving' = serving
         \/ /\ frame.type # "HAND_SHAKE" /\ minting' = minting
            /\ serving'[Client] = serving[Client] \cup {frame}
  BY RemoteAssumption DEF Wire, RemoteTypes, ServerReads, clientVars
<1>2. /\ IsSeq(up'[Client]) /\ Els(up[Client]) = Els(up'[Client]) \cup {frame}
      /\ \A id : Once(up[Client], id) => /\ Once(up'[Client], id)
                                         /\ frame.id = id => ~Has(Els(up'[Client]), id)
  BY <1>1, TailFacts DEF Wire, FrameTypes
<1> HIDE DEF frame
<1>3. /\ frame = HandShake \/ IsRequest(frame)
      /\ IsRequest(frame) => frame # HandShake /\ frame.type # "HAND_SHAKE"
      /\ HandShake.type = "HAND_SHAKE" /\ HandShake.id = 0
  BY <1>2 DEF Wire, FrameTypes, IsRequest, HandShake, Frame
<1>4. SightOK'
  BY DEF Wire, SightOK, SameStep
<1>5. Lost => Lost'
  BY <1>1 DEF Lost, SameStep, Refused
<1>6. FrameTypes'
  BY <1>1, <1>2, <1>3 DEF Wire, FrameTypes
<1>7. NotReady'
  BY <1>1, <1>2, <1>3 DEF Wire, NotReady
<1>8. OneFrame'
  <2>1. call # None => HandShake.id # call
    BY <1>3, SessionAssumption DEF Wire, SightOK
  <2> SUFFICES ASSUME call # None PROVE OneFrame'
    BY DEF OneFrame, SameStep
  <2>2. Has(Els(up[Client]), call) <=> Has(Els(up'[Client]), call) \/ frame.id = call
    BY <1>2 DEF Has
  <2>3. CASE frame.id = call
    <3>1. serving'[Client] = serving[Client] \cup {frame}
      BY <1>1, <1>3, <2>1, <2>3
    <3>2. ~Has(serving[Client], call) /\ ~Has(Els(down[Client]), call) /\ ~Has(Els(up'[Client]), call)
      BY <1>2, <2>2, <2>3 DEF Wire, OneFrame
    <3> QED BY <1>1, <1>2, <3>1, <3>2 DEF Wire, OneFrame, SameStep, Has
  <2>4. CASE frame.id # call
    <3>1. \A f \in serving'[Client] : f.id = call => f \in serving[Client]
      BY <1>1, <2>4
    <3> QED BY <1>1, <1>2, <2>2, <2>4, <3>1 DEF Wire, OneFrame, SameStep, Has
  <2> QED BY <2>3, <2>4
<1>9. Fresh => Fresh'
  <2>1. InFlight' \subseteq InFlight
    BY <1>1, <1>2 DEF InFlight
  <2> QED BY <1>1, <2>1 DEF Fresh, InputsAwaited, AnswersTrue, TellsTrue, PictureTrue,
                            SeesTheTerminal, SameStep
<1>10. CASE frame = HandShake
  <2>1. /\ up[Client] = <<HandShake>> /\ up'[Client] = <<>> /\ minting'[Client] = TRUE
        /\ link[Client] # "new" /\ serving' = serving
    <3>1. HandShake \in Els(up[Client])
      BY <1>2, <1>10
    <3>2. up[Client] = <<HandShake>> /\ link[Client] # "new"
      BY <3>1, EmptyFacts DEF Wire, Untouched, Shaking, Unmade
    <3> QED BY <1>1, <1>3, <1>10, <3>2, OneFacts
  <2>2. Shaking
    BY <1>2, <1>10 DEF Shaking
  <2>3. Untouched'
    BY <1>1, <2>1, <2>2 DEF Wire, Untouched, Unmade, Refused, SameStep
  <2> QED BY <1>4, <1>5, <1>6, <1>7, <1>8, <1>9, <2>3 DEF Wire
<1>11. CASE IsRequest(frame)
  <2>1. minting' = minting
    BY <1>1, <1>3, <1>11
  <2>2. ~Shaking
    <3>1. up[Client] # <<>> /\ up[Client] # <<HandShake>>
      <4>1. Els(<<HandShake>>) = {HandShake}
        BY OneFacts
      <4>2. frame \in Els(up[Client]) /\ frame # HandShake
        BY <1>2, <1>3, <1>11
      <4> QED BY <1>1, <4>1, <4>2
    <3> QED BY <3>1 DEF Wire, Untouched, Unmade
  <2>3. ~Shaking'
    BY <1>1, <1>2, <2>1, <2>2 DEF Shaking
  <2> QED BY <1>4, <1>5, <1>6, <1>7, <1>8, <1>9, <2>3 DEF Wire, Untouched
<1> QED BY <1>3, <1>10, <1>11
(* What the server sends to the handshake.                                   *)
LEMMA MintKeeps ==
    ASSUME Wire, Lost \/ Fresh, SameStep, RemoteTypes', Mint(Client) \/ MintFails(Client)
    PROVE  Wire' /\ (Lost' \/ Fresh')
<1>1. /\ minting[Client] /\ minting'[Client] = FALSE
      /\ link' = link \/ link'[Client] = "cut"
      /\ up' = up /\ ready' = ready /\ torn' = torn /\ waiting' = waiting
      /\ settled' = settled /\ serving' = serving
  BY RemoteAssumption DEF Wire, RemoteTypes, Mint, MintFails, clientVars
<1>2. \/ down'[Client] = down[Client]
      \/ \E frame : frame.id = 0 /\ down'[Client] = Append(down[Client], frame)
  <2>1. PICK frame : Send(Client, frame) /\ frame.id = 0
    BY DEF Mint, MintFails, Frame
  <2> QED BY <2>1, RemoteAssumption DEF Wire, RemoteTypes, Send
<1>3. /\ link[Client] # "new" /\ up[Client] = <<>> /\ ready[Client] # "ok"
      /\ serving[Client] = {} /\ down[Client] = <<>>
      /\ loop.pc \in {"free", "capture"} /\ (call # None => Refused)
  BY <1>1 DEF Wire, Untouched, Shaking, Unmade
<1>4. /\ IsSeq(down'[Client]) /\ (\A id : Once(down'[Client], id))
      /\ \A frame \in Els(down'[Client]) : frame.id = 0
  <2>1. CASE down'[Client] = down[Client]
    BY <1>3, <2>1, EmptyFacts
  <2>2. ASSUME NEW frame, frame.id = 0, down'[Client] = Append(down[Client], frame)
        PROVE  /\ IsSeq(down'[Client]) /\ (\A id : Once(down'[Client], id))
               /\ \A f \in Els(down'[Client]) : f.id = 0
    <3>1. down'[Client] = <<frame>>
      BY <1>3, <2>2
    <3> QED BY <2>2, <3>1, OneFacts
  <2> QED BY <1>2, <2>1, <2>2
<1>5. call # None => call \in Ids /\ call # 0
  BY SessionAssumption DEF Wire, SightOK
<1>6. FrameTypes' /\ SightOK'
  BY <1>1, <1>4 DEF Wire, FrameTypes, SightOK, SameStep
<1>7. ~Shaking'
  BY <1>1, <1>3, EmptyFacts DEF Shaking
<1>8. NotReady'
  BY <1>1, <1>4 DEF Wire, NotReady
<1>9. OneFrame'
  BY <1>1, <1>3, <1>4, <1>5, EmptyFacts DEF Wire, OneFrame, SameStep, Has
<1>10. Lost => Lost'
  BY <1>1 DEF Lost, SameStep, Refused
<1>11. Fresh => Fresh'
  <2>1. InFlight' = InFlight
    BY <1>1 DEF InFlight
  <2>2. InputsAwaited => InputsAwaited'
    BY <1>1, <2>1 DEF InputsAwaited, SameStep
  <2>3. AnswersTrue => AnswersTrue'
    BY <1>1, <1>3, <1>4, <1>5, <2>1 DEF AnswersTrue, TellsTrue, SameStep, Refused
  <2> QED BY <1>3, <2>2, <2>3 DEF Fresh, PictureTrue, SeesTheTerminal, SameStep
<1> QED BY <1>6, <1>7, <1>8, <1>9, <1>10, <1>11 DEF Wire, Untouched

(* A reply of the terminal, whose screen changes only by an input.           *)
LEMMA RepliesTrue ==
    ASSUME NEW t, NEW request, request.method \in Observing
    PROVE  /\ dispatch(t, request).after = t
           /\ dispatch(t, request).type = "BLOB" => dispatch(t, request).body = render(t)
           /\ dispatch(t, request).type = "RESULT" => dispatch(t, request).body = elements(t)
BY DEF dispatch, Observing

LEMMA ReplyKeeps ==
    ASSUME Wire, Lost \/ Fresh, SameStep, RemoteTypes', Reply(Client)
    PROVE  Wire' /\ (Lost' \/ Fresh')
<1>1. PICK frame \in serving[Client] :
         /\ serving' = [serving EXCEPT ![Client] = @ \ {frame}]
         /\ terminal' = [terminal EXCEPT ![Client] = dispatch(terminal[Client], frame.body).after]
         /\ Send(Client, Frame(dispatch(terminal[Client], frame.body).type, frame.id,
                               dispatch(terminal[Client], frame.body).body))
  BY DEF Reply
<1> DEFINE t == terminal[Client]
           done == dispatch(t, frame.body)
           reply == Frame(done.type, frame.id, done.body)
<1>2. /\ serving'[Client] = serving[Client] \ {frame} /\ terminal'[Client] = done.after
      /\ down'[Client] = down[Client] \/ down'[Client] = Append(down[Client], reply)
      /\ link' = link /\ up' = up /\ ready' = ready /\ torn' = torn /\ waiting' = waiting
      /\ settled' = settled /\ minting' = minting
  BY <1>1, RemoteAssumption DEF Wire, RemoteTypes, Reply, Send, clientVars
<1>3. reply.id = frame.id /\ reply.type = done.type /\ reply.body = done.body
  BY DEF Frame
<1>4. frame.body.method \in Observing => /\ done.after = t
                                         /\ done.type = "BLOB" => done.body = render(t)
                                         /\ done.type = "RESULT" => done.body = elements(t)
  BY RepliesTrue
<1> HIDE DEF t, done, reply
<1>5. /\ IsSeq(down'[Client]) /\ Els(down[Client]) \subseteq Els(down'[Client])
      /\ Els(down'[Client]) \subseteq Els(down[Client]) \cup {reply}
      /\ \A id : Once(down[Client], id) /\ (frame.id = id => ~Has(Els(down[Client]), id))
                 => Once(down'[Client], id)
  <2>1. IsSeq(down[Client])
    BY DEF Wire, FrameTypes
  <2>2. CASE down'[Client] = down[Client]
    BY <2>1, <2>2
  <2>3. CASE down'[Client] = Append(down[Client], reply)
    BY <1>3, <2>1, <2>3, AppendFacts
  <2> QED BY <1>2, <2>2, <2>3
<1>6. IsRequest(frame) /\ frame # HandShake
  BY DEF Wire, FrameTypes, IsRequest, HandShake, Frame
<1>7. ~Shaking /\ ready[Client] # "wait"
  BY DEF Wire, Untouched, NotReady
<1>8. FrameTypes' /\ SightOK'
  BY <1>2, <1>5 DEF Wire, FrameTypes, SightOK, SameStep
<1>9. Untouched' /\ NotReady'
  BY <1>2, <1>7 DEF Wire, Untouched, Shaking, NotReady
<1>10. OneFrame'
  <2> SUFFICES ASSUME call # None PROVE OneFrame'
    BY DEF OneFrame, SameStep
  <2>1. CASE frame.id = call
    <3>1. /\ ~Has(Els(down[Client]), call) /\ ~Has(Els(up[Client]), call)
          /\ ~Has(serving'[Client], call)
      BY <1>2, <2>1 DEF Wire, OneFrame, Has
    <3> QED BY <1>2, <1>5, <2>1, <3>1 DEF Wire, OneFrame, SameStep, Has
  <2>2. CASE frame.id # call
    <3>1. Has(Els(down'[Client]), call) => Has(Els(down[Client]), call)
      BY <1>3, <1>5, <2>2 DEF Has
    <3>2. Once(down'[Client], call)
      BY <1>5, <2>2 DEF Wire, OneFrame
    <3> QED BY <1>2, <3>1, <3>2 DEF Wire, OneFrame, SameStep, Has
  <2> QED BY <2>1, <2>2
<1>11. Lost => Lost'
  BY <1>2 DEF Lost, SameStep, Refused
<1>12. ASSUME Fresh PROVE Fresh'
  <2>1. InFlight' \subseteq InFlight /\ frame \in InFlight
    BY <1>2 DEF InFlight
  <2>2. InputsAwaited'
    BY <1>2, <1>12, <2>1 DEF Fresh, InputsAwaited, SameStep
  <2>3. CASE frame.body.method \in Observing
    <3>1. terminal'[Client] = terminal[Client]
      BY <1>2, <1>4, <2>3 DEF t
    <3>2. TellsTrue(reply.type, reply.body)
      BY <1>3, <1>4, <2>3 DEF TellsTrue, t
    <3>3. AnswersTrue'
      <4> SUFFICES ASSUME call # None, loop.pc \in Observing PROVE AnswersTrue'
        BY DEF AnswersTrue, SameStep
      <4>1. \A f \in Els(down'[Client]) : f.id = call => TellsTrue(f.type, f.body)
        BY <1>5, <1>12, <3>2 DEF Fresh, AnswersTrue
      <4>2. /\ \A f \in Els(down'[Client]) : f.id = call => TellsTrue(f.type, f.body)'
            /\ TellsTrue(settled[Client][call].how, settled[Client][call].body)'
        BY <1>2, <1>12, <3>1, <4>1 DEF Fresh, AnswersTrue, TellsTrue, SameStep
      <4> QED BY <1>2, <1>12, <2>1, <4>2 DEF Fresh, AnswersTrue, SameStep
    <3> QED BY <1>12, <2>2, <3>1, <3>3 DEF Fresh, PictureTrue, SeesTheTerminal, SameStep
  <2>4. CASE frame.body.method \notin Observing
    <3>1. loop.pc = "act"
      BY <1>6, <1>12, <2>1, <2>4 DEF Fresh, InputsAwaited
    <3> QED BY <2>2, <3>1 DEF Fresh, AnswersTrue, PictureTrue, SeesTheTerminal, SameStep, Observing
  <2> QED BY <2>3, <2>4
<1> QED BY <1>8, <1>9, <1>10, <1>11, <1>12 DEF Wire

(* What the client is told.                                                  *)
LEMMA AckKeeps ==
    ASSUME Wire, Lost \/ Fresh, SameStep, RemoteTypes', Receive(Client),
           Head(down[Client]).type = "HAND_SHAKE_ACK"
    PROVE  Wire' /\ (Lost' \/ Fresh')
<1>1. /\ ~torn[Client] /\ down[Client] # <<>> /\ down'[Client] = Tail(down[Client])
      /\ ready'[Client] = "ok" /\ up'[Client] = up[Client] \o waiting[Client]
      /\ waiting'[Client] = <<>> /\ settled' = settled /\ torn' = torn /\ link' = link
      /\ minting' = minting /\ terminal' = terminal /\ serving' = serving
  BY RemoteAssumption DEF Wire, RemoteTypes, Receive, serverVars
<1>2. /\ IsSeq(down'[Client]) /\ Els(down'[Client]) \subseteq Els(down[Client])
      /\ \A id : Once(down[Client], id) => Once(down'[Client], id)
  BY <1>1, TailFacts DEF Wire, FrameTypes
<1>3. /\ IsSeq(up'[Client]) /\ Els(up'[Client]) = Els(up[Client]) \cup Els(waiting[Client])
      /\ \A id : /\ Once(up[Client], id) /\ Once(waiting[Client], id)
                 /\ ~(Has(Els(up[Client]), id) /\ Has(Els(waiting[Client]), id))
                 => Once(up'[Client], id)
  BY <1>1, ConcatFacts DEF Wire, FrameTypes
<1>4. IsSeq(waiting'[Client]) /\ Els(waiting'[Client]) = {} /\ \A id : Once(waiting'[Client], id)
  BY <1>1, EmptyFacts
<1>5. FrameTypes' /\ SightOK'
  BY <1>1, <1>2, <1>3, <1>4 DEF Wire, FrameTypes, SightOK, SameStep
<1>6. \A frame : IsRequest(frame) => frame # HandShake
  BY DEF IsRequest, HandShake, Frame
<1>7. ~Shaking
  BY <1>1 DEF Wire, Untouched
<1>8. Untouched' /\ NotReady'
  BY <1>1, <1>3, <1>6, <1>7 DEF Wire, Untouched, Shaking, NotReady, FrameTypes
<1>9. OneFrame'
  <2> SUFFICES ASSUME call # None PROVE OneFrame'
    BY DEF OneFrame, SameStep
  <2>1. call # 0 /\ HandShake.id = 0
    BY SessionAssumption DEF Wire, SightOK, HandShake, Frame
  <2>2. CASE ready[Client] = "wait"
    <3>1. ~Has(Els(up[Client]), call) /\ ~Has(serving[Client], call) /\ ~Has(Els(down[Client]), call)
      BY <2>1, <2>2 DEF Wire, NotReady, Has
    <3> QED BY <1>1, <1>2, <1>3, <1>4, <3>1 DEF Wire, OneFrame, SameStep, Has
  <2>3. CASE ready[Client] # "wait"
    <3>1. Els(waiting[Client]) = {}
      BY <2>3, EmptyFacts DEF Wire, NotReady
    <3> QED BY <1>1, <1>2, <1>3, <1>4, <3>1 DEF Wire, OneFrame, SameStep, Has
  <2> QED BY <2>2, <2>3
<1>10. ~Lost
  BY <1>1 DEF Lost
<1>11. InFlight' = InFlight
  BY <1>1, <1>3, <1>4 DEF InFlight
<1>12. Fresh'
  BY <1>1, <1>2, <1>10, <1>11 DEF Fresh, InputsAwaited, AnswersTrue, TellsTrue, PictureTrue,
                                  SeesTheTerminal, SameStep
<1> QED BY <1>5, <1>8, <1>9, <1>12 DEF Wire

LEMMA RefusalKeeps ==
    ASSUME Wire, Lost \/ Fresh, SameStep, RemoteTypes', Receive(Client),
           Head(down[Client]).type = "ERROR", Head(down[Client]).id = 0
    PROVE  Wire' /\ (Lost' \/ Fresh')
<1>1. /\ ~torn[Client] /\ down[Client] # <<>> /\ down'[Client] = Tail(down[Client])
      /\ ready'[Client] = (IF ready[Client] = "wait" THEN "bad" ELSE ready[Client])
      /\ waiting'[Client] = <<>> /\ settled' = Settle(Client, IdsOf(waiting[Client]), "bad", Empty)
      /\ up' = up /\ torn' = torn /\ link' = link
      /\ minting' = minting /\ terminal' = terminal /\ serving' = serving
  BY RemoteAssumption DEF Wire, RemoteTypes, Receive, serverVars
<1>2. /\ IsSeq(down'[Client]) /\ Els(down'[Client]) \subseteq Els(down[Client])
      /\ \A id : Once(down[Client], id) => Once(down'[Client], id)
  BY <1>1, TailFacts DEF Wire, FrameTypes
<1>3. IsSeq(waiting'[Client]) /\ Els(waiting'[Client]) = {} /\ \A id : Once(waiting'[Client], id)
  BY <1>1, EmptyFacts
<1>4. FrameTypes' /\ SightOK'
  BY <1>1, <1>2, <1>3 DEF Wire, FrameTypes, SightOK, SameStep
<1>5. ~Shaking /\ ~Shaking'
  BY <1>1 DEF Wire, Untouched, Shaking
<1>6. NotReady'
  BY <1>1 DEF Wire, NotReady
<1>7. OneFrame'
  BY <1>1, <1>2, <1>3 DEF Wire, OneFrame, SameStep, Has
<1>8. ~Lost
  BY <1>1 DEF Lost
<1>9. \A id \in Ids : settled'[Client][id] = settled[Client][id]
                      \/ settled'[Client][id] = [how |-> "bad", body |-> Empty]
  BY <1>1, Settled DEF Wire
<1>10. call # None => call \in Ids
  BY DEF Wire, SightOK
<1>11. InFlight' \subseteq InFlight
  BY <1>1, <1>3 DEF InFlight
<1>12. InputsAwaited'
  <2>1. CASE ready[Client] = "wait"
    BY <1>1, <1>3, <2>1 DEF Wire, NotReady, InputsAwaited, InFlight
  <2>2. CASE ready[Client] # "wait"
    <3>1. IdsOf(waiting[Client]) = {}
      <4>1. waiting[Client] = <<>> /\ DOMAIN <<>> = {}
        BY <2>2 DEF Wire, NotReady
      <4> QED BY <4>1 DEF IdsOf
    <3>2. \A id \in Ids : settled'[Client][id] = settled[Client][id]
      <4>1. settled' = Settle(Client, {}, "bad", Empty)
        BY <1>1, <3>1
      <4> QED BY <4>1, Settled, ZenonT(60) DEF Wire
    <3> QED BY <1>8, <1>10, <1>11, <3>2 DEF Fresh, InputsAwaited, SameStep
  <2> QED BY <2>1, <2>2
<1>13. AnswersTrue'
  BY <1>1, <1>2, <1>8, <1>9, <1>10, <1>11 DEF Fresh, AnswersTrue, TellsTrue, SameStep
<1>14. PictureTrue' /\ SeesTheTerminal'
  BY <1>1, <1>8 DEF Fresh, PictureTrue, SeesTheTerminal, SameStep
<1> QED BY <1>4, <1>5, <1>6, <1>7, <1>12, <1>13, <1>14 DEF Wire, Untouched, Fresh

LEMMA AnswerKeeps ==
    ASSUME Wire, Lost \/ Fresh, SameStep, RemoteTypes', Receive(Client),
           Head(down[Client]).type # "HAND_SHAKE_ACK",
           ~(Head(down[Client]).type = "ERROR" /\ Head(down[Client]).id = 0)
    PROVE  Wire' /\ (Lost' \/ Fresh')
<1> DEFINE frame == Head(down[Client])
           how == IF frame.type = "ERROR" THEN "bad" ELSE frame.type
<1>1. /\ ~torn[Client] /\ down[Client] # <<>> /\ down'[Client] = Tail(down[Client])
      /\ settled' = Settle(Client, {frame.id} \cap pending[Client], how, frame.body)
      /\ ready' = ready /\ waiting' = waiting /\ up' = up /\ torn' = torn /\ link' = link
      /\ minting' = minting /\ terminal' = terminal /\ serving' = serving
  BY RemoteAssumption DEF Wire, RemoteTypes, Receive, serverVars
<1>2. /\ IsSeq(down'[Client]) /\ Els(down[Client]) = Els(down'[Client]) \cup {frame}
      /\ \A id : Once(down[Client], id) => Once(down'[Client], id)
  BY <1>1, TailFacts DEF Wire, FrameTypes
<1>3. call # None => call \in Ids /\ call # 0
  BY SessionAssumption DEF Wire, SightOK
<1>4. \A id \in Ids : \/ settled'[Client][id] = settled[Client][id]
                      \/ id = frame.id /\ settled'[Client][id] = [how |-> how, body |-> frame.body]
  <2>1. PICK ids : ids \subseteq {frame.id} /\ settled' = Settle(Client, ids, how, frame.body)
    BY <1>1
  <2> HIDE DEF how, frame
  <2> QED BY <2>1, Settled DEF Wire
<1>5. how = "bad" \/ how = frame.type
  OBVIOUS
<1> HIDE DEF frame, how
<1>6. FrameTypes' /\ SightOK'
  BY <1>1, <1>2 DEF Wire, FrameTypes, SightOK, SameStep
<1>7. ~Shaking /\ ~Shaking'
  BY <1>1 DEF Wire, Untouched, Shaking
<1>8. NotReady'
  BY <1>1, <1>2 DEF Wire, NotReady
<1>9. OneFrame'
  <2>1. \A id : Has(Els(down'[Client]), id) => Has(Els(down[Client]), id)
    BY <1>2 DEF Has
  <2> QED BY <1>1, <1>2, <2>1 DEF Wire, OneFrame, SameStep
<1>10. ~Lost
  BY <1>1 DEF Lost
<1>11. InFlight' = InFlight
  BY <1>1 DEF InFlight
<1>12. InputsAwaited'
  <2> SUFFICES ASSUME NEW f \in InFlight, f # HandShake, f.body.method \notin Observing
               PROVE  settled'[Client][call].how = "no"
    BY <1>10, <1>11 DEF Fresh, InputsAwaited, SameStep
  <2>1. call # None /\ f.id = call /\ settled[Client][call].how = "no"
    BY <1>10 DEF Fresh, InputsAwaited
  <2>2. frame.id # call
    <3> SUFFICES ASSUME frame.id = call PROVE FALSE
      OBVIOUS
    <3>1. Has(Els(down[Client]), call)
      BY <1>2 DEF Has
    <3>2. ready[Client] # "wait"
      BY <1>2, <1>3, <2>1 DEF Wire, NotReady
    <3>3. Els(waiting[Client]) = {}
      BY <3>2, EmptyFacts DEF Wire, NotReady
    <3>4. f \notin Els(up[Client]) /\ f \notin serving[Client]
      BY <2>1, <3>1 DEF Wire, OneFrame, Has
    <3> QED BY <3>3, <3>4 DEF InFlight
  <2> QED BY <1>3, <1>4, <2>1, <2>2
<1>13. AnswersTrue'
  <2> SUFFICES ASSUME call # None, loop.pc \in Observing PROVE AnswersTrue'
    BY DEF AnswersTrue, SameStep
  <2>1. /\ \A f \in InFlight : f.id = call => f.body.method = loop.pc
        /\ \A f \in Els(down[Client]) : f.id = call => TellsTrue(f.type, f.body)
        /\ TellsTrue(settled[Client][call].how, settled[Client][call].body)
    BY <1>10 DEF Fresh, AnswersTrue
  <2>2. TellsTrue(settled'[Client][call].how, settled'[Client][call].body)
    <3>1. CASE settled'[Client][call] = settled[Client][call]
      BY <2>1, <3>1
    <3>2. CASE call = frame.id /\ settled'[Client][call] = [how |-> how, body |-> frame.body]
      <4>1. TellsTrue(frame.type, frame.body)
        BY <1>2, <2>1, <3>2
      <4> QED BY <1>5, <3>2, <4>1 DEF TellsTrue
    <3> QED BY <1>3, <1>4, <3>1, <3>2
  <2> QED BY <1>1, <1>2, <1>11, <2>1, <2>2 DEF AnswersTrue, TellsTrue, SameStep
<1>14. PictureTrue' /\ SeesTheTerminal'
  BY <1>1, <1>10 DEF Fresh, PictureTrue, SeesTheTerminal, SameStep
<1> QED BY <1>6, <1>7, <1>8, <1>9, <1>12, <1>13, <1>14 DEF Wire, Untouched, Fresh

(* Whatever happens on the connections while the task waits.                 *)
LEMMA WireKeeps ==
    ASSUME Wire, Lost \/ Fresh, SameStep, RemoteTypes', NEW c \in Conns,
           Remote(c) \/ Cut(c) \/ Close(c) \/ ServerStops
    PROVE  Wire' /\ (Lost' \/ Fresh')
<1>1. CASE ServerStops
  BY <1>1, SameKeeps, RemoteAssumption DEF ServerStops, clientVars, serverVars
<1>2. CASE c # Client /\ ~ServerStops
  BY <1>2, OthersKeep, SameKeeps DEF Wire
<1>3. CASE c = Client /\ Cut(c)
  BY <1>3, SameKeeps, RemoteAssumption DEF Cut, clientVars, serverVars, Wire, RemoteTypes
<1>4. CASE c = Client /\ ServerCloses(c)
  BY <1>4, SameKeeps DEF ServerCloses, netVars, clientVars
<1>5. CASE c = Client /\ (Close(c) \/ ClientLosesConnection(c))
  <2>1. /\ Teardown(Client) /\ ~torn[Client] /\ UNCHANGED <<up, down, serverVars>>
        /\ link'[Client] = link[Client] \/ link'[Client] = "cut"
    BY <1>5, RemoteAssumption DEF Close, ClientLosesConnection, netVars, Wire, RemoteTypes
  <2> QED BY <2>1, TeardownKeeps
<1>6. CASE c = Client /\ Receive(c)
  BY <1>6, AckKeeps, RefusalKeeps, AnswerKeeps
<1>7. CASE c = Client /\ (Connect(c) \/ ServerReads(c) \/ Mint(c) \/ MintFails(c) \/ Reply(c))
  BY <1>7, ConnectKeeps, ReadsKeeps, MintKeeps, ReplyKeeps
<1> QED BY <1>1, <1>2, <1>3, <1>4, <1>5, <1>6, <1>7 DEF Remote
-----------------------------------------------------------------------------
(* Where the loop of the task goes.                                          *)
LEMMA AfterStepGoes ==
    ASSUME IsLoop(loop), NEW t, AfterStep(t)
    PROVE  loop'.pc \in {"free", "gate", "capture"}
<1>1. ASSUME NEW u, LoopHead(u) PROVE loop'.pc \in {"free", "gate", "capture"}
  BY <1>1 DEF LoopHead, Free
<1>2. CASE loop' = [loop EXCEPT !.pc = "gate"]
  BY <1>2, SetPc
<1> QED BY <1>1, <1>2, FreeIsLoop DEF AfterStep

LEMMA CallerGoes ==
    ASSUME GateInv, Caller
    PROVE  loop' = loop \/ (loop.pc \in {"free", "gate"} /\ loop'.pc \in {"free", "capture"})
<1>1. ASSUME NEW u, LoopHead(u) PROVE loop'.pc \in {"free", "capture"}
  BY <1>1 DEF LoopHead, Free
<1>2. CASE run \/ exec \/ pause \/ goto
  BY <1>1, <1>2 DEF run, exec, pause, goto
<1>3. CASE step
  <2>1. [loop EXCEPT !.pc = "capture", !.step = task.counter + 1].pc = "capture"
    BY SetPcAndStep DEF GateInv
  <2> QED BY <1>3, <2>1, FreeIsLoop DEF step
<1> QED BY <1>2, <1>3 DEF Caller

(* The task stops waiting, at a rest, at a next capture, or for its tools.   *)
LEMMA RestKeeps ==
    ASSUME Wire, Lost \/ Fresh, RemoteTypes',
           UNCHANGED <<netVars, ready, torn, waiting, serverVars>>,
           call' = None, sight' = NoSight, loop'.pc \in {"free", "gate", "capture", "act"},
           Shaking => loop'.pc \in {"free", "capture"},
           loop.pc # "act" \/ call = None \/ settled[Client][call].how # "no"
    PROVE  Wire' /\ (Lost' \/ Fresh')
<1>1. /\ link' = link /\ up' = up /\ down' = down /\ ready' = ready /\ torn' = torn
      /\ waiting' = waiting /\ minting' = minting /\ terminal' = terminal /\ serving' = serving
  BY DEF netVars, serverVars
<1>2. FrameTypes' /\ NotReady' /\ OneFrame'
  BY <1>1 DEF Wire, FrameTypes, NotReady, OneFrame
<1>3. SightOK'
  BY DEF SightOK, NoSight
<1>4. Untouched'
  BY <1>1 DEF Wire, Untouched, Shaking, Unmade
<1>5. Lost => Lost'
  BY <1>1 DEF Lost
<1>6. Fresh => Fresh'
  BY <1>1 DEF Fresh, InputsAwaited, InFlight, AnswersTrue, PictureTrue, SeesTheTerminal
<1> QED BY <1>2, <1>3, <1>4, <1>5, <1>6 DEF Wire

LEMMA ThinkingKeeps ==
    ASSUME GateInv, Wire, Lost \/ Fresh, RemoteTypes', Thinking \/ ToolsEnd
    PROVE  Wire' /\ (Lost' \/ Fresh')
<1>1. /\ loop.pc \in {"think", "act"} /\ call = None /\ ~Shaking
      /\ loop.pc = "act" => sight = NoSight
  BY DEF Thinking, ToolsEnd, ThinkFails, Talks, CallsTool, Acted, Wire, SightOK, Untouched
<1>2. /\ UNCHANGED <<netVars, ready, torn, waiting, serverVars>> /\ call' = None /\ sight' = NoSight
  BY <1>1 DEF Thinking, ToolsEnd, Acted, scoutVars, clientVars, stepVars
<1>3. loop'.pc \in {"free", "gate", "capture", "act"}
  <2>1. ASSUME NEW t, AfterStep(t) PROVE loop'.pc \in {"free", "gate", "capture"}
    BY <2>1, AfterStepGoes DEF GateInv
  <2>2. CASE CallsTool
    BY <2>2, SetPc DEF CallsTool, GateInv
  <2> QED BY <2>1, <2>2 DEF Thinking, ToolsEnd, ThinkFails, Talks, Acted
<1> QED BY <1>1, <1>2, <1>3, RestKeeps

LEMMA CallerKeeps ==
    ASSUME GateInv, Wire, Lost \/ Fresh, RemoteTypes', Caller, UNCHANGED <<scoutVars, stepVars>>
    PROVE  Wire' /\ (Lost' \/ Fresh')
<1>1. CASE loop' = loop
  BY <1>1, SameKeeps DEF SameStep, scoutVars, netVars, clientVars, serverVars, stepVars
<1>2. CASE loop.pc \in {"free", "gate"} /\ loop'.pc \in {"free", "capture"}
  <2>1. call = None /\ sight = NoSight
    BY <1>2 DEF Wire, SightOK
  <2> QED BY <1>2, <2>1, RestKeeps DEF scoutVars, clientVars, stepVars
<1> QED BY <1>1, <1>2, CallerGoes

(* The answers that a step of the task awaits.                               *)
LEMMA AnsweredKeeps ==
    ASSUME GateInv, Wire, Lost \/ Fresh, RemoteTypes', Observed \/ InputDone \/ CaptureTimesOut
    PROVE  Wire' /\ (Lost' \/ Fresh')
<1>1. UNCHANGED <<netVars, ready, torn, waiting, serverVars>> /\ call' = None /\ call # None
  BY DEF Observed, InputDone, CaptureTimesOut, Taken
<1>2. CASE InputDone
  <2>1. /\ loop' = loop /\ sight' = sight /\ loop.pc = "act" /\ settled[Client][call].how # "no"
        /\ sight = NoSight /\ ~Shaking
    BY <1>2 DEF InputDone, taskVars, Wire, SightOK, Untouched, Answer
  <2> QED BY <1>1, <2>1, RestKeeps
<1>3. CASE ObserveFails /\ sight' = NoSight
  <2>1. loop'.pc = "free" /\ loop.pc # "act"
    BY <1>3, FreeIsLoop DEF ObserveFails
  <2> QED BY <1>1, <1>3, <2>1, RestKeeps
<1>4. CASE Answer.how = "BLOB" /\ Captured /\ sight' = [sight EXCEPT !.picture = Answer.body]
  <2>1. /\ loop.pc = "capture" /\ loop'.pc = (IF Native THEN "think" ELSE "elements")
    BY <1>4, SetPc DEF Captured, GateInv
  <2>2. ~Shaking /\ ~Lost
    BY <1>1, <1>4, <2>1 DEF Wire, Untouched, Lost, Refused, Answer, Observing
  <2>3. Answer.body = render(terminal[Client]) /\ terminal' = terminal
    BY <1>1, <1>4, <2>1, <2>2 DEF Fresh, AnswersTrue, TellsTrue, Answer, Observing, serverVars
  <2>4. DOMAIN sight' = {"picture", "table"} /\ sight'.picture = Answer.body
    BY <1>4 DEF Wire, SightOK
  <2>5. SightOK'
    BY <1>1, <2>1, <2>4 DEF SightOK
  <2>6. FrameTypes' /\ NotReady' /\ OneFrame' /\ Untouched'
    BY <1>1, <2>2 DEF Wire, FrameTypes, NotReady, OneFrame, Untouched, Shaking, netVars, serverVars
  <2>7. InputsAwaited' /\ AnswersTrue'
    BY <1>1, <2>1, <2>2 DEF Fresh, InputsAwaited, InFlight, AnswersTrue, netVars, serverVars
  <2>8. PictureTrue' /\ SeesTheTerminal'
    BY <2>1, <2>3, <2>4 DEF PictureTrue, SeesTheTerminal
  <2> QED BY <2>5, <2>6, <2>7, <2>8 DEF Wire, Fresh
<1>5. CASE Answer.how = "RESULT" /\ Listed
           /\ sight' = [sight EXCEPT !.table = annotate(Answer.body)]
  <2>1. loop.pc = "elements" /\ loop'.pc = "think"
    BY <1>5, SetPc DEF Listed, GateInv
  <2>2. ~Shaking /\ ~Lost
    BY <1>1, <1>5, <2>1 DEF Wire, Untouched, Lost, Refused, Answer, Observing
  <2>3. /\ Answer.body = elements(terminal[Client]) /\ terminal' = terminal
        /\ sight.picture = render(terminal[Client])
    BY <1>1, <1>5, <2>1, <2>2
       DEF Fresh, AnswersTrue, PictureTrue, TellsTrue, Answer, Observing, serverVars
  <2>4. /\ DOMAIN sight' = {"picture", "table"} /\ sight'.picture = sight.picture
        /\ sight'.table = annotate(Answer.body)
    BY <1>5 DEF Wire, SightOK
  <2>5. SightOK'
    BY <1>1, <2>1, <2>4 DEF SightOK
  <2>6. FrameTypes' /\ NotReady' /\ OneFrame' /\ Untouched'
    BY <1>1, <2>2 DEF Wire, FrameTypes, NotReady, OneFrame, Untouched, Shaking, netVars, serverVars
  <2>7. InputsAwaited' /\ AnswersTrue'
    BY <1>1, <2>1, <2>2 DEF Fresh, InputsAwaited, InFlight, AnswersTrue, netVars, serverVars
  <2>8. PictureTrue' /\ SeesTheTerminal'
    BY <2>1, <2>3, <2>4 DEF PictureTrue, SeesTheTerminal
  <2> QED BY <2>5, <2>6, <2>7, <2>8 DEF Wire, Fresh
<1> QED BY <1>2, <1>3, <1>4, <1>5 DEF Observed, CaptureTimesOut

(* A request of the step, under an id that nothing refers to.                *)
LEMMA IssueKeeps ==
    ASSUME Wire, Lost \/ Fresh, RemoteTypes', Issue
    PROVE  Wire' /\ (Lost' \/ Fresh')
<1>1. /\ call = None /\ loop' = loop /\ sight' = sight
      /\ \E request : /\ Asks(request) /\ loop.pc \in {"capture", "elements", "act"}
                      /\ loop.pc \in Observing => request.method = loop.pc
  BY DEF Issue, Asks, taskVars, Observing
<1>2. PICK request : /\ Asks(request) /\ loop.pc \in {"capture", "elements", "act"}
                     /\ loop.pc \in Observing => request.method = loop.pc
  BY <1>1
<1>3. PICK id \in Ids \ InUse(Client) : Call(Client, id, request) /\ call' = id
  BY <1>2 DEF Asks
<1> DEFINE frame == Frame("REQUEST", id, request)
<1>4. /\ link' = link /\ down' = down /\ ready' = ready /\ torn' = torn
      /\ minting' = minting /\ terminal' = terminal /\ serving' = serving
      /\ settled'[Client][id] = [how |-> IF ready[Client] = "bad" THEN "bad" ELSE "no", body |-> Empty]
      /\ \/ /\ ready[Client] = "wait"
            /\ waiting'[Client] = Append(waiting[Client], frame) /\ up'[Client] = up[Client]
         \/ /\ ready[Client] = "ok"
            /\ waiting'[Client] = waiting[Client] /\ up'[Client] = Append(up[Client], frame)
         \/ waiting'[Client] = waiting[Client] /\ up'[Client] = up[Client]
  BY <1>3, RemoteAssumption DEF Call, Mark, Wire, RemoteTypes, serverVars
<1>5. /\ frame.type = "REQUEST" /\ frame.id = id /\ frame.body = request
      /\ frame # HandShake /\ IsRequest(frame)
  BY DEF Frame, HandShake, IsRequest
<1>6. /\ ~Has(Els(waiting[Client]), id) /\ ~Has(Els(up[Client]), id) /\ ~Has(Els(down[Client]), id)
      /\ ~Has(serving[Client], id)
  BY DEF InUse, IdsOf, Has, Els
<1> HIDE DEF frame
<1>7. /\ IsSeq(waiting'[Client]) /\ IsSeq(up'[Client])
      /\ Els(waiting'[Client]) \subseteq Els(waiting[Client]) \cup {frame}
      /\ Els(up'[Client]) \subseteq Els(up[Client]) \cup {frame}
      /\ Once(waiting'[Client], id) /\ Once(up'[Client], id)
  <2>1. \A s : IsSeq(s) /\ ~Has(Els(s), id) =>
          /\ Once(s, id)
          /\ IsSeq(Append(s, frame)) /\ Els(Append(s, frame)) = Els(s) \cup {frame}
          /\ Once(Append(s, frame), id)
    <3>1. ASSUME NEW s, ~Has(Els(s), id) PROVE Once(s, id)
      BY <3>1 DEF Once, Has, Els
    <3> QED BY <3>1, AppendFacts
  <2>2. IsSeq(waiting[Client]) /\ IsSeq(up[Client])
    BY DEF Wire, FrameTypes
  <2>3. \A s : IsSeq(s) /\ ~Has(Els(s), id) => Once(s, id)
    BY <2>1
  <2>4. CASE waiting'[Client] = waiting[Client] /\ up'[Client] = up[Client]
    BY <1>6, <2>2, <2>3, <2>4
  <2>5. CASE waiting'[Client] = Append(waiting[Client], frame) /\ up'[Client] = up[Client]
    BY <1>6, <2>1, <2>2, <2>5
  <2>6. CASE waiting'[Client] = waiting[Client] /\ up'[Client] = Append(up[Client], frame)
    BY <1>6, <2>1, <2>2, <2>6
  <2> QED BY <1>4, <2>4, <2>5, <2>6
<1>8. FrameTypes'
  <2>1. \A f \in Els(waiting'[Client]) : IsRequest(f)
    BY <1>5, <1>7 DEF Wire, FrameTypes
  <2>2. \A f \in Els(up'[Client]) : f = HandShake \/ IsRequest(f)
    BY <1>5, <1>7 DEF Wire, FrameTypes
  <2> QED BY <1>4, <1>7, <2>1, <2>2 DEF Wire, FrameTypes
<1>9. id # None
  BY RemoteAssumption
<1>10. SightOK'
  BY <1>1, <1>2, <1>3 DEF Wire, SightOK
<1>11. ready[Client] # "ok" => up'[Client] = up[Client]
  BY <1>4
<1>12. Untouched'
  <2>1. Shaking' => Shaking
    BY <1>4, <1>5, <1>7 DEF Shaking
  <2> SUFFICES ASSUME Shaking
               PROVE  /\ Unmade' /\ ready[Client] # "ok" /\ serving[Client] = {}
                      /\ down[Client] = <<>> /\ loop.pc \in {"free", "capture"}
                      /\ settled'[Client][id].how \in {"no", "bad"}
    BY <1>1, <1>3, <1>4, <2>1 DEF Untouched, Refused
  <2>2. up'[Client] = up[Client] /\ Unmade
    BY <1>11 DEF Wire, Untouched
  <2>3. Unmade'
    BY <1>4, <2>2 DEF Unmade
  <2> QED BY <1>4, <2>3 DEF Wire, Untouched
<1>13. NotReady'
  <2>1. ready[Client] # "wait" => waiting'[Client] = waiting[Client]
    BY <1>4
  <2>2. ready'[Client] = ready[Client] /\ serving' = serving /\ down' = down
    BY <1>4
  <2>3. NotReady
    BY DEF Wire
  <2> QED BY <1>11, <2>1, <2>2, <2>3 DEF NotReady
<1>14. OneFrame'
  <2>1. Once(down[Client], id)
    BY <1>6 DEF Once, Has, Els
  <2>2. call' = id /\ down' = down /\ serving' = serving
    BY <1>3, <1>4
  <2> QED BY <1>6, <1>7, <2>1, <2>2 DEF OneFrame, Has
<1>15. Lost => Lost'
  BY <1>1, <1>3, <1>4 DEF Lost, Refused
<1>16. ASSUME Fresh PROVE Fresh'
  <2>1. InFlight' \subseteq InFlight \cup {frame}
    BY <1>4, <1>7 DEF InFlight
  <2>2. \A f \in InFlight : f = HandShake \/ f.body.method \in Observing
    BY <1>1, <1>16 DEF Fresh, InputsAwaited
  <2>3. \A f \in InFlight : f.id # id
    BY <1>6 DEF InFlight, Has
  <2>4. frame \in InFlight' => settled'[Client][id].how = "no"
    <3> SUFFICES ASSUME frame \in InFlight', ready[Client] = "bad" PROVE FALSE
      BY <1>4
    <3>1. InFlight' = InFlight
      BY <1>4 DEF InFlight
    <3> QED BY <1>5, <2>3, <3>1
  <2>5. InputsAwaited'
    BY <1>1, <1>2, <1>3, <1>5, <1>9, <2>1, <2>2, <2>4 DEF InputsAwaited, Observing
  <2>6. AnswersTrue'
    BY <1>1, <1>2, <1>3, <1>4, <1>5, <1>6, <2>1, <2>3 DEF AnswersTrue, TellsTrue, Has
  <2> QED BY <1>1, <1>4, <1>16, <2>5, <2>6 DEF Fresh, PictureTrue, SeesTheTerminal
<1> QED BY <1>8, <1>10, <1>12, <1>13, <1>14, <1>15, <1>16 DEF Wire

-----------------------------------------------------------------------------
LEMMA RemoteStep ==
    ASSUME [RemoteNext]_remoteVars
    PROVE  [TaskNext]_taskVars
BY DEF RemoteNext, remoteVars, TaskNext, Think, Platform, Thinking, Issue, Asks, Observed, InputDone,
       ToolsEnd, CaptureTimesOut, OnTheWire

(* The task whose captures and inputs are calls of a scout client is a task. *)
THEOREM RemoteTaskIsATask == RemoteSpec => TaskSpec
<1>1. RemoteInit => TaskInit
  BY DEF RemoteInit
<1> QED BY <1>1, RemoteStep, PTL DEF RemoteSpec, TaskSpec

LEMMA RemoteInitTrue == RemoteInit => TruthInv
<1> SUFFICES ASSUME RemoteInit PROVE TruthInv
  OBVIOUS
<1>1. GateInv
  BY InitGates DEF RemoteInit
<1>2. /\ link[Client] = "new" /\ up[Client] = <<>> /\ down[Client] = <<>>
      /\ ready[Client] = "wait" /\ torn[Client] = FALSE /\ waiting[Client] = <<>>
      /\ minting[Client] = FALSE /\ serving[Client] = {}
      /\ call = None /\ sight = NoSight /\ loop.pc = "free" /\ RemoteTypes
  BY FreeIsLoop, RemoteAssumption DEF RemoteInit, TaskInit, ScoutInit, RemoteTypes
<1>3. FrameTypes /\ SightOK /\ Untouched /\ NotReady /\ OneFrame
  BY <1>2, EmptyFacts
     DEF FrameTypes, SightOK, NoSight, Untouched, Unmade, NotReady, OneFrame
<1>4. Fresh
  BY <1>2, EmptyFacts
     DEF Fresh, InputsAwaited, InFlight, AnswersTrue, PictureTrue, SeesTheTerminal
<1> QED BY <1>1, <1>2, <1>3, <1>4 DEF TruthInv, Wire

LEMMA RemoteNextTrue == ASSUME TruthInv, [RemoteNext]_remoteVars PROVE TruthInv'
<1>1. GateInv'
  BY RemoteStep, NextGates DEF TruthInv
<1>2. RemoteTypes' /\ GateInv /\ Wire /\ (Lost \/ Fresh)
  BY TypesKept DEF TruthInv, Wire
<1>3. CASE UNCHANGED <<taskVars, stepVars>>
           /\ (ServerStops \/ \E c \in Conns : Remote(c) \/ Cut(c) \/ Close(c))
  <2>1. SameStep
    BY <1>3 DEF SameStep, taskVars, stepVars
  <2> QED BY <1>1, <1>2, <1>3, <2>1, WireKeeps, RemoteAssumption DEF TruthInv
<1>4. CASE UNCHANGED remoteVars
  <2>1. Wire' /\ (Lost' \/ Fresh')
    BY <1>2, <1>4, SameKeeps
       DEF SameStep, remoteVars, taskVars, stepVars, scoutVars, netVars, clientVars, serverVars
  <2> QED BY <1>1, <2>1 DEF TruthInv
<1>5. CASE Thinking \/ ToolsEnd \/ Issue \/ Observed \/ InputDone \/ CaptureTimesOut
           \/ (Caller /\ UNCHANGED <<scoutVars, stepVars>>)
  <2>1. Wire' /\ (Lost' \/ Fresh')
    BY <1>2, <1>5, ThinkingKeeps, IssueKeeps, AnsweredKeeps, CallerKeeps
  <2> QED BY <1>1, <2>1 DEF TruthInv
<1> QED BY <1>3, <1>4, <1>5 DEF RemoteNext, OnTheWire

(* The model is shown the screen as it is, for every number of connections,  *)
(* ids, tool calls and steps: also after captures that timed out, terminals  *)
(* that could not be made, cut connections and a stopped server.             *)
THEOREM RemoteTruth == RemoteSpec => []SeesTheTerminal
<1>1. TruthInv => SeesTheTerminal
  BY DEF TruthInv, Lost, Fresh, SeesTheTerminal
<1> QED BY <1>1, RemoteInitTrue, RemoteNextTrue, PTL DEF RemoteSpec

(* In single-step mode also the task on a remote screen goes on only when it *)
(* is asked to, whatever its screen answers.                                 *)
THEOREM RemoteGate == RemoteSpec => OneStepPerContinue
BY TaskGate, RemoteTaskIsATask
=============================================================================
