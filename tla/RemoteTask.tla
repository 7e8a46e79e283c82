----------------------------- MODULE RemoteTask -----------------------------
(* An agent's task that works on a remote screen: every capture, listing and *)
(* input of AgentTask is a call of the scout client of its process           *)
(* (packages/agent/src/remote.ts), and every answer one of its settlements.  *)
EXTENDS AgentTask, ScoutSession

CONSTANTS
    Client,    \* the connection of the task
    Plans,     \* bound: the sequences of tool calls the model asks for in a step
    None

ASSUME RemoteAssumption == Client \in Conns /\ None \notin Ids

VARIABLES
    call,      \* the id of the call the task awaits, or None
    sight,     \* the picture and the marked elements of this step
    toAsk      \* of the tool calls of this step: the requests still to make

stepVars == <<call, sight, toAsk>>
remoteVars == <<taskVars, scoutVars, stepVars>>

NoSight == [picture |-> Empty, table |-> Empty]

RemoteInit ==
    /\ TaskInit /\ ScoutInit
    /\ call = None /\ sight = NoSight /\ toAsk = <<>>

(* Ids are only compared: a fresh one is one that nothing refers to.         *)
InUse(c) ==
    pending[c] \cup IdsOf(waiting[c]) \cup {frame.id : frame \in serving[c]}
        \cup IdsOf(up[c]) \cup IdsOf(down[c])

Asks(request) ==
    /\ \E id \in Ids \ InUse(Client) :
          /\ \A i \in Ids \ InUse(Client) : id <= i
          /\ Call(Client, id, request)
          /\ call' = id
    /\ UNCHANGED <<taskVars, sight, toAsk>>

Issue ==
    /\ call = None
    /\ \/ loop.pc \in {"capture", "elements"} /\ Asks([method |-> loop.pc])
       \/ loop.pc = "act" /\ toAsk # <<>> /\ Asks(Head(Head(toAsk)))

(* The promise of a call is used up.                                         *)
Taken ==
    /\ call' = None
    /\ settled' = Mark(Client, call, "no")
    /\ UNCHANGED <<netVars, ready, torn, waiting, pending, serverVars>>

Answer == settled[Client][call]

(* The picture, then the elements, which get their marks; an error ends the  *)
(* step.                                                                     *)
Observed ==
    /\ call # None /\ loop.pc \in {"capture", "elements"}
    /\ \/ /\ Answer.how = "BLOB" /\ Captured
          /\ sight' = [sight EXCEPT !.picture = Answer.body]
       \/ /\ Answer.how = "RESULT" /\ Listed
          /\ sight' = [sight EXCEPT !.table = annotate(Answer.body)]
       \/ /\ Answer.how = "bad" /\ ObserveFails
          /\ sight' = NoSight
    /\ Taken
    /\ UNCHANGED toAsk

(* The requests that are left: an error ends a tool call, not the others.    *)
Left(failed) ==
    IF failed \/ Len(Head(toAsk)) = 1 THEN Tail(toAsk)
    ELSE <<Tail(Head(toAsk))>> \o Tail(toAsk)

(* Nobody awaits the platform.                                               *)
InputForgotten ==
    /\ call # None /\ loop.pc = "act"
    /\ toAsk' = Left(FALSE)
    /\ Taken
    /\ UNCHANGED <<taskVars, sight>>

InputDone ==
    /\ call # None /\ loop.pc = "act" /\ Answer.how # "no"
    /\ toAsk' = Left(Answer.how = "bad")
    /\ Taken
    /\ UNCHANGED <<taskVars, sight>>

(* withTimeout around captureScreen: the call is abandoned, not cancelled.   *)
CaptureTimesOut ==
    /\ loop.pc = "capture" /\ call # None
    /\ ObserveFails
    /\ call' = None /\ sight' = NoSight
    /\ settled' = Mark(Client, call, "dropped")
    /\ UNCHANGED <<netVars, ready, torn, waiting, pending, serverVars, toAsk>>

(* The model, which asks for tools by the marks it sees.                     *)
Thinking ==
    /\ \/ (ThinkFails \/ \E finished \in BOOLEAN : Talks(finished)) /\ UNCHANGED toAsk
       \/ /\ CallsTool
          /\ \E plan \in Plans :
                toAsk' = SelectSeq([i \in DOMAIN plan |-> requests(plan[i], sight.table)],
                                  LAMBDA asked_for : asked_for # <<>>)
    /\ sight' = NoSight
    /\ UNCHANGED <<scoutVars, call>>

ToolsEnd ==
    /\ call = None /\ toAsk = <<>>
    /\ \E finished \in BOOLEAN : Acted(finished)
    /\ UNCHANGED <<scoutVars, stepVars>>

OnTheWire(c) == Remote(c) /\ UNCHANGED <<taskVars, stepVars>>

RemoteNext ==
    \/ Thinking
    \/ Caller /\ UNCHANGED <<scoutVars, stepVars>>
    \/ Issue \/ Observed \/ InputDone \/ ToolsEnd \/ CaptureTimesOut
    \/ \E c \in Conns : OnTheWire(c)
    \/ (ServerStops \/ \E c \in Conns : Cut(c) \/ Close(c)) /\ UNCHANGED <<taskVars, stepVars>>

(* The model answers, the timer of a capture fires, both ends of a           *)
(* connection read it and notice its end, and a terminal does what it is     *)
(* asked: promises and sockets of processes that keep running.               *)
Fairness ==
    /\ WF_remoteVars(Thinking)
    /\ WF_remoteVars(Issue) /\ WF_remoteVars(Observed) /\ WF_remoteVars(InputDone \/ ToolsEnd)
    /\ WF_remoteVars(CaptureTimesOut)
    /\ \A c \in Conns : WF_remoteVars(OnTheWire(c))

RemoteSpec == RemoteInit /\ [][RemoteNext]_remoteVars /\ Fairness

-----------------------------------------------------------------------------
(* pause() stops a running loop at the next step boundary, wherever it is:   *)
(* waiting for its gate, for the model, or for the remote screen, whatever   *)
(* the server fails at.  Only a connection that is gone may leave it waiting *)
(* (a call after teardown is never settled).                                 *)
PauseStops ==
    (task.pause /\ loop.pc # "free") ~> (loop.pc = "free" \/ torn[Client])

(* The model is shown the terminal as it is: the picture and the marks of    *)
(* its step are of the same screen, after everything earlier steps did and   *)
(* no answer of an abandoned capture among them.  A native parser finds the  *)
(* elements in the picture itself.                                           *)
SeesTheTerminal ==
    loop.pc = "think" =>
        /\ sight.picture = render(terminal[Client])
        /\ Native \/ sight.table = annotate(elements(terminal[Client]))
=============================================================================
