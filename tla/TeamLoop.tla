------------------------------ MODULE TeamLoop -------------------------------
(***************************************************************************)
(* The scheduler of an agent team (packages/agent team.ts) and its leases  *)
(* on exclusive resources (resources.ts).  Each round answers finished     *)
(* delegations, ticks the leader, then ticks all workers at once; a task   *)
(* ticks only while its agent holds the resources it requires.             *)
(*                                                                         *)
(* JavaScript runs to the next `await' without interruption, so an action  *)
(* is the code between two awaits.  A tick is a call of a model or of a    *)
(* screen: it ends some time later, with any outcome, or it throws, which  *)
(* rejects the round and the run at once while the other ticks go on.      *)
(* The caller may then run the same team again.                            *)
(*                                                                         *)
(* Task numbers are the order of team.tasks.  What tasks say to each other *)
(* is left out; so are shared resources, which are always granted, and     *)
(* tasks paused or stopped one by one by the program's user.               *)
(***************************************************************************)
EXTENDS Integers, SequencesExt

CONSTANTS
    Leader,         \* leaderId
    Workers,        \* the other agents
    Nobody,         \* an id the leader's model made up
    Resource,       \* the exclusive resources
    Requires,       \* profile.requires: agent -> sequence of resources
    Free,           \* no holder
    FanOut,         \* bound: deliver_task calls in one answer of the model
    TaskBound,      \* bound: tasks
    MaxReruns       \* bound: runs after a failed one

Agents == Workers \cup {Leader}

ASSUME TeamAssumption ==
    /\ Leader \notin Workers /\ Nobody \notin Agents /\ Free \notin Agents
    /\ Requires \in [Agents -> Seq(Resource)]
    /\ \A a \in Agents : IsInjective(Requires[a])
    /\ {FanOut, TaskBound, MaxReruns} \subseteq Nat /\ TaskBound > 0

VARIABLES
    tasks,      \* task -> owner, status (idle and running are "active": every
                \* guard treats them alike), and the subtasks it waits for
    inFlight,   \* tasks being ticked
    leases,     \* taskLeases: task -> resources it believes it holds
    holder,     \* holderOf: resource -> agent
    awaited,    \* the ticks this round waits for
    pc,         \* where the round is
    stopped,    \* stop() was called
    reruns,     \* history: runs after a failed one
    rolledBack  \* history: some acquisition was rolled back

vars == <<tasks, inFlight, leases, holder, awaited, pc, stopped, reruns, rolledBack>>

Task(owner) == [owner |-> owner, status |-> "active", on |-> {}]

Init ==
    /\ tasks = <<Task(Leader)>>
    /\ inFlight = {} /\ awaited = {}
    /\ leases = <<{}>>
    /\ holder = [r \in Resource |-> Free]
    /\ pc = "top"
    /\ stopped = FALSE /\ reruns = 0 /\ rolledBack = FALSE

IsTerminal(task) == task.status \in {"done", "error"}

IsTickable(t, ts) == t \notin inFlight /\ ts[t].status = "active"

-----------------------------------------------------------------------------
(* The parts of a round. *)

\* resolveDelegations: wait for all, then resume.
ResolveAny(ts) ==
    [t \in DOMAIN ts |->
        IF ts[t].status = "suspended" /\ \E s \in ts[t].on : IsTerminal(ts[s])
          THEN Task(ts[t].owner) ELSE ts[t]]

Resolve(ts) ==
    [t \in DOMAIN ts |->
        IF ts[t].status = "suspended" /\ \A s \in ts[t].on : IsTerminal(ts[s])
          THEN Task(ts[t].owner) ELSE ts[t]]

\* What acquireRequired gets before the first resource another agent holds: of
\* the resources a task requires, those it has no lease on, by their place.
Needs(t) == Requires[tasks[t].owner]
Missing(grant, t) == {i \in DOMAIN Needs(t) : Needs(t)[i] \notin grant.leases[t]}
Blocked(grant, t) ==
    {i \in Missing(grant, t) : grant.holder[Needs(t)[i]] \notin {Free, tasks[t].owner}}
Taken(grant, t) ==
    {Needs(t)[i] : i \in {j \in Missing(grant, t) : \A k \in Blocked(grant, t) : j < k}}
Give(grant, rs, a) == [r \in Resource |-> IF r \in rs THEN a ELSE grant.holder[r]]

AcquireKeeps(grant, t) ==
    [leases |-> [grant.leases EXCEPT ![t] = @ \cup Taken(grant, t)],
     holder |-> Give(grant, Taken(grant, t), tasks[t].owner),
     go |-> IF Blocked(grant, t) = {} THEN grant.go \cup {t} ELSE grant.go,
     rolledBack |-> grant.rolledBack]

AcquireAny(grant, t) == [grant EXCEPT !.go = @ \cup {t}]

\* acquireRequired: all or nothing for the pool; but what was released again
\* stays in the task's own list of leases.
Acquire(grant, t) ==
    LET taken == Taken(grant, t)
        all == Blocked(grant, t) = {}
    IN  [leases |-> [grant.leases EXCEPT ![t] = @ \cup taken],
         holder |-> Give(grant, taken, IF all THEN tasks[t].owner ELSE Free),
         go |-> IF all THEN grant.go \cup {t} ELSE grant.go,
         rolledBack |-> grant.rolledBack \/ (~all /\ taken # {})]

NoGrant == [leases |-> leases, holder |-> holder, go |-> {}, rolledBack |-> rolledBack]

\* releaseTerminated: a lease is the agent's, whichever task gives it back.
ReleaseDone(ts, grant) ==
    LET ended == {t \in DOMAIN ts : ts[t].status = "done"} IN
    /\ leases' = [t \in DOMAIN ts |-> IF t \in ended THEN {} ELSE grant.leases[t]]
    /\ holder' = [r \in Resource |->
            IF \E t \in ended : r \in grant.leases[t] /\ grant.holder[r] = ts[t].owner
              THEN Free ELSE grant.holder[r]]

Release(ts, grant) ==
    LET ended == {t \in DOMAIN ts : IsTerminal(ts[t])} IN
    /\ leases' = [t \in DOMAIN ts |-> IF t \in ended THEN {} ELSE grant.leases[t]]
    /\ holder' = [r \in Resource |->
            IF \E t \in ended : r \in grant.leases[t] /\ grant.holder[r] = ts[t].owner
              THEN Free ELSE grant.holder[r]]

\* Tick tasks at once and wait for them.
Tick(grant, at) ==
    /\ inFlight' = inFlight \cup grant.go
    /\ awaited' = grant.go
    /\ leases' = grant.leases /\ holder' = grant.holder
    /\ pc' = at

\* The workers' tasks that may tick acquire what they require in turn (the
\* grants of the tasks before are evaluated once).
AcquireIfTickable(grant, ts, t) ==
    IF ts[t].owner # Leader /\ IsTickable(t, ts) THEN Acquire(grant, t) ELSE grant
Grant(ts, grant) ==
    LET upTo[n \in 0..Len(ts)] ==
            IF n = 0 THEN grant
            ELSE CHOOSE g \in {AcquireIfTickable(h, ts, n) : h \in {upTo[n - 1]}} : TRUE
    IN  upTo[Len(ts)]

\* The second half of a round: every worker's task that may tick.
TickWorkers(ts, grant) ==
    \E granted \in {Grant(ts, grant)} :
        /\ rolledBack' = granted.rolledBack
        /\ IF granted.go # {}
             THEN Tick(granted, "working")
             ELSE Release(ts, granted) /\ pc' = "top" /\ awaited' = {} /\ UNCHANGED inFlight

-----------------------------------------------------------------------------
(* The loop. *)

\* run, then round up to its first await; a round that has nothing to tick
\* ends at once.
StartRound ==
    /\ pc = "top" /\ ~stopped /\ ~IsTerminal(tasks[1])
    /\ LET ts == Resolve(tasks)
           leading == {t \in DOMAIN ts : ts[t].owner = Leader /\ IsTickable(t, ts)}
           first == Acquire(NoGrant, Min(leading))
       IN  /\ tasks' = ts
           /\ IF leading = {} THEN TickWorkers(ts, NoGrant)
              ELSE IF first.go = {} THEN TickWorkers(ts, first)
              ELSE Tick(first, "leading") /\ rolledBack' = first.rolledBack
    /\ UNCHANGED <<stopped, reruns>>

\* The leader's tick is over.
StartWorkers ==
    /\ pc = "leading" /\ awaited \cap inFlight = {}
    /\ TickWorkers(tasks, NoGrant)
    /\ UNCHANGED <<tasks, stopped, reruns>>

\* All the workers' ticks are over.
FinishRound ==
    /\ pc = "working" /\ awaited \cap inFlight = {}
    /\ Release(tasks, NoGrant)
    /\ pc' = "top" /\ awaited' = {}
    /\ UNCHANGED <<tasks, inFlight, stopped, reruns, rolledBack>>

Return ==
    /\ pc = "top" /\ (stopped \/ IsTerminal(tasks[1]))
    /\ pc' = "returned"
    /\ UNCHANGED <<tasks, inFlight, leases, holder, awaited, stopped, reruns, rolledBack>>

\* maxRounds.
GiveUp ==
    /\ pc = "top" /\ ~stopped /\ ~IsTerminal(tasks[1])
    /\ pc' = "threw"
    /\ UNCHANGED <<tasks, inFlight, leases, holder, awaited, stopped, reruns, rolledBack>>

\* The flag is only read between two rounds.
Stop ==
    /\ pc = "top" /\ ~stopped
    /\ stopped' = TRUE
    /\ UNCHANGED <<tasks, inFlight, leases, holder, awaited, pc, reruns, rolledBack>>

\* The program runs the same root again.
Rerun ==
    /\ pc = "threw" /\ reruns < MaxReruns
    /\ pc' = "top" /\ reruns' = reruns + 1
    /\ UNCHANGED <<tasks, inFlight, leases, holder, awaited, stopped, rolledBack>>

-----------------------------------------------------------------------------
(* How a tick ends (tickOnce, applyOutcome). *)

Ends(t) ==
    /\ t \in inFlight
    /\ inFlight' = inFlight \ {t}
    /\ UNCHANGED <<holder, stopped, reruns, rolledBack>>

\* The rejection of a tick nobody waits for any more is dropped.
Rejects(t) ==
    IF t \in awaited /\ pc \in {"leading", "working"}
      THEN pc' = "threw" /\ awaited' = {}
      ELSE UNCHANGED <<pc, awaited>>

Progress(t) == Ends(t) /\ UNCHANGED <<tasks, leases, awaited, pc>>

Finish(t, status) ==
    /\ Ends(t)
    /\ tasks' = [tasks EXCEPT ![t].status = status]
    /\ UNCHANGED <<leases, awaited, pc>>

\* One subtask for each deliver_task, until an id that is no agent.
Delegate(t, to) ==
    LET known == {i \in DOMAIN to : \A j \in 1..i : to[j] # Nobody}
        subs == [i \in known |-> Task(to[i])]
        ids == {Len(tasks) + i : i \in known}
    IN  /\ Ends(t) /\ tasks[t].owner = Leader
        /\ leases' = leases \o [i \in known |-> {}]
        /\ IF Len(to) = Cardinality(known)
             THEN /\ tasks' = [tasks EXCEPT ![t].status = "suspended", ![t].on = ids] \o subs
                  /\ UNCHANGED <<awaited, pc>>
             ELSE tasks' = tasks \o subs /\ Rejects(t)

Throw(t) == Ends(t) /\ Rejects(t) /\ UNCHANGED <<tasks, leases>>

\* The tick of the leader, by what its model answers: nothing but words, which
\* is nudged; calls of deliver_task, whatever else it calls; or only other calls,
\* finish or a tool that does not exist, which end its task alike.
LeaderTicks(t, to) ==
    /\ tasks[t].owner = Leader
    /\ Len(tasks) + Len(to) <= TaskBound
    /\ IF to = <<>> THEN Progress(t) \/ Finish(t, "done") ELSE Delegate(t, to)

\* The tick of a GUI worker is an exec() of its task, which sets the status.
WorkerTicks(t) ==
    /\ tasks[t].owner # Leader
    /\ Progress(t) \/ \E status \in {"done", "error"} : Finish(t, status)

\* That of a grounding worker acts until its model says finished.
GroundingTicks(t) ==
    /\ tasks[t].owner # Leader
    /\ Progress(t) \/ Finish(t, "done")

Next ==
    \/ StartRound \/ StartWorkers \/ FinishRound \/ Return \/ GiveUp \/ Stop \/ Rerun
    \/ \E t \in DOMAIN tasks :
        \/ \E n \in 0..FanOut : \E to \in [1..n -> Agents \cup {Nobody}] : LeaderTicks(t, to)
        \/ WorkerTicks(t) \/ GroundingTicks(t) \/ Throw(t)

Spec == Init /\ [][Next]_vars

\* The loop runs on.  Every call of a model or a screen ends (providers and
\* drivers have timeouts), and a task that is ticked again and again is finished
\* some time: that is up to the models, which the code cannot promise.
Round == StartRound \/ StartWorkers \/ FinishRound \/ Return
FairSpec ==
    /\ Spec /\ WF_vars(Round)
    /\ \A t \in 1..TaskBound :
        SF_vars(t \in DOMAIN tasks /\ Finish(t, "done"))

-----------------------------------------------------------------------------
(* Properties. *)

\* Two agents never act on one exclusive resource at once (resources.ts: "held
\* by <= 1 agent at a time"): no two ticks in flight need the same one.
Exclusive ==
    \A t, u \in inFlight :
        tasks[t].owner # tasks[u].owner =>
            Range(Requires[tasks[t].owner]) \cap Range(Requires[tasks[u].owner]) = {}

\* That holds, across failed rounds, stragglers and reruns, as long as no
\* acquisition was rolled back and no agent was ever given two tasks.
ExclusiveAtBest ==
    \/ Exclusive \/ rolledBack
    \/ \E t, u \in DOMAIN tasks : t # u /\ tasks[t].owner = tasks[u].owner

\* A round that ends leaves no resource with an agent that has no unfinished
\* task holding it (releaseTerminated), whether the work succeeded or failed.
NothingHeldForNobody ==
    [][(pc \in {"leading", "working"} /\ pc' = "top") =>
        \A r \in Resource : holder'[r] # Free =>
            \E t \in DOMAIN tasks' :
                /\ tasks'[t].owner = holder'[r] /\ r \in leases'[t]
                /\ ~IsTerminal(tasks'[t])]_vars

\* When the root task is finished, so is everything it and its subtasks
\* delegated, unless a round failed (resolveDelegations waits for all).
NoOrphans ==
    (IsTerminal(tasks[1]) /\ reruns = 0 /\ pc # "threw") =>
        \A t \in DOMAIN tasks : IsTerminal(tasks[t])

\* A leader that waits for its delegations is answered: workers that take each
\* other's resources never wait for each other for ever (acquireRequired gives
\* all or nothing), and the loop needs no limit of rounds to come back.  (The
\* root waits for every other leader.)
RootWaits == tasks[1].status = "suspended"
DelegationsAnswered == RootWaits ~> (~RootWaits \/ pc \in {"threw", "returned"})
=============================================================================
