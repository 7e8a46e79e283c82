----------------------------- MODULE TeamProofs ------------------------------
(* Proofs about TeamLoop, for any team, any resources and any bounds: two     *)
(* agents act on one exclusive resource only after a roll back or with two    *)
(* tasks of one agent; a round leaves nothing held for nobody; and a root     *)
(* task that is finished leaves no orphans.                                   *)
EXTENDS TeamLoop, FiniteSetTheorems, SequenceTheorems, WellFoundedInduction, TLAPS

-----------------------------------------------------------------------------
(* Induction, for a set instead of a predicate, and least numbers.            *)
LEMMA LeastIn ==
    ASSUME NEW S \in SUBSET Nat, S # {}
    PROVE  \E m \in S : \A n \in S : m <= n
<1>1. PICK m \in S : \A n \in S : ~(<<n, m>> \in OpToRel(<, Nat))
  BY NatLessThanWellFounded, WFMin
<1>2. ASSUME NEW n \in S PROVE m <= n
  <2>1. <<n, m>> \in Nat \X Nat /\ <<n, m>> \notin OpToRel(<, Nat)
    BY <1>1
  <2>2. ~(<<n, m>>[1] < <<n, m>>[2])
    BY <2>1, Zenon DEF OpToRel
  <2> QED BY <2>2
<1> QED BY <1>2

LEMMA InductionOnNat ==
    ASSUME NEW S, 0 \in S, \A n \in Nat : n \in S => n + 1 \in S
    PROVE  \A n \in Nat : n \in S
<1> SUFFICES ASSUME Nat \ S # {} PROVE FALSE
  OBVIOUS
<1>1. PICK m \in Nat \ S : \A n \in Nat \ S : m <= n
  BY LeastIn
<1>2. m # 0 /\ m - 1 \in Nat /\ m - 1 \in S
  BY <1>1
<1> QED BY <1>2

(* The grants that TickWorkers goes through exist and follow one another.     *)
Following(ts, grant, n, upTo) ==
    upTo = [k \in 0..n |-> IF k = 0 THEN grant
                           ELSE CHOOSE g \in {AcquireIfTickable(h, ts, k) : h \in {upTo[k - 1]}} :
                                    TRUE]

LEMMA GrantsFollow ==
    ASSUME NEW ts, NEW grant, Len(ts) \in Nat
    PROVE  \E upTo : /\ Grant(ts, grant) = upTo[Len(ts)]
                     /\ upTo[0] = grant
                     /\ \A k \in 1..Len(ts) : upTo[k] = AcquireIfTickable(upTo[k - 1], ts, k)
<1> DEFINE S == {n \in Nat : \E f : Following(ts, grant, n, f)}
<1>1. 0 \in S
  <2> DEFINE f == [k \in 0..0 |-> grant]
  <2>1. Following(ts, grant, 0, f)
    BY DEF Following
  <2> HIDE DEF f
  <2> QED BY <2>1
<1>2. ASSUME NEW n \in Nat, n \in S PROVE n + 1 \in S
  <2>1. PICK f : Following(ts, grant, n, f)
    BY <1>2
  <2> DEFINE next == CHOOSE g \in {AcquireIfTickable(h, ts, n + 1) : h \in {f[n]}} : TRUE
             new == [k \in 0..(n + 1) |-> IF k = n + 1 THEN next ELSE f[k]]
  <2>2. DOMAIN f = 0..n /\ \A k \in 0..n :
          f[k] = IF k = 0 THEN grant
                 ELSE CHOOSE g \in {AcquireIfTickable(h, ts, k) : h \in {f[k - 1]}} : TRUE
    BY <2>1, Zenon DEF Following
  <2>3. /\ \A k \in 0..n : new[k] = f[k]
        /\ new[n + 1] = CHOOSE g \in {AcquireIfTickable(h, ts, n + 1) : h \in {f[n]}} : TRUE
    OBVIOUS
  <2>4. ASSUME NEW k \in 0..(n + 1)
        PROVE  new[k] = IF k = 0 THEN grant
                 ELSE CHOOSE g \in {AcquireIfTickable(h, ts, k) : h \in {new[k - 1]}} : TRUE
    <3>1. CASE k = 0
      BY <2>2, <2>3, <3>1
    <3>2. CASE k \in 1..n
      <4>1. new[k] = f[k] /\ new[k - 1] = f[k - 1] /\ k \in 0..n /\ k # 0
        BY <2>3, <3>2
      <4> QED BY <2>2, <4>1
    <3>3. CASE k = n + 1
      <4>1. new[k - 1] = f[n] /\ k # 0
        BY <2>3, <3>3
      <4> QED BY <2>3, <3>3, <4>1
    <3> QED BY <3>1, <3>2, <3>3
  <2>5. DOMAIN new = 0..(n + 1) /\ new = [k \in DOMAIN new |-> new[k]]
    OBVIOUS
  <2> HIDE DEF new
  <2>6. Following(ts, grant, n + 1, new)
    BY <2>4, <2>5 DEF Following
  <2> QED BY <2>6
<1> HIDE DEF S
<1>3. Len(ts) \in S
  BY <1>1, <1>2, InductionOnNat
<1> DEFINE upTo == CHOOSE f : Following(ts, grant, Len(ts), f)
<1>4. Following(ts, grant, Len(ts), upTo)
  BY <1>3 DEF S
<1>5. Grant(ts, grant) = upTo[Len(ts)]
  BY Zenon DEF Grant, Following
<1> HIDE DEF upTo
<1>6. \A k \in 0..Len(ts) :
          upTo[k] = IF k = 0 THEN grant
                    ELSE CHOOSE g \in {AcquireIfTickable(h, ts, k) : h \in {upTo[k - 1]}} : TRUE
  BY <1>4, Zenon DEF Following
<1>7. upTo[0] = grant
  BY <1>6
<1>8. ASSUME NEW k \in 1..Len(ts)
      PROVE  upTo[k] = AcquireIfTickable(upTo[k - 1], ts, k)
  <2>1. upTo[k] = CHOOSE g \in {AcquireIfTickable(h, ts, k) : h \in {upTo[k - 1]}} : TRUE
    BY <1>6
  <2> QED BY <2>1, Zenon
<1> QED BY <1>5, <1>7, <1>8

-----------------------------------------------------------------------------
(* The state of a team.  Every lease on a resource that an agent holds is     *)
(* with a task of that agent; and while nothing was rolled back and no agent  *)
(* has two tasks, a task's leases are held by its agent, and a tick has all   *)
(* it requires.                                                               *)
TaskSet == [owner : Agents, status : {"active", "suspended", "done", "error"}, on : SUBSET Nat]

OneEach == \A t, u \in DOMAIN tasks : tasks[t].owner = tasks[u].owner => t = u

Backed(held, by) ==
    \A r \in Resource : held[r] # Free =>
        \E t \in DOMAIN tasks : tasks[t].owner = held[r] /\ r \in by[t]

True(held, by) == \A t \in DOMAIN tasks : \A r \in by[t] : held[r] = tasks[t].owner

Supplied(ticking, by) == \A t \in ticking : Range(Needs(t)) \subseteq by[t]

TeamType ==
    /\ tasks \in Seq(TaskSet) /\ tasks # <<>> /\ tasks[1].owner = Leader
    /\ leases \in [DOMAIN tasks -> SUBSET Resource]
    /\ holder \in [Resource -> Agents \cup {Free}]
    /\ inFlight \subseteq DOMAIN tasks /\ \A t \in inFlight : tasks[t].status = "active"
    /\ rolledBack \in BOOLEAN

LeaseInv ==
    /\ Backed(holder, leases)
    /\ ~rolledBack /\ OneEach => True(holder, leases) /\ Supplied(inFlight, leases)

TeamInv == TeamType /\ LeaseInv

(* What the scheduler hands out in a round is of that kind.                   *)
GrantInv(ts, g) ==
    /\ g.leases \in [DOMAIN tasks -> SUBSET Resource]
    /\ \A t \in DOMAIN tasks : leases[t] \subseteq g.leases[t]
    /\ g.holder \in [Resource -> Agents \cup {Free}]
    /\ \A t \in g.go : t \in DOMAIN tasks /\ IsTickable(t, ts)
    /\ g.rolledBack \in BOOLEAN /\ (rolledBack => g.rolledBack)
    /\ Backed(g.holder, g.leases)
    /\ ~g.rolledBack /\ OneEach => True(g.holder, g.leases) /\ Supplied(g.go, g.leases)

SameTeam(ts) ==
    /\ ts \in Seq(TaskSet) /\ DOMAIN ts = DOMAIN tasks
    /\ \A t \in DOMAIN tasks : /\ ts[t].owner = tasks[t].owner
                               /\ tasks[t].status # "suspended" => ts[t] = tasks[t]

LEMMA TeamShape ==
    ASSUME TeamType
    PROVE  /\ Len(tasks) \in Nat /\ DOMAIN tasks = 1..Len(tasks)
           /\ \A t \in DOMAIN tasks : tasks[t] \in TaskSet /\ tasks[t].owner \in Agents
<1>1. Len(tasks) \in Nat /\ DOMAIN tasks = 1..Len(tasks)
  BY LenProperties DEF TeamType
<1>2. \A t \in DOMAIN tasks : tasks[t] \in TaskSet
  BY <1>1, ElementOfSeq DEF TeamType
<1> QED BY <1>1, <1>2 DEF TaskSet

LEMMA ResolveKeepsTeam ==
    ASSUME TeamType
    PROVE  SameTeam(Resolve(tasks))
<1>1. DOMAIN Resolve(tasks) = DOMAIN tasks
  BY DEF Resolve
<1>2. ASSUME NEW t \in DOMAIN tasks
      PROVE  /\ Resolve(tasks)[t] \in TaskSet
             /\ Resolve(tasks)[t].owner = tasks[t].owner
             /\ tasks[t].status # "suspended" => Resolve(tasks)[t] = tasks[t]
  BY TeamShape DEF Resolve, Task, TaskSet
<1>3. Resolve(tasks) \in [1..Len(tasks) -> TaskSet]
  BY <1>1, <1>2, TeamShape DEF Resolve
<1> QED BY <1>1, <1>2, <1>3, SeqDef, TeamShape DEF SameTeam

LEMMA NoGrantIsSound ==
    ASSUME TeamInv, NEW ts
    PROVE  GrantInv(ts, NoGrant)
BY DEF TeamInv, TeamType, LeaseInv, GrantInv, NoGrant, Supplied

(* acquireRequired hands out soundly.                                         *)
LEMMA AcquireIsSound ==
    ASSUME TeamType, NEW ts, NEW g, GrantInv(ts, g),
           NEW t \in DOMAIN tasks, IsTickable(t, ts)
    PROVE  GrantInv(ts, Acquire(g, t))
<1> DEFINE new == Acquire(g, t)
           a == tasks[t].owner
           taken == Taken(g, t)
           all == Blocked(g, t) = {}
<1>1. /\ a \in Agents /\ a # Free /\ Needs(t) = Requires[a] /\ Needs(t) \in Seq(Resource)
  BY TeamShape, TeamAssumption DEF Needs
<1>2. /\ new.leases = [g.leases EXCEPT ![t] = @ \cup taken]
      /\ new.holder = Give(g, taken, IF all THEN a ELSE Free)
      /\ new.go = IF all THEN g.go \cup {t} ELSE g.go
      /\ new.rolledBack = (g.rolledBack \/ (~all /\ taken # {}))
  BY DEF Acquire
<1>3. taken \subseteq Resource
  BY <1>1, LenProperties, ElementOfSeq DEF Taken, Missing
<1>4. \A r \in taken : g.holder[r] \in {Free, a}
  BY <1>1, LenProperties DEF Taken, Blocked, Missing
<1>5. all => Range(Needs(t)) \subseteq g.leases[t] \cup taken
  BY DEF Taken, Missing, Range
<1> HIDE DEF taken, all, new
<1>6. \A r \in Resource :
        new.holder[r] = IF r \in taken THEN (IF all THEN a ELSE Free) ELSE g.holder[r]
  BY <1>2 DEF Give
<1>7. new.holder \in [Resource -> Agents \cup {Free}]
  BY <1>1, <1>2 DEF Give, GrantInv
<1>8. /\ new.leases \in [DOMAIN tasks -> SUBSET Resource]
      /\ new.leases[t] = g.leases[t] \cup taken
      /\ \A u \in DOMAIN tasks : /\ u # t => new.leases[u] = g.leases[u]
                                 /\ g.leases[u] \subseteq new.leases[u]
  BY <1>2, <1>3 DEF GrantInv
<1>9. Backed(new.holder, new.leases)
  <2> SUFFICES ASSUME NEW r \in Resource, new.holder[r] # Free
               PROVE  \E u \in DOMAIN tasks : tasks[u].owner = new.holder[r] /\ r \in new.leases[u]
    BY DEF Backed
  <2>1. CASE r \in taken
    BY <1>6, <1>8, <2>1
  <2>2. CASE r \notin taken
    BY <1>6, <1>8, <2>2 DEF GrantInv, Backed
  <2> QED BY <2>1, <2>2
<1>10. ASSUME ~new.rolledBack, OneEach
       PROVE  True(new.holder, new.leases) /\ Supplied(new.go, new.leases)
  <2>1. ~g.rolledBack /\ True(g.holder, g.leases) /\ Supplied(g.go, g.leases)
    BY <1>2, <1>10 DEF GrantInv
  <2>2. taken = {} \/ all
    BY <1>2, <1>10
  <2>3. ASSUME NEW u \in DOMAIN tasks, NEW r \in new.leases[u]
        PROVE  new.holder[r] = tasks[u].owner
    <3>1. r \in Resource
      BY <1>8
    <3>2. CASE r \in taken
      <4>1. new.holder[r] = a
        BY <1>6, <2>2, <3>1, <3>2
      <4>2. CASE u = t
        BY <4>1, <4>2
      <4>3. CASE u # t
        <5>1. g.holder[r] = tasks[u].owner
          BY <1>8, <2>1, <4>3 DEF True
        <5>2. g.holder[r] = a
          BY <1>4, <3>2, <5>1, TeamShape, TeamAssumption
        <5> QED BY <4>1, <5>1, <5>2
      <4> QED BY <4>2, <4>3
    <3>3. CASE r \notin taken
      <4>1. r \in g.leases[u] /\ new.holder[r] = g.holder[r]
        BY <1>6, <1>8, <3>1, <3>3
      <4> QED BY <2>1, <4>1 DEF True
    <3> QED BY <3>2, <3>3
  <2>4. Supplied(new.go, new.leases)
    <3>1. \A u \in g.go : u \in DOMAIN tasks
      BY DEF GrantInv
    <3> QED BY <1>2, <1>5, <1>8, <2>1, <3>1 DEF Supplied
  <2> QED BY <2>3, <2>4 DEF True
<1>11. \A u \in new.go : u \in DOMAIN tasks /\ IsTickable(u, ts)
  BY <1>2 DEF GrantInv
<1>12. new.rolledBack \in BOOLEAN /\ (rolledBack => new.rolledBack)
  BY <1>2 DEF GrantInv
<1>13. \A u \in DOMAIN tasks : leases[u] \subseteq new.leases[u]
  BY <1>8 DEF GrantInv
<1>14. GrantInv(ts, new)
  BY <1>7, <1>8, <1>9, <1>10, <1>11, <1>12, <1>13 DEF GrantInv
<1> QED BY <1>14 DEF new

LEMMA GrantIsSound ==
    ASSUME TeamType, NEW ts, SameTeam(ts), NEW grant, GrantInv(ts, grant)
    PROVE  GrantInv(ts, Grant(ts, grant))
<1>1. Len(ts) \in Nat /\ DOMAIN ts = 1..Len(ts)
  BY LenProperties DEF SameTeam
<1>2. PICK upTo : /\ Grant(ts, grant) = upTo[Len(ts)]
                  /\ upTo[0] = grant
                  /\ \A k \in 1..Len(ts) : upTo[k] = AcquireIfTickable(upTo[k - 1], ts, k)
  BY <1>1, GrantsFollow
<1> DEFINE S == {n \in Nat : n <= Len(ts) => GrantInv(ts, upTo[n])}
<1>3. 0 \in S
  BY <1>2
<1>4. ASSUME NEW n \in Nat, n \in S PROVE n + 1 \in S
  <2> SUFFICES ASSUME n + 1 <= Len(ts) PROVE GrantInv(ts, upTo[n + 1])
    OBVIOUS
  <2>1. GrantInv(ts, upTo[n]) /\ n + 1 \in DOMAIN tasks
    BY <1>1, <1>4 DEF SameTeam
  <2>2. upTo[n + 1] = AcquireIfTickable(upTo[n], ts, n + 1)
    BY <1>1, <1>2
  <2> QED BY <2>1, <2>2, AcquireIsSound DEF AcquireIfTickable
<1>5. Len(ts) \in S
  BY <1>1, <1>3, <1>4, InductionOnNat
<1> QED BY <1>1, <1>2, <1>5
(* Once the leases of finished tasks are given back, every lease is with an   *)
(* unfinished task.                                                           *)
UsedNow(held, by, ts) ==
    \A r \in Resource : held[r] # Free =>
        \E t \in DOMAIN ts :
            ts[t].owner = held[r] /\ r \in by[t] /\ ~IsTerminal(ts[t])

LEMMA ReleaseIsSound ==
    ASSUME TeamInv, NEW ts, SameTeam(ts), NEW g, GrantInv(ts, g), Release(ts, g)
    PROVE  /\ leases' \in [DOMAIN tasks -> SUBSET Resource]
           /\ holder' \in [Resource -> Agents \cup {Free}]
           /\ UsedNow(holder', leases', ts)
           /\ ~g.rolledBack /\ OneEach =>
                 True(holder', leases') /\ Supplied(inFlight, leases')
<1> DEFINE ended == {t \in DOMAIN ts : IsTerminal(ts[t])}
<1>1. /\ leases' = [t \in DOMAIN ts |-> IF t \in ended THEN {} ELSE g.leases[t]]
      /\ holder' = [r \in Resource |->
            IF \E t \in ended : r \in g.leases[t] /\ g.holder[r] = ts[t].owner
              THEN Free ELSE g.holder[r]]
  BY DEF Release
<1>2. DOMAIN ts = DOMAIN tasks /\ \A t \in DOMAIN tasks : ts[t].owner = tasks[t].owner
  BY DEF SameTeam
<1>3. leases' \in [DOMAIN tasks -> SUBSET Resource]
  BY <1>1, <1>2 DEF GrantInv
<1>4. holder' \in [Resource -> Agents \cup {Free}]
  BY <1>1 DEF GrantInv
<1>5. UsedNow(holder', leases', ts)
  <2> SUFFICES ASSUME NEW r \in Resource, holder'[r] # Free
               PROVE  \E t \in DOMAIN ts :
                        ts[t].owner = holder'[r] /\ r \in leases'[t] /\ ~IsTerminal(ts[t])
    BY DEF UsedNow
  <2>1. /\ holder'[r] = g.holder[r]
        /\ ~\E t \in ended : r \in g.leases[t] /\ g.holder[r] = ts[t].owner
    BY <1>1
  <2>2. PICK t \in DOMAIN tasks : tasks[t].owner = g.holder[r] /\ r \in g.leases[t]
    BY <2>1 DEF GrantInv, Backed
  <2>3. t \in DOMAIN ts /\ ts[t].owner = g.holder[r] /\ t \notin ended
    BY <1>2, <2>1, <2>2
  <2> QED BY <1>1, <2>1, <2>2, <2>3
<1>6. ASSUME ~g.rolledBack, OneEach
      PROVE  True(holder', leases') /\ Supplied(inFlight, leases')
  <2>1. True(g.holder, g.leases) /\ ~rolledBack
    BY <1>6 DEF GrantInv, TeamInv, TeamType
  <2>2. ASSUME NEW u \in DOMAIN tasks, NEW r \in leases'[u]
        PROVE  holder'[r] = tasks[u].owner
    <3>1. u \notin ended /\ r \in g.leases[u] /\ r \in Resource
      BY <1>1, <1>2, <1>3, <2>2
    <3>2. g.holder[r] = tasks[u].owner
      BY <2>1, <3>1 DEF True
    <3>3. ~\E t \in ended : r \in g.leases[t] /\ g.holder[r] = ts[t].owner
      BY <1>2, <1>6, <3>1, <3>2 DEF OneEach
    <3> QED BY <1>1, <3>1, <3>2, <3>3
  <2>3. \A t \in inFlight : t \in DOMAIN tasks /\ ~IsTerminal(ts[t])
    BY DEF TeamInv, TeamType, SameTeam, IsTerminal
  <2>4. \A t \in inFlight : leases[t] \subseteq leases'[t]
    BY <1>1, <1>2, <2>3 DEF GrantInv
  <2> QED BY <1>6, <2>1, <2>2, <2>4 DEF True, Supplied, TeamInv, LeaseInv
<1> QED BY <1>3, <1>4, <1>5, <1>6

-----------------------------------------------------------------------------
(* A step after which the tasks have the owners they had: what was shown of   *)
(* leases for the tasks before holds for the tasks after.                     *)
LEMMA SameOwners ==
    ASSUME DOMAIN tasks' = DOMAIN tasks,
           \A t \in DOMAIN tasks : tasks'[t].owner = tasks[t].owner
    PROVE  /\ OneEach' => OneEach
           /\ Backed(holder', leases') => Backed(holder, leases)'
           /\ True(holder', leases') => True(holder, leases)'
           /\ inFlight' \subseteq DOMAIN tasks /\ Supplied(inFlight', leases') =>
                 Supplied(inFlight, leases)'
BY DEF OneEach, Backed, True, Supplied, Needs

LEMMA SameTeamPrimed ==
    ASSUME TeamType, NEW ts, SameTeam(ts), tasks' = ts
    PROVE  /\ DOMAIN tasks' = DOMAIN tasks
           /\ \A t \in DOMAIN tasks : tasks'[t].owner = tasks[t].owner
           /\ \A t \in inFlight : tasks'[t].status = "active"
           /\ (tasks \in Seq(TaskSet) /\ tasks # <<>> /\ tasks[1].owner = Leader)'
<1>1. DOMAIN tasks' = DOMAIN tasks /\ \A t \in DOMAIN tasks : tasks'[t].owner = tasks[t].owner
  BY DEF SameTeam
<1>2. \A t \in inFlight : tasks'[t].status = "active"
  BY DEF SameTeam, TeamType
<1>3. Len(tasks) \in Nat \ {0} /\ 1 \in DOMAIN tasks
  BY TeamShape, EmptySeq DEF TeamType
<1>4. tasks' \in Seq(TaskSet) /\ tasks' # <<>> /\ tasks'[1].owner = Leader
  BY <1>1, <1>3, EmptySeq, LenProperties DEF SameTeam, TeamType
<1> QED BY <1>1, <1>2, <1>4

(* Tasks begin to tick.                                                       *)
LEMMA TickIsSound ==
    ASSUME TeamInv, NEW ts, SameTeam(ts), tasks' = ts, NEW g, GrantInv(ts, g),
           leases' = g.leases, holder' = g.holder, inFlight' = inFlight \cup g.go,
           rolledBack' = g.rolledBack
    PROVE  TeamInv'
<1>1. TeamType
  BY DEF TeamInv
<1>2. TeamType'
  <2>1. \A t \in g.go : t \in DOMAIN tasks /\ tasks'[t].status = "active"
    BY DEF GrantInv, IsTickable
  <2> QED BY <1>1, <2>1, SameTeamPrimed DEF TeamType, GrantInv
<1>3. Backed(holder, leases)'
  BY <1>1, SameTeamPrimed, SameOwners DEF GrantInv
<1>4. ASSUME ~rolledBack', OneEach'
      PROVE  True(holder, leases)' /\ Supplied(inFlight, leases)'
  <2>1. OneEach /\ ~rolledBack
    BY <1>1, <1>4, SameTeamPrimed, SameOwners DEF GrantInv, TeamType
  <2>2. True(holder', leases') /\ Supplied(g.go, leases')
    BY <1>4, <2>1 DEF GrantInv
  <2>3. \A t \in inFlight : leases[t] \subseteq leases'[t]
    BY DEF GrantInv, TeamInv, TeamType
  <2>4. inFlight' \subseteq DOMAIN tasks
    BY DEF GrantInv, TeamInv, TeamType
  <2>5. Supplied(inFlight', leases')
    BY <2>1, <2>2, <2>3 DEF TeamInv, LeaseInv, Supplied
  <2> QED BY <1>1, <2>2, <2>4, <2>5, SameTeamPrimed, SameOwners
<1> QED BY <1>2, <1>3, <1>4 DEF TeamInv, LeaseInv

(* The round ends.                                                            *)
LEMMA RoundEndIsSound ==
    ASSUME TeamInv, NEW ts, SameTeam(ts), tasks' = ts, NEW g, GrantInv(ts, g),
           Release(ts, g), inFlight' = inFlight, rolledBack' = g.rolledBack
    PROVE  TeamInv' /\ UsedNow(holder', leases', tasks')
<1>1. TeamType
  BY DEF TeamInv
<1>2. /\ leases' \in [DOMAIN tasks -> SUBSET Resource]
      /\ holder' \in [Resource -> Agents \cup {Free}]
      /\ UsedNow(holder', leases', ts)
      /\ ~g.rolledBack /\ OneEach => True(holder', leases') /\ Supplied(inFlight, leases')
  BY ReleaseIsSound
<1>3. TeamType'
  BY <1>1, <1>2, SameTeamPrimed DEF TeamType, GrantInv
<1>4. Backed(holder, leases)'
  BY <1>2 DEF UsedNow, Backed
<1>5. ASSUME ~rolledBack', OneEach'
      PROVE  True(holder, leases)' /\ Supplied(inFlight, leases)'
  <2>1. OneEach /\ inFlight' \subseteq DOMAIN tasks
    BY <1>1, <1>5, SameTeamPrimed, SameOwners DEF TeamType
  <2> QED BY <1>1, <1>2, <1>5, <2>1, SameTeamPrimed, SameOwners
<1> QED BY <1>2, <1>3, <1>4, <1>5 DEF TeamInv, LeaseInv

LEMMA TickWorkersIsSound ==
    ASSUME TeamInv, NEW ts, SameTeam(ts), tasks' = ts, NEW grant, GrantInv(ts, grant),
           TickWorkers(ts, grant)
    PROVE  TeamInv' /\ (pc' = "top" => UsedNow(holder', leases', tasks'))
<1> DEFINE granted == Grant(ts, grant)
<1>1. /\ rolledBack' = granted.rolledBack
      /\ \/ Tick(granted, "working")
         \/ Release(ts, granted) /\ UNCHANGED inFlight
  BY DEF TickWorkers
<1>2. GrantInv(ts, granted)
  BY GrantIsSound DEF TeamInv
<1> HIDE DEF granted
<1>3. CASE Tick(granted, "working")
  BY <1>1, <1>2, <1>3, TickIsSound DEF Tick
<1>4. CASE Release(ts, granted) /\ UNCHANGED inFlight
  BY <1>1, <1>2, <1>4, RoundEndIsSound
<1> QED BY <1>1, <1>3, <1>4

LEMMA StartRoundIsSound ==
    ASSUME TeamInv, StartRound
    PROVE  TeamInv'
<1> DEFINE ts == Resolve(tasks)
           leading == {t \in DOMAIN ts : ts[t].owner = Leader /\ IsTickable(t, ts)}
           first == Acquire(NoGrant, Min(leading))
<1>1. /\ tasks' = ts
      /\ \/ TickWorkers(ts, NoGrant)
         \/ leading # {} /\ TickWorkers(ts, first)
         \/ leading # {} /\ Tick(first, "leading") /\ rolledBack' = first.rolledBack
  BY DEF StartRound
<1>2. TeamType /\ SameTeam(ts) /\ GrantInv(ts, NoGrant)
  BY ResolveKeepsTeam, NoGrantIsSound DEF TeamInv
<1>3. ASSUME leading # {} PROVE GrantInv(ts, first)
  <2>1. leading \subseteq DOMAIN tasks /\ leading \in SUBSET Nat
    BY <1>2, TeamShape DEF SameTeam
  <2>2. Min(leading) \in leading
    BY <1>3, <2>1, LeastIn DEF Min
  <2> QED BY <1>2, <2>1, <2>2, AcquireIsSound
<1> HIDE DEF ts, leading, first
<1>4. CASE TickWorkers(ts, NoGrant)
  BY <1>1, <1>2, <1>4, TickWorkersIsSound
<1>5. CASE leading # {} /\ TickWorkers(ts, first)
  BY <1>1, <1>2, <1>3, <1>5, TickWorkersIsSound
<1>6. CASE leading # {} /\ Tick(first, "leading") /\ rolledBack' = first.rolledBack
  BY <1>1, <1>2, <1>3, <1>6, TickIsSound DEF Tick
<1> QED BY <1>1, <1>4, <1>5, <1>6

LEMMA LoopIsSound ==
    ASSUME TeamInv, StartWorkers \/ FinishRound
    PROVE  TeamInv' /\ (pc' = "top" => UsedNow(holder', leases', tasks'))
<1>1. SameTeam(tasks) /\ GrantInv(tasks, NoGrant)
  BY NoGrantIsSound DEF TeamInv, TeamType, SameTeam
<1>2. CASE StartWorkers
  BY <1>1, <1>2, TickWorkersIsSound DEF StartWorkers
<1>3. CASE FinishRound
  <2>1. NoGrant.rolledBack = rolledBack
    BY DEF NoGrant
  <2> QED BY <1>1, <1>3, <2>1, RoundEndIsSound DEF FinishRound
<1> QED BY <1>2, <1>3
-----------------------------------------------------------------------------
(* A tick that ends.                                                          *)

(* deliver_task: the tasks that are there stay, the one that ticked is        *)
(* suspended until the new ones are finished, or the tick failed.             *)
Delegates(t, k) ==
    /\ k \in Nat /\ Len(tasks') = Len(tasks) + k
    /\ tasks' \in Seq(TaskSet) /\ DOMAIN tasks' = 1..(Len(tasks) + k)
    /\ \A u \in DOMAIN tasks \ {t} : tasks'[u] = tasks[u]
    /\ tasks'[t].owner = tasks[t].owner
    /\ \/ /\ tasks'[t].status = "suspended"
          /\ \A u \in DOMAIN tasks' \ DOMAIN tasks : u \in tasks'[t].on
          /\ UNCHANGED <<awaited, pc>>
       \/ tasks'[t] = tasks[t] /\ Rejects(t)
    /\ leases' \in [DOMAIN tasks' -> SUBSET Resource]
    /\ \A u \in DOMAIN tasks : leases'[u] = leases[u]
    /\ \A u \in DOMAIN tasks' \ DOMAIN tasks : leases'[u] = {}

LEMMA KnownIsPrefix ==
    ASSUME NEW n \in Nat, NEW to, DOMAIN to = 1..n
    PROVE  \E k \in 0..n : {i \in DOMAIN to : \A j \in 1..i : to[j] # Nobody} = 1..k
<1> DEFINE bad == {i \in 1..n : to[i] = Nobody}
<1>1. CASE bad = {}
  <2>1. {i \in DOMAIN to : \A j \in 1..i : to[j] # Nobody} = 1..n
    BY <1>1
  <2> QED BY <2>1
<1>2. CASE bad # {}
  <2>1. bad \in SUBSET Nat
    OBVIOUS
  <2>2. PICK m \in bad : \A i \in bad : m <= i
    BY <1>2, <2>1, LeastIn
  <2>3. {i \in DOMAIN to : \A j \in 1..i : to[j] # Nobody} = 1..(m - 1)
    BY <2>2
  <2> QED BY <2>2, <2>3
<1> QED BY <1>1, <1>2

LEMMA FunctionIsSeq ==
    ASSUME NEW S, NEW n \in Nat, NEW f \in [1..n -> S]
    PROVE  f \in Seq(S) /\ Len(f) = n /\ DOMAIN f = 1..n
<1>1. f \in Seq(S)
  BY SeqDef, Zenon
<1> QED BY <1>1, LenProperties

LEMMA Concatenated ==
    ASSUME NEW S, NEW f \in Seq(S), NEW g \in Seq(S)
    PROVE  /\ f \o g \in Seq(S) /\ Len(f \o g) = Len(f) + Len(g)
           /\ DOMAIN (f \o g) = 1..(Len(f) + Len(g))
           /\ \A i \in 1..Len(f) : (f \o g)[i] = f[i]
           /\ \A i \in (Len(f) + 1)..(Len(f) + Len(g)) :
                 (f \o g)[i] = g[i - Len(f)] /\ i - Len(f) \in 1..Len(g)
<1>1. /\ f \o g \in Seq(S) /\ Len(f \o g) = Len(f) + Len(g)
      /\ \A i \in 1..(Len(f) + Len(g)) : (f \o g)[i] = IF i <= Len(f) THEN f[i] ELSE g[i - Len(f)]
  BY ConcatProperties
<1> QED BY <1>1, LenProperties

LEMMA DelegateDelegates ==
    ASSUME TeamType, NEW t \in DOMAIN tasks, NEW n \in Nat,
           NEW to \in [1..n -> Agents \cup {Nobody}], Delegate(t, to)
    PROVE  \E k : Delegates(t, k)
<1> DEFINE known == {i \in DOMAIN to : \A j \in 1..i : to[j] # Nobody}
           subs == [i \in known |-> Task(to[i])]
           none == [i \in known |-> {}]
           ids == {Len(tasks) + i : i \in known}
           waits == [tasks EXCEPT ![t].status = "suspended", ![t].on = ids]
<1>1. PICK k \in 0..n : known = 1..k
  BY KnownIsPrefix
<1>2. /\ leases' = leases \o none
      /\ \/ tasks' = waits \o subs /\ UNCHANGED <<awaited, pc>>
         \/ tasks' = tasks \o subs /\ Rejects(t)
  BY DEF Delegate
<1>3. Len(tasks) \in Nat /\ DOMAIN tasks = 1..Len(tasks) /\ tasks \in Seq(TaskSet)
      /\ tasks[t] \in TaskSet
  BY TeamShape DEF TeamType
<1>4. subs \in Seq(TaskSet) /\ Len(subs) = k
  <2>1. ASSUME NEW i \in 1..k PROVE to[i] \in Agents
    <3>1. i \in 1..i /\ i \in 1..n
      OBVIOUS
    <3>2. i \in known
      BY <1>1
    <3> QED BY <3>1, <3>2
  <2>2. subs \in [1..k -> TaskSet]
    BY <1>1, <2>1 DEF Task, TaskSet
  <2> HIDE DEF subs
  <2> QED BY <2>2, FunctionIsSeq
<1>5. none \in Seq(SUBSET Resource) /\ Len(none) = k /\ \A i \in 1..k : none[i] = {}
  <2>1. none \in [1..k -> SUBSET Resource] /\ \A i \in 1..k : none[i] = {}
    BY <1>1
  <2> HIDE DEF none
  <2> QED BY <2>1, FunctionIsSeq
<1>6. leases \in Seq(SUBSET Resource) /\ Len(leases) = Len(tasks)
  <2>1. leases \in [1..Len(tasks) -> SUBSET Resource]
    BY <1>3 DEF TeamType
  <2> QED BY <1>3, <2>1, FunctionIsSeq
<1>7. /\ waits \in Seq(TaskSet) /\ Len(waits) = Len(tasks)
      /\ \A u \in DOMAIN tasks \ {t} : waits[u] = tasks[u]
      /\ waits[t].owner = tasks[t].owner /\ waits[t].status = "suspended" /\ waits[t].on = ids
  <2>1. ids \in SUBSET Nat
    BY <1>1, <1>3
  <2> HIDE DEF ids
  <2>2. waits \in [1..Len(tasks) -> TaskSet]
    BY <1>3, <2>1, ElementOfSeq, ZenonT(60) DEF TaskSet
  <2>3. /\ \A u \in DOMAIN tasks \ {t} : waits[u] = tasks[u]
        /\ waits[t].owner = tasks[t].owner /\ waits[t].status = "suspended" /\ waits[t].on = ids
    BY <1>3 DEF TaskSet
  <2> HIDE DEF waits
  <2> QED BY <1>3, <2>2, <2>3, FunctionIsSeq
<1> HIDE DEF subs, none, waits
<1>8. /\ leases' \in [1..(Len(tasks) + k) -> SUBSET Resource]
      /\ \A u \in DOMAIN tasks : leases'[u] = leases[u]
      /\ \A u \in (Len(tasks) + 1)..(Len(tasks) + k) : leases'[u] = {}
  <2>1. /\ leases' \in Seq(SUBSET Resource) /\ Len(leases') = Len(tasks) + k
        /\ \A i \in 1..Len(tasks) : leases'[i] = leases[i]
        /\ \A i \in (Len(tasks) + 1)..(Len(tasks) + k) :
              leases'[i] = none[i - Len(tasks)] /\ i - Len(tasks) \in 1..k
    <3>1. leases \in Seq(SUBSET Resource) /\ none \in Seq(SUBSET Resource)
      BY <1>5, <1>6
    <3>2. /\ leases \o none \in Seq(SUBSET Resource)
          /\ Len(leases \o none) = Len(leases) + Len(none)
          /\ \A i \in 1..Len(leases) : (leases \o none)[i] = leases[i]
          /\ \A i \in (Len(leases) + 1)..(Len(leases) + Len(none)) :
                /\ (leases \o none)[i] = none[i - Len(leases)]
                /\ i - Len(leases) \in 1..Len(none)
      BY <3>1, Concatenated, ZenonT(60)
    <3> QED BY <1>2, <1>5, <1>6, <3>2, Zenon
  <2>2. leases' \in [1..(Len(tasks) + k) -> SUBSET Resource]
    BY <2>1, LenProperties
  <2> QED BY <1>3, <1>5, <2>1, <2>2
<1>9. ASSUME NEW head \in Seq(TaskSet), Len(head) = Len(tasks), tasks' = head \o subs
      PROVE  /\ Len(tasks') = Len(tasks) + k /\ tasks' \in Seq(TaskSet)
             /\ DOMAIN tasks' = 1..(Len(tasks) + k)
             /\ \A u \in DOMAIN tasks : tasks'[u] = head[u]
  <2>1. k \in Nat
    OBVIOUS
  <2>2. /\ head \o subs \in Seq(TaskSet) /\ Len(head \o subs) = Len(tasks) + k
        /\ DOMAIN (head \o subs) = 1..(Len(tasks) + k)
        /\ \A u \in 1..Len(tasks) : (head \o subs)[u] = head[u]
    <3>1. /\ head \o subs \in Seq(TaskSet) /\ Len(head \o subs) = Len(head) + Len(subs)
          /\ DOMAIN (head \o subs) = 1..(Len(head) + Len(subs))
          /\ \A u \in 1..Len(head) : (head \o subs)[u] = head[u]
      BY <1>4, Concatenated, Zenon
    <3> QED BY <1>4, <1>9, <3>1, Zenon
  <2> QED BY <1>3, <1>9, <2>2
<1>10. CASE tasks' = waits \o subs /\ UNCHANGED <<awaited, pc>>
  <2>1. /\ Len(tasks') = Len(tasks) + k /\ tasks' \in Seq(TaskSet)
        /\ DOMAIN tasks' = 1..(Len(tasks) + k)
        /\ \A u \in DOMAIN tasks : tasks'[u] = waits[u]
    BY <1>7, <1>9, <1>10
  <2>2. DOMAIN tasks' \ DOMAIN tasks = (Len(tasks) + 1)..(Len(tasks) + k)
    BY <1>3, <2>1
  <2>3. \A u \in DOMAIN tasks' \ DOMAIN tasks : u \in ids
    <3> SUFFICES ASSUME NEW u \in (Len(tasks) + 1)..(Len(tasks) + k) PROVE u \in ids
      BY <2>2
    <3> DEFINE i == u - Len(tasks)
    <3>1. i \in 1..k /\ u = Len(tasks) + i
      BY <1>3
    <3> HIDE DEF i
    <3> QED BY <1>1, <3>1
  <2>4. /\ tasks'[t].owner = tasks[t].owner /\ tasks'[t].status = "suspended"
        /\ tasks'[t].on = ids
        /\ \A u \in DOMAIN tasks \ {t} : tasks'[u] = tasks[u]
    BY <1>7, <2>1
  <2>5. k \in Nat
    OBVIOUS
  <2> HIDE DEF ids, known
  <2> QED BY <2>5, <1>7, <1>8, <1>10, <2>1, <2>2, <2>3, <2>4 DEF Delegates
<1>11. CASE tasks' = tasks \o subs /\ Rejects(t)
  <2>1. /\ Len(tasks') = Len(tasks) + k /\ tasks' \in Seq(TaskSet)
        /\ DOMAIN tasks' = 1..(Len(tasks) + k)
        /\ \A u \in DOMAIN tasks : tasks'[u] = tasks[u]
    BY <1>3, <1>9, <1>11
  <2>2. DOMAIN tasks' \ DOMAIN tasks = (Len(tasks) + 1)..(Len(tasks) + k)
    BY <1>3, <2>1
  <2>3. k \in Nat
    OBVIOUS
  <2> HIDE DEF ids, known
  <2> QED BY <1>8, <1>11, <2>1, <2>2, <2>3 DEF Delegates
<1> QED BY <1>2, <1>10, <1>11
LEMMA DelegatesIsSound ==
    ASSUME TeamInv, NEW t \in inFlight, Ends(t), NEW k, Delegates(t, k)
    PROVE  TeamInv'
<1>1. Len(tasks) \in Nat /\ DOMAIN tasks = 1..Len(tasks) /\ 1 \in DOMAIN tasks
      /\ t \in DOMAIN tasks
  BY TeamShape, EmptySeq DEF TeamInv, TeamType
<1>2. DOMAIN tasks \subseteq DOMAIN tasks'
  BY <1>1 DEF Delegates
<1>3. \A u \in DOMAIN tasks : tasks'[u].owner = tasks[u].owner /\ leases'[u] = leases[u]
  BY DEF Delegates
<1>4. TeamType'
  <2>1. tasks' # <<>> /\ tasks'[1].owner = Leader
    BY <1>1, <1>2, <1>3, EmptySeq DEF Delegates, TeamInv, TeamType
  <2>2. \A u \in inFlight' : u \in DOMAIN tasks' /\ tasks'[u].status = "active"
    BY <1>2 DEF Ends, Delegates, TeamInv, TeamType
  <2> QED BY <2>1, <2>2 DEF TeamInv, TeamType, Ends, Delegates
<1>5. Backed(holder, leases)'
  BY <1>2, <1>3 DEF Backed, TeamInv, LeaseInv, Ends
<1>6. ASSUME ~rolledBack', OneEach'
      PROVE  True(holder, leases)' /\ Supplied(inFlight, leases)'
  <2>1. OneEach /\ ~rolledBack
    BY <1>2, <1>3, <1>6 DEF OneEach, Ends
  <2>2. True(holder, leases) /\ Supplied(inFlight, leases)
    BY <2>1 DEF TeamInv, LeaseInv
  <2>3. True(holder, leases)'
    BY <1>3, <2>2 DEF True, Ends, Delegates
  <2>4. \A u \in inFlight' : u \in inFlight /\ u \in DOMAIN tasks
    BY DEF Ends, TeamInv, TeamType
  <2>5. Supplied(inFlight, leases)'
    BY <1>3, <2>2, <2>4 DEF Supplied, Needs
  <2> QED BY <2>3, <2>5
<1> QED BY <1>4, <1>5, <1>6 DEF TeamInv, LeaseInv

LEMMA EndIsSound ==
    ASSUME TeamInv, NEW t \in DOMAIN tasks,
           \/ Progress(t) \/ Throw(t) \/ \E status \in {"done", "error"} : Finish(t, status)
    PROVE  TeamInv'
<1>1. t \in inFlight /\ inFlight' = inFlight \ {t} /\ UNCHANGED <<holder, leases, rolledBack>>
  BY DEF Progress, Throw, Finish, Ends
<1>2. /\ DOMAIN tasks' = DOMAIN tasks /\ tasks' \in Seq(TaskSet)
      /\ \A u \in DOMAIN tasks : tasks'[u].owner = tasks[u].owner
      /\ \A u \in DOMAIN tasks \ {t} : tasks'[u] = tasks[u]
  <2>1. CASE UNCHANGED tasks
    BY <2>1 DEF TeamInv, TeamType
  <2>2. ASSUME NEW status \in {"done", "error"}, tasks' = [tasks EXCEPT ![t].status = status]
        PROVE  /\ DOMAIN tasks' = DOMAIN tasks /\ tasks' \in Seq(TaskSet)
               /\ \A u \in DOMAIN tasks : tasks'[u].owner = tasks[u].owner
               /\ \A u \in DOMAIN tasks \ {t} : tasks'[u] = tasks[u]
    <3>1. Len(tasks) \in Nat /\ DOMAIN tasks = 1..Len(tasks)
          /\ \A u \in DOMAIN tasks : tasks[u] \in TaskSet
      BY TeamShape DEF TeamInv
    <3>2. tasks' \in [1..Len(tasks) -> TaskSet]
      <4>1. PICK ended \in TaskSet : ended = [tasks[t] EXCEPT !.status = status]
        BY <3>1 DEF TaskSet
      <4>2. tasks' = [tasks EXCEPT ![t] = ended]
        BY <2>2, <3>1, <4>1
      <4> QED BY <3>1, <4>2
    <3>3. tasks' \in Seq(TaskSet)
      BY <3>1, <3>2, FunctionIsSeq
    <3>4. \A u \in DOMAIN tasks : tasks'[u].owner = tasks[u].owner
      BY <2>2, <3>1 DEF TaskSet
    <3> QED BY <2>2, <3>3, <3>4
  <2> QED BY <2>1, <2>2 DEF Progress, Throw, Finish
<1>3. TeamType'
  <2>1. 1 \in DOMAIN tasks
    BY TeamShape, EmptySeq DEF TeamInv, TeamType
  <2>2. tasks' # <<>> /\ tasks'[1].owner = Leader
    BY <1>2, <2>1 DEF TeamInv, TeamType
  <2> QED BY <1>1, <1>2, <2>2 DEF TeamInv, TeamType
<1>4. Backed(holder, leases)'
  BY <1>1, <1>2 DEF Backed, TeamInv, LeaseInv
<1>5. ASSUME ~rolledBack', OneEach'
      PROVE  True(holder, leases)' /\ Supplied(inFlight, leases)'
  <2>1. True(holder, leases) /\ Supplied(inFlight, leases)
    BY <1>1, <1>2, <1>5 DEF TeamInv, LeaseInv, OneEach
  <2>2. \A u \in inFlight' : u \in inFlight /\ u \in DOMAIN tasks
    BY <1>1 DEF TeamInv, TeamType
  <2> QED BY <1>1, <1>2, <2>1, <2>2 DEF True, Supplied, Needs
<1> QED BY <1>3, <1>4, <1>5 DEF TeamInv, LeaseInv

LEMMA TicksAreSound ==
    ASSUME TeamInv, NEW t \in DOMAIN tasks,
           \/ \E n \in 0..FanOut : \E to \in [1..n -> Agents \cup {Nobody}] : LeaderTicks(t, to)
           \/ WorkerTicks(t) \/ GroundingTicks(t) \/ Throw(t)
    PROVE  TeamInv'
<1>1. CASE Progress(t) \/ Throw(t) \/ \E status \in {"done", "error"} : Finish(t, status)
  BY <1>1, EndIsSound
<1>2. ASSUME NEW n \in 0..FanOut, NEW to \in [1..n -> Agents \cup {Nobody}], Delegate(t, to)
      PROVE  TeamInv'
  <2>1. n \in Nat /\ t \in inFlight /\ Ends(t)
    <3>1. FanOut \in Nat
      BY TeamAssumption
    <3>2. Ends(t)
      BY <1>2, Zenon DEF Delegate
    <3> QED BY <3>1, <3>2 DEF Ends
  <2>2. \E k : Delegates(t, k)
    BY <1>2, <2>1, DelegateDelegates DEF TeamInv
  <2> QED BY <2>1, <2>2, DelegatesIsSound
<1> QED BY <1>1, <1>2 DEF LeaderTicks, WorkerTicks, GroundingTicks

-----------------------------------------------------------------------------
LEMMA InitTeam == Init => TeamInv
<1> SUFFICES ASSUME Init PROVE TeamInv
  OBVIOUS
<1>1. Task(Leader) \in TaskSet /\ Task(Leader).owner = Leader
  BY DEF Task, TaskSet, Agents
<1>2. tasks \in Seq(TaskSet) /\ tasks # <<>> /\ DOMAIN tasks = 1..1 /\ tasks[1] = Task(Leader)
  BY <1>1 DEF Init
<1>3. leases \in [1..1 -> SUBSET Resource] /\ \A t \in DOMAIN tasks : leases[t] = {}
  BY <1>2 DEF Init
<1>4. holder \in [Resource -> {Free}] /\ inFlight = {} /\ rolledBack = FALSE
  BY DEF Init
<1>5. TeamType
  BY <1>1, <1>2, <1>3, <1>4 DEF TeamType
<1>6. LeaseInv
  BY <1>3, <1>4 DEF LeaseInv, Backed, True, Supplied
<1> QED BY <1>5, <1>6 DEF TeamInv

LEMMA NextTeam ==
    ASSUME TeamInv, [Next]_vars
    PROVE  TeamInv'
<1>1. CASE Return \/ GiveUp \/ Stop \/ Rerun \/ UNCHANGED vars
  <2>1. UNCHANGED <<tasks, inFlight, leases, holder, rolledBack>>
    BY <1>1 DEF Return, GiveUp, Stop, Rerun, vars
  <2> QED BY <2>1 DEF TeamInv, TeamType, LeaseInv, Backed, OneEach, True, Supplied, Needs
<1> QED BY <1>1, StartRoundIsSound, LoopIsSound, TicksAreSound DEF Next

LEMMA TeamIsExclusive == TeamInv => ExclusiveAtBest
<1> SUFFICES ASSUME TeamInv, ~rolledBack, OneEach PROVE Exclusive
  BY DEF ExclusiveAtBest, OneEach
<1>1. True(holder, leases) /\ Supplied(inFlight, leases) /\ inFlight \subseteq DOMAIN tasks
  BY DEF TeamInv, TeamType, LeaseInv
<1> QED BY <1>1 DEF Exclusive, True, Supplied, Needs

(* Whatever the models answer and however ticks end, as long as no            *)
(* acquisition was rolled back and no agent has two tasks, no two agents act  *)
(* on one exclusive resource at once; so after a failed run, too.             *)
THEOREM TeamExclusive == Spec => []ExclusiveAtBest
<1> QED BY InitTeam, NextTeam, TeamIsExclusive, PTL DEF Spec

(* A round that ends leaves no resource with an agent that has no unfinished  *)
(* task for it.                                                               *)
THEOREM TeamReleases == Spec => NothingHeldForNobody
<1>1. ASSUME TeamInv, [Next]_vars, pc \in {"leading", "working"}, pc' = "top"
      PROVE  UsedNow(holder', leases', tasks')
  <2>1. CASE StartWorkers \/ FinishRound
    BY <1>1, <2>1, LoopIsSound
  <2>2. ASSUME NEW t \in DOMAIN tasks,
               \/ \E n \in 0..FanOut : \E to \in [1..n -> Agents \cup {Nobody}] : LeaderTicks(t, to)
               \/ WorkerTicks(t) \/ GroundingTicks(t) \/ Throw(t)
        PROVE  FALSE
    <3>1. Rejects(t) => pc' # "top"
      BY <1>1 DEF Rejects
    <3>2. pc' # pc
      BY <1>1
    <3> QED BY <1>1, <2>2, <3>1, <3>2
            DEF LeaderTicks, WorkerTicks, GroundingTicks, Throw, Progress, Finish, Delegate
  <2>3. pc # "top" /\ pc # "threw" /\ pc' # pc
    BY <1>1
  <2>4. ~StartRound /\ ~Return /\ ~GiveUp /\ ~Stop /\ ~Rerun /\ ~UNCHANGED vars
    BY <2>3 DEF StartRound, Return, GiveUp, Stop, Rerun, vars
  <2>5. StartWorkers \/ FinishRound
    BY <1>1, <2>2, <2>4 DEF Next
  <2> QED BY <2>1, <2>5
<1>2. TeamInv /\ [Next]_vars =>
        [(pc \in {"leading", "working"} /\ pc' = "top") =>
            \A r \in Resource : holder'[r] # Free =>
                \E t \in DOMAIN tasks' :
                    /\ tasks'[t].owner = holder'[r] /\ r \in leases'[t]
                    /\ ~IsTerminal(tasks'[t])]_vars
  BY <1>1 DEF UsedNow
<1> QED BY <1>2, InitTeam, NextTeam, PTL DEF Spec, NothingHeldForNobody
-----------------------------------------------------------------------------
(* In a run in which no round failed, an unfinished task is the root or one   *)
(* that an earlier task is suspended for, and nothing ticks that the round    *)
(* does not wait for.                                                         *)
Accounted ==
    \A t \in DOMAIN tasks :
        \/ t = 1 \/ IsTerminal(tasks[t])
        \/ \E p \in DOMAIN tasks : p < t /\ tasks[p].status = "suspended" /\ t \in tasks[p].on

Awaited == inFlight \subseteq awaited /\ (pc \notin {"leading", "working"} => inFlight = {})

OrphanInv ==
    /\ reruns \in Nat
    /\ reruns = 0 /\ pc # "threw" => Accounted /\ Awaited

LEMMA ResolveAccounts ==
    ASSUME TeamType, Accounted, tasks' = Resolve(tasks)
    PROVE  Accounted'
<1>1. DOMAIN tasks' = DOMAIN tasks /\ \A t \in DOMAIN tasks :
         tasks'[t] = IF tasks[t].status = "suspended" /\ \A s \in tasks[t].on : IsTerminal(tasks[s])
                     THEN Task(tasks[t].owner) ELSE tasks[t]
  BY DEF Resolve
<1>2. \A t \in DOMAIN tasks : IsTerminal(tasks[t]) => tasks'[t] = tasks[t]
  BY <1>1 DEF IsTerminal
<1>3. ASSUME NEW t \in DOMAIN tasks, t # 1, ~IsTerminal(tasks[t])
      PROVE  \E p \in DOMAIN tasks : /\ p < t /\ tasks'[p].status = "suspended"
                                      /\ t \in tasks'[p].on
  <2>1. PICK p \in DOMAIN tasks : p < t /\ tasks[p].status = "suspended" /\ t \in tasks[p].on
    BY <1>3 DEF Accounted
  <2>2. tasks'[p] = tasks[p]
    BY <1>1, <1>3, <2>1
  <2> QED BY <2>1, <2>2
<1>4. ASSUME NEW t \in DOMAIN tasks'
      PROVE  \/ t = 1 \/ IsTerminal(tasks'[t])
             \/ \E p \in DOMAIN tasks' : /\ p < t /\ tasks'[p].status = "suspended"
                                         /\ t \in tasks'[p].on
  BY <1>1, <1>2, <1>3
<1> QED BY <1>4 DEF Accounted, IsTerminal

LEMMA TickWorkersAwaits ==
    ASSUME inFlight = {}, NEW ts, NEW grant, TickWorkers(ts, grant)
    PROVE  Awaited' /\ pc' # "threw"
<1>1. \/ Tick(Grant(ts, grant), "working")
      \/ pc' = "top" /\ UNCHANGED inFlight
  BY DEF TickWorkers
<1> QED BY <1>1 DEF Tick, Awaited

LEMMA StartRoundAccounts ==
    ASSUME TeamInv, OrphanInv, StartRound
    PROVE  OrphanInv'
<1> SUFFICES ASSUME reruns = 0 PROVE Accounted' /\ Awaited'
  BY DEF OrphanInv, StartRound
<1>1. Accounted /\ inFlight = {} /\ TeamType
  BY DEF OrphanInv, Awaited, StartRound, TeamInv
<1>2. Accounted'
  BY <1>1, ResolveAccounts DEF StartRound
<1>3. \/ \E ts, grant : TickWorkers(ts, grant)
      \/ \E grant : Tick(grant, "leading")
  BY DEF StartRound
<1>4. Awaited'
  BY <1>1, <1>3, TickWorkersAwaits DEF Tick, Awaited
<1> QED BY <1>2, <1>4

LEMMA LoopAccounts ==
    ASSUME TeamInv, OrphanInv, StartWorkers \/ FinishRound
    PROVE  OrphanInv'
<1>1. reruns' = reruns /\ tasks' = tasks /\ pc # "threw" /\ awaited \cap inFlight = {}
  BY DEF StartWorkers, FinishRound
<1> SUFFICES ASSUME reruns = 0 PROVE Accounted' /\ Awaited'
  BY <1>1 DEF OrphanInv
<1>2. Accounted /\ inFlight = {}
  BY <1>1 DEF OrphanInv, Awaited
<1>3. Accounted'
  BY <1>1, <1>2 DEF Accounted, IsTerminal
<1>4. CASE StartWorkers
  BY <1>2, <1>3, <1>4, TickWorkersAwaits DEF StartWorkers
<1>5. CASE FinishRound
  BY <1>2, <1>3, <1>5 DEF FinishRound, Awaited
<1> QED BY <1>4, <1>5

LEMMA DelegatesAccounts ==
    ASSUME TeamInv, OrphanInv, NEW t \in inFlight, Ends(t), NEW k, Delegates(t, k)
    PROVE  OrphanInv'
<1>1. reruns' = reruns /\ inFlight' = inFlight \ {t}
  BY DEF Ends
<1> SUFFICES ASSUME reruns = 0, pc' # "threw" PROVE Accounted' /\ Awaited'
  BY <1>1 DEF OrphanInv
<1>2. pc # "threw"
  BY DEF Delegates, Rejects
<1>3. Accounted /\ Awaited /\ t \in awaited /\ pc \in {"leading", "working"}
  BY <1>2 DEF OrphanInv, Awaited
<1>4. /\ tasks'[t].status = "suspended" /\ UNCHANGED <<awaited, pc>>
      /\ \A u \in DOMAIN tasks' \ DOMAIN tasks : u \in tasks'[t].on
  BY <1>3 DEF Delegates, Rejects
<1>5. /\ Len(tasks) \in Nat /\ DOMAIN tasks = 1..Len(tasks) /\ t \in DOMAIN tasks
      /\ tasks[t].status = "active"
  BY TeamShape DEF TeamInv, TeamType
<1>6. k \in Nat /\ DOMAIN tasks' = 1..(Len(tasks) + k)
      /\ \A u \in DOMAIN tasks \ {t} : tasks'[u] = tasks[u]
  BY DEF Delegates
<1>7. ASSUME NEW u \in DOMAIN tasks', u # 1, ~IsTerminal(tasks'[u])
      PROVE  \E p \in DOMAIN tasks' : /\ p < u /\ tasks'[p].status = "suspended"
                                       /\ u \in tasks'[p].on
  <2>1. CASE u \in DOMAIN tasks
    <3>1. ~IsTerminal(tasks[u])
      BY <1>5, <1>6, <1>7, <2>1 DEF IsTerminal
    <3>2. PICK p \in DOMAIN tasks : p < u /\ tasks[p].status = "suspended" /\ u \in tasks[p].on
      BY <1>3, <1>7, <2>1, <3>1 DEF Accounted
    <3>3. p # t /\ tasks'[p] = tasks[p] /\ p \in DOMAIN tasks'
      BY <1>5, <1>6, <3>2
    <3> QED BY <3>2, <3>3
  <2>2. CASE u \notin DOMAIN tasks
    <3>1. t < u /\ t \in DOMAIN tasks'
      BY <1>5, <1>6, <2>2
    <3> QED BY <1>4, <2>2, <3>1
  <2> QED BY <2>1, <2>2
<1>8. Accounted'
  BY <1>7 DEF Accounted, IsTerminal
<1>9. Awaited'
  BY <1>1, <1>3, <1>4 DEF Awaited
<1> QED BY <1>8, <1>9

LEMMA EndAccounts ==
    ASSUME TeamInv, OrphanInv, NEW t \in DOMAIN tasks,
           \/ Progress(t) \/ Throw(t) \/ \E status \in {"done", "error"} : Finish(t, status)
    PROVE  OrphanInv'
<1>1. t \in inFlight /\ reruns' = reruns /\ inFlight' = inFlight \ {t}
  BY DEF Progress, Throw, Finish, Ends
<1> SUFFICES ASSUME reruns = 0, pc' # "threw" PROVE Accounted' /\ Awaited'
  BY <1>1 DEF OrphanInv
<1>2. pc # "threw"
  BY DEF Progress, Throw, Finish, Rejects
<1>3. Accounted /\ Awaited /\ t \in awaited /\ pc \in {"leading", "working"}
  BY <1>1, <1>2 DEF OrphanInv, Awaited
<1>4. ~Throw(t) /\ UNCHANGED <<awaited, pc>>
  BY <1>3 DEF Progress, Throw, Finish, Rejects
<1>5. Awaited'
  BY <1>1, <1>3, <1>4 DEF Awaited
<1>6. tasks[t].status = "active"
  BY <1>1 DEF TeamInv, TeamType
<1>7. CASE Progress(t)
  <2>1. tasks' = tasks
    BY <1>7 DEF Progress
  <2> QED BY <1>3, <1>5, <2>1 DEF Accounted, IsTerminal
<1>8. ASSUME NEW status \in {"done", "error"}, Finish(t, status)
      PROVE  Accounted'
  <2>1. /\ DOMAIN tasks' = DOMAIN tasks
        /\ \A u \in DOMAIN tasks \ {t} : tasks'[u] = tasks[u]
        /\ IsTerminal(tasks'[t])
    <3>1. tasks[t] \in TaskSet
      BY TeamShape DEF TeamInv
    <3> QED BY <1>8, <3>1 DEF Finish, IsTerminal, TaskSet
  <2>2. ASSUME NEW u \in DOMAIN tasks', u # 1, ~IsTerminal(tasks'[u])
        PROVE  \E p \in DOMAIN tasks' : /\ p < u /\ tasks'[p].status = "suspended"
                                         /\ u \in tasks'[p].on
    <3>1. u \in DOMAIN tasks \ {t} /\ ~IsTerminal(tasks[u])
      BY <2>1, <2>2
    <3>2. PICK p \in DOMAIN tasks : p < u /\ tasks[p].status = "suspended" /\ u \in tasks[p].on
      BY <1>3, <2>2, <3>1 DEF Accounted
    <3>3. p # t /\ tasks'[p] = tasks[p]
      BY <1>6, <2>1, <3>2
    <3> QED BY <2>1, <3>2, <3>3
  <2> QED BY <2>2 DEF Accounted, IsTerminal
<1> QED BY <1>4, <1>5, <1>7, <1>8

LEMMA TicksAccount ==
    ASSUME TeamInv, OrphanInv, NEW t \in DOMAIN tasks,
           \/ \E n \in 0..FanOut : \E to \in [1..n -> Agents \cup {Nobody}] : LeaderTicks(t, to)
           \/ WorkerTicks(t) \/ GroundingTicks(t) \/ Throw(t)
    PROVE  OrphanInv'
<1>1. CASE Progress(t) \/ Throw(t) \/ \E status \in {"done", "error"} : Finish(t, status)
  BY <1>1, EndAccounts
<1>2. ASSUME NEW n \in 0..FanOut, NEW to \in [1..n -> Agents \cup {Nobody}], Delegate(t, to)
      PROVE  OrphanInv'
  <2>1. FanOut \in Nat
    BY TeamAssumption
  <2>2. Ends(t)
    BY <1>2, Zenon DEF Delegate
  <2>3. n \in Nat /\ t \in inFlight
    BY <2>1, <2>2 DEF Ends
  <2>4. \E k : Delegates(t, k)
    BY <1>2, <2>3, DelegateDelegates DEF TeamInv
  <2> QED BY <2>2, <2>3, <2>4, DelegatesAccounts
<1> QED BY <1>1, <1>2 DEF LeaderTicks, WorkerTicks, GroundingTicks

LEMMA InitAccounted == Init => OrphanInv
<1> SUFFICES ASSUME Init PROVE OrphanInv
  OBVIOUS
<1>1. DOMAIN tasks = {1}
  BY DEF Init
<1> QED BY <1>1 DEF Init, OrphanInv, Accounted, Awaited

LEMMA NextAccounted ==
    ASSUME TeamInv, OrphanInv, [Next]_vars
    PROVE  OrphanInv'
<1>1. CASE Return \/ Stop \/ UNCHANGED vars
  <2>1. /\ UNCHANGED <<tasks, inFlight, awaited, reruns>>
        /\ pc' = pc \/ (pc = "top" /\ pc' = "returned")
    BY <1>1 DEF Return, Stop, vars
  <2> QED BY <2>1 DEF OrphanInv, Accounted, Awaited, IsTerminal
<1>2. CASE GiveUp
  BY <1>2 DEF GiveUp, OrphanInv
<1>3. CASE Rerun
  BY <1>3 DEF Rerun, OrphanInv
<1> QED BY <1>1, <1>2, <1>3, StartRoundAccounts, LoopAccounts, TicksAccount DEF Next

(* The least unfinished task would have to be suspended for by one before it. *)
LEMMA AccountedLeavesNoOrphans == TeamInv /\ OrphanInv => NoOrphans
<1> SUFFICES ASSUME TeamInv, Accounted, IsTerminal(tasks[1])
             PROVE  \A t \in DOMAIN tasks : IsTerminal(tasks[t])
  BY DEF OrphanInv, NoOrphans
<1> DEFINE open == {t \in DOMAIN tasks : ~IsTerminal(tasks[t])}
<1>1. open \in SUBSET Nat
  BY TeamShape DEF TeamInv
<1>2. ASSUME NEW m \in open, \A t \in open : m <= t PROVE FALSE
  <2>1. PICK p \in DOMAIN tasks : p < m /\ tasks[p].status = "suspended"
    BY <1>2 DEF Accounted
  <2>2. p \in open /\ p \in Nat /\ m \in Nat
    BY <1>1, <2>1 DEF IsTerminal
  <2> QED BY <1>2, <2>1, <2>2
<1>3. open = {}
  BY <1>1, <1>2, LeastIn
<1> QED BY <1>3

(* Whatever is delegated, in whatever order the ticks end: when the root task *)
(* is finished, so is every task, unless a round failed.                      *)
THEOREM TeamLeavesNoOrphans == Spec => []NoOrphans
<1>1. Spec => []TeamInv
  BY InitTeam, NextTeam, PTL DEF Spec
<1> QED BY <1>1, InitAccounted, NextAccounted, AccountedLeavesNoOrphans, PTL DEF Spec
=============================================================================
