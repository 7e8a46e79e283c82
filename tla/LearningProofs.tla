--------------------------- MODULE LearningProofs ---------------------------
(* Proofs about Learning: the tables and the statements to come amount to    *)
(* what is in memory, so that a restart restores it; a word committed within *)
(* the window is known; and using a word never makes it rank lower.  And     *)
(* about Candidates: its decoder has the index of its dictionary.            *)
EXTENDS Learning, Candidates, FiniteSetTheorems, SequenceTheorems, NaturalsInduction,
        WellFoundedInduction, TLAPS

-----------------------------------------------------------------------------
(* Numbers and finite sets.                                                  *)

LEMMA LeastOf ==
    ASSUME NEW S \in SUBSET Nat, S # {}
    PROVE  \E m \in S : \A n \in S : m <= n
<1>1. PICK m \in S : \A n \in S : ~(<<n, m>> \in OpToRel(<, Nat))
  BY NatLessThanWellFounded, WFMin
<1>2. ASSUME NEW n \in S PROVE m <= n
  <2>1. <<n, m>> \in Nat \X Nat /\ <<n, m>> \notin OpToRel(<, Nat)
    BY <1>1
  <2>2. ~(<<n, m>>[1] < <<n, m>>[2])
    BY <2>1, Zenon DEF OpToRel
  <2> QED BY <2>2
<1> QED BY <1>2

(* The greatest is the one with the fewest above it.                         *)
LEMMA GreatestOf ==
    ASSUME NEW S \in SUBSET Nat, IsFiniteSet(S), S # {}
    PROVE  \E m \in S : \A n \in S : n <= m
<1> DEFINE Above(m) == {x \in S : x > m}
<1>1. \A m \in S : IsFiniteSet(Above(m)) /\ Cardinality(Above(m)) \in Nat
  BY FS_Subset, FS_CardinalityType
<1> DEFINE Counts == {Cardinality(Above(m)) : m \in S}
<1>2. Counts \in SUBSET Nat /\ Counts # {}
  BY <1>1
<1>3. PICK m \in S : \A n \in S : Cardinality(Above(m)) <= Cardinality(Above(n))
  <2> HIDE DEF Above
  <2>1. PICK k \in Counts : \A c \in Counts : k <= c
    BY <1>2, LeastOf
  <2> QED BY <2>1
<1>4. ASSUME NEW n \in S, n > m PROVE FALSE
  <2>0. n \in Nat /\ m \in Nat /\ \A x \in S : x > n => x > m
    BY <1>4
  <2>a. n \in Above(m) /\ n \notin Above(n)
    BY <1>4, <2>0
  <2>b. Above(n) \in SUBSET Above(m)
    BY <2>0, Zenon
  <2>1. n \in Above(m) /\ n \notin Above(n) /\ Above(n) \in SUBSET Above(m)
    BY <2>a, <2>b
  <2> HIDE DEF Above
  <2>2. Above(n) # Above(m)
    BY <2>1
  <2>3. Cardinality(Above(n)) <= Cardinality(Above(m))
        /\ (Cardinality(Above(m)) = Cardinality(Above(n)) => Above(m) = Above(n))
    BY <1>1, <2>1, FS_Subset
  <2>4. Cardinality(Above(m)) <= Cardinality(Above(n))
    BY <1>3
  <2> QED BY <1>1, <2>2, <2>3, <2>4
<1> QED BY <1>4

LEMMA WindowIsLongest == Window \in Limits /\ \A l \in Limits : l <= Window
BY GreatestOf, LearningAssumption DEF Window

(* A level is a number of limits; a word used now has them all, one beyond   *)
(* the window none.                                                          *)
Levels == Cardinality(Limits)
Within(age) == {l \in Limits : age <= l}

LEMMA LevelsAre ==
    /\ Levels \in 0..5
    /\ \A age \in Int : /\ IsFiniteSet(Within(age)) /\ Cardinality(Within(age)) \in 0..Levels
                        /\ Cardinality(Within(age)) = 0 => age > Window
    /\ Cardinality(Within(0)) = Levels
<1>1. IsFiniteSet(Limits) /\ Limits \subseteq Nat /\ Levels \in Nat /\ Levels <= 5
  BY LearningAssumption, FS_CardinalityType DEF Levels
<1>2. ASSUME NEW age \in Int
      PROVE  /\ IsFiniteSet(Within(age)) /\ Cardinality(Within(age)) \in 0..Levels
             /\ Cardinality(Within(age)) = 0 => age > Window
  <2>1. Within(age) \in SUBSET Limits
    BY DEF Within
  <2>2. IsFiniteSet(Within(age)) /\ Cardinality(Within(age)) <= Levels
        /\ Cardinality(Within(age)) \in Nat
    BY <1>1, <2>1, FS_Subset, FS_CardinalityType DEF Levels
  <2>3. ASSUME Cardinality(Within(age)) = 0 PROVE age > Window
    <3>1. Within(age) = {}
      BY <2>2, <2>3, FS_EmptySet
    <3> QED BY <1>1, <3>1, WindowIsLongest DEF Within
  <2> QED BY <1>1, <2>2, <2>3
<1>3. Within(0) = Limits
  <2>1. \A l \in Limits : 0 <= l
    BY <1>1
  <2> QED BY <2>1, Zenon DEF Within
<1>4. Cardinality(Within(0)) = Levels
  BY <1>3 DEF Levels
<1> QED BY <1>1, <1>2, <1>4

-----------------------------------------------------------------------------
(* The score.                                                                *)

(* The formula of the boost: for up to seven levels, neither a better score  *)
(* nor a higher level lowers the result.                                     *)
Gain(a, b) == (1000 - a) * (a + 1000 * b)
AtTier(a, b) == IF b = 0 THEN a ELSE Gain(a, b) \div 8000 + a

LEMMA ProductOf ==
    ASSUME NEW x \in Nat, NEW y \in Nat PROVE x * y \in Nat
OBVIOUS

LEMMA QuotientGrows ==
    ASSUME NEW x \in Nat, NEW y \in Nat, x <= y
    PROVE  x \div 8000 <= y \div 8000 /\ x \div 8000 \in Nat
OBVIOUS

LEMMA GainIs ==
    ASSUME NEW a \in Nat, a <= 1000, NEW b \in Nat PROVE Gain(a, b) \in Nat
<1>1. 1000 - a \in Nat /\ a + 1000 * b \in Nat
  OBVIOUS
<1> QED BY <1>1, ProductOf DEF Gain

LEMMA GainGrows ==
    ASSUME NEW a \in Nat, NEW c \in Nat, a <= c, c <= 1000,
           NEW b \in Nat, NEW d \in Nat, b <= d, d <= 7
    PROVE  Gain(a, b) + 8000 * a <= Gain(c, d) + 8000 * c
<1>1. PICK f \in Nat, g \in Nat, h \in Nat : f = Gain(a, b) /\ g = Gain(c, b) /\ h = Gain(c, d)
  <2>1. Gain(a, b) \in Nat /\ Gain(c, b) \in Nat /\ Gain(c, d) \in Nat
    BY GainIs
  <2> QED BY <2>1
<1>2. g <= h
  <2>1. 1000 - c \in Nat /\ 1000 * (d - b) \in Nat
    OBVIOUS
  <2>2. (1000 - c) * (1000 * (d - b)) \in Nat
    BY <2>1, ProductOf
  <2>3. h - g = (1000 - c) * (1000 * (d - b))
    BY <1>1 DEF Gain
  <2> QED BY <2>2, <2>3
<1>3. f + 8000 * a <= g + 8000 * c
  <2>1. c - a \in Nat /\ 9000 - a - c - 1000 * b \in Nat
    OBVIOUS
  <2>2. (c - a) * (9000 - a - c - 1000 * b) \in Nat
    BY <2>1, ProductOf
  <2>3. (g + 8000 * c) - (f + 8000 * a) = (c - a) * (9000 - a - c - 1000 * b)
    BY <1>1 DEF Gain
  <2> QED BY <2>2, <2>3
<1> QED BY <1>1, <1>2, <1>3

LEMMA BoostedIs ==
    ASSUME NEW a \in Nat, a <= 1000, NEW b \in Nat, b > 0
    PROVE  AtTier(a, b) = (Gain(a, b) + 8000 * a) \div 8000
<1>1. PICK g \in Nat : g = Gain(a, b)
  BY GainIs
<1>2. (g + 8000 * a) \div 8000 = g \div 8000 + a
  OBVIOUS
<1>3. AtTier(a, b) = g \div 8000 + a
  BY <1>1 DEF AtTier
<1> QED BY <1>1, <1>2, <1>3

LEMMA BoostGrows ==
    ASSUME NEW a \in Nat, NEW c \in Nat, a <= c, c <= 1000,
           NEW b \in Nat, NEW d \in Nat, b <= d, d <= 7
    PROVE  AtTier(a, b) <= AtTier(c, d)
<1>1. PICK g \in Nat, h \in Nat : g = Gain(a, b) /\ h = Gain(c, d)
  <2>1. Gain(a, b) \in Nat /\ Gain(c, d) \in Nat
    BY GainIs
  <2> QED BY <2>1
<1>2. CASE d = 0
  BY <1>2 DEF AtTier
<1>3. CASE b = 0 /\ d > 0
  <2>1. AtTier(c, d) = h \div 8000 + c /\ AtTier(a, b) = a
    BY <1>1, <1>3 DEF AtTier
  <2>2. h \div 8000 \in Nat
    OBVIOUS
  <2> QED BY <2>1, <2>2
<1>4. CASE b > 0
  <2>1. g + 8000 * a <= h + 8000 * c
    BY <1>1, GainGrows
  <2>2. /\ AtTier(a, b) = (g + 8000 * a) \div 8000
        /\ AtTier(c, d) = (h + 8000 * c) \div 8000
    BY <1>1, <1>4, BoostedIs
  <2> QED BY <2>1, <2>2, QuotientGrows
<1> QED BY <1>2, <1>3, <1>4

-----------------------------------------------------------------------------
(* The invariant.  The statements of a key count each phrase and word once,  *)
(* and delete the words used lately before they store them.  While none      *)
(* fails, the tables and what these statements will do to them are the       *)
(* memory.                                                                   *)
Stmts == [op : {"l0", "phrase", "bump", "clear", "row", "en"}, word : Words, at : Nat]
Counting == {"phrase", "bump"}
Waits(op, w) == \E i \in DOMAIN todo : todo[i].op = op /\ todo[i].word = w
Saves(w, at) == \E i \in DOMAIN todo : todo[i] = Stmt("row", w, at)
Clears == \E i \in DOMAIN todo : todo[i].op = "clear"

Entries(f) ==
    /\ f = [w \in DOMAIN f |-> f[w]]
    /\ IsFiniteSet(DOMAIN f) /\ DOMAIN f \subseteq Words /\ \A w \in DOMAIN f : f[w] \in Nat

LearningType ==
    /\ alive \in BOOLEAN /\ store \in BOOLEAN /\ failed \in BOOLEAN /\ lossy \in BOOLEAN
    /\ now \in Nat
    /\ book \in [Phrases -> Nat] /\ picks \in [Phrases -> Nat] /\ english \in [Typed -> Nat]
    /\ Entries(recent)
    /\ db = [phrases |-> db.phrases, recency |-> db.recency, en |-> db.en, l0 |-> db.l0]
    /\ db.phrases \in [Phrases -> Nat] /\ db.l0 \in [Phrases -> Nat] /\ db.en \in [Typed -> Nat]
    /\ Entries(db.recency)
    /\ \A w \in DOMAIN last : last[w] \in Nat
    /\ todo \in Seq(Stmts)
    /\ ~store => todo = <<>>
    /\ ~alive => ~store

OneKey ==
    \A i, j \in DOMAIN todo :
        /\ todo[i].op \in Counting /\ todo[j].op \in Counting => i = j
        /\ todo[i].op = "clear" /\ todo[j].op = "row" => i < j

BookInv ==
    \A p \in Phrases \ Presets :
        /\ book[p] = IF Waits("bump", p) \/ Waits("phrase", p)
                     THEN db.phrases[p] + 1 ELSE db.phrases[p]
        /\ Waits("bump", p) => db.phrases[p] > 0
        /\ Waits("phrase", p) => db.phrases[p] = 0

UserInv == \A t \in Typed : english[t] > 0 <=> db.en[t] > 0 \/ Waits("en", t)

PickInv == (\A p \in Phrases : ~Waits("l0", p)) => db.l0 = picks

RecencyInv ==
    /\ \A i \in DOMAIN todo : todo[i].op = "row" =>
           todo[i].word \in DOMAIN recent /\ recent[todo[i].word] = todo[i].at
    /\ \A w \in DOMAIN recent :
           IF ~Clears /\ w \in DOMAIN db.recency THEN db.recency[w] = recent[w]
           ELSE Saves(w, recent[w])
    /\ ~Clears => \A w \in DOMAIN db.recency \ DOMAIN recent : now - db.recency[w] > Window

StoredInv == alive /\ store /\ ~failed => BookInv /\ UserInv /\ PickInv /\ RecencyInv

(* What was committed within the window is known, or will be after a start.  *)
Knows(f) == \A w \in DOMAIN last : now - last[w] <= Window => w \in DOMAIN f /\ f[w] = last[w]

KnownInv ==
    ~lossy => /\ alive => store /\ ~failed /\ Knows(recent)
              /\ ~alive => Knows(db.recency)

LearningInv == LearningType /\ OneKey /\ StoredInv /\ KnownInv

LEMMA StmtIs ==
    ASSUME NEW op, NEW w, NEW at
    PROVE  /\ Stmt(op, w, at).op = op /\ Stmt(op, w, at).word = w /\ Stmt(op, w, at).at = at
           /\ op \in {"l0", "phrase", "bump", "clear", "row", "en"} /\ w \in Words /\ at \in Nat
                 => Stmt(op, w, at) \in Stmts
BY DEF Stmt, Stmts

(* Nothing waits when there is nothing to do.                                *)
LEMMA NothingWaits ==
    ASSUME todo = <<>>
    PROVE  /\ \A op, w : ~Waits(op, w) /\ ~Saves(w, op)
           /\ ~Clears /\ DOMAIN todo = {} /\ OneKey
<1>1. DOMAIN todo = {}
  OBVIOUS
<1> QED BY <1>1 DEF Waits, Saves, Clears, OneKey

LEMMA NothingWaitsThen ==
    ASSUME todo' = <<>>
    PROVE  /\ \A op, w : ~Waits(op, w)' /\ ~Saves(w, op)'
           /\ ~Clears' /\ DOMAIN todo' = {} /\ OneKey'
<1>1. DOMAIN todo' = {}
  OBVIOUS
<1> QED BY <1>1 DEF Waits, Saves, Clears, OneKey

-----------------------------------------------------------------------------
(* One statement runs.                                                       *)
LEMMA RunsFirst ==
    ASSUME todo \in Seq(Stmts), todo # <<>>, todo' = Tail(todo)
    PROVE  /\ Head(todo) \in Stmts /\ todo' \in Seq(Stmts)
           /\ 1 \in DOMAIN todo /\ todo[1] = Head(todo)
           /\ \A i \in DOMAIN todo' : i \in Nat /\ i + 1 \in DOMAIN todo /\ todo'[i] = todo[i + 1]
           /\ \A i \in DOMAIN todo : i \in Nat /\ (i = 1 \/ (i - 1 \in DOMAIN todo'
                                                             /\ todo'[i - 1] = todo[i]))
<1>1. /\ Head(todo) \in Stmts /\ todo' \in Seq(Stmts) /\ Len(todo') = Len(todo) - 1
      /\ \A i \in 1..Len(todo') : todo'[i] = todo[i + 1]
  BY HeadTailProperties
<1>2. /\ DOMAIN todo = 1..Len(todo) /\ DOMAIN todo' = 1..Len(todo')
      /\ Len(todo) \in Nat /\ Len(todo') \in Nat
  BY <1>1, LenProperties
<1>3. Head(todo) = todo[1]
  OBVIOUS
<1>4. PICK n \in Nat : n = Len(todo')
  BY <1>2
<1>a. Len(todo) = n + 1
  <2>1. PICK k \in Nat : k = Len(todo)
    BY <1>2
  <2> QED BY <1>1, <1>4, <2>1
<1>5. DOMAIN todo = 1..(n + 1) /\ DOMAIN todo' = 1..n
  BY <1>2, <1>4, <1>a, Zenon
<1>6. \A i \in 1..n : todo'[i] = todo[i + 1]
  BY <1>1, <1>4, Zenon
<1>7. ASSUME NEW i \in 1..n PROVE i \in Nat /\ i + 1 \in 1..(n + 1)
  OBVIOUS
<1>8. ASSUME NEW i \in 1..(n + 1)
      PROVE  i \in Nat /\ (i = 1 \/ (i - 1 \in 1..n /\ todo'[i - 1] = todo[i]))
  <2>1. ASSUME i # 1 PROVE i - 1 \in 1..n /\ todo'[i - 1] = todo[i]
    <3>1. i - 1 \in 1..n /\ (i - 1) + 1 = i
      BY <2>1
    <3>2. todo'[i - 1] = todo[(i - 1) + 1]
      BY <1>6, <3>1, Zenon
    <3>3. todo'[i - 1] = todo[i]
      BY <3>1, <3>2, Zenon
    <3> QED BY <3>1, <3>3, Zenon
  <2>2. i \in Nat
    OBVIOUS
  <2> QED BY <2>1, <2>2, Zenon
<1>9. 1 \in 1..(n + 1)
  OBVIOUS
<1> QED BY <1>1, <1>3, <1>5, <1>6, <1>7, <1>8, <1>9, Zenon

LEMMA RunsKey ==
    ASSUME todo \in Seq(Stmts), todo # <<>>, todo' = Tail(todo)
    PROVE  /\ \A op, w : Waits(op, w) <=> (Head(todo).op = op /\ Head(todo).word = w)
                                          \/ Waits(op, w)'
           /\ \A w, at : Saves(w, at) <=> Head(todo) = Stmt("row", w, at) \/ Saves(w, at)'
           /\ Clears <=> Head(todo).op = "clear" \/ Clears'
           /\ OneKey => OneKey'
           /\ OneKey /\ Head(todo).op \in Counting =>
                 \A op \in Counting : \A w : ~Waits(op, w)'
           /\ OneKey /\ Head(todo).op = "row" => ~Clears'
<1> DEFINE h == Head(todo)
<1>1. /\ h \in Stmts /\ 1 \in DOMAIN todo /\ todo[1] = h
      /\ \A i \in DOMAIN todo' : i \in Nat /\ i + 1 \in DOMAIN todo /\ todo'[i] = todo[i + 1]
      /\ \A i \in DOMAIN todo : i \in Nat /\ (i = 1 \/ (i - 1 \in DOMAIN todo'
                                                        /\ todo'[i - 1] = todo[i]))
  BY RunsFirst
<1> HIDE DEF h
<1>2. ASSUME NEW i \in DOMAIN todo PROVE todo[i] = h \/ \E j \in DOMAIN todo' : todo'[j] = todo[i]
  BY <1>1
<1>b. ASSUME NEW j \in DOMAIN todo' PROVE \E i \in DOMAIN todo : todo[i] = todo'[j]
  BY <1>1
<1>3. ASSUME NEW op, NEW w
      PROVE  Waits(op, w) <=> (h.op = op /\ h.word = w) \/ Waits(op, w)'
  <2>1. ASSUME Waits(op, w) PROVE (h.op = op /\ h.word = w) \/ Waits(op, w)'
    <3>1. PICK i \in DOMAIN todo : todo[i].op = op /\ todo[i].word = w
      BY <2>1 DEF Waits
    <3> QED BY <1>2, <3>1, Zenon DEF Waits
  <2>2. ASSUME Waits(op, w)' PROVE Waits(op, w)
    <3>1. PICK j \in DOMAIN todo' : todo'[j].op = op /\ todo'[j].word = w
      BY <2>2 DEF Waits
    <3> QED BY <1>b, <3>1, Zenon DEF Waits
  <2>3. ASSUME h.op = op /\ h.word = w PROVE Waits(op, w)
    BY <1>1, <2>3, Zenon DEF Waits
  <2> QED BY <2>1, <2>2, <2>3
<1>4. ASSUME NEW w, NEW at
      PROVE  Saves(w, at) <=> h = Stmt("row", w, at) \/ Saves(w, at)'
  <2>1. ASSUME Saves(w, at) PROVE h = Stmt("row", w, at) \/ Saves(w, at)'
    <3>1. PICK i \in DOMAIN todo : todo[i] = Stmt("row", w, at)
      BY <2>1 DEF Saves
    <3> QED BY <1>2, <3>1, Zenon DEF Saves
  <2>2. ASSUME Saves(w, at)' PROVE Saves(w, at)
    <3>1. PICK j \in DOMAIN todo' : todo'[j] = Stmt("row", w, at)
      BY <2>2 DEF Saves
    <3> QED BY <1>b, <3>1, Zenon DEF Saves
  <2>3. ASSUME h = Stmt("row", w, at) PROVE Saves(w, at)
    BY <1>1, <2>3, Zenon DEF Saves
  <2> QED BY <2>1, <2>2, <2>3
<1>5. Clears <=> h.op = "clear" \/ Clears'
  <2>1. ASSUME Clears PROVE h.op = "clear" \/ Clears'
    <3>1. PICK i \in DOMAIN todo : todo[i].op = "clear"
      BY <2>1 DEF Clears
    <3> QED BY <1>2, <3>1, Zenon DEF Clears
  <2>2. ASSUME Clears' PROVE Clears
    <3>1. PICK j \in DOMAIN todo' : todo'[j].op = "clear"
      BY <2>2 DEF Clears
    <3> QED BY <1>b, <3>1, Zenon DEF Clears
  <2>3. ASSUME h.op = "clear" PROVE Clears
    BY <1>1, <2>3, Zenon DEF Clears
  <2> QED BY <2>1, <2>2, <2>3
<1>6. ASSUME OneKey PROVE OneKey'
  <2> SUFFICES ASSUME NEW i \in DOMAIN todo', NEW j \in DOMAIN todo'
               PROVE  /\ todo'[i].op \in Counting /\ todo'[j].op \in Counting => i = j
                      /\ todo'[i].op = "clear" /\ todo'[j].op = "row" => i < j
    BY DEF OneKey
  <2>1. /\ i \in Nat /\ i + 1 \in DOMAIN todo /\ todo'[i] = todo[i + 1]
        /\ j \in Nat /\ j + 1 \in DOMAIN todo /\ todo'[j] = todo[j + 1]
    BY <1>1
  <2>2. /\ todo'[i].op \in Counting /\ todo'[j].op \in Counting => i + 1 = j + 1
        /\ todo'[i].op = "clear" /\ todo'[j].op = "row" => i + 1 < j + 1
    BY <1>6, <2>1, Zenon DEF OneKey
  <2> QED BY <2>1, <2>2
<1>7. ASSUME OneKey, h.op \in Counting, NEW op \in Counting, NEW w, Waits(op, w)' PROVE FALSE
  <2>1. PICK i \in DOMAIN todo' : todo'[i].op = op
    BY <1>7 DEF Waits
  <2>2. i \in Nat /\ i + 1 \in DOMAIN todo /\ todo[i + 1].op \in Counting
    BY <1>1, <2>1
  <2>3. 1 = i + 1
    BY <1>1, <1>7, <2>2, Zenon DEF OneKey
  <2>4. i \in 1..Len(todo')
    BY RunsFirst, LenProperties
  <2> QED BY <2>3, <2>4
<1>8. ASSUME OneKey, h.op = "row", Clears' PROVE FALSE
  <2>1. PICK i \in DOMAIN todo' : todo'[i].op = "clear"
    BY <1>8 DEF Clears
  <2>2. i \in Nat /\ i + 1 \in DOMAIN todo /\ todo[i + 1].op = "clear"
    BY <1>1, <2>1
  <2>3. i + 1 < 1
    BY <1>1, <1>8, <2>2, Zenon DEF OneKey
  <2> QED BY <2>2, <2>3
<1> QED BY <1>3, <1>4, <1>5, <1>6, <1>7, <1>8 DEF h

-----------------------------------------------------------------------------
(* What a key leaves to be done.                                             *)
LEMMA Joined ==
    ASSUME NEW f \in Seq(Stmts), NEW g \in Seq(Stmts)
    PROVE  /\ f \o g \in Seq(Stmts)
           /\ DOMAIN f = 1..Len(f) /\ DOMAIN g = 1..Len(g) /\ DOMAIN (f \o g) = 1..(Len(f) + Len(g))
           /\ Len(f) \in Nat /\ Len(g) \in Nat
           /\ \A i \in DOMAIN f : i \in DOMAIN (f \o g) /\ (f \o g)[i] = f[i]
           /\ \A i \in DOMAIN g : Len(f) + i \in DOMAIN (f \o g) /\ (f \o g)[Len(f) + i] = g[i]
           /\ \A i \in DOMAIN (f \o g) :
                 \/ i \in DOMAIN f /\ (f \o g)[i] = f[i]
                 \/ i > Len(f) /\ \E j \in DOMAIN g : (f \o g)[i] = g[j]
<1>1. /\ f \o g \in Seq(Stmts) /\ Len(f \o g) = Len(f) + Len(g)
      /\ \A i \in 1..Len(f) + Len(g) :
            (f \o g)[i] = IF i <= Len(f) THEN f[i] ELSE g[i - Len(f)]
  BY ConcatProperties
<1>2. /\ DOMAIN f = 1..Len(f) /\ DOMAIN g = 1..Len(g) /\ Len(f) \in Nat /\ Len(g) \in Nat
      /\ DOMAIN (f \o g) = 1..Len(f \o g)
  BY <1>1, LenProperties
<1>3. PICK m \in Nat, n \in Nat : m = Len(f) /\ n = Len(g)
  BY <1>2
<1>4. /\ DOMAIN f = 1..m /\ DOMAIN g = 1..n /\ DOMAIN (f \o g) = 1..(m + n)
  BY <1>1, <1>2, <1>3, Zenon
<1>5. \A i \in 1..(m + n) : (f \o g)[i] = IF i <= m THEN f[i] ELSE g[i - m]
  BY <1>1, <1>3, Zenon
<1>6. ASSUME NEW i \in 1..m PROVE i \in 1..(m + n) /\ (f \o g)[i] = f[i]
  <2>1. i \in 1..(m + n) /\ i <= m
    OBVIOUS
  <2> QED BY <1>5, <2>1
<1>7. ASSUME NEW i \in 1..n PROVE m + i \in 1..(m + n) /\ (f \o g)[m + i] = g[i]
  <2>1. m + i \in 1..(m + n) /\ ~(m + i <= m) /\ (m + i) - m = i
    OBVIOUS
  <2>2. (f \o g)[m + i] = g[(m + i) - m]
    BY <1>5, <2>1, Zenon
  <2>3. (f \o g)[m + i] = g[i]
    BY <2>1, <2>2, Zenon
  <2> QED BY <2>1, <2>3
<1>8. ASSUME NEW i \in 1..(m + n)
      PROVE  \/ i \in 1..m /\ (f \o g)[i] = f[i]
             \/ i > m /\ \E j \in 1..n : (f \o g)[i] = g[j]
  <2>1. CASE i <= m
    <3>1. i \in 1..m
      BY <2>1
    <3> QED BY <1>6, <3>1
  <2>2. CASE i > m
    <3>1. i - m \in 1..n /\ ~(i <= m)
      BY <2>2
    <3>2. (f \o g)[i] = g[i - m]
      BY <1>5, <3>1
    <3> QED BY <2>2, <3>1, <3>2
  <2>3. i <= m \/ i > m
    OBVIOUS
  <2> QED BY <2>1, <2>2, <2>3, Zenon
<1> QED BY <1>1, <1>3, <1>4, <1>6, <1>7, <1>8, Zenon

(* The members of the first, second, third and fourth part, in that order.   *)
Parts(plan, before, clear, rows, after) ==
    /\ plan \in Seq(Stmts)
    /\ \A i \in DOMAIN before : i \in DOMAIN plan /\ plan[i] = before[i]
    /\ \E i \in DOMAIN plan : plan[i] = clear
    /\ \A j \in DOMAIN rows : \E i \in DOMAIN plan : plan[i] = rows[j]
    /\ \A j \in DOMAIN after : \E i \in DOMAIN plan : plan[i] = after[j]
    /\ Len(before) \in Nat
    /\ \A i \in DOMAIN plan :
          /\ i \in Nat
          /\ \/ i \in DOMAIN before /\ i <= Len(before) /\ plan[i] = before[i]
             \/ i = Len(before) + 1 /\ plan[i] = clear
             \/ i > Len(before) + 1 /\ \E j \in DOMAIN rows : plan[i] = rows[j]
             \/ \E j \in DOMAIN after : plan[i] = after[j]

LEMMA PartsOf ==
    ASSUME NEW before \in Seq(Stmts), NEW clear \in Stmts, NEW rows \in Seq(Stmts),
           NEW after \in Seq(Stmts), NEW plan, plan = before \o <<clear>> \o rows \o after
    PROVE  Parts(plan, before, clear, rows, after)
<1> DEFINE a == before \o <<clear>>
           b == a \o rows
<1>1. /\ <<clear>> \in Seq(Stmts) /\ DOMAIN <<clear>> = {1}
      /\ <<clear>>[1] = clear /\ Len(<<clear>>) = 1
  OBVIOUS
<1>2. /\ a \in Seq(Stmts) /\ DOMAIN before = 1..Len(before) /\ Len(before) \in Nat
      /\ DOMAIN a = 1..(Len(before) + 1)
      /\ \A i \in DOMAIN before : i \in DOMAIN a /\ a[i] = before[i]
      /\ Len(before) + 1 \in DOMAIN a /\ a[Len(before) + 1] = clear
      /\ \A i \in DOMAIN a :
            \/ i \in DOMAIN before /\ a[i] = before[i]
            \/ i > Len(before) /\ a[i] = clear
  BY <1>1, Joined
<1> HIDE DEF a
<1>3. /\ b \in Seq(Stmts) /\ DOMAIN a = 1..Len(a) /\ Len(a) \in Nat
      /\ \A i \in DOMAIN a : i \in DOMAIN b /\ b[i] = a[i]
      /\ \A i \in DOMAIN rows : Len(a) + i \in DOMAIN b /\ b[Len(a) + i] = rows[i]
      /\ \A i \in DOMAIN b :
            \/ i \in DOMAIN a /\ b[i] = a[i]
            \/ i > Len(a) /\ \E j \in DOMAIN rows : b[i] = rows[j]
  BY <1>2, Joined
<1>4. plan = b \o after
  BY DEF a
<1> HIDE DEF b
<1>5. /\ plan \in Seq(Stmts) /\ DOMAIN plan = 1..(Len(b) + Len(after))
      /\ Len(b) \in Nat /\ Len(after) \in Nat
      /\ \A i \in DOMAIN b : i \in DOMAIN plan /\ plan[i] = b[i]
      /\ \A i \in DOMAIN after : Len(b) + i \in DOMAIN plan /\ plan[Len(b) + i] = after[i]
      /\ \A i \in DOMAIN plan :
            \/ i \in DOMAIN b /\ plan[i] = b[i]
            \/ \E j \in DOMAIN after : plan[i] = after[j]
  <2>1. /\ b \o after \in Seq(Stmts) /\ DOMAIN (b \o after) = 1..(Len(b) + Len(after))
        /\ Len(b) \in Nat /\ Len(after) \in Nat
    BY <1>3, Joined, Zenon
  <2>2. \A i \in DOMAIN b : i \in DOMAIN (b \o after) /\ (b \o after)[i] = b[i]
    BY <1>3, Joined, Zenon
  <2>3. \A i \in DOMAIN after :
            Len(b) + i \in DOMAIN (b \o after) /\ (b \o after)[Len(b) + i] = after[i]
    BY <1>3, Joined, Zenon
  <2>4. \A i \in DOMAIN (b \o after) :
            \/ i \in DOMAIN b /\ (b \o after)[i] = b[i]
            \/ \E j \in DOMAIN after : (b \o after)[i] = after[j]
    BY <1>3, Joined, ZenonT(60)
  <2> QED BY <1>4, <2>1, <2>2, <2>3, <2>4, Zenon
<1>6. Len(a) = Len(before) + 1
  <2>1. PICK n \in Nat : n = Len(a)
    BY <1>3
  <2>2. PICK k \in Nat : k = Len(before)
    BY <1>2
  <2>3. 1..n = 1..(k + 1)
    BY <1>2, <1>3, <2>1, <2>2, Zenon
  <2> QED BY <2>1, <2>2, <2>3
<1>7. \A i \in DOMAIN plan : i \in Nat
  BY <1>5
<1>8. PICK k \in Nat : k = Len(before)
  BY <1>2
<1>9. ASSUME NEW i \in DOMAIN plan
      PROVE  \/ i \in DOMAIN before /\ i <= k /\ plan[i] = before[i]
             \/ i = k + 1 /\ plan[i] = clear
             \/ i > k + 1 /\ \E j \in DOMAIN rows : plan[i] = rows[j]
             \/ \E j \in DOMAIN after : plan[i] = after[j]
  <2>1. CASE i \in DOMAIN b /\ plan[i] = b[i]
    <3>1. CASE i \in DOMAIN a /\ b[i] = a[i]
      <4>1. i \in 1..(k + 1) /\ DOMAIN before = 1..k
        BY <1>2, <1>8, <3>1, Zenon
      <4>2. \/ i \in DOMAIN before /\ a[i] = before[i]
            \/ i > k /\ a[i] = clear
        BY <1>2, <1>8, <3>1, Zenon
      <4> QED BY <2>1, <3>1, <4>1, <4>2
    <3>2. CASE i > Len(a) /\ \E j \in DOMAIN rows : b[i] = rows[j]
      BY <1>6, <1>8, <2>1, <3>2, Zenon
    <3> QED BY <1>3, <2>1, <3>1, <3>2
  <2> QED BY <1>5, <2>1
<1>10. \A i \in DOMAIN before : i \in DOMAIN plan /\ plan[i] = before[i]
  <2> SUFFICES ASSUME NEW i \in DOMAIN before PROVE i \in DOMAIN plan /\ plan[i] = before[i]
    OBVIOUS
  <2>1. i \in DOMAIN a /\ a[i] = before[i]
    BY <1>2
  <2>2. i \in DOMAIN b /\ b[i] = a[i]
    BY <1>3, <2>1
  <2> QED BY <1>5, <2>1, <2>2
<1>11. \E i \in DOMAIN plan : plan[i] = clear
  BY <1>2, <1>3, <1>5, ZenonT(60)
<1>12. \A j \in DOMAIN rows : \E i \in DOMAIN plan : plan[i] = rows[j]
  <2> SUFFICES ASSUME NEW j \in DOMAIN rows PROVE \E i \in DOMAIN plan : plan[i] = rows[j]
    OBVIOUS
  <2>1. Len(a) + j \in DOMAIN b /\ b[Len(a) + j] = rows[j]
    BY <1>3
  <2>2. Len(a) + j \in DOMAIN plan /\ plan[Len(a) + j] = b[Len(a) + j]
    BY <1>5, <2>1, Zenon
  <2> QED BY <2>1, <2>2, Zenon
<1>13. \A j \in DOMAIN after : \E i \in DOMAIN plan : plan[i] = after[j]
  BY <1>5, Zenon
<1> QED BY <1>5, <1>7, <1>8, <1>9, <1>10, <1>11, <1>12, <1>13, Zenon DEF Parts

(* The words used lately after a use of w.                                   *)
LEMMA Truncates ==
    ASSUME LearningType, NEW w \in Words, recent' \in Truncated(With(recent, w, now))
    PROVE  /\ Entries(recent')
           /\ DOMAIN recent' \subseteq DOMAIN recent \cup {w}
           /\ \A v \in DOMAIN recent' : recent'[v] = IF v = w THEN now ELSE recent[v]
           /\ Cardinality(DOMAIN recent) <= MaxEntries /\ w \in DOMAIN recent =>
                 DOMAIN recent' = DOMAIN recent
<1> DEFINE e == With(recent, w, now)
<1>1. /\ DOMAIN e = DOMAIN recent \cup {w}
      /\ \A v \in DOMAIN e : e[v] = IF v = w THEN now ELSE recent[v]
      /\ e = [v \in DOMAIN e |-> e[v]]
  BY DEF With
<1>2. IsFiniteSet(DOMAIN e) /\ DOMAIN e \subseteq Words /\ \A v \in DOMAIN e : e[v] \in Nat
  <2>1. /\ IsFiniteSet(DOMAIN recent) /\ DOMAIN recent \subseteq Words /\ now \in Nat
        /\ \A v \in DOMAIN recent : recent[v] \in Nat
    BY DEF LearningType, Entries
  <2>2. IsFiniteSet(DOMAIN recent \cup {w})
    BY <2>1, FS_AddElement
  <2> HIDE DEF e
  <2> QED BY <1>1, <2>1, <2>2
<1>3. recent' \in Truncated(e)
  OBVIOUS
<1> HIDE DEF e
<1>4. CASE recent' = e
  BY <1>1, <1>2, <1>4 DEF Entries
<1>5. CASE Cardinality(DOMAIN e) > MaxEntries
  <2>0. PICK k \in SUBSET DOMAIN e : recent' = [v \in k |-> e[v]]
    <3>1. ~(Cardinality(DOMAIN e) <= MaxEntries)
      BY <1>2, <1>5, FS_CardinalityType, LearningAssumption
    <3> QED BY <1>3, <3>1, Zenon DEF Truncated
  <2>1. IsFiniteSet(k)
    BY <1>2, FS_Subset
  <2>2. Entries(recent')
    BY <1>2, <2>0, <2>1 DEF Entries
  <2>3. ~(Cardinality(DOMAIN recent) <= MaxEntries /\ w \in DOMAIN recent)
    <3>1. w \in DOMAIN recent => DOMAIN e = DOMAIN recent
      BY <1>1
    <3> QED BY <1>2, <1>5, <3>1, FS_CardinalityType, LearningAssumption
  <2> QED BY <1>1, <2>0, <2>2, <2>3
<1>6. recent' = e \/ Cardinality(DOMAIN e) > MaxEntries
  <2>1. CASE Cardinality(DOMAIN e) <= MaxEntries
    BY <1>3, <2>1 DEF Truncated
  <2> QED BY <1>2, <2>1, FS_CardinalityType, LearningAssumption
<1> QED BY <1>4, <1>5, <1>6

(* The rows are all the words, each once.                                    *)
LEMMA RowsAreAll ==
    ASSUME NEW f, Entries(f), NEW r \in SetToSeqs(DOMAIN f)
    PROVE  /\ [i \in DOMAIN r |-> Stmt("row", r[i], f[r[i]])] \in Seq(Stmts)
           /\ \A i \in DOMAIN r : r[i] \in DOMAIN f
           /\ \A w \in DOMAIN f : \E i \in DOMAIN r : r[i] = w
<1> DEFINE D == DOMAIN f
           n == Cardinality(D)
<1>1. IsFiniteSet(D) /\ n \in Nat /\ D \subseteq Words /\ \A w \in D : f[w] \in Nat
  BY FS_CardinalityType DEF Entries
<1>2. r \in [1..n -> D] /\ \A i, j \in 1..n : i # j => r[i] # r[j]
  BY Zenon DEF SetToSeqs
<1> HIDE DEF D
<1>3. \A i \in 1..n : Stmt("row", r[i], f[r[i]]) \in Stmts
  <2> SUFFICES ASSUME NEW i \in 1..n PROVE Stmt("row", r[i], f[r[i]]) \in Stmts
    OBVIOUS
  <2>1. r[i] \in Words /\ f[r[i]] \in Nat
    BY <1>1, <1>2
  <2> QED BY <2>1, StmtIs
<1>4. [i \in 1..n |-> Stmt("row", r[i], f[r[i]])] \in [1..n -> Stmts]
  BY <1>3
<1>5. IsFiniteSet(1..n) /\ Cardinality(1..n) = n
  <2>1. PICK k \in Nat : k = n
    BY <1>1
  <2>2. IsFiniteSet(1..k) /\ Cardinality(1..k) = k
    BY FS_Interval
  <2> QED BY <2>1, <2>2, Zenon
<1>6. r \in Surjection(1..n, D)
  <2>1. r \in Injection(1..n, D)
    BY <1>2 DEF Injection, IsInjective
  <2> QED BY <1>1, <1>5, <2>1, FS_Injection DEF n
<1>7. \A w \in D : \E i \in 1..n : r[i] = w
  BY <1>6 DEF Surjection
<1>8. [i \in 1..n |-> Stmt("row", r[i], f[r[i]])] \in Seq(Stmts)
  <2>1. PICK k \in Nat : k = n
    BY <1>1
  <2>2. PICK g \in [1..k -> Stmts] : g = [i \in 1..n |-> Stmt("row", r[i], f[r[i]])]
    BY <1>4, <2>1, Zenon
  <2>3. g \in Seq(Stmts)
    OBVIOUS
  <2> QED BY <2>2, <2>3, Zenon
<1>9. DOMAIN r = 1..n
  BY <1>2
<1> QED BY <1>2, <1>7, <1>8, <1>9 DEF D

LEMMA CommitPlans ==
    ASSUME LearningType, NEW w \in Words, NEW before \in Seq(Stmts), NEW after \in Seq(Stmts),
           Commit(w, before, after),
           \A i \in DOMAIN before : before[i].op \in {"l0"} \cup Counting,
           \A i, j \in DOMAIN before :
               before[i].op \in Counting /\ before[j].op \in Counting => i = j,
           \A i \in DOMAIN after : after[i].op = "en"
    PROVE  /\ todo' \in Seq(Stmts) /\ OneKey' /\ (~store => todo' = <<>>)
           /\ store =>
                /\ \A op \in {"l0"} \cup Counting : \A v :
                      Waits(op, v)' <=> \E i \in DOMAIN before :
                                            before[i].op = op /\ before[i].word = v
                /\ \A v : Waits("en", v)' <=> \E i \in DOMAIN after : after[i].word = v
                /\ RecencyInv'
<1>1. Entries(recent')
  BY Truncates DEF Commit
<1>2. PICK r \in SetToSeqs(DOMAIN recent') :
          todo' = IF ~store THEN <<>>
                  ELSE before \o <<Stmt("clear", w, 0)>>
                        \o [i \in DOMAIN r |-> Stmt("row", r[i], recent'[r[i]])] \o after
  BY Zenon DEF Commit
<1>3. CASE ~store
  <2>1. todo' = <<>>
    BY <1>2, <1>3
  <2> QED BY <1>3, <2>1, NothingWaitsThen, EmptySeq
<1>4. CASE store
  <2> DEFINE clear == Stmt("clear", w, 0)
             rows == [i \in DOMAIN r |-> Stmt("row", r[i], recent'[r[i]])]
  <2>1. todo' = before \o <<clear>> \o rows \o after
    BY <1>2, <1>4
  <2>2. clear \in Stmts /\ clear.op = "clear"
    BY StmtIs
  <2>3. /\ rows \in Seq(Stmts) /\ DOMAIN rows = DOMAIN r
        /\ \A i \in DOMAIN r : r[i] \in DOMAIN recent' /\ rows[i] = Stmt("row", r[i], recent'[r[i]])
        /\ \A v \in DOMAIN recent' : \E i \in DOMAIN r : r[i] = v
    BY <1>1, RowsAreAll
  <2> HIDE DEF clear, rows
  <2>4. \A i \in DOMAIN rows : /\ rows[i].op = "row" /\ rows[i].word \in DOMAIN recent'
                               /\ recent'[rows[i].word] = rows[i].at
    BY <2>3, StmtIs
  <2>a. Parts(todo', before, clear, rows, after)
    BY <2>1, <2>2, <2>3, PartsOf, Zenon
  <2>5. /\ todo' \in Seq(Stmts)
        /\ \A i \in DOMAIN before : i \in DOMAIN todo' /\ todo'[i] = before[i]
        /\ \E i \in DOMAIN todo' : todo'[i] = clear
        /\ \A j \in DOMAIN rows : \E i \in DOMAIN todo' : todo'[i] = rows[j]
        /\ \A j \in DOMAIN after : \E i \in DOMAIN todo' : todo'[i] = after[j]
        /\ Len(before) \in Nat
        /\ \A i \in DOMAIN todo' :
              /\ i \in Nat
              /\ \/ i \in DOMAIN before /\ i <= Len(before) /\ todo'[i] = before[i]
                 \/ i = Len(before) + 1 /\ todo'[i] = clear
                 \/ i > Len(before) + 1 /\ \E j \in DOMAIN rows : todo'[i] = rows[j]
                 \/ \E j \in DOMAIN after : todo'[i] = after[j]
    BY <2>a, Zenon DEF Parts
  <2>6. ASSUME NEW i \in DOMAIN todo'
        PROVE  /\ todo'[i].op \in {"l0"} \cup Counting =>
                      i \in DOMAIN before /\ todo'[i] = before[i]
               /\ todo'[i].op = "clear" => i = Len(before) + 1
               /\ todo'[i].op = "row" => i > Len(before) + 1
                                         /\ \E j \in DOMAIN rows : todo'[i] = rows[j]
               /\ todo'[i].op = "en" => \E j \in DOMAIN after : todo'[i] = after[j]
    BY <2>2, <2>4, <2>5, ZenonT(60) DEF Counting
  <2>7. OneKey'
    <3> SUFFICES ASSUME NEW i \in DOMAIN todo', NEW j \in DOMAIN todo'
                 PROVE  /\ todo'[i].op \in Counting /\ todo'[j].op \in Counting => i = j
                        /\ todo'[i].op = "clear" /\ todo'[j].op = "row" => i < j
      BY DEF OneKey
    <3>1. ASSUME todo'[i].op \in Counting, todo'[j].op \in Counting PROVE i = j
      BY <2>6, <3>1
    <3>2. ASSUME todo'[i].op = "clear", todo'[j].op = "row" PROVE i < j
      <4>1. i = Len(before) + 1 /\ j > Len(before) + 1
        BY <2>6, <3>2
      <4>2. i \in Nat /\ j \in Nat
        BY <2>5
      <4> QED BY <4>1, <4>2
    <3> QED BY <3>1, <3>2
  <2>8. ASSUME NEW op \in {"l0"} \cup Counting, NEW v
        PROVE  Waits(op, v)' <=> \E i \in DOMAIN before : before[i].op = op /\ before[i].word = v
    BY <2>5, <2>6 DEF Waits
  <2>9. ASSUME NEW v PROVE Waits("en", v)' <=> \E i \in DOMAIN after : after[i].word = v
    <3>1. ASSUME Waits("en", v)' PROVE \E i \in DOMAIN after : after[i].word = v
      <4>1. PICK i \in DOMAIN todo' : todo'[i].op = "en" /\ todo'[i].word = v
        BY <3>1 DEF Waits
      <4>2. PICK j \in DOMAIN after : todo'[i] = after[j]
        BY <2>6, <4>1
      <4> QED BY <4>1, <4>2
    <3>2. ASSUME NEW j \in DOMAIN after, after[j].word = v PROVE Waits("en", v)'
      <4>1. PICK i \in DOMAIN todo' : todo'[i] = after[j]
        BY <2>5
      <4>2. todo'[i].op = "en" /\ todo'[i].word = v
        BY <3>2, <4>1
      <4> QED BY <4>2 DEF Waits
    <3> QED BY <3>1, <3>2
  <2>10. Clears'
    BY <2>2, <2>5 DEF Clears
  <2>11. \A v \in DOMAIN recent' : Saves(v, recent[v])'
    <3> SUFFICES ASSUME NEW v \in DOMAIN recent' PROVE Saves(v, recent[v])'
      OBVIOUS
    <3>1. PICK j \in DOMAIN rows : rows[j] = Stmt("row", v, recent'[v])
      BY <2>3
    <3>2. PICK i \in DOMAIN todo' : todo'[i] = rows[j]
      BY <2>5
    <3> QED BY <3>1, <3>2, Zenon DEF Saves
  <2>12. \A i \in DOMAIN todo' : todo'[i].op = "row" =>
             todo'[i].word \in DOMAIN recent' /\ recent'[todo'[i].word] = todo'[i].at
    BY <2>4, <2>6
  <2>13. RecencyInv'
    BY <2>10, <2>11, <2>12, Zenon DEF RecencyInv
  <2> QED BY <1>4, <2>5, <2>7, <2>8, <2>9, <2>13
<1> QED BY <1>3, <1>4

-----------------------------------------------------------------------------
(* Every step keeps the invariant.                                           *)
LEMMA EmptyEntries == Entries(<<>>) /\ DOMAIN <<>> = {}
<1>1. DOMAIN <<>> = {} /\ <<>> = [w \in {} |-> <<>>[w]]
  OBVIOUS
<1> QED BY <1>1, FS_EmptySet DEF Entries

LEMMA OneWaits ==
    ASSUME NEW s \in Stmts, todo' = <<s>>
    PROVE  /\ todo' \in Seq(Stmts) /\ OneKey' /\ DOMAIN todo' = {1} /\ todo'[1] = s
           /\ \A op, w : Waits(op, w)' <=> s.op = op /\ s.word = w
           /\ s.op # "clear" => ~Clears'
<1>1. todo' \in Seq(Stmts) /\ DOMAIN todo' = {1} /\ todo'[1] = s
  OBVIOUS
<1>2. OneKey'
  BY <1>1 DEF OneKey
<1>3. \A op, w : Waits(op, w)' <=> s.op = op /\ s.word = w
  BY <1>1 DEF Waits
<1> QED BY <1>1, <1>2, <1>3 DEF Clears

(* Between keys, the tables are the memory.                                  *)
LEMMA AtRest ==
    ASSUME LearningInv, todo = <<>>, alive, store, ~failed
    PROVE  /\ \A p \in Phrases \ Presets : book[p] = db.phrases[p]
           /\ \A t \in Typed : english[t] > 0 <=> db.en[t] > 0
           /\ db.l0 = picks
           /\ \A w \in DOMAIN recent : w \in DOMAIN db.recency /\ db.recency[w] = recent[w]
           /\ \A w \in DOMAIN db.recency \ DOMAIN recent : now - db.recency[w] > Window
<1>1. BookInv /\ UserInv /\ PickInv /\ RecencyInv
  BY DEF LearningInv, StoredInv
<1>2. /\ \A op, w : ~Waits(op, w) /\ ~Saves(w, op)
      /\ ~Clears
  BY NothingWaits
<1>3. \A p \in Phrases \ Presets : book[p] = db.phrases[p]
  BY <1>1, <1>2 DEF BookInv
<1>4. \A t \in Typed : english[t] > 0 <=> db.en[t] > 0
  BY <1>1, <1>2 DEF UserInv
<1>5. db.l0 = picks
  BY <1>1, <1>2 DEF PickInv
<1> QED BY <1>1, <1>2, <1>3, <1>4, <1>5 DEF RecencyInv

LEMMA PickCharacterKeeps ==
    ASSUME LearningInv, NEW p \in Phrases, PickCharacter(p)
    PROVE  LearningInv'
<1>1. /\ alive /\ todo = <<>> /\ picks' = Picked(p)
      /\ todo' = IF store THEN <<Stmt("l0", p, picks'[p])>> ELSE <<>>
      /\ lossy' = (lossy \/ ~store)
      /\ UNCHANGED <<alive, store, now, book, recent, english, db, last, failed>>
  BY DEF PickCharacter, Ready
<1>2. picks' \in [Phrases -> Nat]
  BY <1>1 DEF LearningInv, LearningType, Picked
<1>3. LearningType /\ KnownInv
  BY DEF LearningInv
<1>4. CASE ~store
  <2>1. todo' = <<>> /\ todo' \in Seq(Stmts)
    BY <1>1, <1>4, EmptySeq
  <2>2. LearningType'
    BY <1>1, <1>2, <1>3, <2>1 DEF LearningType, Entries
  <2>3. OneKey' /\ StoredInv' /\ KnownInv'
    BY <1>1, <1>4, <2>1, NothingWaitsThen DEF StoredInv, KnownInv
  <2> QED BY <2>2, <2>3 DEF LearningInv
<1>5. CASE store
  <2> DEFINE s == Stmt("l0", p, picks'[p])
  <2>1. s \in Stmts /\ s.op = "l0" /\ s.word = p
    BY <1>2, StmtIs DEF Words
  <2>2. todo' = <<s>>
    BY <1>1, <1>5
  <2> HIDE DEF s
  <2>3. /\ todo' \in Seq(Stmts) /\ OneKey' /\ ~Clears' /\ DOMAIN todo' = {1} /\ todo'[1] = s
        /\ \A op, w : Waits(op, w)' <=> op = "l0" /\ w = p
    BY <2>1, <2>2, OneWaits
  <2>4. LearningType'
    BY <1>1, <1>2, <1>3, <1>5, <2>3 DEF LearningType, Entries
  <2>5. ASSUME ~failed PROVE BookInv' /\ UserInv' /\ PickInv' /\ RecencyInv'
    <3>1. /\ \A q \in Phrases \ Presets : book[q] = db.phrases[q]
          /\ \A t \in Typed : english[t] > 0 <=> db.en[t] > 0
          /\ \A w \in DOMAIN recent : w \in DOMAIN db.recency /\ db.recency[w] = recent[w]
          /\ \A w \in DOMAIN db.recency \ DOMAIN recent : now - db.recency[w] > Window
      BY <1>1, <1>5, <2>5, AtRest
    <3>2. BookInv'
      BY <1>1, <2>3, <3>1 DEF BookInv
    <3>3. UserInv'
      BY <1>1, <2>3, <3>1 DEF UserInv
    <3>4. PickInv'
      BY <2>3 DEF PickInv
    <3>5. RecencyInv'
      BY <1>1, <2>1, <2>3, <3>1 DEF RecencyInv
    <3> QED BY <3>2, <3>3, <3>4, <3>5
  <2>6. StoredInv'
    BY <1>1, <2>5 DEF StoredInv
  <2>7. KnownInv'
    BY <1>1, <1>3 DEF KnownInv, Knows
  <2> QED BY <2>3, <2>4, <2>6, <2>7 DEF LearningInv
<1> QED BY <1>4, <1>5

(* A word that is committed is known, unless the words were cut.             *)
LEMMA CommitKnows ==
    ASSUME LearningInv, alive, NEW w \in Words, NEW before, NEW after, Commit(w, before, after),
           UNCHANGED <<alive, store, now, failed>>
    PROVE  KnownInv' /\ \A v \in DOMAIN last' : last'[v] \in Nat
<1>1. /\ last' = With(last, w, now)
      /\ lossy' = (lossy \/ ~store \/ DOMAIN recent' # DOMAIN recent \cup {w})
  BY DEF Commit
<1>2. LearningType /\ KnownInv
  BY DEF LearningInv
<1>3. \A v \in DOMAIN recent' : recent'[v] = IF v = w THEN now ELSE recent[v]
  BY <1>2, Truncates DEF Commit
<1>4. DOMAIN last' = DOMAIN last \cup {w}
      /\ \A v \in DOMAIN last' : last'[v] = IF v = w THEN now ELSE last[v]
  BY <1>1 DEF With
<1>5. ASSUME ~lossy' PROVE store /\ ~failed /\ Knows(recent)'
  <2>1. ~lossy /\ store /\ ~failed /\ DOMAIN recent' = DOMAIN recent \cup {w} /\ Knows(recent)
    BY <1>1, <1>2, <1>5 DEF KnownInv
  <2>2. ASSUME NEW v \in DOMAIN last', now' - last'[v] <= Window
        PROVE  v \in DOMAIN recent' /\ recent'[v] = last'[v]
    <3>1. CASE v = w
      BY <1>3, <1>4, <2>1, <3>1
    <3>2. CASE v # w
      <4>1. v \in DOMAIN last /\ last'[v] = last[v] /\ now - last[v] <= Window
        BY <1>4, <2>2, <3>2
      <4>2. v \in DOMAIN recent /\ recent[v] = last[v]
        BY <2>1, <4>1 DEF Knows
      <4> QED BY <1>3, <2>1, <3>2, <4>1, <4>2
    <3> QED BY <3>1, <3>2
  <2> QED BY <2>1, <2>2 DEF Knows
<1>6. \A v \in DOMAIN last' : last'[v] \in Nat
  BY <1>2, <1>4 DEF LearningType
<1> QED BY <1>5, <1>6 DEF KnownInv

LEMMA TwoOf == ASSUME NEW x \in Stmts, NEW y \in Stmts PROVE <<x>> \o <<y>> = <<x, y>>
<1>a. <<x>> \in Seq(Stmts) /\ <<y>> \in Seq(Stmts) /\ <<x, y>> \in Seq(Stmts)
  OBVIOUS
<1>1. PICK f \in Seq(Stmts) : f = <<x>>
  BY <1>a, Zenon
<1>2. PICK g \in Seq(Stmts) : g = <<y>>
  BY <1>a, Zenon
<1>3. PICK h \in Seq(Stmts) : h = <<x, y>>
  BY <1>a, Zenon
<1>4. Len(f) = 1 /\ Len(g) = 1 /\ Len(h) = 2 /\ f[1] = x /\ g[1] = y /\ h[1] = x /\ h[2] = y
  BY <1>1, <1>2, <1>3
<1>5. f \o g \in Seq(Stmts) /\ Len(f \o g) = 2 /\ (f \o g)[1] = x /\ (f \o g)[2] = y
  <2>1. /\ f \o g \in Seq(Stmts) /\ Len(f \o g) = Len(f) + Len(g)
        /\ \A i \in 1..Len(f) + Len(g) :
              (f \o g)[i] = IF i <= Len(f) THEN f[i] ELSE g[i - Len(f)]
    BY ConcatProperties
  <2> QED BY <1>4, <2>1
<1>6. f \o g = h
  BY <1>4, <1>5, SeqEqual
<1> QED BY <1>1, <1>2, <1>3, <1>6, Zenon

LEMMA CommitCandidateKeeps ==
    ASSUME LearningInv, NEW p \in Phrases, NEW composed \in BOOLEAN, CommitCandidate(p, composed)
    PROVE  LearningInv'
<1> DEFINE first == Stmt("l0", p, picks'[p])
           counts == IF composed THEN <<BookStmt(p)>> ELSE <<>>
           before == <<first>> \o counts
<1>1. /\ alive /\ todo = <<>> /\ picks' = Picked(p)
      /\ book' = IF composed THEN Learned(p) ELSE book
      /\ Commit(p, before, <<>>)
      /\ UNCHANGED <<alive, store, now, english, db, failed>>
  BY DEF CommitCandidate, Ready
<1>2. LearningType /\ p \in Words
  BY DEF LearningInv, Words
<1>3. picks' \in [Phrases -> Nat] /\ book' \in [Phrases -> Nat]
  BY <1>1, <1>2 DEF LearningType, Picked, Learned
<1>4. /\ first \in Stmts /\ first.op = "l0" /\ first.word = p
      /\ BookStmt(p) \in Stmts /\ BookStmt(p).word = p
      /\ BookStmt(p).op = IF book[p] > 0 THEN "bump" ELSE "phrase"
  <2>1. picks'[p] \in Nat /\ 0 \in Nat
    BY <1>3
  <2> QED BY <1>2, <2>1, StmtIs DEF BookStmt
<1> HIDE DEF first
<1>5. /\ before \in Seq(Stmts)
      /\ DOMAIN before = (IF composed THEN {1, 2} ELSE {1})
      /\ before[1] = first /\ (composed => before[2] = BookStmt(p))
  <2>1. CASE composed
    <3>1. before = <<first, BookStmt(p)>>
      <4>1. PICK s \in Stmts : s = BookStmt(p)
        BY <1>4
      <4>2. before = <<first>> \o <<s>>
        BY <2>1, <4>1
      <4>3. <<first>> \o <<s>> = <<first, s>>
        BY <1>4, TwoOf, Zenon
      <4> QED BY <4>1, <4>2, <4>3, Zenon
    <3> HIDE DEF before
    <3>2. /\ before \in Seq(Stmts) /\ DOMAIN before = {1, 2}
          /\ before[1] = first /\ before[2] = BookStmt(p)
      BY <1>4, <3>1
    <3> QED BY <2>1, <3>2
  <2>2. CASE ~composed
    <3>1. before = <<first>>
      BY <2>2, <1>4
    <3> HIDE DEF before
    <3>2. before \in Seq(Stmts) /\ DOMAIN before = {1} /\ before[1] = first
      BY <1>4, <3>1
    <3> QED BY <2>2, <3>2
  <2> QED BY <2>1, <2>2
<1> HIDE DEF before
<1>6. /\ \A i \in DOMAIN before : before[i].op \in {"l0"} \cup Counting
      /\ \A i, j \in DOMAIN before :
            before[i].op \in Counting /\ before[j].op \in Counting => i = j
  BY <1>4, <1>5 DEF Counting
<1>7. <<>> \in Seq(Stmts) /\ \A i \in DOMAIN <<>> : <<>>[i].op = "en"
  BY EmptySeq, EmptyEntries
<1>8. /\ todo' \in Seq(Stmts) /\ OneKey' /\ (~store => todo' = <<>>)
      /\ store =>
           /\ \A op \in {"l0"} \cup Counting : \A v :
                 Waits(op, v)' <=> \E i \in DOMAIN before :
                                       before[i].op = op /\ before[i].word = v
           /\ \A v : Waits("en", v)' <=> \E i \in DOMAIN <<>> : <<>>[i].word = v
           /\ RecencyInv'
  BY <1>1, <1>2, <1>5, <1>6, <1>7, CommitPlans, Zenon
<1>9. Entries(recent)'
  BY <1>1, <1>2, Truncates DEF Commit
<1>10. KnownInv' /\ \A v \in DOMAIN last' : last'[v] \in Nat
  BY <1>1, <1>2, CommitKnows
<1>11. LearningType'
  <2>1. Entries(db.recency)'
    BY <1>1, <1>2 DEF LearningType, Entries
  <2>2. todo' \in Seq(Stmts) /\ (~store' => todo' = <<>>) /\ (~alive' => ~store')
    BY <1>1, <1>2, <1>8 DEF LearningType
  <2>3. lossy' \in BOOLEAN
    BY <1>1 DEF Commit
  <2> QED BY <1>1, <1>2, <1>3, <1>9, <1>10, <2>1, <2>2, <2>3 DEF LearningType
<1>12. ASSUME store, ~failed PROVE BookInv' /\ UserInv' /\ PickInv'
  <2>1. /\ \A q \in Phrases \ Presets : book[q] = db.phrases[q]
        /\ \A t \in Typed : english[t] > 0 <=> db.en[t] > 0
    BY <1>1, <1>12, AtRest
  <2>2. \A op \in Counting : \A v : Waits(op, v)' <=> composed /\ op = BookStmt(p).op /\ v = p
    <3> SUFFICES ASSUME NEW op \in Counting, NEW v
                 PROVE  Waits(op, v)' <=> composed /\ op = BookStmt(p).op /\ v = p
      OBVIOUS
    <3>1. Waits(op, v)' <=> \E i \in DOMAIN before : before[i].op = op /\ before[i].word = v
      BY <1>8, <1>12, ZenonT(60)
    <3> QED BY <1>4, <1>5, <3>1 DEF Counting
  <2>3. BookInv'
    <3> SUFFICES ASSUME NEW q \in Phrases \ Presets
                 PROVE  /\ book'[q] = IF Waits("bump", q)' \/ Waits("phrase", q)'
                                      THEN db'.phrases[q] + 1 ELSE db'.phrases[q]
                        /\ Waits("bump", q)' => db'.phrases[q] > 0
                        /\ Waits("phrase", q)' => db'.phrases[q] = 0
      BY DEF BookInv
    <3>1. book[q] = db.phrases[q] /\ db' = db /\ book[q] \in Nat
      BY <1>1, <1>2, <2>1 DEF LearningType
    <3>2. /\ Waits("bump", q)' <=> composed /\ q = p /\ book[p] > 0
          /\ Waits("phrase", q)' <=> composed /\ q = p /\ ~(book[p] > 0)
      BY <1>4, <2>2 DEF Counting
    <3>3. book'[q] = IF composed /\ q = p THEN book[q] + 1 ELSE book[q]
      BY <1>1, <1>2 DEF LearningType, Learned
    <3> QED BY <3>1, <3>2, <3>3
  <2>4. UserInv'
    <3>1. \A v : ~Waits("en", v)'
      BY <1>8, <1>12, EmptyEntries
    <3> QED BY <1>1, <2>1, <3>1 DEF UserInv
  <2>5. Waits("l0", p)'
    BY <1>4, <1>5, <1>8, <1>12
  <2>6. PickInv'
    BY <2>5 DEF PickInv
  <2> QED BY <2>3, <2>4, <2>6
<1>13. StoredInv'
  BY <1>1, <1>8, <1>12 DEF StoredInv
<1> QED BY <1>8, <1>10, <1>11, <1>13 DEF LearningInv

LEMMA CommitTypedKeeps ==
    ASSUME LearningInv, NEW t \in Typed, NEW raw \in BOOLEAN, CommitTyped(t, raw)
    PROVE  LearningInv'
<1> DEFINE after == IF raw THEN <<Stmt("en", t, 0)>> ELSE <<>>
<1>1. /\ alive /\ todo = <<>> /\ english' = IF raw THEN [english EXCEPT ![t] = 10000] ELSE english
      /\ Commit(t, <<>>, after)
      /\ UNCHANGED <<alive, store, now, book, picks, db, failed>>
  BY DEF CommitTyped, Ready
<1>2. LearningType /\ t \in Words
  BY DEF LearningInv, Words
<1>3. english' \in [Typed -> Nat]
  BY <1>1, <1>2 DEF LearningType
<1>4. Stmt("en", t, 0) \in Stmts /\ Stmt("en", t, 0).op = "en" /\ Stmt("en", t, 0).word = t
  BY <1>2, StmtIs
<1>5. /\ after \in Seq(Stmts) /\ DOMAIN after = (IF raw THEN {1} ELSE {})
      /\ raw => after[1] = Stmt("en", t, 0)
  <2>1. CASE raw
    BY <1>4, <2>1
  <2>2. CASE ~raw
    BY <2>2, EmptySeq, EmptyEntries
  <2> QED BY <2>1, <2>2
<1> HIDE DEF after
<1>6. \A i \in DOMAIN after : after[i].op = "en"
  BY <1>4, <1>5
<1>7. <<>> \in Seq(Stmts) /\ DOMAIN <<>> = {}
  BY EmptySeq, EmptyEntries
<1>8. /\ todo' \in Seq(Stmts) /\ OneKey' /\ (~store => todo' = <<>>)
      /\ store =>
           /\ \A op \in {"l0"} \cup Counting : \A v : ~Waits(op, v)'
           /\ \A v : Waits("en", v)' <=> \E i \in DOMAIN after : after[i].word = v
           /\ RecencyInv'
  <2>1. PICK none \in Seq(Stmts) : none = <<>>
    BY <1>7
  <2>2. Commit(t, none, after) /\ DOMAIN none = {}
    <3>1. Commit(t, <<>>, after)
      BY <1>1
    <3>2. Commit(t, none, after)
      BY <2>1, <3>1, ZenonT(30)
    <3> QED BY <1>7, <2>1, <3>2
  <2>3. /\ \A i \in DOMAIN none : none[i].op \in {"l0"} \cup Counting
        /\ \A i, j \in DOMAIN none :
              none[i].op \in Counting /\ none[j].op \in Counting => i = j
    BY <2>2
  <2>4. /\ todo' \in Seq(Stmts) /\ OneKey' /\ (~store => todo' = <<>>)
        /\ store =>
             /\ \A op \in {"l0"} \cup Counting : \A v :
                   Waits(op, v)' <=> \E i \in DOMAIN none : none[i].op = op /\ none[i].word = v
             /\ \A v : Waits("en", v)' <=> \E i \in DOMAIN after : after[i].word = v
             /\ RecencyInv'
    BY <1>2, <1>5, <1>6, <2>2, <2>3, CommitPlans, Zenon
  <2> QED BY <2>2, <2>4
<1>9. Entries(recent)'
  BY <1>1, <1>2, Truncates DEF Commit
<1>10. KnownInv' /\ \A v \in DOMAIN last' : last'[v] \in Nat
  BY <1>1, <1>2, CommitKnows
<1>11. LearningType'
  <2>1. Entries(db.recency)'
    BY <1>1, <1>2 DEF LearningType, Entries
  <2>2. todo' \in Seq(Stmts) /\ (~store' => todo' = <<>>) /\ (~alive' => ~store')
    BY <1>1, <1>2, <1>8 DEF LearningType
  <2>3. lossy' \in BOOLEAN
    BY <1>1 DEF Commit
  <2> QED BY <1>1, <1>2, <1>3, <1>9, <1>10, <2>1, <2>2, <2>3 DEF LearningType
<1>12. ASSUME store, ~failed PROVE BookInv' /\ UserInv' /\ PickInv'
  <2>1. /\ \A q \in Phrases \ Presets : book[q] = db.phrases[q]
        /\ \A u \in Typed : english[u] > 0 <=> db.en[u] > 0
        /\ db.l0 = picks
    BY <1>1, <1>12, AtRest
  <2>2. BookInv'
    BY <1>1, <1>8, <1>12, <2>1 DEF BookInv, Counting
  <2>3. \A v : Waits("en", v)' <=> raw /\ v = t
    BY <1>4, <1>5, <1>8, <1>12
  <2>4. \A u \in Typed : english'[u] > 0 <=> (raw /\ u = t) \/ english[u] > 0
    BY <1>1, <1>2 DEF LearningType
  <2>5. UserInv'
    BY <1>1, <2>1, <2>3, <2>4 DEF UserInv
  <2>6. PickInv'
    BY <1>1, <2>1 DEF PickInv
  <2> QED BY <2>2, <2>5, <2>6
<1>13. StoredInv'
  BY <1>1, <1>8, <1>12 DEF StoredInv
<1> QED BY <1>8, <1>10, <1>11, <1>13 DEF LearningInv

LEMMA PredictKeeps ==
    ASSUME LearningInv, NEW w \in Words, Predict(w)
    PROVE  LearningInv'
<1>1. /\ alive /\ todo = <<>> /\ w \in DOMAIN recent /\ tier(recent, w) = 0
      /\ recent' = Without(recent, w)
      /\ UNCHANGED <<alive, store, now, book, english, picks, db, todo, last, failed, lossy>>
  BY DEF Predict, Ready, ghosts
<1>2. LearningType /\ KnownInv /\ OneKey
  BY DEF LearningInv
<1>3. now - recent[w] > Window
  <2>1. now - recent[w] \in Int
    BY <1>1, <1>2 DEF LearningType, Entries
  <2>2. Cardinality(Within(now - recent[w])) = 0
    BY <1>1 DEF tier, Within
  <2> QED BY <2>1, <2>2, LevelsAre
<1>4. /\ DOMAIN recent' = DOMAIN recent \ {w}
      /\ \A v \in DOMAIN recent' : recent'[v] = recent[v]
      /\ recent' = [v \in DOMAIN recent' |-> recent'[v]]
  BY <1>1 DEF Without
<1>5. Entries(recent)'
  <2>1. /\ IsFiniteSet(DOMAIN recent) /\ DOMAIN recent \subseteq Words
        /\ \A v \in DOMAIN recent : recent[v] \in Nat
    BY <1>2 DEF LearningType, Entries
  <2>2. IsFiniteSet(DOMAIN recent \ {w})
    BY <2>1, FS_RemoveElement
  <2> QED BY <1>4, <2>1, <2>2 DEF Entries
<1>6. LearningType'
  <2>1. Entries(db.recency)'
    BY <1>1, <1>2 DEF LearningType, Entries
  <2> QED BY <1>1, <1>2, <1>5, <2>1 DEF LearningType
<1>7. OneKey' /\ \A op, v : ~Waits(op, v)' /\ ~Clears' /\ DOMAIN todo' = {}
  BY <1>1, NothingWaitsThen
<1>8. ASSUME store, ~failed PROVE BookInv' /\ UserInv' /\ PickInv' /\ RecencyInv'
  <2>1. /\ \A q \in Phrases \ Presets : book[q] = db.phrases[q]
        /\ \A t \in Typed : english[t] > 0 <=> db.en[t] > 0
        /\ db.l0 = picks
        /\ \A v \in DOMAIN recent : v \in DOMAIN db.recency /\ db.recency[v] = recent[v]
        /\ \A v \in DOMAIN db.recency \ DOMAIN recent : now - db.recency[v] > Window
    BY <1>1, <1>8, AtRest
  <2>2. BookInv' /\ UserInv' /\ PickInv'
    BY <1>1, <1>7, <2>1 DEF BookInv, UserInv, PickInv
  <2>3. RecencyInv'
    BY <1>1, <1>3, <1>4, <1>7, <2>1 DEF RecencyInv
  <2> QED BY <2>2, <2>3
<1>9. StoredInv'
  BY <1>1, <1>8 DEF StoredInv
<1>10. KnownInv'
  <2>1. ASSUME Knows(recent) PROVE Knows(recent)'
    <3> SUFFICES ASSUME NEW v \in DOMAIN last', now' - last'[v] <= Window
                 PROVE  v \in DOMAIN recent' /\ recent'[v] = last'[v]
      BY DEF Knows
    <3>1. v \in DOMAIN last /\ last'[v] = last[v] /\ now - last[v] <= Window
      BY <1>1
    <3>2. v \in DOMAIN recent /\ recent[v] = last[v]
      BY <2>1, <3>1 DEF Knows
    <3>3. v # w
      BY <1>2, <1>3, <3>1, <3>2, WindowIsLongest, LearningAssumption DEF LearningType
    <3> QED BY <1>1, <1>4, <3>2, <3>3
  <2> QED BY <1>1, <1>2, <2>1 DEF KnownInv
<1> QED BY <1>6, <1>7, <1>9, <1>10 DEF LearningInv

LEMMA ChangedAt ==
    ASSUME NEW D, NEW f \in [D -> Nat], NEW w, NEW x, w \in D => x \in Nat,
           NEW g, g = [f EXCEPT ![w] = x]
    PROVE  /\ g \in [D -> Nat]
           /\ \A v \in D : g[v] = IF v = w THEN x ELSE f[v]
OBVIOUS

(* What a statement does to the tables.                                      *)
LEMMA AfterIs ==
    ASSUME LearningType, NEW s \in Stmts, NEW d, d = After(s)
    PROVE  /\ d = [phrases |-> d.phrases, recency |-> d.recency, en |-> d.en, l0 |-> d.l0]
           /\ d.l0 = IF s.op = "l0" THEN picks ELSE db.l0
           /\ d.phrases \in [Phrases -> Nat]
           /\ \A p \in Phrases :
                 d.phrases[p] =
                    IF s.op = "phrase" /\ p = s.word /\ db.phrases[p] = 0 THEN 1
                    ELSE IF s.op = "bump" /\ p = s.word /\ db.phrases[p] # 0
                    THEN db.phrases[p] + 1 ELSE db.phrases[p]
           /\ d.en \in [Typed -> Nat]
           /\ \A t \in Typed :
                 d.en[t] = IF s.op = "en" /\ t = s.word THEN db.en[t] + 1 ELSE db.en[t]
           /\ d.recency = IF s.op = "clear" THEN <<>>
                          ELSE IF s.op = "row" /\ s.word \notin DOMAIN db.recency
                          THEN With(db.recency, s.word, s.at) ELSE db.recency
<1>1. s.op \in {"l0", "phrase", "bump", "clear", "row", "en"}
  BY DEF Stmts
<1>2. /\ db = [phrases |-> db.phrases, recency |-> db.recency, en |-> db.en, l0 |-> db.l0]
      /\ db.phrases \in [Phrases -> Nat] /\ db.en \in [Typed -> Nat]
  BY DEF LearningType
<1>3. CASE s.op = "l0"
  <2>1. d = [db EXCEPT !.l0 = picks]
    BY <1>3 DEF After
  <2> QED BY <1>2, <1>3, <2>1
<1>4. CASE s.op = "phrase"
  <2>1. d = [db EXCEPT !.phrases[s.word] = IF @ = 0 THEN 1 ELSE @]
    BY <1>4 DEF After
  <2>2. d.phrases = [db.phrases EXCEPT ![s.word] = IF @ = 0 THEN 1 ELSE @]
        /\ d.recency = db.recency /\ d.en = db.en /\ d.l0 = db.l0
    BY <1>2, <2>1
  <2>3. /\ d.phrases \in [Phrases -> Nat]
        /\ \A v \in Phrases : d.phrases[v] =
                  IF v = s.word /\ db.phrases[v] = 0 THEN 1 ELSE db.phrases[v]
    <3> DEFINE x == IF db.phrases[s.word] = 0 THEN 1 ELSE db.phrases[s.word]
    <3>1. d.phrases = [db.phrases EXCEPT ![s.word] = x] /\ (s.word \in Phrases => x \in Nat)
      BY <1>2, <2>2
    <3>2. PICK f \in [Phrases -> Nat] : f = db.phrases
      BY <1>2
    <3> HIDE DEF x
    <3>a. PICK g : g = d.phrases
      OBVIOUS
    <3>b. g = [f EXCEPT ![s.word] = x] /\ (s.word \in Phrases => x \in Nat)
      BY <3>1, <3>2, <3>a, Zenon
    <3>c. /\ g \in [Phrases -> Nat]
          /\ \A v \in Phrases : g[v] = IF v = s.word THEN x ELSE f[v]
      BY <3>b, ChangedAt
    <3>3. /\ d.phrases \in [Phrases -> Nat]
          /\ \A v \in Phrases : d.phrases[v] = IF v = s.word THEN x ELSE db.phrases[v]
      BY <3>2, <3>a, <3>c, Zenon
    <3> QED BY <3>3 DEF x
  <2>4. d = [phrases |-> d.phrases, recency |-> d.recency, en |-> d.en, l0 |-> d.l0]
    BY <1>2, <2>1
  <2> QED BY <1>2, <1>4, <2>2, <2>3, <2>4
<1>5. CASE s.op = "bump"
  <2>1. d = [db EXCEPT !.phrases[s.word] = IF @ = 0 THEN 0 ELSE @ + 1]
    BY <1>5 DEF After
  <2>2. d.phrases = [db.phrases EXCEPT ![s.word] = IF @ = 0 THEN 0 ELSE @ + 1]
        /\ d.recency = db.recency /\ d.en = db.en /\ d.l0 = db.l0
    BY <1>2, <2>1
  <2>3. /\ d.phrases \in [Phrases -> Nat]
        /\ \A v \in Phrases : d.phrases[v] =
                  IF v = s.word /\ db.phrases[v] # 0 THEN db.phrases[v] + 1 ELSE db.phrases[v]
    <3> DEFINE x == IF db.phrases[s.word] = 0 THEN 0 ELSE db.phrases[s.word] + 1
    <3>1. d.phrases = [db.phrases EXCEPT ![s.word] = x] /\ (s.word \in Phrases => x \in Nat)
      BY <1>2, <2>2
    <3>2. PICK f \in [Phrases -> Nat] : f = db.phrases
      BY <1>2
    <3> HIDE DEF x
    <3>a. PICK g : g = d.phrases
      OBVIOUS
    <3>b. g = [f EXCEPT ![s.word] = x] /\ (s.word \in Phrases => x \in Nat)
      BY <3>1, <3>2, <3>a, Zenon
    <3>c. /\ g \in [Phrases -> Nat]
          /\ \A v \in Phrases : g[v] = IF v = s.word THEN x ELSE f[v]
      BY <3>b, ChangedAt
    <3>3. /\ d.phrases \in [Phrases -> Nat]
          /\ \A v \in Phrases : d.phrases[v] = IF v = s.word THEN x ELSE db.phrases[v]
      BY <3>2, <3>a, <3>c, Zenon
    <3> QED BY <3>3 DEF x
  <2>4. d = [phrases |-> d.phrases, recency |-> d.recency, en |-> d.en, l0 |-> d.l0]
    BY <1>2, <2>1
  <2> QED BY <1>2, <1>5, <2>2, <2>3, <2>4
<1>6. CASE s.op = "clear"
  <2>1. d = [db EXCEPT !.recency = <<>>]
    BY <1>6 DEF After
  <2> QED BY <1>2, <1>6, <2>1
<1>7. CASE s.op = "row"
  <2>1. d = [db EXCEPT !.recency = IF s.word \in DOMAIN @ THEN @ ELSE With(@, s.word, s.at)]
    BY <1>7 DEF After
  <2> QED BY <1>2, <1>7, <2>1
<1>8. CASE s.op = "en"
  <2>1. d = [db EXCEPT !.en[s.word] = @ + 1]
    BY <1>8 DEF After
  <2>2. d.en = [db.en EXCEPT ![s.word] = @ + 1]
        /\ d.phrases = db.phrases /\ d.recency = db.recency /\ d.l0 = db.l0
    BY <1>2, <2>1
  <2>3. /\ d.en \in [Typed -> Nat]
        /\ \A v \in Typed : d.en[v] = IF v = s.word THEN db.en[v] + 1 ELSE db.en[v]
    <3> DEFINE x == db.en[s.word] + 1
    <3>1. d.en = [db.en EXCEPT ![s.word] = x] /\ (s.word \in Typed => x \in Nat)
      BY <1>2, <2>2
    <3>2. PICK f \in [Typed -> Nat] : f = db.en
      BY <1>2
    <3> HIDE DEF x
    <3>a. PICK g : g = d.en
      OBVIOUS
    <3>b. g = [f EXCEPT ![s.word] = x] /\ (s.word \in Typed => x \in Nat)
      BY <3>1, <3>2, <3>a, Zenon
    <3>c. /\ g \in [Typed -> Nat]
          /\ \A v \in Typed : g[v] = IF v = s.word THEN x ELSE f[v]
      BY <3>b, ChangedAt
    <3>3. /\ d.en \in [Typed -> Nat]
          /\ \A v \in Typed : d.en[v] = IF v = s.word THEN x ELSE db.en[v]
      BY <3>2, <3>a, <3>c, Zenon
    <3> QED BY <3>3 DEF x
  <2>4. d = [phrases |-> d.phrases, recency |-> d.recency, en |-> d.en, l0 |-> d.l0]
    BY <1>2, <2>1
  <2> QED BY <1>2, <1>8, <2>2, <2>3, <2>4
<1> QED BY <1>1, <1>3, <1>4, <1>5, <1>6, <1>7, <1>8

LEMMA ExecuteKeeps ==
    ASSUME LearningInv, Execute
    PROVE  LearningInv'
<1> DEFINE h == Head(todo)
<1>1. /\ todo # <<>> /\ todo' = Tail(todo)
      /\ \/ db' = After(h) /\ failed' = failed /\ lossy' = lossy
         \/ db' = db /\ failed' = TRUE /\ lossy' = TRUE
      /\ UNCHANGED <<alive, store, now, book, recent, english, picks, last>>
  BY DEF Execute, memory
<1>2. LearningType /\ OneKey /\ StoredInv /\ KnownInv
  BY DEF LearningInv
<1>3. alive /\ store
  BY <1>1, <1>2 DEF LearningType
<1>4. todo \in Seq(Stmts)
  BY <1>2 DEF LearningType
<1>5. /\ h \in Stmts /\ todo' \in Seq(Stmts)
      /\ 1 \in DOMAIN todo /\ todo[1] = h
      /\ \A i \in DOMAIN todo' : i \in Nat /\ i + 1 \in DOMAIN todo /\ todo'[i] = todo[i + 1]
  BY <1>1, <1>4, RunsFirst
<1>6. /\ \A op, w : Waits(op, w) <=> (h.op = op /\ h.word = w) \/ Waits(op, w)'
      /\ \A w, at : Saves(w, at) <=> h = Stmt("row", w, at) \/ Saves(w, at)'
      /\ Clears <=> h.op = "clear" \/ Clears'
      /\ OneKey'
      /\ h.op \in Counting => \A op \in Counting : \A w : ~Waits(op, w)'
      /\ h.op = "row" => ~Clears'
  BY <1>1, <1>2, <1>4, RunsKey, Zenon
<1> HIDE DEF h
<1>7. CASE db' = db /\ failed' = TRUE /\ lossy' = TRUE
  <2>1. LearningType'
    <3>1. Entries(db.recency)' /\ Entries(recent)'
      BY <1>1, <1>2, <1>7 DEF LearningType, Entries
    <3> QED BY <1>1, <1>2, <1>3, <1>5, <1>7, <3>1 DEF LearningType
  <2> QED BY <1>6, <1>7, <2>1 DEF LearningInv, StoredInv, KnownInv
<1>8. CASE db' = After(h) /\ failed' = failed /\ lossy' = lossy
  <2>1. /\ db' = [phrases |-> db'.phrases, recency |-> db'.recency, en |-> db'.en, l0 |-> db'.l0]
        /\ db'.l0 = IF h.op = "l0" THEN picks ELSE db.l0
        /\ db'.phrases \in [Phrases -> Nat]
        /\ \A p \in Phrases :
              db'.phrases[p] =
                 IF h.op = "phrase" /\ p = h.word /\ db.phrases[p] = 0 THEN 1
                 ELSE IF h.op = "bump" /\ p = h.word /\ db.phrases[p] # 0
                 THEN db.phrases[p] + 1 ELSE db.phrases[p]
        /\ db'.en \in [Typed -> Nat]
        /\ \A t \in Typed :
              db'.en[t] = IF h.op = "en" /\ t = h.word THEN db.en[t] + 1 ELSE db.en[t]
        /\ db'.recency = IF h.op = "clear" THEN <<>>
                         ELSE IF h.op = "row" /\ h.word \notin DOMAIN db.recency
                         THEN With(db.recency, h.word, h.at) ELSE db.recency
    BY <1>2, <1>5, <1>8, AfterIs
  <2>2. Entries(db.recency)'
    <3>1. /\ IsFiniteSet(DOMAIN db.recency) /\ DOMAIN db.recency \subseteq Words
          /\ \A w \in DOMAIN db.recency : db.recency[w] \in Nat
          /\ Entries(db.recency)
      BY <1>2 DEF LearningType, Entries
    <3>2. CASE h.op = "clear"
      <4>1. db'.recency = <<>>
        BY <2>1, <3>2
      <4> QED BY <4>1, EmptyEntries
    <3>3. CASE h.op = "row" /\ h.word \notin DOMAIN db.recency
      <4>1. db'.recency = With(db.recency, h.word, h.at) /\ h.word \in Words /\ h.at \in Nat
        BY <1>5, <2>1, <3>3 DEF Stmts
      <4>2. IsFiniteSet(DOMAIN db.recency \cup {h.word})
        BY <3>1, FS_AddElement
      <4>3. /\ DOMAIN db'.recency = DOMAIN db.recency \cup {h.word}
            /\ \A w \in DOMAIN db'.recency :
                  db'.recency[w] = IF w = h.word THEN h.at ELSE db.recency[w]
            /\ db'.recency = [w \in DOMAIN db'.recency |-> db'.recency[w]]
        BY <4>1 DEF With
      <4> QED BY <3>1, <4>1, <4>2, <4>3 DEF Entries
    <3>4. CASE h.op # "clear" /\ ~(h.op = "row" /\ h.word \notin DOMAIN db.recency)
      <4>1. db'.recency = db.recency
        BY <2>1, <3>4
      <4> QED BY <3>1, <4>1
    <3> QED BY <3>2, <3>3, <3>4
  <2>3. LearningType'
    <3>1. Entries(recent)'
      BY <1>1, <1>2 DEF LearningType, Entries
    <3> QED BY <1>1, <1>2, <1>3, <1>5, <1>8, <2>1, <2>2, <3>1 DEF LearningType
  <2>4. ASSUME ~failed PROVE BookInv' /\ UserInv' /\ PickInv' /\ RecencyInv'
    <3>1. BookInv /\ UserInv /\ PickInv /\ RecencyInv
      BY <1>2, <1>3, <2>4 DEF StoredInv
    <3>2. BookInv'
      <4> SUFFICES ASSUME NEW q \in Phrases \ Presets
                   PROVE  /\ book'[q] = IF Waits("bump", q)' \/ Waits("phrase", q)'
                                        THEN db'.phrases[q] + 1 ELSE db'.phrases[q]
                          /\ Waits("bump", q)' => db'.phrases[q] > 0
                          /\ Waits("phrase", q)' => db'.phrases[q] = 0
        BY DEF BookInv
      <4>1. /\ book[q] = IF Waits("bump", q) \/ Waits("phrase", q)
                         THEN db.phrases[q] + 1 ELSE db.phrases[q]
            /\ Waits("bump", q) => db.phrases[q] > 0
            /\ Waits("phrase", q) => db.phrases[q] = 0
            /\ db.phrases[q] \in Nat /\ book' = book
        BY <1>1, <1>2, <3>1 DEF BookInv, LearningType
      <4>2. /\ Waits("bump", q) <=> (h.op = "bump" /\ h.word = q) \/ Waits("bump", q)'
            /\ Waits("phrase", q) <=> (h.op = "phrase" /\ h.word = q) \/ Waits("phrase", q)'
            /\ h.op \in {"phrase", "bump"} => ~Waits("bump", q)' /\ ~Waits("phrase", q)'
        BY <1>6 DEF Counting
      <4>3. db'.phrases[q] =
               IF h.op = "phrase" /\ q = h.word /\ db.phrases[q] = 0 THEN 1
               ELSE IF h.op = "bump" /\ q = h.word /\ db.phrases[q] # 0
               THEN db.phrases[q] + 1 ELSE db.phrases[q]
        BY <2>1
      <4> QED BY <4>1, <4>2, <4>3
    <3>3. UserInv'
      <4> SUFFICES ASSUME NEW t \in Typed
                   PROVE  english'[t] > 0 <=> db'.en[t] > 0 \/ Waits("en", t)'
        BY DEF UserInv
      <4>1. /\ english'[t] > 0 <=> db.en[t] > 0 \/ Waits("en", t)
            /\ db.en[t] \in Nat
        BY <1>1, <1>2, <3>1 DEF UserInv, LearningType
      <4>2. Waits("en", t) <=> (h.op = "en" /\ h.word = t) \/ Waits("en", t)'
        BY <1>6
      <4>3. db'.en[t] = IF h.op = "en" /\ t = h.word THEN db.en[t] + 1 ELSE db.en[t]
        BY <2>1
      <4> QED BY <4>1, <4>2, <4>3
    <3>4. PickInv'
      <4>1. CASE h.op = "l0"
        BY <1>1, <2>1, <4>1 DEF PickInv
      <4>2. CASE h.op # "l0"
        <5>1. \A p \in Phrases : Waits("l0", p) <=> Waits("l0", p)'
          BY <1>6, <4>2
        <5> QED BY <1>1, <2>1, <3>1, <4>2, <5>1 DEF PickInv
      <4> QED BY <4>1, <4>2
    <3>5. \A i \in DOMAIN todo' : todo'[i].op = "row" =>
             todo'[i].word \in DOMAIN recent' /\ recent'[todo'[i].word] = todo'[i].at
      BY <1>1, <1>5, <3>1 DEF RecencyInv
    <3>6. /\ h.op = "row" => h.word \in DOMAIN recent /\ recent[h.word] = h.at
          /\ \A w \in DOMAIN recent :
                IF ~Clears /\ w \in DOMAIN db.recency THEN db.recency[w] = recent[w]
                ELSE Saves(w, recent[w])
          /\ ~Clears => \A w \in DOMAIN db.recency \ DOMAIN recent : now - db.recency[w] > Window
      BY <1>5, <3>1, Zenon DEF RecencyInv
    <3>7. \A w \in DOMAIN recent : h.op # "row" \/ h.word # w =>
              (Saves(w, recent[w]) <=> Saves(w, recent[w])')
      BY <1>1, <1>6, StmtIs
    <3>8. CASE h.op = "clear"
      <4>1. db'.recency = <<>> /\ Clears
        BY <1>6, <2>1, <3>8
      <4>2. DOMAIN db'.recency = {}
        BY <4>1, EmptyEntries
      <4>3. \A w \in DOMAIN recent' : Saves(w, recent[w])'
        BY <1>1, <3>6, <3>7, <3>8, <4>1
      <4> QED BY <3>2, <3>3, <3>4, <3>5, <4>2, <4>3 DEF RecencyInv
    <3>9. CASE h.op = "row"
      <4>1. ~Clears' /\ ~Clears
        BY <1>6, <3>9
      <4>2. /\ DOMAIN db'.recency = DOMAIN db.recency \cup {h.word}
            /\ \A w \in DOMAIN db.recency : db'.recency[w] = db.recency[w]
            /\ h.word \notin DOMAIN db.recency => db'.recency[h.word] = h.at
        <5>1. CASE h.word \in DOMAIN db.recency
          BY <2>1, <3>9, <5>1
        <5>2. CASE h.word \notin DOMAIN db.recency
          <6>1. db'.recency = With(db.recency, h.word, h.at)
            BY <2>1, <3>9, <5>2
          <6> QED BY <5>2, <6>1 DEF With
        <5> QED BY <5>1, <5>2
      <4>3. ASSUME NEW w \in DOMAIN recent'
            PROVE  IF w \in DOMAIN db'.recency THEN db'.recency[w] = recent'[w]
                   ELSE Saves(w, recent[w])'
        <5>1. w \in DOMAIN recent /\ recent'[w] = recent[w]
          BY <1>1
        <5>2. CASE w \in DOMAIN db.recency
          BY <3>6, <4>1, <4>2, <5>1, <5>2
        <5>3. CASE w \notin DOMAIN db.recency /\ w = h.word
          BY <3>6, <3>9, <4>2, <5>1, <5>3
        <5>4. CASE w \notin DOMAIN db.recency /\ w # h.word
          BY <3>6, <3>7, <4>2, <5>1, <5>4
        <5> QED BY <5>2, <5>3, <5>4
      <4>4. \A w \in DOMAIN db'.recency \ DOMAIN recent' : now' - db'.recency[w] > Window
        BY <1>1, <3>6, <3>9, <4>1, <4>2
      <4> QED BY <3>2, <3>3, <3>4, <3>5, <4>1, <4>3, <4>4 DEF RecencyInv
    <3>10. CASE h.op \notin {"clear", "row"}
      <4>1. db'.recency = db.recency /\ (Clears <=> Clears')
        BY <1>6, <2>1, <3>10
      <4>2. \A w \in DOMAIN recent' :
                IF ~Clears' /\ w \in DOMAIN db'.recency THEN db'.recency[w] = recent'[w]
                ELSE Saves(w, recent[w])'
        BY <1>1, <3>6, <3>7, <3>10, <4>1
      <4>3. ~Clears' => \A w \in DOMAIN db'.recency \ DOMAIN recent' :
                            now' - db'.recency[w] > Window
        BY <1>1, <3>6, <4>1
      <4> QED BY <3>2, <3>3, <3>4, <3>5, <4>2, <4>3, Zenon DEF RecencyInv
    <3> QED BY <3>8, <3>9, <3>10
  <2>5. StoredInv'
    BY <1>1, <1>8, <2>4 DEF StoredInv
  <2>6. KnownInv'
    BY <1>1, <1>2, <1>3, <1>8 DEF KnownInv, Knows
  <2> QED BY <1>6, <2>3, <2>5, <2>6 DEF LearningInv
<1> QED BY <1>1, <1>7, <1>8

LEMMA DieKeeps ==
    ASSUME LearningInv, Die
    PROVE  LearningInv'
<1>1. /\ alive /\ alive' = FALSE /\ store' = FALSE /\ todo' = <<>>
      /\ book' = NoUses /\ recent' = <<>> /\ english' = [t \in Typed |-> 0] /\ picks' = NoUses
      /\ lossy' = (lossy \/ todo # <<>>)
      /\ UNCHANGED <<now, db, last, failed>>
  BY DEF Die, Blank
<1>2. LearningType /\ KnownInv
  BY DEF LearningInv
<1>3. OneKey' /\ todo' \in Seq(Stmts)
  BY <1>1, NothingWaitsThen, EmptySeq
<1>4. LearningType'
  <2>1. Entries(db.recency)'
    BY <1>1, <1>2 DEF LearningType, Entries
  <2>2. Entries(recent)'
    BY <1>1, EmptyEntries
  <2>3. NoUses \in [Phrases -> Nat] /\ [t \in Typed |-> 0] \in [Typed -> Nat]
    BY DEF NoUses
  <2> QED BY <1>1, <1>2, <1>3, <2>1, <2>2, <2>3 DEF LearningType
<1>5. KnownInv'
  <2>1. ASSUME ~lossy' PROVE Knows(db.recency)'
    <3>1. todo = <<>> /\ ~lossy /\ store /\ ~failed /\ Knows(recent)
      BY <1>1, <1>2, <2>1 DEF KnownInv
    <3>2. \A w \in DOMAIN recent : w \in DOMAIN db.recency /\ db.recency[w] = recent[w]
      BY <1>1, <3>1, AtRest
    <3> QED BY <1>1, <3>1, <3>2 DEF Knows
  <2> QED BY <1>1, <2>1 DEF KnownInv
<1>6. StoredInv'
  BY <1>1 DEF StoredInv
<1> QED BY <1>3, <1>4, <1>5, <1>6 DEF LearningInv

LEMMA StartKeeps ==
    ASSUME LearningInv, Start
    PROVE  LearningInv'
<1> DEFINE builtIn(p) == IF p \in Presets THEN 1 ELSE 0
           young == {w \in DOMAIN db.recency : now - db.recency[w] <= Window}
<1>1. /\ ~alive /\ alive' = TRUE /\ failed' = FALSE /\ store' \in BOOLEAN
      /\ UNCHANGED <<now, db, todo, last>>
      /\ IF store'
         THEN /\ book' = [p \in Phrases |-> IF db.phrases[p] > 0 THEN db.phrases[p] ELSE builtIn(p)]
              /\ recent' = [w \in young |-> db.recency[w]]
              /\ english' = db.en /\ picks' = db.l0 /\ lossy' = lossy
         ELSE /\ book' = [p \in Phrases |-> builtIn(p)]
              /\ recent' = <<>> /\ english' = [t \in Typed |-> 0] /\ picks' = NoUses
              /\ lossy' = TRUE
  BY DEF Start, load_bulk, Warmed, BuiltIn
<1>2. LearningType /\ KnownInv
  BY DEF LearningInv
<1>3. todo' = <<>>
  BY <1>1, <1>2 DEF LearningType
<1>4. /\ OneKey' /\ todo' \in Seq(Stmts) /\ ~Clears' /\ DOMAIN todo' = {}
      /\ \A op, w : ~Waits(op, w)'
  BY <1>3, NothingWaitsThen, EmptySeq
<1>5. /\ Entries(db.recency) /\ db' = db /\ now \in Nat /\ Window \in Nat
      /\ \A w \in DOMAIN db.recency : db.recency[w] \in Nat
  BY <1>1, <1>2, WindowIsLongest, LearningAssumption DEF LearningType, Entries
<1>6. CASE ~store'
  <2>1. recent' = <<>> /\ english' = [t \in Typed |-> 0] /\ picks' = NoUses /\ lossy' = TRUE
        /\ book' = [p \in Phrases |-> builtIn(p)]
    BY <1>1, <1>6
  <2>2. Entries(recent)'
    BY <2>1, EmptyEntries
  <2>3. Entries(db.recency)'
    BY <1>5 DEF Entries
  <2>4. book' \in [Phrases -> Nat] /\ english' \in [Typed -> Nat] /\ picks' \in [Phrases -> Nat]
    BY <2>1 DEF NoUses
  <2>5. LearningType'
    BY <1>1, <1>2, <1>3, <1>4, <2>1, <2>2, <2>3, <2>4 DEF LearningType
  <2>6. StoredInv' /\ KnownInv'
    BY <1>6, <2>1 DEF StoredInv, KnownInv
  <2> QED BY <1>4, <2>5, <2>6 DEF LearningInv
<1>7. CASE store'
  <2>1. /\ book' = [p \in Phrases |-> IF db.phrases[p] > 0 THEN db.phrases[p] ELSE builtIn(p)]
        /\ recent' = [w \in young |-> db.recency[w]]
        /\ english' = db.en /\ picks' = db.l0 /\ lossy' = lossy
    BY <1>1, <1>7
  <2>2. /\ DOMAIN recent' = young /\ young \subseteq DOMAIN db.recency
        /\ \A w \in young : recent'[w] = db.recency[w]
        /\ recent' = [w \in DOMAIN recent' |-> recent'[w]]
    BY <2>1
  <2>3. \A w \in DOMAIN db.recency : w \notin young => now - db.recency[w] > Window
    BY <1>5
  <2> HIDE DEF young
  <2>4. Entries(recent)'
    <3>1. IsFiniteSet(young)
      BY <1>5, <2>2, FS_Subset DEF Entries
    <3> QED BY <1>5, <2>2, <3>1 DEF Entries
  <2>5. Entries(db.recency)'
    BY <1>5 DEF Entries
  <2>6. book' \in [Phrases -> Nat] /\ english' \in [Typed -> Nat] /\ picks' \in [Phrases -> Nat]
    BY <1>2, <2>1 DEF LearningType
  <2>7. LearningType'
    BY <1>1, <1>2, <1>3, <1>4, <2>1, <2>4, <2>5, <2>6 DEF LearningType
  <2>8. BookInv'
    <3> SUFFICES ASSUME NEW p \in Phrases \ Presets PROVE book'[p] = db'.phrases[p]
      BY <1>4 DEF BookInv
    <3>1. db.phrases[p] \in Nat /\ builtIn(p) = 0
      BY <1>2 DEF LearningType
    <3>2. book'[p] = IF db.phrases[p] > 0 THEN db.phrases[p] ELSE builtIn(p)
      BY <2>1
    <3> QED BY <1>1, <3>1, <3>2
  <2>9. UserInv' /\ PickInv'
    BY <1>1, <1>4, <2>1 DEF UserInv, PickInv
  <2>10. RecencyInv'
    BY <1>1, <1>4, <2>2, <2>3 DEF RecencyInv
  <2>11. KnownInv'
    <3>1. ASSUME ~lossy' PROVE Knows(recent)'
      <4>1. Knows(db.recency)
        BY <1>1, <1>2, <2>1, <3>1 DEF KnownInv
      <4> SUFFICES ASSUME NEW w \in DOMAIN last', now' - last'[w] <= Window
                   PROVE  w \in DOMAIN recent' /\ recent'[w] = last'[w]
        BY DEF Knows
      <4>2. w \in DOMAIN db.recency /\ db.recency[w] = last[w] /\ now - last[w] <= Window
        BY <1>1, <4>1 DEF Knows
      <4>3. last[w] \in Nat
        BY <1>5, <4>2
      <4>4. w \in young
        BY <1>5, <2>3, <4>2, <4>3
      <4> QED BY <1>1, <2>2, <4>2, <4>4
    <3> QED BY <1>1, <1>7, <3>1 DEF KnownInv
  <2> QED BY <1>4, <2>7, <2>8, <2>9, <2>10, <2>11 DEF LearningInv, StoredInv
<1> QED BY <1>1, <1>6, <1>7

LEMMA TickKeeps ==
    ASSUME LearningInv, Tick
    PROVE  LearningInv'
<1>1. /\ todo = <<>> /\ now' = now + 1
      /\ UNCHANGED <<alive, store, book, recent, english, picks, db, todo, last, failed, lossy>>
  BY DEF Tick, memory, ghosts
<1>2. LearningType /\ KnownInv
  BY DEF LearningInv
<1>3. /\ OneKey' /\ ~Clears' /\ DOMAIN todo' = {}
      /\ \A op, w : ~Waits(op, w)'
  BY <1>1, NothingWaitsThen
<1>4. /\ \A w \in DOMAIN last : last[w] \in Nat
      /\ \A w \in DOMAIN db.recency : db.recency[w] \in Nat
      /\ now \in Nat /\ Window \in Nat
  BY <1>2, WindowIsLongest, LearningAssumption DEF LearningType, Entries
<1>5. LearningType'
  <2>1. Entries(db.recency)' /\ Entries(recent)'
    BY <1>1, <1>2 DEF LearningType, Entries
  <2> QED BY <1>1, <1>2, <2>1 DEF LearningType
<1>6. ASSUME alive, store, ~failed PROVE BookInv' /\ UserInv' /\ PickInv' /\ RecencyInv'
  <2>1. /\ \A p \in Phrases \ Presets : book[p] = db.phrases[p]
        /\ \A t \in Typed : english[t] > 0 <=> db.en[t] > 0
        /\ db.l0 = picks
        /\ \A w \in DOMAIN recent : w \in DOMAIN db.recency /\ db.recency[w] = recent[w]
        /\ \A w \in DOMAIN db.recency \ DOMAIN recent : now - db.recency[w] > Window
    BY <1>1, <1>6, AtRest
  <2>2. BookInv' /\ UserInv' /\ PickInv'
    BY <1>1, <1>3, <2>1 DEF BookInv, UserInv, PickInv
  <2>3. RecencyInv'
    BY <1>1, <1>3, <1>4, <2>1 DEF RecencyInv
  <2> QED BY <2>2, <2>3
<1>7. StoredInv'
  BY <1>1, <1>6 DEF StoredInv
<1>8. KnownInv'
  <2>1. \A w \in DOMAIN last : now' - last[w] <= Window => now - last[w] <= Window
    BY <1>1, <1>4
  <2>2. (Knows(recent) => Knows(recent)') /\ (Knows(db.recency) => Knows(db.recency)')
    BY <1>1, <2>1 DEF Knows
  <2> QED BY <1>1, <1>2, <2>2 DEF KnownInv
<1> QED BY <1>3, <1>5, <1>7, <1>8 DEF LearningInv

LEMMA InitLearning == Init => LearningInv
<1> SUFFICES ASSUME Init PROVE LearningInv
  OBVIOUS
<1>1. /\ alive = FALSE /\ store = FALSE /\ now = 0
      /\ book = NoUses /\ recent = <<>> /\ english = [t \in Typed |-> 0] /\ picks = NoUses
      /\ db = [phrases |-> NoUses, recency |-> <<>>, en |-> [t \in Typed |-> 0], l0 |-> NoUses]
      /\ todo = <<>> /\ last = <<>> /\ failed = FALSE /\ lossy = FALSE
  BY DEF Init
<1>2. NoUses \in [Phrases -> Nat] /\ [t \in Typed |-> 0] \in [Typed -> Nat]
  BY DEF NoUses
<1>3. /\ db.phrases = NoUses /\ db.recency = <<>> /\ db.en = [t \in Typed |-> 0] /\ db.l0 = NoUses
      /\ db = [phrases |-> db.phrases, recency |-> db.recency, en |-> db.en, l0 |-> db.l0]
  BY <1>1
<1>4. Entries(recent) /\ Entries(db.recency) /\ DOMAIN last = {}
  BY <1>1, <1>3, EmptyEntries
<1>5. todo \in Seq(Stmts) /\ OneKey
  BY <1>1, EmptySeq, NothingWaits
<1>6. LearningType
  BY <1>1, <1>2, <1>3, <1>4, <1>5 DEF LearningType
<1>7. StoredInv /\ KnownInv
  BY <1>1, <1>4 DEF StoredInv, KnownInv, Knows
<1> QED BY <1>5, <1>6, <1>7 DEF LearningInv

LEMMA NextLearning == LearningInv /\ [Next]_vars => LearningInv'
<1> SUFFICES ASSUME LearningInv, [Next]_vars PROVE LearningInv'
  OBVIOUS
<1>1. ASSUME NEW p \in Phrases, PickCharacter(p) PROVE LearningInv'
  BY <1>1, PickCharacterKeeps
<1>2. ASSUME NEW p \in Phrases, NEW composed \in BOOLEAN, CommitCandidate(p, composed)
      PROVE  LearningInv'
  BY <1>2, CommitCandidateKeeps
<1>3. ASSUME NEW t \in Typed, NEW raw \in BOOLEAN, CommitTyped(t, raw) PROVE LearningInv'
  BY <1>3, CommitTypedKeeps
<1>4. ASSUME NEW w \in Words, Predict(w) PROVE LearningInv'
  BY <1>4, PredictKeeps
<1>5. CASE Execute
  BY <1>5, ExecuteKeeps
<1>6. CASE Die
  BY <1>6, DieKeeps
<1>7. CASE Start
  BY <1>7, StartKeeps
<1>8. CASE Tick
  BY <1>8, TickKeeps
<1>9. CASE UNCHANGED vars
  BY <1>9 DEF vars, memory, ghosts, LearningInv, LearningType, Entries, OneKey, StoredInv, BookInv,
              UserInv, PickInv, RecencyInv, KnownInv, Knows, Waits, Saves, Clears
<1> QED BY <1>1, <1>2, <1>3, <1>4, <1>5, <1>6, <1>7, <1>8, <1>9, Zenon DEF Next

-----------------------------------------------------------------------------
(* What the invariant is for.                                                *)
LEMMA PendingIs ==
    ASSUME LearningInv, NEW op, NEW w
    PROVE  /\ Pending(op, w) \in Nat
           /\ Pending(op, w) > 0 <=> Waits(op, w)
           /\ op \in Counting => Pending(op, w) = IF Waits(op, w) THEN 1 ELSE 0
<1> DEFINE P == {i \in DOMAIN todo : todo[i].op = op /\ todo[i].word = w}
<1>1. Pending(op, w) = Cardinality(P)
  BY DEF Pending
<1>2. IsFiniteSet(DOMAIN todo)
  <2>1. todo \in Seq(Stmts)
    BY DEF LearningInv, LearningType
  <2>2. PICK n \in Nat : n = Len(todo)
    BY <2>1, LenProperties
  <2>3. DOMAIN todo = 1..n
    BY <2>1, <2>2, LenProperties
  <2>4. IsFiniteSet(1..n)
    BY FS_Interval
  <2> QED BY <2>3, <2>4, Zenon
<1>3. IsFiniteSet(P)
  BY <1>2, FS_Subset
<1>4. CASE Waits(op, w)
  <2>1. PICK i \in P : TRUE
    BY <1>4 DEF Waits
  <2>2. P # {}
    BY <2>1
  <2>3. ASSUME op \in Counting PROVE P = {i}
    BY <2>1, <2>3, Zenon DEF LearningInv, OneKey
  <2> HIDE DEF P
  <2>4. Cardinality(P) \in Nat /\ Cardinality(P) # 0
    BY <1>3, <2>2, FS_CardinalityType, FS_EmptySet
  <2>5. op \in Counting => Cardinality(P) = 1
    BY <2>3, FS_Singleton
  <2> QED BY <1>1, <1>4, <2>4, <2>5
<1>5. CASE ~Waits(op, w)
  <2>1. P = {}
    BY <1>5 DEF Waits
  <2>2. Cardinality(P) = 0
    BY <2>1, FS_EmptySet
  <2> QED BY <1>1, <1>5, <2>2
<1> QED BY <1>4, <1>5

LEMMA LearningRestoring == LearningInv => RestartRestores
<1> SUFFICES ASSUME LearningInv, alive, store, ~failed
             PROVE  /\ \A p \in Phrases \ Presets :
                          book[p] = db.phrases[p] + Pending("bump", p) + Pending("phrase", p)
                    /\ \A t \in Typed : english[t] > 0 <=> db.en[t] + Pending("en", t) > 0
                    /\ (todo = <<>>) =>
                          /\ db.l0 = picks
                          /\ \A w \in DOMAIN recent :
                                w \in DOMAIN db.recency /\ db.recency[w] = recent[w]
                          /\ \A w \in DOMAIN db.recency \ DOMAIN recent :
                                now - db.recency[w] > Window
  BY DEF RestartRestores
<1>1. BookInv /\ UserInv /\ LearningType
  BY DEF LearningInv, StoredInv
<1>2. ASSUME NEW p \in Phrases \ Presets
      PROVE  book[p] = db.phrases[p] + Pending("bump", p) + Pending("phrase", p)
  <2>1. /\ book[p] = IF Waits("bump", p) \/ Waits("phrase", p)
                     THEN db.phrases[p] + 1 ELSE db.phrases[p]
        /\ Waits("bump", p) => db.phrases[p] > 0
        /\ Waits("phrase", p) => db.phrases[p] = 0
        /\ db.phrases[p] \in Nat
    BY <1>1 DEF BookInv, LearningType
  <2>2. /\ Pending("bump", p) = IF Waits("bump", p) THEN 1 ELSE 0
        /\ Pending("phrase", p) = IF Waits("phrase", p) THEN 1 ELSE 0
    BY PendingIs DEF Counting
  <2> QED BY <2>1, <2>2
<1>3. ASSUME NEW t \in Typed PROVE english[t] > 0 <=> db.en[t] + Pending("en", t) > 0
  <2>1. Pending("en", t) \in Nat /\ (Pending("en", t) > 0 <=> Waits("en", t))
    BY PendingIs
  <2>2. (english[t] > 0 <=> db.en[t] > 0 \/ Waits("en", t)) /\ db.en[t] \in Nat
    BY <1>1 DEF UserInv, LearningType
  <2> QED BY <2>1, <2>2
<1> QED BY <1>2, <1>3, AtRest

LEMMA LearningKnowing == LearningInv => RecentIsBoosted
BY DEF LearningInv, KnownInv, Knows, RecentIsBoosted

-----------------------------------------------------------------------------
(* The score of a phrase, from its uses and its level.                       *)
BookBase(n) == IF n > 0 /\ book_score(n) > DictScore THEN book_score(n) ELSE DictScore

LEMMA BaseGrows ==
    ASSUME NEW n \in Nat, NEW m \in Nat, n <= m
    PROVE  BookBase(n) \in Nat /\ BookBase(m) \in Nat /\ BookBase(n) <= BookBase(m) /\ BookBase(m) <= 1000
BY LearningAssumption DEF BookBase, book_score

LEMMA TierIs ==
    ASSUME LearningType, NEW w
    PROVE  tier(recent, w) \in Nat /\ tier(recent, w) <= Levels /\ Levels \in Nat /\ Levels <= 5
<1>1. CASE w \in DOMAIN recent
  <2>1. now - recent[w] \in Int
    BY <1>1 DEF LearningType, Entries
  <2>2. tier(recent, w) = Cardinality(Within(now - recent[w]))
    BY <1>1 DEF tier, Within
  <2> QED BY <2>1, <2>2, LevelsAre
<1>2. CASE w \notin DOMAIN recent
  BY <1>2, LevelsAre DEF tier
<1> QED BY <1>1, <1>2

LEMMA TierIsThen ==
    ASSUME LearningType', NEW w
    PROVE  tier(recent, w)' \in Nat /\ tier(recent, w)' <= 5
<1>1. CASE w \in DOMAIN recent'
  <2>1. now' - recent'[w] \in Int
    BY <1>1 DEF LearningType, Entries
  <2>2. tier(recent, w)' = Cardinality(Within(now' - recent'[w]))
    BY <1>1 DEF tier, Within
  <2> QED BY <2>1, <2>2, LevelsAre
<1>2. CASE w \notin DOMAIN recent'
  BY <1>2 DEF tier
<1> QED BY <1>1, <1>2

LEMMA ScoreIs ==
    ASSUME NEW p
    PROVE  /\ Score(p) = AtTier(BookBase(book[p]), tier(recent, p))
           /\ Score(p)' = AtTier(BookBase(book'[p]), tier(recent, p)')
BY DEF Score, AtTier, Gain, BookBase

Favored(p) == picks'[p] > picks[p] /\ alive => Score(p)' >= Score(p)
Favors == Cardinality(DOMAIN recent) <= MaxEntries => \A p \in Phrases : Favored(p)

LEMMA BetterScore ==
    ASSUME LearningInv, LearningInv', NEW p \in Phrases,
           book[p] <= book'[p], tier(recent, p) <= tier(recent, p)'
    PROVE  Score(p)' >= Score(p)
<1>1. LearningType /\ LearningType'
  BY DEF LearningInv
<1>2. PICK n \in Nat, m \in Nat : n = book[p] /\ m = book'[p]
  BY <1>1 DEF LearningType
<1>3. PICK a \in Nat, c \in Nat : a = BookBase(n) /\ c = BookBase(m) /\ a <= c /\ c <= 1000
  BY <1>2, BaseGrows
<1>4. PICK b \in Nat, d \in Nat : b = tier(recent, p) /\ d = tier(recent, p)' /\ b <= d /\ d <= 7
  <2>1. tier(recent, p) \in Nat
    BY <1>1, TierIs
  <2>2. tier(recent, p)' \in Nat /\ tier(recent, p)' <= 5
    BY <1>1, TierIsThen
  <2> QED BY <2>1, <2>2
<1>5. AtTier(a, b) <= AtTier(c, d)
  BY <1>3, <1>4, BoostGrows
<1>6. Score(p) = AtTier(a, b)
  BY <1>2, <1>3, <1>4, ScoreIs, Zenon
<1>7. Score(p)' = AtTier(c, d)
  BY <1>2, <1>3, <1>4, ScoreIs, Zenon
<1>8. AtTier(a, b) \in Int /\ AtTier(c, d) \in Int
  BY DEF AtTier, Gain
<1> QED BY <1>5, <1>6, <1>7, <1>8

LEMMA StepFavors == LearningInv /\ LearningInv' /\ [Next]_vars => [Favors]_vars
<1> SUFFICES ASSUME LearningInv, LearningInv', Next,
                    Cardinality(DOMAIN recent) <= MaxEntries,
                    NEW p \in Phrases, picks'[p] > picks[p], alive
             PROVE  Score(p)' >= Score(p)
  BY DEF Favors, Favored
<1>1. LearningType /\ LearningType'
  BY DEF LearningInv
<1>2. picks[p] \in Nat /\ book[p] \in Nat
  BY <1>1 DEF LearningType
<1>3. ASSUME NEW q \in Phrases, PickCharacter(q) PROVE Score(p)' >= Score(p)
  <2>1. book' = book /\ recent' = recent /\ now' = now
    BY <1>3 DEF PickCharacter
  <2>2. tier(recent, p)' = tier(recent, p)
    BY <2>1 DEF tier
  <2> QED BY <1>1, <1>2, <2>1, <2>2, TierIs, BetterScore
<1>4. ASSUME NEW q \in Phrases, NEW composed \in BOOLEAN, CommitCandidate(q, composed)
      PROVE  Score(p)' >= Score(p)
  <2>1. /\ picks' = Picked(q) /\ now' = now
        /\ book' = IF composed THEN Learned(q) ELSE book
        /\ recent' \in Truncated(With(recent, q, now))
    BY <1>4 DEF CommitCandidate, Commit
  <2>2. p = q
    BY <1>1, <1>2, <2>1 DEF Picked, LearningType
  <2>3. book[p] <= book'[p]
    <3>1. CASE composed
      <4>1. book' = [book EXCEPT ![q] = @ + 1] /\ book \in [Phrases -> Nat]
        BY <1>1, <2>1, <3>1 DEF Learned, LearningType
      <4>2. book'[p] = book[p] + 1
        BY <2>2, <4>1
      <4> QED BY <1>2, <4>2
    <3>2. CASE ~composed
      BY <1>2, <2>1, <3>2
    <3> QED BY <3>1, <3>2
  <2>4. tier(recent, p) <= tier(recent, p)'
    <3>1. CASE p \in DOMAIN recent
      <4>1. DOMAIN recent' = DOMAIN recent /\ recent'[p] = now
        BY <1>1, <2>1, <2>2, <3>1, Truncates DEF Words
      <4>2. now' - recent'[p] = 0
        BY <1>1, <2>1, <4>1 DEF LearningType
      <4>3. tier(recent, p)' = Cardinality(Within(0))
        BY <3>1, <4>1, <4>2 DEF tier, Within
      <4> QED BY <1>1, <4>3, LevelsAre, TierIs
    <3>2. CASE p \notin DOMAIN recent
      <4>1. tier(recent, p) = 0
        BY <3>2 DEF tier
      <4>2. tier(recent, p)' \in Nat
        BY <1>1, TierIsThen
      <4> QED BY <4>1, <4>2
    <3> QED BY <3>1, <3>2
  <2> QED BY <2>3, <2>4, BetterScore
<1>5. ASSUME NEW t \in Typed, NEW raw \in BOOLEAN, CommitTyped(t, raw) PROVE FALSE
  BY <1>2, <1>5 DEF CommitTyped
<1>6. ASSUME NEW w \in Words, Predict(w) PROVE FALSE
  BY <1>2, <1>6 DEF Predict
<1>7. CASE Execute
  BY <1>2, <1>7 DEF Execute, memory
<1>8. CASE Die
  BY <1>2, <1>8 DEF Die, Blank, NoUses
<1>9. CASE Start
  BY <1>9 DEF Start
<1>10. CASE Tick
  BY <1>2, <1>10 DEF Tick, memory
<1> QED BY <1>3, <1>4, <1>5, <1>6, <1>7, <1>8, <1>9, <1>10, Zenon DEF Next

-----------------------------------------------------------------------------
(* While no statement fails, what is stored and what the statements of the   *)
(* running key will store is what was learned (store/phrase_store.rs,        *)
(* recency_store.rs, en_dict_store.rs, l0_store.rs): a restart loses         *)
(* nothing, a crash at most the key in work.                                 *)
THEOREM LearningRestores == Spec => []RestartRestores
BY InitLearning, NextLearning, LearningRestoring, PTL DEF Spec

(* A word that was committed within the window is known, with the time of    *)
(* its last commit, across restarts (recency.rs), if nothing was lost.       *)
THEOREM LearningRemembers == Spec => []RecentIsBoosted
BY InitLearning, NextLearning, LearningKnowing, PTL DEF Spec

(* Using a word never makes it rank lower: neither the count of a learned    *)
(* phrase nor its level lowers its score (phrase.rs, recency.rs).            *)
THEOREM LearningFavorsUse == Spec => UseNeverDemotes
<1>1. LearningInv /\ LearningInv' /\ [Next]_vars =>
          [Cardinality(DOMAIN recent) <= MaxEntries =>
              \A p \in Phrases : picks'[p] > picks[p] /\ alive => Score(p)' >= Score(p)]_vars
  BY StepFavors DEF Favors, Favored
<1> QED BY <1>1, InitLearning, NextLearning, PTL DEF Spec, UseNeverDemotes

-----------------------------------------------------------------------------
(* The index of the dictionary.  What a decoder or a cache has of it.        *)
Whole(file, dict) ==
    /\ file.index = build_initials_index(dict)
    /\ file.max \in {0, TopWeight(dict)}

Versioned(file) ==
    file.is \in {"v1", "v2"} => \E d \in Dicts : file.size = Len(d) /\ Whole(file, d)

(* A cache with a header is whole and of a dictionary of the size it names;  *)
(* one without is only trusted beside the dictionary it was shipped with.    *)
CacheInv ==
    /\ fst \in Dicts /\ DOMAIN cache = {"beside", "data"}
    /\ ~torn => /\ Versioned(cache.beside) /\ Versioned(cache.data)
                /\ cache.beside.is = "legacy" => Whole(cache.beside, fst)
                /\ lattice.on => Whole(lattice, lattice.dict)

LEMMA CachedIsWhole ==
    ASSUME NEW version \in {"legacy", "v1", "v2"}, NEW d \in Dicts,
           NEW file, file = Cached(version, d)
    PROVE  file.is = version /\ Whole(file, d) /\ Versioned(file)
<1>1. /\ file.is = version /\ file.size = Len(d) /\ file.index = build_initials_index(d)
      /\ file.max \in {0, TopWeight(d)}
  BY DEF Cached
<1> QED BY <1>1 DEF Whole, Versioned

(* A cache that is taken is whole and of this dictionary.                    *)
LEMMA FreshIsWhole ==
    ASSUME CacheInv, ~torn,
           NEW file, NEW beside, Fresh(file, beside),
           (file = cache.beside /\ beside = TRUE) \/ (file = cache.data /\ beside = FALSE)
    PROVE  Whole(file, fst)
<1>1. CASE file.is \in {"v1", "v2"} /\ file.size = Len(fst)
  <2>1. PICK d \in Dicts : file.size = Len(d) /\ Whole(file, d)
    BY <1>1 DEF CacheInv, Versioned
  <2>2. d = fst
    BY <1>1, <2>1, NewSize DEF CacheInv
  <2> QED BY <2>1, <2>2
<1>2. CASE file.is = "legacy" /\ beside
  BY <1>2 DEF CacheInv
<1> QED BY <1>1, <1>2 DEF Fresh

LEMMA LoadedIsWhole ==
    ASSUME NEW file, NEW l, l = Loaded(file)
    PROVE  l.dict = fst /\ (Whole(file, fst) => Whole(l, l.dict))
<1>1. l.dict = fst /\ l.index = file.index /\ l.max = file.max
  BY DEF Loaded
<1> QED BY <1>1 DEF Whole

LEMMA PutKeeps ==
    ASSUME CacheInv, NEW file, Put(file)
    PROVE  /\ DOMAIN cache' = {"beside", "data"}
           /\ cache'.beside \in {cache.beside, file} /\ cache'.data \in {cache.data, file}
BY DEF Put, CacheInv

LEMMA NoLatticeIsOff == NoLattice.on = FALSE
BY DEF NoLattice

LEMMA CacheInitKeeps == CandidatesInit => CacheInv
<1> SUFFICES ASSUME CandidatesInit PROVE CacheInv
  OBVIOUS
<1>1. fst \in Dicts /\ lattice.on = FALSE
  BY NoLatticeIsOff DEF CandidatesInit
<1>2. PICK old \in Dicts :
          \/ \E b \in {NoCache, Cached("legacy", fst), Cached("v1", fst)} :
                cache = [beside |-> b, data |-> NoCache]
          \/ \E d \in {Cached("v1", old), Cached("legacy", old)} :
                cache = [beside |-> NoCache, data |-> d]
  BY DEF CandidatesInit
<1>3. NoCache.is = "none"
  BY DEF NoCache
<1>4. \A d \in Dicts : /\ Cached("legacy", d).is = "legacy" /\ Cached("v1", d).is = "v1"
                       /\ Whole(Cached("legacy", d), d)
                       /\ Versioned(Cached("legacy", d)) /\ Versioned(Cached("v1", d))
  BY CachedIsWhole
<1>5. Versioned(NoCache)
  BY <1>3 DEF Versioned
<1>6. DOMAIN cache = {"beside", "data"}
  BY <1>2
<1>7. Versioned(cache.beside) /\ Versioned(cache.data)
  BY <1>1, <1>2, <1>4, <1>5
<1>8. cache.beside.is = "legacy" => Whole(cache.beside, fst)
  BY <1>1, <1>2, <1>3, <1>4
<1> QED BY <1>1, <1>6, <1>7, <1>8 DEF CacheInv

LEMMA CacheNextKeeps == ASSUME CacheInv, [CandidatesNext]_candidatesVars PROVE CacheInv'
<1>1. CASE StartDecoder
  <2>1. fst' = fst /\ cache' = cache /\ torn' = torn
    BY <1>1 DEF StartDecoder
  <2>2. ASSUME ~torn PROVE Whole(lattice', lattice'.dict)
    <3>1. CASE Fresh(cache.beside, TRUE)
      BY <1>1, <2>2, <3>1, FreshIsWhole, LoadedIsWhole DEF StartDecoder
    <3>2. CASE ~Fresh(cache.beside, TRUE) /\ Fresh(cache.data, FALSE)
      BY <1>1, <2>2, <3>2, FreshIsWhole, LoadedIsWhole DEF StartDecoder
    <3>3. CASE ~Fresh(cache.beside, TRUE) /\ ~Fresh(cache.data, FALSE)
      <4>1. lattice' = Loaded(Cached("v2", fst))
        BY <1>1, <3>3 DEF StartDecoder
      <4> QED BY <4>1, CachedIsWhole, LoadedIsWhole DEF CacheInv
    <3> QED BY <3>1, <3>2, <3>3
  <2> QED BY <2>1, <2>2 DEF CacheInv, Versioned, Whole
<1>2. CASE Save
  <2>1. fst' = fst /\ lattice' = lattice /\ torn' = torn /\ Put(Cached("v2", fst))
    BY <1>2 DEF Save
  <2>2. PICK file : file = Cached("v2", fst)
    OBVIOUS
  <2>3. file.is = "v2" /\ Versioned(file)
    BY <2>2, CachedIsWhole DEF CacheInv
  <2>4. /\ DOMAIN cache' = {"beside", "data"}
        /\ cache'.beside \in {cache.beside, file} /\ cache'.data \in {cache.data, file}
    BY <2>1, <2>2, PutKeeps
  <2> QED BY <2>1, <2>3, <2>4 DEF CacheInv, Versioned, Whole
<1>3. CASE DieSaving
  <2>1. fst' = fst /\ torn' = TRUE /\ \E file : Put(file)
    BY <1>3 DEF DieSaving
  <2> QED BY <2>1, PutKeeps DEF CacheInv
<1>4. CASE StartWithout \/ Stop
  BY <1>4, NoLatticeIsOff DEF StartWithout, Stop, CacheInv, Versioned, Whole
<1>5. CASE Upgrade
  <2>1. PICK d \in Dicts : fst' = d
                           /\ cache' = IF cache.beside.is = "legacy"
                                       THEN [cache EXCEPT !.beside = Cached("legacy", d)] ELSE cache
    BY <1>5 DEF Upgrade
  <2>2. torn' = torn /\ lattice' = lattice
    BY <1>5 DEF Upgrade, typingVars
  <2>3. PICK file : file = Cached("legacy", d)
    OBVIOUS
  <2>4. file.is = "legacy" /\ Whole(file, d) /\ Versioned(file)
    BY <2>3, CachedIsWhole
  <2>5. CASE cache.beside.is = "legacy"
    <3>1. DOMAIN cache' = {"beside", "data"} /\ cache'.beside = file /\ cache'.data = cache.data
      BY <2>1, <2>3, <2>5 DEF CacheInv
    <3> QED BY <2>1, <2>2, <2>4, <3>1 DEF CacheInv, Versioned, Whole
  <2>6. CASE cache.beside.is # "legacy"
    BY <2>1, <2>2, <2>6 DEF CacheInv, Versioned, Whole
  <2> QED BY <2>5, <2>6
<1>6. CASE Type \/ Clear \/ CommitPartly \/ CommitOffered \/ CommitRaw \/ TimePasses
           \/ UNCHANGED candidatesVars
  <2>1. UNCHANGED dictVars
    <3>1. CASE CommitPartly
      BY <3>1 DEF CommitPartly
    <3>2. CASE CommitOffered
      BY <3>2 DEF CommitOffered
    <3>3. CASE Type \/ Clear \/ CommitRaw \/ TimePasses \/ UNCHANGED candidatesVars
      BY <3>3 DEF Type, Clear, CommitRaw, TimePasses, candidatesVars
    <3> QED BY <1>6, <3>1, <3>2, <3>3
  <2> QED BY <2>1 DEF dictVars, CacheInv, Versioned, Whole
<1> QED BY <1>1, <1>2, <1>3, <1>4, <1>5, <1>6 DEF CandidatesNext

(* The decoder never works with the index of another dictionary: for every   *)
(* dictionary, every cache an earlier version left, and every order of       *)
(* starts, upgrades, typing and deaths, until the write of a cache is torn.  *)
THEOREM IndexIsRight == CandidatesSpec => []IndexIsTheDictionarys
<1>1. CacheInv => IndexIsTheDictionarys
  BY DEF CacheInv, Whole, IndexIsTheDictionarys
<1> QED BY <1>1, CacheInitKeeps, CacheNextKeeps, PTL DEF CandidatesSpec
=============================================================================
