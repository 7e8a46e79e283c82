------------------------------ MODULE Learning ------------------------------
(* What the input method learns from commits: the phrase book, the words     *)
(* used lately, the English words and the pick counters, in memory           *)
(* (family/pinyin/mod.rs, family/english.rs, recency.rs) and in SQLite       *)
(* (store/), where every statement commits by itself and its error is        *)
(* ignored.  A key is handled to its end, so an operation changes the        *)
(* memory at once and leaves its statements in todo; the process may die     *)
(* between two of them.                                                      *)
EXTENDS Integers, Sequences, SequencesExt

CONSTANTS
    Phrases,      \* words of Chinese characters
    Presets,      \* those that are in the book from the beginning
    Typed,        \* ASCII words, committed as they are typed
    MaxEntries,   \* MAX_ENTRIES: the words used lately that are kept
    Limits,       \* ages, T10S to T3D: a word gains a level for each one it is within
    DictScore,    \* score of a phrase in the dictionaries, in thousandths
    MaxNow,       \* bound: the clock
    MaxUses       \* bound: picks in all, and typed words stored in all

ASSUME LearningAssumption ==
    /\ Presets \subseteq Phrases
    /\ MaxEntries \in Nat \ {0} /\ MaxNow \in Nat /\ MaxUses \in Nat
    /\ Limits \subseteq Nat /\ IsFiniteSet(Limits) /\ Limits # {}
    /\ Cardinality(Limits) <= 5
    /\ DictScore \in 0..1000

VARIABLES
    alive,    \* the engine is running
    store,    \* it has the database: warm_all() ran
    now,      \* wall-clock time
    book,     \* book[p]: uses of phrase p, 0 when it is not in the book
    recent,   \* the words used lately, each with its time
    english,  \* english[t]: score of t among the user's English words, or 0
    picks,    \* picks[p]: picks of p in the model of the pinyin engine
    db,       \* the tables
    todo,     \* statements of the current key that have yet to run
    \* ghosts
    last,     \* the time of each word's last commit
    failed,   \* a statement of this process failed
    lossy     \* a statement failed, the process died in a key, it ran without
              \* the database, or the words used lately were cut

memory == <<book, recent, english, picks>>
ghosts == <<last, failed, lossy>>
vars == <<alive, store, now, memory, db, todo, ghosts>>

Words == Phrases \cup Typed
Window == CHOOSE l \in Limits : \A m \in Limits : m <= l
Without(f, w) == [v \in DOMAIN f \ {w} |-> f[v]]
With(f, w, x) == [v \in DOMAIN f \cup {w} |-> IF v = w THEN x ELSE f[v]]

-----------------------------------------------------------------------------
(* RecentStore.                                                              *)
(* Beyond the limit the oldest entries stay: sorted by time, then truncated. *)
Truncated(entries) ==
    IF Cardinality(DOMAIN entries) <= MaxEntries THEN {entries}
    ELSE {[w \in kept |-> entries[w]] : kept \in
             {k \in SUBSET DOMAIN entries :
                 /\ Cardinality(k) = MaxEntries
                 /\ \A w \in k, v \in DOMAIN entries \ k : entries[w] <= entries[v]}}

tier(entries, w) ==
    IF w \in DOMAIN entries THEN Cardinality({l \in Limits : now - entries[w] <= l}) ELSE 0

(* Entries on the edge of the window are dropped.                            *)
LoadsYounger(entries) ==
    LET young == {w \in DOMAIN entries : now - entries[w] < Window}
    IN  [w \in young |-> entries[w]]

load_bulk(entries) ==
    LET young == {w \in DOMAIN entries : now - entries[w] <= Window}
    IN  [w \in young |-> entries[w]]

(* The score of an exact match: book_score() of a learned phrase, unless   *)
(* the dictionary's is higher, then the boost for words used lately (the      *)
(* bonus for words of two characters aside).                                 *)
book_score(count) == IF count > 9 THEN 880 ELSE 700 + 20 * (count - 1)
Score(p) ==
    LET a == IF book[p] > 0 /\ book_score(book[p]) > DictScore
             THEN book_score(book[p]) ELSE DictScore
        b == tier(recent, p)
    IN  IF b = 0 THEN a ELSE ((1000 - a) * (a + 1000 * b)) \div 8000 + a

-----------------------------------------------------------------------------
Stmt(op, w, at) == [op |-> op, word |-> w, at |-> at]

(* A phrase that is already in the book is put there anew.                   *)
LearnedAnew(p) == [book EXCEPT ![p] = 1]

(* learn_phrase_inner: a known phrase is counted, a new one inserted.        *)
Learned(p) == [book EXCEPT ![p] = @ + 1]

(* A new phrase is counted in the table, too.                                *)
CountStmt(p) == Stmt("bump", p, 0)

BookStmt(p) == Stmt(IF book[p] > 0 THEN "bump" ELSE "phrase", p, 0)

Ready == alive /\ todo = <<>>
Sum(f) == FoldFunction(LAMBDA n, total : n + total, 0, f)

(* What every commit ends with: record_commit() notes the word, and saves    *)
(* the whole table, row by row in any order, after deleting it.              *)
Commit(w, before, after) ==
    /\ recent' \in Truncated(With(recent, w, now))
    /\ last' = With(last, w, now)
    /\ lossy' = (lossy \/ ~store \/ DOMAIN recent' # DOMAIN recent \cup {w})
    /\ \E rows \in SetToSeqs(DOMAIN recent') :
          todo' = IF ~store THEN <<>>
                  ELSE before \o <<Stmt("clear", w, 0)>>
                        \o [i \in DOMAIN rows |-> Stmt("row", rows[i], recent'[rows[i]])] \o after

Picked(p) == [picks EXCEPT ![p] = @ + 1]

(* A character is picked on the way: only the pinyin engine learns.          *)
PickCharacter(p) ==
    /\ Ready /\ Sum(picks) < MaxUses
    /\ picks' = Picked(p)
    /\ todo' = IF store THEN <<Stmt("l0", p, picks'[p])>> ELSE <<>>
    /\ lossy' = (lossy \/ ~store)
    /\ UNCHANGED <<alive, store, now, book, recent, english, db, last, failed>>

(* A candidate of the pinyin family is committed; one that was composed      *)
(* character by character enters the book.                                   *)
CommitCandidate(p, composed) ==
    /\ Ready /\ Sum(picks) < MaxUses
    /\ picks' = Picked(p)
    /\ book' = IF composed THEN Learned(p) ELSE book
    /\ Commit(p, <<Stmt("l0", p, picks'[p])>> \o (IF composed THEN <<BookStmt(p)>> ELSE <<>>), <<>>)
    /\ UNCHANGED <<alive, store, now, english, db, failed>>

(* An English candidate is committed, or the text as it was typed, which     *)
(* becomes a word of the user with the best score.                           *)
CommitTyped(t, raw) ==
    /\ Ready
    /\ english' = IF raw THEN [english EXCEPT ![t] = 10000] ELSE english
    /\ Commit(t, <<>>, IF raw THEN <<Stmt("en", t, 0)>> ELSE <<>>)
    /\ raw => Sum(db.en) < MaxUses
    /\ UNCHANGED <<alive, store, now, book, picks, db, failed>>

(* A prediction asks for the level of a word, and drops it if it is expired. *)
Predict(w) ==
    /\ Ready /\ w \in DOMAIN recent /\ tier(recent, w) = 0
    /\ recent' = Without(recent, w)
    /\ UNCHANGED <<alive, store, now, book, english, picks, db, todo, ghosts>>

-----------------------------------------------------------------------------
(* Bound: things are lost once, by a statement that fails, a crash between   *)
(* two, a start without the database, or a cut.                              *)
MayFail == ~lossy

(* The next statement runs.  A row whose word is still there conflicts with  *)
(* it, and a count that is increased needs a row.                            *)
After(stmt) ==
    CASE stmt.op = "l0" -> [db EXCEPT !.l0 = picks]
      [] stmt.op = "phrase" -> [db EXCEPT !.phrases[stmt.word] = IF @ = 0 THEN 1 ELSE @]
      [] stmt.op = "bump" -> [db EXCEPT !.phrases[stmt.word] = IF @ = 0 THEN 0 ELSE @ + 1]
      [] stmt.op = "clear" -> [db EXCEPT !.recency = <<>>]
      [] stmt.op = "row" -> [db EXCEPT !.recency = IF stmt.word \in DOMAIN @ THEN @
                                                   ELSE With(@, stmt.word, stmt.at)]
      [] stmt.op = "en" -> [db EXCEPT !.en[stmt.word] = @ + 1]

Execute ==
    /\ todo # <<>>
    /\ todo' = Tail(todo)
    /\ \/ db' = After(Head(todo)) /\ UNCHANGED <<failed, lossy>>
       \/ MayFail /\ db' = db /\ failed' = TRUE /\ lossy' = TRUE
    /\ UNCHANGED <<alive, store, now, memory, last>>

NoUses == [p \in Phrases |-> 0]
Blank == book' = NoUses /\ recent' = <<>> /\ english' = [t \in Typed |-> 0] /\ picks' = NoUses

(* The process ends, between keys or in one.                                 *)
Die ==
    /\ alive /\ (todo = <<>> \/ MayFail)
    /\ alive' = FALSE /\ store' = FALSE /\ todo' = <<>>
    /\ Blank
    /\ lossy' = (lossy \/ todo # <<>>)
    /\ UNCHANGED <<now, db, last, failed>>

(* The phrases that come with the program, and those stored over them.       *)
BuiltIn == [p \in Phrases |-> IF p \in Presets THEN 1 ELSE 0]
Warmed == [p \in Phrases |-> IF db.phrases[p] > 0 THEN db.phrases[p] ELSE BuiltIn[p]]

(* init_store(), warm_all(): what is stored over what is built in.  Without  *)
(* the database the engine runs, and learns nothing for good.                *)
Start ==
    /\ ~alive /\ alive' = TRUE /\ failed' = FALSE
    /\ store' \in BOOLEAN /\ (store' \/ MayFail)
    /\ IF store'
       THEN /\ book' = Warmed
            /\ recent' = load_bulk(db.recency)
            /\ english' = db.en
            /\ picks' = db.l0
            /\ UNCHANGED lossy
       ELSE /\ book' = BuiltIn
            /\ recent' = <<>> /\ english' = [t \in Typed |-> 0] /\ picks' = NoUses
            /\ lossy' = TRUE
    /\ UNCHANGED <<now, db, todo, last>>

(* The statements of a key carry its own time, so the clock may wait for     *)
(* them.                                                                     *)
Tick ==
    /\ now < MaxNow /\ todo = <<>>
    /\ now' = now + 1
    /\ UNCHANGED <<alive, store, memory, db, todo, ghosts>>

Init ==
    /\ alive = FALSE /\ store = FALSE /\ now = 0
    /\ book = NoUses /\ recent = <<>> /\ english = [t \in Typed |-> 0] /\ picks = NoUses
    /\ db = [phrases |-> NoUses, recency |-> <<>>, en |-> [t \in Typed |-> 0], l0 |-> NoUses]
    /\ todo = <<>> /\ last = <<>> /\ failed = FALSE /\ lossy = FALSE

Next ==
    \/ \E p \in Phrases : PickCharacter(p) \/ \E composed \in BOOLEAN : CommitCandidate(p, composed)
    \/ \E t \in Typed, raw \in BOOLEAN : CommitTyped(t, raw)
    \/ \E w \in Words : Predict(w)
    \/ Execute \/ Die \/ Start \/ Tick

Spec == Init /\ [][Next]_vars

-----------------------------------------------------------------------------
Pending(op, w) == Cardinality({i \in DOMAIN todo : todo[i].op = op /\ todo[i].word = w})

(* A restart loses nothing that was learned, and a crash at most the key in  *)
(* work: while no statement fails, the tables and the statements to come     *)
(* amount to the memory.  Not so for built-in phrases, whose counts have no  *)
(* row, and for the scores of English words, which come back as counts.      *)
RestartRestores ==
    alive /\ store /\ ~failed =>
        /\ \A p \in Phrases \ Presets :
              book[p] = db.phrases[p] + Pending("bump", p) + Pending("phrase", p)
        /\ \A t \in Typed : english[t] > 0 <=> db.en[t] + Pending("en", t) > 0
        /\ (todo = <<>>) =>
              /\ db.l0 = picks
              /\ \A w \in DOMAIN recent : w \in DOMAIN db.recency /\ db.recency[w] = recent[w]
              /\ \A w \in DOMAIN db.recency \ DOMAIN recent : now - db.recency[w] > Window

(* A word that was committed within the window is known with the time of its *)
(* last commit, across restarts, if nothing was lost on the way.             *)
RecentIsBoosted ==
    alive /\ ~lossy =>
        \A w \in DOMAIN last :
            now - last[w] <= Window => w \in DOMAIN recent /\ recent[w] = last[w]

(* Using a word never makes it rank lower.  (Unless the table came back too  *)
(* long from a clear that had failed: then it may be the word that is cut.)  *)
UseNeverDemotes ==
    [][Cardinality(DOMAIN recent) <= MaxEntries =>
          \A p \in Phrases : picks'[p] > picks[p] /\ alive => Score(p)' >= Score(p)]_vars
=============================================================================
