----------------------------- MODULE Candidates -----------------------------
(* Somebody types with the input method: the candidates of Ranking for the   *)
(* letters so far, what commits teach it, and the index of the dictionary,   *)
(* which is built once and kept in a cache file, beside the dictionary or in *)
(* the user's data directory (lattice.rs).  A process may die while it       *)
(* writes the cache, and the dictionary is replaced by an upgrade.           *)
EXTENDS Ranking, FiniteSets

CONSTANTS
    Dicts,         \* versions of the dictionary
    Inputs,        \* bound: what is typed is a prefix of one of these, and
                   \* committed when it is one of them
    MaxLearned,    \* bound: picks and commits
    EarlierPicks   \* bound: what the user picked before

ASSUME NoPinsYet == \A pick \in DOMAIN EarlierPicks : EarlierPicks[pick] \in 1..2

(* The header of a cache names the size of its dictionary: a new one has     *)
(* another size.                                                             *)
ASSUME NewSize == \A d, e \in Dicts : Len(d) = Len(e) => d = e

VARIABLES
    fst,       \* the dictionary on disk
    writable,  \* its directory can be written: a checkout, not a package
    cache,     \* the cache files
    engine,    \* "off", "saving" the cache, or "on"
    lattice,   \* the decoder
    typed,     \* the letters so far
    picked,    \* the characters picked one by one before them, and their letters
    user,      \* the user's data, in memory
    learned,   \* picks and commits so far
    \* ghosts
    torn       \* a process died while it wrote a cache

dictVars == <<fst, writable, cache, engine, lattice, torn>>
typingVars == <<typed, picked, user, learned>>
candidatesVars == <<dictVars, typingVars>>

NoCache == [is |-> "none", size |-> 0, max |-> 0, index |-> <<>>]
NoLattice == [on |-> FALSE, dict |-> <<>>, index |-> <<>>, max |-> 0]
NewUser == [book |-> <<>>, level |-> <<>>, last |-> [text |-> <<>>, code |-> <<>>],
            words |-> <<>>, picks |-> <<>>, pins |-> <<>>]
Nothing == [text |-> <<>>, code |-> <<>>]

Cached(version, dict) ==
    [is |-> version, size |-> Len(dict), index |-> build_initials_index(dict),
     max |-> IF version = "v2" THEN TopWeight(dict) ELSE 0]

(* Caches of earlier versions may be there: one without a header beside the  *)
(* dictionary it was shipped with, one without a maximum anywhere.           *)
CandidatesInit ==
    /\ fst \in Dicts /\ writable \in BOOLEAN
    /\ \E old \in Dicts :
          cache \in {[beside |-> b, data |-> NoCache] :
                        b \in {NoCache, Cached("legacy", fst), Cached("v1", fst)}}
                    \cup {[beside |-> NoCache, data |-> d] :
                        d \in {Cached("v1", old), Cached("legacy", old)}}
    /\ engine = "off" /\ lattice = NoLattice /\ torn = FALSE
    /\ typed = <<>> /\ picked = Nothing /\ learned = 0
    /\ user = [NewUser EXCEPT !.picks = EarlierPicks]

-----------------------------------------------------------------------------
(* The cache is trusted whatever its header says.                            *)
FreshAnyway(file, beside) == file.is # "none" /\ DOMAIN file.index # {}

(* try_load_cache: the size in the header must be that of the dictionary;    *)
(* one without a header is only trusted beside it.                           *)
Fresh(file, beside) ==
    /\ DOMAIN file.index # {}
    /\ \/ file.is \in {"v1", "v2"} /\ file.size = Len(fst)
       \/ file.is = "legacy" /\ beside

Loaded(file) == [on |-> TRUE, dict |-> fst, index |-> file.index, max |-> file.max]

(* LatticeDecoder::new: the first cache that is fresh, or a new index.       *)
StartDecoder ==
    /\ engine = "off"
    /\ IF Fresh(cache.beside, TRUE) THEN engine' = "on" /\ lattice' = Loaded(cache.beside)
       ELSE IF Fresh(cache.data, FALSE) THEN engine' = "on" /\ lattice' = Loaded(cache.data)
       ELSE engine' = "saving" /\ lattice' = Loaded(Cached("v2", fst))
    /\ UNCHANGED <<fst, writable, cache, torn, typingVars>>

Put(file) == cache' = IF writable THEN [cache EXCEPT !.beside = file] ELSE [cache EXCEPT !.data = file]

(* save_cache: to the first place that can be written.                       *)
Save ==
    /\ engine = "saving"
    /\ engine' = "on"
    /\ Put(Cached("v2", fst))
    /\ UNCHANGED <<fst, writable, lattice, torn, typingVars>>

(* The process dies in it (bound: once): some of the keys are in the file.   *)
DieSaving ==
    /\ engine = "saving" /\ ~torn /\ learned = 0
    /\ engine' = "off" /\ lattice' = NoLattice /\ torn' = TRUE
    /\ \E keys \in SUBSET DOMAIN lattice.index :
          Put([Cached("v2", fst) EXCEPT !.index = [k \in keys |-> lattice.index[k]]])
    /\ UNCHANGED <<fst, writable, typingVars>>

(* The dictionary cannot be read: the engine runs without it.                *)
StartWithout ==
    /\ engine = "off"
    /\ engine' = "on" /\ lattice' = NoLattice
    /\ UNCHANGED <<fst, writable, cache, torn, typingVars>>

(* The engine stops; its words come back from the database with the number   *)
(* of their uses for a score (see Learning), picks and pins as they were.    *)
Stop ==
    /\ engine = "on" /\ typed = <<>> /\ picked = Nothing
    /\ engine' = "off" /\ lattice' = NoLattice
    /\ user' = [user EXCEPT !.last = NewUser.last,
                            !.words = [i \in DOMAIN @ |-> [@[i] EXCEPT !.freq = 1]]]
    /\ UNCHANGED <<fst, writable, cache, torn, typed, picked, learned>>

(* An upgrade, of the package or of the checkout; a shipped cache without a  *)
(* header is replaced together with its dictionary.                          *)
Upgrade ==
    /\ engine = "off" /\ learned = 0
    /\ \E d \in Dicts \ {fst} :
          /\ fst' = d
          /\ cache' = IF cache.beside.is = "legacy"
                      THEN [cache EXCEPT !.beside = Cached("legacy", d)] ELSE cache
    /\ UNCHANGED <<writable, engine, lattice, torn, typingVars>>

-----------------------------------------------------------------------------
Ranked == rank_detailed(lattice, user, typed)

(* Bound: the dictionary is upgraded and a process dies before the first     *)
(* pick or commit, and these are where the cache is beside the dictionary.   *)
MayLearn == learned < MaxLearned /\ ~torn /\ writable /\ cache.data = NoCache

(* All letters since the last commit.                                        *)
Code == picked.code \o typed

Type ==
    /\ engine = "on"
    /\ \E input \in Inputs :
          /\ IsStrictPrefix(Code, input)
          /\ typed' = Append(typed, input[Len(Code) + 1])
    /\ UNCHANGED <<dictVars, picked, user, learned>>

(* What was picked of a composition that is given up stays counted.          *)
Clear ==
    /\ Code # <<>>
    /\ typed' = <<>> /\ picked' = Nothing
    /\ UNCHANGED <<dictVars, user, learned>>

(* The level of a word that was just used.                                   *)
Used(u, text) ==
    [u EXCEPT !.level = [w \in DOMAIN @ \cup {text} |-> IF w = text THEN 5 ELSE @[w]]]

Chinese(text) == \E s \in Syllables : \E i \in DOMAIN Lookup[s] : Lookup[s][i][1] = text[1]

(* PinyinFamily::record_pick: the library counts it, and it is the last      *)
(* commit.                                                                   *)
Notes(u, code, text) ==
    [record_pick(u, code, text) EXCEPT !.last = [text |-> text, code |-> code]]

(* first_syllable: the longest one.                                          *)
FirstSyllable(input) ==
    LET ends == {i \in DOMAIN input : SubSeq(input, 1, i) \in Syllables}
    IN  IF ends = {} THEN <<>>
        ELSE SubSeq(input, 1, CHOOSE i \in ends : \A j \in ends : j <= i)

(* A partial commit: a character for the first of several syllables.  They   *)
(* are looked up in an engine of the state machine's own, which no pick      *)
(* teaches.                                                                  *)
CommitPartly ==
    LET first == FirstSyllable(typed)
    IN  /\ first \notin {<<>>, typed} /\ MayLearn
        /\ \E i \in DOMAIN Lookup[first] :
              /\ user' = Notes(user, first, Lookup[first][i])
              /\ picked' = [text |-> picked.text \o Lookup[first][i], code |-> picked.code \o first]
        /\ typed' = SubSeq(typed, Len(first) + 1, Len(typed))
        /\ learned' = learned + 1
        /\ UNCHANGED dictVars

(* learn_composed_phrase: what was composed goes to the book; no emoji does. *)
Composes(u, code, text) ==
    LET there == {i \in DOMAIN u.book : u.book[i].code = code /\ u.book[i].text = text}
    IN  [u EXCEPT !.book = IF there = {} THEN Append(@, [code |-> code, text |-> text, count |-> 1])
                           ELSE [@ EXCEPT ![First(there)].count = @ + 1]]

(* A candidate is committed, with what was picked before it; only the pinyin *)
(* family counts the pick and notes the last commit.                         *)
CommitOffered ==
    /\ Code \in Inputs /\ MayLearn
    /\ \E offered \in {c.text : c \in ToSet(Ranked)} :
          LET text == picked.text \o offered
              noted == IF Chinese(offered) THEN Notes(user, Code, text) ELSE user
              composed == picked # Nothing /\ \A e \in ToSet(Emoji) : e.emoji # offered
          IN  user' = Used(IF composed THEN Composes(noted, Code, text) ELSE noted, text)
    /\ typed' = <<>> /\ picked' = Nothing /\ learned' = learned + 1
    /\ UNCHANGED dictVars

(* merge_into_user: the best score stays.                                    *)
Learn(words, word) ==
    LET there == {i \in DOMAIN words : words[i].word = word}
    IN  IF there = {} THEN Append(words, [word |-> word, freq |-> 10000])
        ELSE [words EXCEPT ![First(there)].freq = 10000]

(* The letters are committed as they are; without characters before them     *)
(* they are learned.                                                         *)
CommitRaw ==
    /\ typed # <<>> /\ Code \in Inputs /\ MayLearn
    /\ LET used == Used(user, picked.text \o typed)
       IN  user' = IF picked = Nothing THEN [used EXCEPT !.words = Learn(@, typed)] ELSE used
    /\ typed' = <<>> /\ picked' = Nothing /\ learned' = learned + 1
    /\ UNCHANGED dictVars

(* Time passes: all words used so far fall to the lowest level.              *)
TimePasses ==
    /\ \E t \in DOMAIN user.level : user.level[t] > 1
    /\ user' = [user EXCEPT !.level = [t \in DOMAIN @ |-> 1]]
    /\ UNCHANGED <<dictVars, typed, picked, learned>>

CandidatesNext ==
    \/ StartDecoder \/ StartWithout \/ Save \/ DieSaving \/ Stop \/ Upgrade
    \/ Type \/ Clear \/ CommitPartly \/ CommitOffered \/ CommitRaw \/ TimePasses

CandidatesSpec == CandidatesInit /\ [][CandidatesNext]_candidatesVars

-----------------------------------------------------------------------------
(* The decoder never works with the index of another dictionary, wherever    *)
(* it found it and whatever was upgraded, unless the write of a cache was    *)
(* torn: nothing tells half a cache from a whole one.                        *)
IndexIsTheDictionarys ==
    lattice.on /\ ~torn =>
        /\ lattice.index = build_initials_index(lattice.dict)
        /\ lattice.max \in {0, TopWeight(lattice.dict)}

(* A candidate is offered with at least a score, or as many as its family    *)
(* may send into the competition (top_n) keep it out, none of them worse.    *)
CrowdedOut(best, family, c) ==
    Len(best[family]) = TopN[family] /\ \A d \in ToSet(best[family]) : d.score >= c.score


(* What was learned lowers nothing: whatever somebody new is offered, the    *)
(* user is, with at least the same score.  There are two exceptions.  A pin  *)
(* that the library set costs the other characters of its syllable at most   *)
(* one place, and a word committed as typed falls behind when the engine was *)
(* restarted.                                                                *)
Unpinned(c) ==
    IF typed \in DOMAIN user.pins \cap Syllables /\ user.pins[typed] # c.text
    THEN [c EXCEPT !.score = @ - FamilyPriorities["pinyin"] * (500 \div Len(Lookup[typed]) + 1)]
    ELSE c

OnlyPinsLower ==
    typed # <<>> =>
        LET new == FamilyBests(lattice, NewUser, typed)
            mine == FamilyBests(lattice, user, typed)
            ranked == Merged(mine)
        IN  \A family \in DOMAIN TopN : \A c \in {Unpinned(d) : d \in ToSet(new[family])} :
                \/ ScoreIn(ranked, c.text) >= c.score
                \/ CrowdedOut(mine, family, c)
                \/ \E w \in ToSet(user.words) : w.word = c.text /\ w.freq < 10000
=============================================================================
