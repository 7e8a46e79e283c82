------------------------------ MODULE Ranking ------------------------------
(* The candidates for what is typed, and their order: the pinyin, English    *)
(* and emoji families (crates/ime-core/src/family) and the scorer that       *)
(* merges them.  The user's data is a record: the phrase book, the level of  *)
(* each word used lately, the last commit, the words learned as typed, and   *)
(* the pinyin library's own count of what was picked under which code, with  *)
(* the texts it has pinned.                                                  *)
EXTENDS Lattice

CONSTANTS
    Lookup,                 \* the characters of each syllable, in the order of the library
    EnglishRows,            \* the embedded English words with their grades, by alphabet
    EmojiTable, EmojiRows,  \* keywords: the built-in table, and the rows that are loaded
    ContextAware,           \* input.context_aware
    TopN                    \* candidates that each family sends into the competition

ASSUME RankingAssumption ==
    /\ DOMAIN Lookup = Syllables
    /\ TopN \in [{"pinyin", "english", "emoji"} -> Nat]

Candidate(text, score) == [text |-> text, score |-> score]
ByScore(candidates) == SortBy(candidates, LAMBDA c, d : c.score > d.score)

Find(candidates, text) == {i \in DOMAIN candidates : candidates[i].text = text}
First(is) == CHOOSE i \in is : \A j \in is : i <= j

(* A text that is there already stays as it is.                              *)
AddNew(candidates, c) ==
    IF Find(candidates, c.text) = {} THEN Append(candidates, c) ELSE candidates

(* The score of a text that is there already is raised, never lowered.       *)
Raise(candidates, c) ==
    LET there == Find(candidates, c.text)
    IN  IF there = {} THEN Append(candidates, c)
        ELSE [candidates EXCEPT ![First(there)].score = IF c.score > @ THEN c.score ELSE @]

(* A phrase of the book always takes the place.                              *)
PromoteAlways(candidates, c) ==
    Append(SelectSeq(candidates, LAMBDA d : d.text # c.text), c)

(* A phrase of the book takes the place of a candidate with a lower score.   *)
Promote(candidates, c) ==
    LET there == Find(candidates, c.text)
    IN  IF there # {} /\ candidates[First(there)].score >= c.score THEN candidates
        ELSE Append(SelectSeq(candidates, LAMBDA d : d.text # c.text), c)

-----------------------------------------------------------------------------
(* prefix_decay: the first three letters that are missing are free.          *)
prefix_decay(missing) ==
    LET d[n \in Nat] == IF n <= 3 THEN 1000 ELSE (d[n - 1] * 85) \div 100 IN d[missing]

Completion(lattice, input, e) ==
    Candidate(e.text, (freq_to_score(lattice, e.weight) * 3 * prefix_decay(Len(e.code) - Len(input)))
                         \div 4000)

(* Those of the dictionary; a match of initials counts half.                 *)
Hits(lattice, m) ==
    [i \in DOMAIN m.entries |->
        Candidate(m.entries[i].text,
                  freq_to_score(lattice, m.entries[i].weight) \div (IF m.kind = "full" THEN 1 ELSE 2))]

Completions(lattice, input, entries) ==
    [i \in DOMAIN entries |-> Completion(lattice, input, entries[i])]

(* top_k_compositions: the library composes words that no dictionary has.    *)
Composed(syllables) ==
    IF syllables = <<>> THEN <<>>
    ELSE <<Candidate(FlattenSeq([i \in DOMAIN syllables |-> Lookup[syllables[i]][1]]), 400)>>

(* The library counts each pick and pins a text to its code with the third.  *)
record_pick(user, code, text) ==
    LET pick == <<code, text>>
        count == IF pick \in DOMAIN user.picks THEN user.picks[pick] + 1 ELSE 1
    IN  [user EXCEPT !.picks = (pick :> count) @@ @,
                     !.pins = IF count >= 3 THEN (code :> text) @@ @ ELSE @]

(* The characters of a syllable: the pinned one first.                       *)
lookup(user, syllable) ==
    IF syllable \notin DOMAIN user.pins THEN Lookup[syllable]
    ELSE LET pin == user.pins[syllable]
         IN  <<pin>> \o SelectSeq(Lookup[syllable], LAMBDA text : text # pin)

(* Characters lose with each place: they have 850 thousandths to begin with, *)
(* and the last has little more than 350.                                    *)
ByPlace(texts) ==
    [i \in DOMAIN texts |-> Candidate(texts[i], 850 - (500 * (i - 1)) \div Len(texts))]

(* The candidates without the user's phrases.                                *)
Base(lattice, user, input) ==
    IF input \in Syllables THEN ByPlace(lookup(user, input))
    ELSE FoldLeft(AddNew,
            IF lattice.on THEN FoldLeft(Raise, Hits(lattice, predict(lattice, input)),
                                        Completions(lattice, input, predict_prefix(lattice, input)))
            ELSE <<>>,
            Composed(segment(input)))

phrase_score(count) == IF count > 9 THEN 880 ELSE IF count = 0 THEN 700 ELSE 680 + 20 * count

Exact(found) == [i \in DOMAIN found |-> Candidate(found[i].text, phrase_score(found[i].count))]

(* Initials look the count up under the initials, where there is none.       *)
Short(found) == [i \in DOMAIN found |-> Candidate(found[i].text, (phrase_score(0) * 95) \div 100)]

Abbreviates(input, syllables) == Len(syllables) >= 2 /\ Initials(syllables) = input

WithPhrases(book, input, base) ==
    FoldLeft(AddNew,
        FoldLeft(Promote, base, Exact(SelectSeq(book, LAMBDA p : p.code = input))),
        Short(SelectSeq(book, LAMBDA p : Abbreviates(input, segment(p.code)))))

TwoCharactersFirst(candidates) ==
    [i \in DOMAIN candidates |->
        IF Len(candidates[i].text) = 2
        THEN [candidates[i] EXCEPT !.score = IF @ + 10 > 1000 THEN 1000 ELSE @ + 10]
        ELSE candidates[i]]

(* PinyinFamily::predict.                                                    *)
PinyinPlain(lattice, user, input) ==
    ByScore(TwoCharactersFirst(WithPhrases(user.book, input, Base(lattice, user, input))))

(* z = (1 - a)(a + b) / 8 + a, for a word on level b.                        *)
Boosted(user, c) ==
    LET b == user.level[c.text]
    IN  IF b = 0 THEN c
        ELSE [c EXCEPT !.score = ((1000 - @) * (@ + 1000 * b)) \div 8000 + @]

AllBoosted(user, plain) ==
    [i \in DOMAIN plain |-> IF plain[i].text \in DOMAIN user.level
                            THEN Boosted(user, plain[i]) ELSE plain[i]]

(* What is left of words that begin with the last commit, with the weight of *)
(* the whole word.                                                           *)
TailsOf(lattice, user, whole) ==
    [i \in DOMAIN whole |->
        Candidate(SubSeq(whole[i].text, Len(user.last.text) + 1, Len(whole[i].text)),
                  freq_to_score(lattice, whole[i].weight))]

Tails(lattice, user, input) ==
    IF user.last.text = <<>> \/ ~lattice.on THEN <<>>
    ELSE TailsOf(lattice, user,
                 SelectSeq(words_for(lattice, user.last.code \o input),
                           LAMBDA e : IsStrictPrefix(user.last.text, e.text)))

(* predict_with_context.                                                     *)
InContext(lattice, user, input, plain) ==
    IF plain = <<>> \/ ~ContextAware THEN plain
    ELSE ByScore(FoldLeft(Raise, AllBoosted(user, plain), Tails(lattice, user, input)))

Pinyin(lattice, user, input) ==
    InContext(lattice, user, input, PinyinPlain(lattice, user, input))

-----------------------------------------------------------------------------
(* EnglishFamily.                                                            *)
GradeScore(freq) ==
    CASE freq >= 9000 -> 900 [] freq >= 7000 -> 700 [] freq >= 5000 -> 500
      [] freq >= 3000 -> 350 [] OTHER -> 250

Full(w, input, ratio) ==
    IF w.word = input THEN 880
    ELSE 600 + (250 * GradeScore(w.freq) * ratio * Len(input)) \div (1000000 * Len(w.word))

Layer(found, input, ratio, short_penalty) ==
    [i \in DOMAIN found |->
        Candidate(found[i].word,
            (Full(found[i], input, ratio)
               * (IF short_penalty /\ Len(found[i].word) <= 2 THEN 6 ELSE 10)) \div 10)]

query_layer(words, input, ratio, short_penalty) ==
    Layer(SelectSeq(words, LAMBDA w : IsPrefix(input, w.word)), input, ratio, short_penalty)

(* The grades of the word list; of a word that is there twice the best.      *)
grade_to_score(grade) ==
    CASE grade = 10 -> 10000 [] grade < 20 -> 9500 [] grade = 20 -> 9000 [] grade < 35 -> 8000
      [] grade = 35 -> 7000 [] grade = 40 -> 6000 [] grade < 50 -> 5500 [] grade = 50 -> 5000
      [] grade = 55 -> 4500 [] grade = 60 -> 4000 [] grade = 70 -> 3000 [] grade = 95 -> 1000
      [] OTHER -> 2000

parse_and_normalize(rows) ==
    LET put(words, row) ==
            LET w == [word |-> row.word, freq |-> grade_to_score(row.grade)]
                there == {i \in DOMAIN words : words[i].word = row.word}
            IN  IF Len(row.word) < 2 THEN words
                ELSE IF there = {} THEN Append(words, w)
                ELSE [words EXCEPT ![First(there)].freq = IF w.freq > @ THEN w.freq ELSE @]
    IN  FoldLeft(put, <<>>, rows)

English == parse_and_normalize(EnglishRows)

(* A word of the user hides the embedded one.                                *)
EnglishFamily(user, input) ==
    Take(ByScore(FoldLeft(AddNew, query_layer(user.words, input, 660, FALSE),
                          query_layer(English, input, 600, TRUE))), 16)

(* A keyword that is loaded again keeps its place and changes its emoji.     *)
merge(entries, row) ==
    LET there == {i \in DOMAIN entries : entries[i].word = row.word}
    IN  IF there = {} THEN Append(entries, row)
        ELSE [entries EXCEPT ![First(there)].emoji = row.emoji]

Emoji == FoldLeft(merge, EmojiTable, EmojiRows)

(* EmojiFamily: one letter finds none, short keywords count as prefixes.     *)
Emojis(found, input) ==
    [i \in DOMAIN found |->
        Candidate(found[i].emoji,
            IF found[i].word = input /\ Len(input) > 2 THEN 1000
            ELSE (600 * prefix_decay(Len(found[i].word) - Len(input))) \div 1000)]

EmojiFamily(input) ==
    IF Len(input) < 2 THEN <<>>
    ELSE ByScore(Emojis(SelectSeq(Emoji, LAMBDA e : IsPrefix(input, e.word)), input))

(* UnifiedScorer::rank_detailed: the best of each family, weighted by its    *)
(* priority; of equal texts the first stays.                                 *)
FamilyPriorities == [pinyin |-> 100, english |-> 70, emoji |-> 60]
Weighted(best, priority) ==
    [i \in DOMAIN best |-> [best[i] EXCEPT !.score = @ * priority]]
Competing(family, candidates) ==
    Weighted(Take(ByScore(candidates), TopN[family]), FamilyPriorities[family])

Found(family, lattice, user, input) ==
    CASE family = "pinyin" -> Pinyin(lattice, user, input)
      [] family = "english" -> EnglishFamily(user, input)
      [] family = "emoji" -> EmojiFamily(input)

FamilyBests(lattice, user, input) ==
    [family \in DOMAIN TopN |-> Competing(family, Found(family, lattice, user, input))]

Merged(best) == FoldLeft(AddNew, <<>>, ByScore(best["pinyin"] \o best["english"] \o best["emoji"]))

rank_detailed(lattice, user, input) ==
    IF input = <<>> THEN <<>> ELSE Merged(FamilyBests(lattice, user, input))

(* The score of a text among the candidates, 0 if it is not there.           *)
ScoreIn(ranked, text) ==
    LET there == Find(ranked, text) IN IF there = {} THEN 0 ELSE ranked[First(there)].score
=============================================================================
