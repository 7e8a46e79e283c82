------------------------------ MODULE Lattice ------------------------------
(* The dictionary decoder of the pinyin family                               *)
(* (crates/ime-core/src/family/pinyin/lattice.rs): what it makes of the      *)
(* letters typed so far, and the index of initials it looks words up by.     *)
(* Letters and characters are strings; codes and words are sequences of      *)
(* them.  Scores are in thousandths.                                         *)
EXTENDS Integers, Sequences, SequencesExt, TLC

CONSTANTS
    Syllables,      \* the valid syllables
    IndexCap,       \* words kept for one sequence of initials (128)
    MatchTake,      \* words offered that match what is typed (96)
    PrefixTake,     \* completions offered (16)
    LegacyMax       \* log2 of the weight a cache without a maximum stands for

ASSUME LatticeAssumption ==
    /\ Syllables \subseteq Seq(STRING) \ {<<>>}
    /\ {IndexCap, MatchTake, PrefixTake, LegacyMax} \subseteq Nat \ {0}

(* An entry of the dictionary: its code, its word, and the binary logarithm  *)
(* of its weight.  A dictionary is a sequence in the order of the codes.     *)
Entry(code, text, weight) == [code |-> code, text |-> text, weight |-> weight]

Take(s, n) == SubSeq(s, 1, IF Len(s) < n THEN Len(s) ELSE n)

(* sort_by: a stable sort.                                                   *)
SortBy(s, Before(_, _)) ==
    LET order == SortSeq([i \in DOMAIN s |-> i],
                         LAMBDA i, j : Before(s[i], s[j]) \/ (~Before(s[j], s[i]) /\ i < j))
    IN  [i \in DOMAIN s |-> s[order[i]]]

ByWeight(entries) == SortBy(entries, LAMBDA e, f : e.weight > f.weight)

-----------------------------------------------------------------------------
(* The longest syllable at each place, or one letter where there is none.    *)
greedy_parse(input) ==
    LET cut[i \in 1..Len(input) + 1] ==
            IF i > Len(input) THEN <<>>
            ELSE LET ends == {j \in i..Len(input) : SubSeq(input, i, j) \in Syllables}
                     last == IF ends = {} THEN i ELSE CHOOSE j \in ends : \A k \in ends : k <= j
                 IN  <<SubSeq(input, i, last)>> \o cut[last + 1]
    IN  cut[1]

(* The segmentation of the pinyin library: syllables only, the longest first *)
(* that leaves something segmentable; empty if there is none.                *)
segment(code) ==
    LET cut[i \in 1..Len(code) + 1] ==
            IF i > Len(code) THEN <<>>
            ELSE LET ends == {j \in i..Len(code) :
                                /\ SubSeq(code, i, j) \in Syllables
                                /\ j = Len(code) \/ cut[j + 1] # <<>>}
                 IN  IF ends = {} THEN <<>>
                     ELSE LET last == CHOOSE j \in ends : \A k \in ends : k <= j
                          IN  <<SubSeq(code, i, last)>> \o cut[last + 1]
    IN  cut[1]

Initials(segments) == [i \in DOMAIN segments |-> segments[i][1]]

pattern_match(code, segments) ==
    LET syllables == segment(code)
    IN  /\ Len(syllables) >= Len(segments)
        /\ \A i \in DOMAIN segments :
              IF segments[i] \in Syllables THEN syllables[i] = segments[i]
              ELSE IsPrefix(segments[i], syllables[i])

(* dedup_by_key: only neighbours are compared.                               *)
Dedup(entries) ==
    FoldLeft(LAMBDA kept, e : IF kept # <<>> /\ Last(kept).text = e.text THEN kept
                              ELSE Append(kept, e), <<>>, entries)

build_initials_index(dict) ==
    LET key == [code \in {e.code : e \in ToSet(dict)} |-> Initials(segment(code))]
    IN  [k \in {k \in Range(key) : Len(k) >= 2} |->
            Take(Dedup(ByWeight(SelectSeq(dict, LAMBDA e : key[e.code] = k))), IndexCap)]

TopWeight(dict) == IF dict = <<>> THEN 0
                   ELSE CHOOSE w \in {e.weight : e \in ToSet(dict)} :
                            \A e \in ToSet(dict) : e.weight <= w

-----------------------------------------------------------------------------
(* A decoder: the dictionary, its index, and the largest weight, or 0 when   *)
(* the cache did not tell.                                                   *)
FreqScale == [min |-> 250, max |-> 900]
freq_to_score(lattice, weight) ==
    FreqScale.min + ((FreqScale.max - FreqScale.min) * weight)
                       \div (IF lattice.max > 0 THEN lattice.max ELSE LegacyMax)

words_for(lattice, code) == SelectSeq(lattice.dict, LAMBDA e : e.code = code)

(* The only words the decoder has for what is typed, with the kind of match. *)
Match(kind, entries) == [kind |-> kind, entries |-> entries]

(* A completion is offered however the letters split into syllables.         *)
predict_prefix(lattice, input) ==
    Take(ByWeight(SelectSeq(lattice.dict, LAMBDA e : IsPrefix(input, e.code))), PrefixTake)

(* The words for a split into segments: by the code where all of them are    *)
(* syllables, else by the initials.                                          *)
MatchOf(lattice, input, segments) ==
    IF \A i \in DOMAIN segments : segments[i] \in Syllables
    THEN Match("full", words_for(lattice, input))
    ELSE Match(IF \E i \in DOMAIN segments : segments[i] \in Syllables THEN "mixed" ELSE "initials",
               IF Initials(segments) \notin DOMAIN lattice.index THEN <<>>
               ELSE SelectSeq(lattice.index[Initials(segments)],
                              LAMBDA e : pattern_match(e.code, segments)))

Best(m) == [m EXCEPT !.entries = Take(ByWeight(@), MatchTake)]

predict(lattice, input) == Best(MatchOf(lattice, input, greedy_parse(input)))
=============================================================================
