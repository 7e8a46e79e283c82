---------------------------- MODULE MCCandidates ----------------------------
(* Candidates over four letters.  Each limit of the decoder cuts a list:     *)
(* four words have the initials of nihe and nihen, three the code nihen,     *)
(* five begin with nih; and the pinyin and English families cut theirs.      *)
EXTENDS Candidates

MCSyllables == {<<"h", "e">>, <<"h", "e", "n">>, <<"n", "i">>}
MCLookup ==
    [s \in MCSyllables |->
        CASE s = <<"h", "e">> -> << <<"H1">>, <<"H2">> >>
          [] s = <<"h", "e", "n">> -> << <<"X">> >>
          [] s = <<"n", "i">> -> << <<"N1">>, <<"N2">>, <<"N3">> >>]

(* he+ni, which the longest match splits as hen+i; ni+hen+ni; he and ni.     *)
SmallDict ==
    << Entry(<<"h", "e">>, <<"H1">>, 16),
       Entry(<<"h", "e", "n", "i">>, <<"H1", "N1">>, 10),
       Entry(<<"h", "e", "n", "i">>, <<"H2", "N2">>, 6),
       Entry(<<"n", "i", "h", "e">>, <<"N1", "H1">>, 8),
       Entry(<<"n", "i", "h", "e", "n">>, <<"N1", "X">>, 14),
       Entry(<<"n", "i", "h", "e", "n">>, <<"N2", "X">>, 12),
       Entry(<<"n", "i", "h", "e", "n">>, <<"N3", "X">>, 5),
       Entry(<<"n", "i", "h", "e", "n", "n", "i">>, <<"N1", "X", "N1">>, 15) >>
LargeDict == Append(SmallDict, Entry(<<"n", "i">>, <<"N1">>, 18))
MCDicts == {SmallDict, LargeDict}

MCInputs == { <<"n", "i">>, <<"n", "h">>, <<"h", "e", "n", "i">>, <<"n", "i", "h", "e", "n">>,
              <<"n", "i", "h", "e", "n", "n", "i">> }

(* The third pick of this character pins it.                                 *)
MCEarlierPicks == << <<"n", "i">>, <<"N3">> >> :> 2

MCEnglish == << [word |-> <<"h", "e">>, grade |-> 10], [word |-> <<"h", "e", "n">>, grade |-> 35],
                [word |-> <<"h", "e", "n">>, grade |-> 20] >>
MCEmojiTable == << [word |-> <<"h", "e", "n">>, emoji |-> <<"E1">>] >>
MCEmojiRows == << [word |-> <<"h", "e", "n", "i">>, emoji |-> <<"E2">>],
                  [word |-> <<"h", "e", "n">>, emoji |-> <<"E3">>] >>
MCTopN == [family \in {"pinyin", "english", "emoji"} |-> IF family = "pinyin" THEN 3 ELSE 2]
=============================================================================
