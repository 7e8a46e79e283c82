------------------------------- MODULE MCIme -------------------------------
(* Two letters, two syllables, three live commands and a static one: the     *)
(* names are short, so that a suffix fits into a small buffer.               *)
EXTENDS FcitxAddon

MCSyllables == {<<"a">>, <<"b", "a">>}
MCTriggers == [n \in {"req", "asr", "clip", "date"} |->
                  CASE n = "req" -> <<"a">>
                    [] n = "asr" -> <<"b", "a">>
                    [] n = "clip" -> <<"b", "b">>
                    [] n = "date" -> <<"a", "a">>]
=============================================================================
