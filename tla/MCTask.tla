------------------------------- MODULE MCTask -------------------------------
(* Tool calls for TLC: a chord the binding knows and one with "shift" in it, *)
(* a text that stops at a character without a key, a scroll, and a click on  *)
(* a mark that is not there.                                                 *)
EXTENDS LocalTask

MCWidth == 2560
MCCoordMax == 65535
MCCalls ==
    {[tool |-> "keypress", keys |-> <<"ctrl", "a">>],
     [tool |-> "keypress", keys |-> <<"ctrl", "shift", "a">>],
     [tool |-> "type", mark |-> "field", at |-> 1280, text |-> <<"A", "e-acute">>],
     [tool |-> "scroll", mark |-> "field", at |-> 1280],
     [tool |-> "click", mark |-> "unknown", at |-> 1280]}
=============================================================================
