------------------------------ MODULE MCRemote ------------------------------
(* Tool calls for TLC: filling in the form; a key that may sign in, and a    *)
(* scroll; and a click that may sign in or out, whose step goes on with a    *)
(* mark that no screen has.                                                  *)
EXTENDS RemoteTask

MCPlans ==
    LET Tool(name, mark) == [name |-> name, mark |-> mark]
    IN  {<<Tool("type", 1), Tool("type", 2)>>,
         <<[name |-> "keypress", keys |-> "Return"], Tool("scroll", 1)>>,
         <<Tool("click", 3), Tool("click", 9)>>}
=============================================================================
