------------------------------- MODULE MCTeam --------------------------------
(* The team for TLC: w1 and w2 take two resources in opposite orders, and w3 *)
(* needs one of them alone.  The leader needs none.                          *)
EXTENDS TeamLoop

CONSTANTS leader, w1, w2, w3, r1, r2

MCRequires ==
    [a \in Agents |->
        CASE a = w1 -> <<r1, r2>>
          [] a = w2 -> <<r2, r1>>
          [] a = w3 -> <<r1>>
          [] OTHER -> <<>>]
=============================================================================
