----------------------------- MODULE MCSplitRound ------------------------------
(* A small instance of SplitRound for TLC: a round thread that insists on       *)
(* complete rounds and waits for every task, and one that does neither.         *)
EXTENDS SplitRound

MCSettings == {<<TRUE, FALSE>>, <<FALSE, TRUE>>}
===============================================================================
