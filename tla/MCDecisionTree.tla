--------------------------- MODULE MCDecisionTree ---------------------------
(* DecisionTree over every forest of four nodes.                             *)
EXTENDS DecisionTree

MCMaxId == 4
=============================================================================
