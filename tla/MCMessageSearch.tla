---------------------------- MODULE MCMessageSearch ----------------------------
(* The instances of MCMessageOperator, with the memory of MessageSearch.     *)
EXTENDS MCMessageOperator, MessageSearch
=============================================================================
