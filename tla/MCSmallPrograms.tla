---------------------------- MODULE MCSmallPrograms ----------------------------
(* Arrays of up to six elements with three values: every order and every   *)
(* pattern of equal elements that a comparison of neighbours, a stride of  *)
(* two or a partition can meet; all trees of up to five nodes; the five    *)
(* list nodes of list_expriment.c and one that replaces another, with two  *)
(* values; images of every length up to five blocks.                       *)
EXTENDS SmallPrograms

MCNodes == <<"list", "list_node0", "list_node1", "list_node2", "list_node3", "list_node4">>
===============================================================================
