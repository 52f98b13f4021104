----------------------------- MODULE SmallPrograms -----------------------------
(***************************************************************************)
(* All programs and modules that work alone: those of PlainPrograms and    *)
(* the tree programs, which call themselves on subtrees.                   *)
(***************************************************************************)
EXTENDS PlainPrograms, BinaryTree

vars == <<plainVars, treeVars>>

Init ==
  \/ PlainInit /\ TreeIdle
  \/ PlainIdle /\ TreeInit

(* A program computes or is waiting for nothing; the demos wait for insmod.*)
Compute == (RunSort \/ RunImage \/ RunList) /\ UNCHANGED treeVars
RunTree == TreeNext /\ UNCHANGED plainVars
Demo    == RunDemo /\ UNCHANGED treeVars

Next == Compute \/ RunTree \/ Demo

Spec == Init /\ [][Next]_vars /\ WF_vars(Compute) /\ WF_vars(RunTree)

-------------------------------------------------------------------------------
(* Every program ends: no sorting function goes round for ever or stands   *)
(* still with the array half sorted, on whatever elements; and a tree      *)
(* program has then printed what is true of the tree and freed it.         *)
ProgramsEnd ==
  <>[](/\ sorter = "none" /\ lprog \in {"none", "segv"} /\ (option # "none" => ended)
       /\ tstep = "done" /\ TreePrintsTrue)
===============================================================================
