----------------------------- MODULE PlainPrograms -----------------------------
(***************************************************************************)
(* The programs and modules that work alone, but for the trees: the        *)
(* sorting programs, the script that hashes images, the list programs and  *)
(* the demos of kernel interfaces.  One of them runs; the variables of the *)
(* others stay as they are.                                                *)
(***************************************************************************)
EXTENDS Sorting, ImageDigest, SingleList, KernelDemos

plainVars == <<sortVars, imageVars, listVars, demoVars>>

PlainInit ==
  \/ SortInit /\ ImageIdle /\ ListIdle /\ DemoIdle
  \/ SortIdle /\ ImageInit /\ ListIdle /\ DemoIdle
  \/ SortIdle /\ ImageIdle /\ ListInit /\ DemoIdle
  \/ SortIdle /\ ImageIdle /\ ListIdle /\ DemoInit

(* Another program runs. *)
PlainIdle == SortIdle /\ ImageIdle /\ ListIdle /\ DemoIdle

RunSort  == SortNext /\ UNCHANGED <<imageVars, listVars, demoVars>>
RunImage == ImageNext /\ UNCHANGED <<sortVars, listVars, demoVars>>
RunList  == ListNext /\ UNCHANGED <<sortVars, imageVars, demoVars>>
RunDemo  == DemoNext /\ UNCHANGED <<sortVars, imageVars, listVars>>

PlainNext == RunSort \/ RunImage \/ RunList \/ RunDemo

PlainSpec == (PlainInit \/ PlainIdle) /\ [][PlainNext]_plainVars

-------------------------------------------------------------------------------
(* What is made of an array, an image or a list is what it should be: a    *)
(* permutation in ascending order, a digest of every byte, a list of every *)
(* node.                                                                   *)
ResultsRight == SortsSort /\ DigestCoversImage /\ ListPrintsAll
===============================================================================
