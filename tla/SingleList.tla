------------------------------ MODULE SingleList ------------------------------
(***************************************************************************)
(* The linked lists of list/single-list: single_list.c, which appends      *)
(* through a pointer to the last next field, and list_expriment.c, which   *)
(* walks to the end to append and replaces a node by its value.            *)
(***************************************************************************)
EXTENDS Integers, Sequences, SequencesExt, FiniteSetsExt

CONSTANTS
  LNodes,               \* the nodes, in the order in which main inserts them
  Datas,                \* the values of list_expriment.c
  NULL

ASSUME ListAssumption ==
  LNodes \in Seq(STRING) /\ Len(LNodes) >= 3 /\ IsInjective(LNodes) /\ NULL \notin ToSet(LNodes)

VARIABLES
  lprog,                \* the program, "none" when it is done
  next,                 \* the next fields
  num,                  \* the values
  value,                \* list_expriment.c: the value to be replaced
  cell,                 \* single_list.c: the node whose next node_list points to
  lstep,                \* how many nodes main has inserted
  pass,                 \* single_list.c builds its list twice
  printed               \* the nodes that were printed

listVars == <<lprog, next, num, value, cell, lstep, pass, printed>>

Node      == ToSet(LNodes)
HeadNode  == LNodes[1]
Spare     == LNodes[Len(LNodes)]        \* the node that replaces another

(* The nodes from n on: the loop for(tmp = n; tmp; tmp = tmp->next), cut   *)
(* off where it would go round for ever.                                   *)
Chain(nx, n) ==
  LET follow[k \in 0..Cardinality(Node) + 1] ==
        IF k = 0 THEN <<n>>
        ELSE IF nx[Last(follow[k - 1])] = NULL THEN follow[k - 1]
        ELSE Append(follow[k - 1], nx[Last(follow[k - 1])])
  IN  follow[Cardinality(Node) + 1]

ListInit ==
  /\ lprog \in {"single_list", "list_expriment"}
  /\ next = [n \in Node |-> NULL]
  /\ num \in [Node -> Datas] /\ value \in Datas
  /\ cell = HeadNode
  /\ lstep = IF lprog = "single_list" THEN 0 ELSE 1
  /\ pass = 1 /\ printed = <<>>

ListIdle ==
  /\ lprog = "none" /\ next = [n \in Node |-> NULL] /\ num = [n \in Node |-> 0]
  /\ value = 0 /\ cell = HeadNode /\ lstep = 0 /\ pass = 1 /\ printed = <<>>

(* The first insertion makes the head point to itself, the second one      *)
(* mends that.                                                             *)
single_list_insert ==
  /\ lprog = "single_list" /\ lstep < Len(LNodes)
  /\ next' = [next EXCEPT ![cell] = LNodes[lstep + 1]]
  /\ cell' = LNodes[lstep + 1]
  /\ lstep' = lstep + 1
  /\ UNCHANGED <<lprog, num, value, pass, printed>>

(* The list is printed, and node_list set back for the second time.        *)
single_list_prints ==
  /\ lprog = "single_list" /\ lstep = Len(LNodes)
  /\ printed' = Chain(next, HeadNode)
  /\ IF pass = 1 THEN pass' = 2 /\ lstep' = 0 /\ cell' = HeadNode /\ UNCHANGED lprog
                 ELSE lprog' = "none" /\ UNCHANGED <<pass, lstep, cell>>
  /\ UNCHANGED <<next, num, value>>

insert_list ==
  /\ lprog = "list_expriment" /\ lstep < Len(LNodes) - 1
  /\ next' = [next EXCEPT ![Last(Chain(next, HeadNode))] = LNodes[lstep + 1]]
  /\ lstep' = lstep + 1
  /\ UNCHANGED <<lprog, num, value, cell, pass, printed>>

(* The node behind tmp is replaced, for the first tmp where it has the     *)
(* value.  Behind the last node tmp->next->data is read through NULL.      *)
insert_list_posion ==
  LET chain == Chain(next, HeadNode)
      tmps  == {k \in 1..Len(chain) - 1 : num[chain[k + 1]] = value}
      tmp   == chain[Min(tmps)]
  IN  /\ lprog = "list_expriment" /\ lstep = Len(LNodes) - 1
      /\ IF tmps = {} THEN lprog' = "segv" /\ UNCHANGED next
         ELSE lprog' = "print" /\ next' = [next EXCEPT ![Spare] = next[next[tmp]], ![tmp] = Spare]
      /\ UNCHANGED <<num, value, cell, lstep, pass, printed>>

list_prints ==
  /\ lprog = "print"
  /\ printed' = Chain(next, HeadNode)
  /\ lprog' = "none"
  /\ UNCHANGED <<next, num, value, cell, lstep, pass>>

ListNext ==
  \/ single_list_insert \/ single_list_prints
  \/ insert_list \/ insert_list_posion \/ list_prints

-------------------------------------------------------------------------------
(* The node at k is the first one behind the head with the value. *)
FirstOfValue(k) == /\ num[LNodes[k]] = value
                   /\ \A j \in 2..k - 1 : num[LNodes[j]] # value

(* What is printed is a list: it ends, it shows no node twice, and it      *)
(* shows all the nodes main has inserted in their order, but for the first *)
(* one of the value asked for, in whose place the spare node stands; and   *)
(* the program follows a null pointer only when no node behind the head    *)
(* has that value.                                                         *)
ListPrintsAll ==
  /\ printed # <<>> =>
       \/ printed = LNodes
       \/ /\ lprog = "none" /\ pass = 1
          /\ \E k \in 2..Len(LNodes) - 1 :
               FirstOfValue(k) /\ printed = [Front(LNodes) EXCEPT ![k] = Spare]
  /\ lprog = "segv" => \A k \in 2..Len(LNodes) - 1 : num[LNodes[k]] # value
===============================================================================
