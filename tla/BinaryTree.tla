------------------------------ MODULE BinaryTree ------------------------------
(***************************************************************************)
(* The tree programs: tree/binary-tree/basic/binary.c and the second half  *)
(* of list/single-list/list_expriment.c, which has the same tree functions *)
(* and a sum.  A tree is Nil or <<idx, left, right>>; it is read from data *)
(* in preorder with -1 for an empty subtree.                               *)
(***************************************************************************)
EXTENDS Integers, Sequences, SequencesExt, FiniteSetsExt

CONSTANT MaxNodes       \* bound: nodes of the trees that data describes

VARIABLES
  data,                 \* BinaryTree_data, Tree_data
  tstep,                \* what main does next
  root,                 \* basic_root, tree
  live,                 \* the idx of the nodes that are allocated
  shown                 \* what has been printed, by the name of the print

treeVars == <<data, tstep, root, live, shown>>

Nil == <<>>

(* A create function returns the tree and the value of counter. *)
RECURSIVE Preorder_Create(_, _)
Preorder_Create(d, counter) ==
  IF d[counter] = -1 THEN [tree |-> Nil, counter |-> counter + 1]
  ELSE LET left  == Preorder_Create(d, counter + 1)
           right == Preorder_Create(d, left.counter)
       IN  [tree |-> <<d[counter], left.tree, right.tree>>, counter |-> right.counter]

RECURSIVE Postorder_Create(_, _)
Postorder_Create(d, counter) ==
  IF d[counter] = -1 THEN [tree |-> Nil, counter |-> counter + 1]
  ELSE LET right == Postorder_Create(d, counter + 1)
           left  == Postorder_Create(d, right.counter)
       IN  [tree |-> <<d[counter], left.tree, right.tree>>, counter |-> left.counter]

RECURSIVE Preorder(_)
Preorder(t) == IF t = Nil THEN <<>> ELSE <<t[1]>> \o Preorder(t[2]) \o Preorder(t[3])

RECURSIVE Middorder(_)
Middorder(t) == IF t = Nil THEN <<>> ELSE Middorder(t[2]) \o <<t[1]>> \o Middorder(t[3])

(* Also the order in which Postorder_Free_BinaryTree frees. *)
RECURSIVE Postorder(_)
Postorder(t) == IF t = Nil THEN <<>> ELSE Postorder(t[2]) \o Postorder(t[3]) \o <<t[1]>>

RECURSIVE Deep(_)
Deep(t) ==
  IF t = Nil THEN 0
  ELSE IF Deep(t[2]) >= Deep(t[3]) THEN Deep(t[2]) + 1 ELSE Deep(t[3]) + 1

(* count is static: the recursive calls go on from what it is. *)
RECURSIVE LeafCount(_, _)
LeafCount(t, count) ==
  IF t = Nil THEN count
  ELSE LET c == IF t[2] = Nil /\ t[3] = Nil THEN count + 1 ELSE count
       IN  LeafCount(t[3], LeafCount(t[2], c))

RECURSIVE calculate_tree(_, _)
calculate_tree(t, result) ==
  IF t = Nil THEN result
  ELSE calculate_tree(t[3], calculate_tree(t[2], result + t[1]))

-------------------------------------------------------------------------------
(* A sequence describes a tree when every proper prefix has too few -1. *)
Holes(d) == Cardinality({i \in DOMAIN d : d[i] = -1})
Whole(d) == /\ 2 * Holes(d) = Len(d) + 1
            /\ \A n \in 1..Len(d) - 1 : 2 * Holes(SubSeq(d, 1, n)) <= n

(* The nodes carry their number in data: idx is a key, as in the program. *)
Shapes(n) == {d \in [1..2 * n + 1 -> {-1, 0}] : Whole(d)}
Numbered(d) == [i \in DOMAIN d |-> IF d[i] = -1 THEN -1 ELSE i]
TreeData == {Numbered(d) : d \in UNION {Shapes(n) : n \in 1..MaxNodes}}

TreeInit ==
  /\ data \in TreeData
  /\ tstep = "create" /\ root = Nil /\ live = {} /\ shown = <<>>

TreeIdle == data = <<>> /\ tstep = "done" /\ root = Nil /\ live = {} /\ shown = <<>>

(* Both mains use Preorder_Create; Postorder_Create, which is there for    *)
(* the other order, is tried as well.                                      *)
create_binary ==
  /\ tstep = "create"
  /\ \/ root' = Preorder_Create(data, 1).tree
     \/ root' = Postorder_Create(data, 1).tree
  /\ live' = ToSet(Preorder(root'))
  /\ tstep' = "print"
  /\ UNCHANGED <<data, shown>>

print_binary ==
  /\ tstep = "print"
  /\ shown' = [pre |-> Preorder(root), midd |-> Middorder(root), post |-> Postorder(root),
               deep |-> Deep(root), leaf |-> LeafCount(root, 0),
               sum |-> calculate_tree(root, 0)]
  /\ tstep' = "free"
  /\ UNCHANGED <<data, root, live>>

(* binary.c frees the tree; list_expriment.c leaves it to the exit. *)
free_binary ==
  /\ tstep = "free"
  /\ live' = live \ ToSet(Postorder(root))
  /\ tstep' = "done"
  /\ UNCHANGED <<data, root, shown>>

TreeNext == create_binary \/ print_binary \/ free_binary

-------------------------------------------------------------------------------
(* The reference: a tree as the set of the paths to its nodes. *)
RECURSIVE Paths(_)
Paths(t) == IF t = Nil THEN {}
            ELSE {<<>>} \cup {<<2>> \o p : p \in Paths(t[2])} \cup {<<3>> \o p : p \in Paths(t[3])}

(* What main prints is true of the tree that data describes: depth and     *)
(* number of leaves agree with the paths, each traversal shows every node  *)
(* once, the preorder is data without its -1 (the postorder from its end   *)
(* for the mirror image that Postorder_Create builds), and in the end      *)
(* every node is free.                                                     *)
TreePrintsTrue ==
  /\ shown # <<>> =>
       LET paths == Paths(root)
           keys  == {data[i] : i \in DOMAIN data} \ {-1}
           below(p) == {q \in paths : q # p /\ IsPrefix(p, q)}
       IN  /\ shown.deep = Max({Len(p) + 1 : p \in paths})
           /\ shown.leaf = Cardinality({p \in paths : below(p) = {}})
           /\ shown.sum = FoldSet(+, 0, keys)
           /\ \A s \in {shown.pre, shown.midd, shown.post} :
                ToSet(s) = keys /\ Len(s) = Cardinality(keys)
           /\ \/ shown.pre = SelectSeq(data, LAMBDA v : v # -1)
              \/ Reverse(shown.post) = SelectSeq(data, LAMBDA v : v # -1)
  /\ tstep = "done" => live = {}
===============================================================================
