------------------------------- MODULE Sorting -------------------------------
(***************************************************************************)
(* The sorting programs of Algorithem/sort.  Each works in place on an int *)
(* array; an array is a sequence here, so the index i of the code is i + 1.*)
(* A step is a pass of a program's innermost loop, and a recursive call    *)
(* waits in calls.  main sorts one constant array with one of the          *)
(* functions of its file; all of them are run on every array.              *)
(***************************************************************************)
EXTENDS Integers, Sequences, SequencesExt, FiniteSetsExt

CONSTANTS
  MaxLen,         \* bound: longest array
  Keys            \* the values that occur in arrays

ASSUME SortAssumption == MaxLen \in Nat \ {0} /\ Keys \subseteq Int

VARIABLES
  sorter,         \* the function that main calls, "none" afterwards
  given,          \* the array before
  arr,            \* the array
  temparr,        \* of mergesort
  loc,            \* the local variables of the functions by their names, where
                  \* left is left_start and right right_start of _mergesort;
                  \* loop: whether the function is in its inner loop
  calls           \* the recursive calls that are still to come

sortVars == <<sorter, given, arr, temparr, loc, calls>>

Arrays == UNION {[1..n -> Keys] : n \in 1..MaxLen}

(* Sort the elements from start to end, or merge the sorted halves of them.*)
Call(op, s, e) == [op |-> op, start |-> s, end |-> e]
Mid(c)         == c.start + (c.end - c.start) \div 2

Exchange(a, x, y) == [a EXCEPT ![x] = a[y], ![y] = a[x]]

(* The function returns and main prints. *)
returns == sorter' = "none" /\ UNCHANGED <<given, arr, temparr, loc, calls>>

-----------------------------------------------------------------------------
bubble ==
  /\ sorter = "bubblesort" /\ loc.i < Len(arr) /\ loc.j <= Len(arr) - loc.i
  /\ arr' = IF arr[loc.j] > arr[loc.j + 1] THEN Exchange(arr, loc.j, loc.j + 1) ELSE arr
  /\ loc' = [loc EXCEPT !.j = @ + 1]
  /\ UNCHANGED <<sorter, given, temparr, calls>>

(* bubblesort1 counts the passes in i.  bubblesort2 calls itself for an    *)
(* array of one element less, and i counts these calls.                    *)
bubble_pass ==
  /\ sorter = "bubblesort"
  /\ IF loc.i < Len(arr)
     THEN /\ loc.j > Len(arr) - loc.i
          /\ loc' = [loc EXCEPT !.i = @ + 1, !.j = 1]
          /\ UNCHANGED <<sorter, given, arr, temparr, calls>>
     ELSE returns

(* The first of the least elements from n on. *)
min_index(n) ==
  CHOOSE m \in n..Len(arr) :
    \A k \in n..Len(arr) : arr[m] <= arr[k] /\ (arr[k] = arr[m] => m <= k)

(* The start of selectsort2, which calls itself, is i in selectsort1. *)
selectsort ==
  /\ sorter = "selectsort"
  /\ IF loc.i <= Len(arr)
     THEN /\ arr' = Exchange(arr, loc.i, min_index(loc.i))
          /\ loc' = [loc EXCEPT !.i = @ + 1]
          /\ UNCHANGED <<sorter, given, temparr, calls>>
     ELSE returns

(* Element y moves before the first one that is not less. *)
insert(a, y) ==
  LET x == Min({k \in 1..y : k = y \/ a[k] >= a[y]})
  IN  [k \in DOMAIN a |-> CASE k = x -> a[y] [] k \in x + 1..y -> a[k - 1] [] OTHER -> a[k]]

insertsort ==
  /\ sorter = "insertsort"
  /\ IF loc.j < Len(arr)
     THEN /\ arr' = insert(arr, loc.j + 1)
          /\ loc' = [loc EXCEPT !.j = @ + 1]
          /\ UNCHANGED <<sorter, given, temparr, calls>>
     ELSE returns

-----------------------------------------------------------------------------
(* groupsort takes an element out, shifts those before it, in strides of   *)
(* step, that are not less, and puts it behind the first one that is.      *)
group_take ==
  /\ sorter = "shellsort" /\ ~loc.loop /\ loc.step > 0 /\ loc.i <= Len(arr)
  /\ loc' = [loc EXCEPT !.temp = arr[loc.i], !.j = loc.i - loc.step, !.loop = TRUE]
  /\ UNCHANGED <<sorter, given, arr, temparr, calls>>

group_shift ==
  /\ sorter = "shellsort" /\ loc.loop /\ loc.j >= 1 /\ loc.temp <= arr[loc.j]
  /\ arr' = [arr EXCEPT ![loc.j + loc.step] = arr[loc.j]]
  /\ loc' = [loc EXCEPT !.j = @ - loc.step]
  /\ UNCHANGED <<sorter, given, temparr, calls>>

group_put ==
  /\ sorter = "shellsort" /\ loc.loop
  /\ loc.j >= 1 => loc.temp > arr[loc.j]
  /\ arr' = [arr EXCEPT ![loc.j + loc.step] = loc.temp]
  /\ loc' = [loc EXCEPT !.i = @ + loc.step, !.loop = FALSE]
  /\ UNCHANGED <<sorter, given, temparr, calls>>

(* Mutant: the step is rounded up. *)
halved_up(step) == (step + 1) \div 2
halved(step)    == step \div 2

(* The next group, the first group of the next step, or the end. *)
shellsort ==
  /\ sorter = "shellsort" /\ ~loc.loop
  /\ IF loc.step > 0
     THEN /\ loc.i > Len(arr)
          /\ loc' = IF loc.start < loc.step
                    THEN [loc EXCEPT !.start = @ + 1, !.i = loc.start + 1 + loc.step]
                    ELSE [loc EXCEPT !.start = 1, !.step = halved(@), !.i = 1 + halved(loc.step)]
          /\ UNCHANGED <<sorter, given, arr, temparr, calls>>
     ELSE returns

-----------------------------------------------------------------------------
(* The call at the head returns at once, or the array is split. *)
mergesort_call(c) ==
  /\ c.op = "sort"
  /\ calls' = IF c.start >= c.end THEN Tail(calls)
              ELSE <<Call("sort", c.start, Mid(c)), Call("sort", Mid(c) + 1, c.end),
                     Call("merge", c.start, c.end)>> \o Tail(calls)
  /\ UNCHANGED <<sorter, given, arr, temparr, loc>>

merge_starts(c) ==
  /\ c.op = "merge" /\ ~loc.loop
  /\ loc' = [loc EXCEPT !.left = c.start, !.right = Mid(c) + 1, !.i = c.start, !.loop = TRUE]
  /\ UNCHANGED <<sorter, given, arr, temparr, calls>>

(* Of two equal elements the right one is taken first. *)
merge_takes(c) ==
  /\ loc.loop /\ loc.left <= Mid(c) /\ loc.right <= c.end
  /\ IF arr[loc.left] < arr[loc.right]
     THEN /\ temparr' = [temparr EXCEPT ![loc.i] = arr[loc.left]]
          /\ loc' = [loc EXCEPT !.i = @ + 1, !.left = @ + 1]
     ELSE /\ temparr' = [temparr EXCEPT ![loc.i] = arr[loc.right]]
          /\ loc' = [loc EXCEPT !.i = @ + 1, !.right = @ + 1]
  /\ UNCHANGED <<sorter, given, arr, calls>>

(* What is left over of a half is copied behind, and all of it back. *)
merge_ends(c) ==
  LET over == IF loc.left <= Mid(c) THEN loc.left ELSE loc.right
  IN  /\ loc.loop /\ (loc.left > Mid(c) \/ loc.right > c.end)
      /\ temparr' = [k \in DOMAIN arr |-> IF k \in loc.i..c.end THEN arr[over + k - loc.i]
                                          ELSE temparr[k]]
      /\ arr' = [k \in DOMAIN arr |-> IF k \in c.start..c.end THEN temparr'[k] ELSE arr[k]]
      /\ calls' = Tail(calls) /\ loc' = [loc EXCEPT !.loop = FALSE]
      /\ UNCHANGED <<sorter, given>>

mergesort ==
  /\ sorter = "mergesort"
  /\ IF calls # <<>>
     THEN \/ mergesort_call(Head(calls)) \/ merge_starts(Head(calls))
          \/ merge_takes(Head(calls)) \/ merge_ends(Head(calls))
     ELSE returns

-----------------------------------------------------------------------------
(* _fastsort sorts the elements from start to end around temp, the first.  *)
fastsort_call(c) ==
  /\ ~loc.loop
  /\ IF c.start >= c.end THEN calls' = Tail(calls) /\ UNCHANGED loc
     ELSE /\ loc' = [loc EXCEPT !.temp = arr[c.start], !.left = c.start + 1, !.right = c.end,
                                !.loop = TRUE]
          /\ UNCHANGED calls
  /\ UNCHANGED <<sorter, given, arr, temparr>>

(* left and right meet between the elements less than temp and the others. *)
partition ==
  LET l == Min({k \in loc.left..loc.right : k = loc.right \/ arr[k] >= loc.temp})
      r == Max({k \in l..loc.right : k = l \/ arr[k] < loc.temp})
  IN  /\ loc.loop /\ loc.left < loc.right
      /\ arr' = Exchange(arr, l, r)
      /\ loc' = [loc EXCEPT !.left = l, !.right = r]
      /\ UNCHANGED <<sorter, given, temparr, calls>>

(* Mutant: the pivot is swapped in whether or not the element is less. *)
fastsort_split_always(c) ==
  /\ loc.loop /\ loc.left >= loc.right
  /\ arr' = Exchange(arr, c.start, loc.left)
  /\ calls' = <<Call("sort", c.start, loc.left - 1), Call("sort", loc.right, c.end)>> \o Tail(calls)
  /\ loc' = [loc EXCEPT !.loop = FALSE]
  /\ UNCHANGED <<sorter, given, temparr>>

fastsort_split(c) ==
  /\ loc.loop /\ loc.left >= loc.right
  /\ arr' = IF arr[loc.left] < loc.temp THEN Exchange(arr, c.start, loc.left) ELSE arr
  /\ calls' = <<Call("sort", c.start, loc.left - 1), Call("sort", loc.right, c.end)>> \o Tail(calls)
  /\ loc' = [loc EXCEPT !.loop = FALSE]
  /\ UNCHANGED <<sorter, given, temparr>>

fastsort ==
  /\ sorter = "fastsort"
  /\ IF calls # <<>>
     THEN fastsort_call(Head(calls)) \/ partition \/ fastsort_split(Head(calls))
     ELSE returns

-----------------------------------------------------------------------------
Sorters == {"bubblesort", "selectsort", "insertsort", "shellsort", "mergesort", "fastsort"}

(* Of what is not set when function f begins nothing is read. *)
Begins(f, a) ==
  LET gap == IF f = "shellsort" THEN halved(Len(a)) ELSE 0
  IN  /\ sorter = f /\ given = a /\ arr = a /\ temparr = a
      /\ loc = [i |-> 1 + gap, j |-> 1, step |-> gap, start |-> 1, temp |-> 0,
                left |-> 0, right |-> 0, loop |-> FALSE]
      /\ calls = IF f \in {"mergesort", "fastsort"} THEN <<Call("sort", 1, Len(a))>> ELSE <<>>

SortInit == \E f \in Sorters, a \in Arrays : Begins(f, a)

(* Another program runs. *)
SortIdle == Begins("none", <<>>)

SortNext ==
  \/ bubble \/ bubble_pass \/ selectsort \/ insertsort
  \/ group_take \/ group_shift \/ group_put \/ shellsort
  \/ mergesort \/ fastsort

-----------------------------------------------------------------------------
(* Each program prints the elements it was given, each as often as it was  *)
(* given, in ascending order: arrays with equal elements, which the        *)
(* constant arrays of the programs hardly contain, are where swapping and  *)
(* shifting loops lose one.                                                *)
SortsSort ==
  sorter = "none" =>
    /\ \A k \in 1..Len(arr) - 1 : arr[k] <= arr[k + 1]
    /\ Len(arr) = Len(given)
    /\ \A v \in Keys : Cardinality({k \in DOMAIN arr : arr[k] = v})
                       = Cardinality({k \in DOMAIN given : given[k] = v})
=============================================================================
