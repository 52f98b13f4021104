------------------------------ MODULE SortProofs ------------------------------
(***************************************************************************)
(* The sorting programs sort: every step of every one of them keeps the    *)
(* elements of the array, and each has an invariant of its own that ends   *)
(* in an array in order.                                                   *)
(***************************************************************************)
EXTENDS Sorting, FunctionTheorems, FiniteSetTheorems, SequenceTheorems,
        WellFoundedInduction, NaturalsInduction, TLAPS

(* The rearrangements of n places, and the arrays that hold the same       *)
(* elements.                                                               *)
Perm(n) == {p \in [1..n -> 1..n] :
              /\ \A x, y \in 1..n : p[x] = p[y] => x = y
              /\ \A y \in 1..n : \E x \in 1..n : p[x] = y}
Same(n, a, b) == \E p \in Perm(n) : \A k \in 1..n : a[k] = b[p[k]]

LEMMA SameReflexive ==
  ASSUME NEW n \in Nat, NEW a
  PROVE  Same(n, a, a)
<1> DEFINE p == [k \in 1..n |-> k]
<1>1. p \in Perm(n)
  BY DEF Perm
<1>2. \A k \in 1..n : a[k] = a[p[k]]
  OBVIOUS
<1> QED BY <1>1, <1>2 DEF Same

LEMMA SameTransitive ==
  ASSUME NEW n \in Nat, NEW a, NEW b, NEW c, Same(n, a, b), Same(n, b, c)
  PROVE  Same(n, a, c)
<1>1. PICK p \in Perm(n) : \A k \in 1..n : a[k] = b[p[k]]
  BY DEF Same
<1>2. PICK q \in Perm(n) : \A k \in 1..n : b[k] = c[q[k]]
  BY DEF Same
<1> DEFINE r == [k \in 1..n |-> q[p[k]]]
<1>3. p \in [1..n -> 1..n] /\ q \in [1..n -> 1..n]
  BY DEF Perm
<1>4. r \in [1..n -> 1..n]
  BY <1>3
<1>5. ASSUME NEW x \in 1..n, NEW y \in 1..n, r[x] = r[y] PROVE x = y
  BY <1>3, <1>5 DEF Perm
<1>6. ASSUME NEW y \in 1..n PROVE \E x \in 1..n : r[x] = y
  <2>1. PICK z \in 1..n : q[z] = y
    BY DEF Perm
  <2>2. PICK x \in 1..n : p[x] = z
    BY DEF Perm
  <2> QED BY <2>1, <2>2
<1>7. r \in Perm(n)
  BY <1>4, <1>5, <1>6 DEF Perm
<1>8. \A k \in 1..n : a[k] = c[r[k]]
  BY <1>1, <1>2, <1>3
<1> HIDE DEF r
<1> QED BY <1>7, <1>8 DEF Same

(* Places that are moved among themselves by an operator that can be       *)
(* undone.                                                                 *)
LEMMA SameExchange ==
  ASSUME NEW n \in Nat, NEW a \in [1..n -> Int], NEW x \in 1..n, NEW y \in 1..n
  PROVE  /\ Exchange(a, x, y) \in [1..n -> Int]
         /\ Same(n, Exchange(a, x, y), a)
<1> DEFINE p == [k \in 1..n |-> IF k = x THEN y ELSE IF k = y THEN x ELSE k]
<1>1. p \in [1..n -> 1..n]
  OBVIOUS
<1>2. \A k \in 1..n : p[p[k]] = k
  OBVIOUS
<1>3. p \in Perm(n)
  <2>1. \A k, l \in 1..n : p[k] = p[l] => k = l
    OBVIOUS
  <2>2. \A l \in 1..n : p[l] \in 1..n /\ p[p[l]] = l
    BY <1>1, <1>2
  <2> HIDE DEF p
  <2> QED BY <1>1, <2>1, <2>2 DEF Perm
<1>4. \A k \in 1..n : Exchange(a, x, y)[k] = a[p[k]]
  BY DEF Exchange
<1>5. Exchange(a, x, y) \in [1..n -> Int]
  BY DEF Exchange
<1> HIDE DEF p
<1> QED BY <1>3, <1>4, <1>5 DEF Same

(* The element at y moves to x, those from x on move up by one. *)
Rotated(a, x, y) == [k \in DOMAIN a |-> CASE k = x -> a[y] [] k \in x + 1..y -> a[k - 1] [] OTHER -> a[k]]

LEMMA RotatedValues ==
  ASSUME NEW n \in Nat, NEW a \in [1..n -> Int], NEW x \in 1..n, NEW y \in x..n
  PROVE  /\ Rotated(a, x, y) \in [1..n -> Int]
         /\ Rotated(a, x, y)[x] = a[y]
         /\ \A k \in x + 1..y : Rotated(a, x, y)[k] = a[k - 1]
         /\ \A k \in 1..n : k < x \/ k > y => Rotated(a, x, y)[k] = a[k]
BY DEF Rotated

LEMMA SameRotated ==
  ASSUME NEW n \in Nat, NEW a \in [1..n -> Int], NEW x \in 1..n, NEW y \in x..n
  PROVE  Same(n, Rotated(a, x, y), a)
<1> DEFINE p == [k \in 1..n |-> IF k = x THEN y ELSE IF k \in x + 1..y THEN k - 1 ELSE k]
           q == [k \in 1..n |-> IF k = y THEN x ELSE IF k \in x..y - 1 THEN k + 1 ELSE k]
<1>1. p \in [1..n -> 1..n] /\ q \in [1..n -> 1..n]
  OBVIOUS
<1>2. \A k \in 1..n : p[q[k]] = k
  OBVIOUS
<1>3. p \in Perm(n)
  <2>1. \A k, l \in 1..n : p[k] = p[l] => k = l
    OBVIOUS
  <2> HIDE DEF p, q
  <2>2. \A l \in 1..n : \E k \in 1..n : p[k] = l
    BY <1>1, <1>2
  <2> QED BY <1>1, <2>1, <2>2 DEF Perm
<1>4. \A k \in 1..n : Rotated(a, x, y)[k] = a[p[k]]
  BY RotatedValues DEF Rotated
<1> HIDE DEF p
<1> QED BY <1>3, <1>4 DEF Same

Places(n, a, v) == {k \in 1..n : a[k] = v}

LEMMA SameCounts ==
  ASSUME NEW n \in Nat, NEW a, NEW b, Same(n, a, b), NEW v
  PROVE  Cardinality(Places(n, a, v)) = Cardinality(Places(n, b, v))
<1> DEFINE A == {k \in 1..n : a[k] = v}
           B == {k \in 1..n : b[k] = v}
<1>1. PICK p \in Perm(n) : \A k \in 1..n : a[k] = b[p[k]]
  BY DEF Same
<1>2. IsFiniteSet(A)
  <2>1. IsFiniteSet(1..n)
    BY FS_Interval
  <2> QED BY <2>1, FS_Subset
<1> DEFINE f == [k \in A |-> p[k]]
<1>3. f \in [A -> B]
  BY <1>1 DEF Perm
<1>4. \A x, y \in A : f[x] = f[y] => x = y
  BY DEF Perm
<1>5. \A y \in B : \E x \in A : f[x] = y
  <2> SUFFICES ASSUME NEW y \in B PROVE \E x \in A : f[x] = y
    OBVIOUS
  <2>1. PICK x \in 1..n : p[x] = y
    BY DEF Perm
  <2> QED BY <1>1, <2>1
<1> HIDE DEF f, A, B
<1>6. f \in Bijection(A, B)
  BY <1>3, <1>4, <1>5, Fun_IsBij
<1>7. ExistsBijection(A, B)
  BY <1>6 DEF ExistsBijection
<1>8. Cardinality(B) = Cardinality(A)
  BY <1>2, <1>7, FS_Bijection
<1> QED BY <1>8 DEF A, B, Places

(* The least and the greatest number of a set. *)
LEMMA NatMin ==
  ASSUME NEW T \in SUBSET Nat, T # {}
  PROVE  Min(T) \in T /\ \A y \in T : Min(T) <= y
<1> DEFINE R == {p \in Nat \X Nat : p[1] < p[2]}
<1>1. IsWellFoundedOn(R, Nat)
  BY NatLessThanWellFounded, Zenon DEF OpToRel
<1>2. \A x, y \in Nat : x < y => <<x, y>> \in R
  OBVIOUS
<1> HIDE DEF R
<1>3. PICK x \in T : \A y \in T : ~(<<y, x>> \in R)
  BY <1>1, WFMin
<1>4. T \subseteq Nat
  OBVIOUS
<1>5. ASSUME NEW y \in T PROVE x <= y
  <2>1. x \in Nat /\ y \in Nat
    BY <1>4
  <2>2. ~(y < x)
    BY <1>2, <1>3, <2>1
  <2> QED BY <2>1, <2>2
<1> QED BY <1>5 DEF Min

LEMMA BoundedMax ==
  ASSUME NEW n \in Nat, NEW T \in SUBSET 0..n, T # {}
  PROVE  Max(T) \in T /\ \A y \in T : Max(T) >= y
<1> DEFINE D == {n - y : y \in T}
<1>1. D \in SUBSET Nat /\ D # {}
  <2>1. \A y \in T : n - y \in Nat
    OBVIOUS
  <2> QED BY <2>1
<1>2. Min(D) \in D /\ \A d \in D : Min(D) <= d
  BY <1>1, NatMin
<1>3. PICK x \in T : Min(D) = n - x
  BY <1>2
<1>4. ASSUME NEW y \in T PROVE x >= y
  <2>1. Min(D) <= n - y
    BY <1>2
  <2> QED BY <1>3, <2>1
<1> QED BY <1>4 DEF Max

-------------------------------------------------------------------------------
(* The types. *)
Locals == [i : Int, j : Int, step : Int, start : Int, temp : Int, left : Int, right : Int,
           loop : BOOLEAN]
CallSet == [op : {"sort", "merge"}, start : Nat, end : Nat]

SortType ==
  /\ sorter \in Sorters \cup {"none"}
  /\ given \in Seq(Int)
  /\ arr \in [1..Len(given) -> Int] /\ Len(arr) = Len(given)
  /\ temparr \in [1..Len(given) -> Int]
  /\ loc \in Locals
  /\ calls \in Seq(CallSet)

LEMMA SeqOfLength ==
  ASSUME NEW n \in Nat, NEW a \in [1..n -> Int]
  PROVE  a \in Seq(Int) /\ Len(a) = n
OBVIOUS

LEMMA SortTypes ==
  ASSUME SortType
  PROVE  /\ Len(given) \in Nat /\ Len(arr) = Len(given) /\ arr \in [1..Len(given) -> Int]
         /\ loc \in Locals
         /\ loc.i \in Int /\ loc.j \in Int /\ loc.step \in Int /\ loc.start \in Int
         /\ loc.temp \in Int /\ loc.left \in Int /\ loc.right \in Int
         /\ loc.loop \in BOOLEAN
BY DEF SortType, Locals

(* A step that changes loc in one or two fields. *)
SetI(r, x)     == [r EXCEPT !.i = x]
SetJ(r, x)     == [r EXCEPT !.j = x]
SetIJ(r, x, y) == [r EXCEPT !.i = x, !.j = y]

LEMMA SetOne ==
  ASSUME NEW r \in Locals, NEW x \in Int
  PROVE  /\ SetI(r, x) \in Locals /\ SetI(r, x).i = x
         /\ SetJ(r, x) \in Locals /\ SetJ(r, x).j = x /\ SetJ(r, x).i = r.i
<1>1. SetI(r, x) \in Locals /\ SetI(r, x).i = x
  BY DEF Locals, SetI
<1>2. SetJ(r, x) \in Locals /\ SetJ(r, x).j = x /\ SetJ(r, x).i = r.i
  BY DEF Locals, SetJ
<1> QED BY <1>1, <1>2

TakeOut(r, t, x) == [r EXCEPT !.temp = t, !.j = x, !.loop = TRUE]
PutBack(r, x)    == [r EXCEPT !.i = x, !.loop = FALSE]
NextGroup(r, s, x)   == [r EXCEPT !.start = s, !.i = x]
NextStep(r, s, p, x) == [r EXCEPT !.start = s, !.step = p, !.i = x]

LEMMA SetJKeeps ==
  ASSUME NEW r \in Locals, NEW x \in Int
  PROVE  /\ SetJ(r, x).step = r.step /\ SetJ(r, x).start = r.start
         /\ SetJ(r, x).temp = r.temp /\ SetJ(r, x).loop = r.loop
BY DEF Locals, SetJ

LEMMA SetTakeOut ==
  ASSUME NEW r \in Locals, NEW t \in Int, NEW x \in Int
  PROVE  /\ TakeOut(r, t, x) \in Locals
         /\ TakeOut(r, t, x).i = r.i /\ TakeOut(r, t, x).j = x /\ TakeOut(r, t, x).step = r.step
         /\ TakeOut(r, t, x).start = r.start /\ TakeOut(r, t, x).temp = t
         /\ TakeOut(r, t, x).loop = TRUE
<1>1. TakeOut(r, t, x) \in Locals
  BY DEF Locals, TakeOut
<1>2. /\ TakeOut(r, t, x).i = r.i /\ TakeOut(r, t, x).j = x /\ TakeOut(r, t, x).step = r.step
      /\ TakeOut(r, t, x).start = r.start /\ TakeOut(r, t, x).temp = t
      /\ TakeOut(r, t, x).loop = TRUE
  BY DEF Locals, TakeOut
<1> QED BY <1>1, <1>2

LEMMA SetPutBack ==
  ASSUME NEW r \in Locals, NEW x \in Int
  PROVE  /\ PutBack(r, x) \in Locals
         /\ PutBack(r, x).i = x /\ PutBack(r, x).step = r.step
         /\ PutBack(r, x).start = r.start /\ PutBack(r, x).loop = FALSE
<1>1. PutBack(r, x) \in Locals
  BY DEF Locals, PutBack
<1>2. /\ PutBack(r, x).i = x /\ PutBack(r, x).step = r.step
      /\ PutBack(r, x).start = r.start /\ PutBack(r, x).loop = FALSE
  BY DEF Locals, PutBack
<1> QED BY <1>1, <1>2

LEMMA SetNextGroup ==
  ASSUME NEW r \in Locals, NEW s \in Int, NEW x \in Int
  PROVE  /\ NextGroup(r, s, x) \in Locals
         /\ NextGroup(r, s, x).i = x /\ NextGroup(r, s, x).step = r.step
         /\ NextGroup(r, s, x).start = s /\ NextGroup(r, s, x).loop = r.loop
<1>1. NextGroup(r, s, x) \in Locals
  BY DEF Locals, NextGroup
<1>2. /\ NextGroup(r, s, x).i = x /\ NextGroup(r, s, x).step = r.step
      /\ NextGroup(r, s, x).start = s /\ NextGroup(r, s, x).loop = r.loop
  BY DEF Locals, NextGroup
<1> QED BY <1>1, <1>2

LEMMA SetNextStep ==
  ASSUME NEW r \in Locals, NEW s \in Int, NEW p \in Int, NEW x \in Int
  PROVE  /\ NextStep(r, s, p, x) \in Locals
         /\ NextStep(r, s, p, x).i = x /\ NextStep(r, s, p, x).step = p
         /\ NextStep(r, s, p, x).start = s /\ NextStep(r, s, p, x).loop = r.loop
<1>1. NextStep(r, s, p, x) \in Locals
  BY DEF Locals, NextStep
<1>2. /\ NextStep(r, s, p, x).i = x /\ NextStep(r, s, p, x).step = p
      /\ NextStep(r, s, p, x).start = s /\ NextStep(r, s, p, x).loop = r.loop
  BY DEF Locals, NextStep
<1> QED BY <1>1, <1>2

LEMMA SetTwo ==
  ASSUME NEW r \in Locals, NEW x \in Int, NEW y \in Int
  PROVE  /\ SetIJ(r, x, y) \in Locals
         /\ SetIJ(r, x, y).i = x /\ SetIJ(r, x, y).j = y
BY DEF Locals, SetIJ

-------------------------------------------------------------------------------
(* The inductive invariant, a part for each function.                      *)

InOrder(a, x, y) == \A k, l \in x..y : k <= l => a[k] <= a[l]

(* What is behind the first n - i + 1 elements is in place, and the        *)
(* element at j is the greatest so far.                                    *)
BubbleOK(n, a, i, j) ==
  /\ i \in 1..n /\ j \in 1..n - i + 1
  /\ \A k \in n - i + 2..n : \A l \in 1..k : a[l] <= a[k]
  /\ \A l \in 1..j : a[l] <= a[j]

(* The first i - 1 elements are in place. *)
SelectOK(n, a, i) ==
  /\ i \in 1..n + 1
  /\ \A k \in 1..i - 1 : \A l \in k..n : a[k] <= a[l]

(* The first j elements are in order. *)
InsertOK(n, a, j) == j \in 1..n /\ InOrder(a, 1, j)

(* groupsort.  In the loop the place at j + step is a hole, in which the   *)
(* element temp belongs for the array to be whole.  With a step of 1 the   *)
(* elements before i are in order, in the loop those up to i but for the   *)
(* hole, and temp is not greater than those behind it.                     *)
Filled(a, p, t) == [a EXCEPT ![p] = t]

HoleOrder(a, i, p, t) ==
  /\ \A k, l \in 1..i : k <= l /\ k # p /\ l # p => a[k] <= a[l]
  /\ \A l \in p + 1..i : t <= a[l]

ShellOK(n, a, g, i, j, step, start, temp, loop) ==
  /\ step \in Nat /\ 2 * step <= n /\ i > step
  /\ step > 0 => start \in 1..step
  /\ loop => step > 0 /\ i <= n /\ j + step \in 1..i /\ Same(n, Filled(a, j + step, temp), g)
  /\ step = 0 => InOrder(a, 1, n)
  /\ step = 1 => /\ i <= n + 1
                 /\ IF loop THEN HoleOrder(a, i, j + 1, temp) ELSE InOrder(a, 1, i - 1)

ShellInv ==
  sorter = "shellsort" =>
    ShellOK(Len(given), arr, given, loc.i, loc.j, loc.step, loc.start, loc.temp, loc.loop)

(* _fastsort.  The calls to come are for ranges apart from each other, and *)
(* only elements of one such range may be out of order.  In the loop the   *)
(* elements before left are less than temp, those behind right are not.    *)
In(c, x) == x \in c.start..c.end

Apart(n, cs) ==
  /\ \A k \in 1..Len(cs) : cs[k].op = "sort" /\ 1 <= cs[k].start /\ cs[k].start <= cs[k].end /\ cs[k].end <= n
  /\ \A k, l \in 1..Len(cs) : \A x \in 1..n : In(cs[k], x) /\ In(cs[l], x) => k = l

Together(cs, x, y) == \E k \in 1..Len(cs) : In(cs[k], x) /\ In(cs[k], y)

OrderedBut(n, a, cs) == \A x, y \in 1..n : x <= y => a[x] <= a[y] \/ Together(cs, x, y)

Parted(a, s, e, l, r, t) ==
  /\ s < l /\ l <= r /\ r <= e /\ a[s] = t
  /\ \A k \in s + 1..l - 1 : a[k] < t
  /\ \A k \in r + 1..e : a[k] >= t

FastOK(n, a, cs, l, r, t, loop) ==
  /\ Apart(n, cs) /\ OrderedBut(n, a, cs)
  /\ loop => cs # <<>> /\ Parted(a, cs[1].start, cs[1].end, l, r, t)

FastInv ==
  sorter = "fastsort" =>
    FastOK(Len(given), arr, calls, loc.left, loc.right, loc.temp, loc.loop)

NoneInv   == sorter = "none" => InOrder(arr, 1, Len(given))
BubbleInv == sorter = "bubblesort" => BubbleOK(Len(given), arr, loc.i, loc.j)
SelectInv == sorter = "selectsort" => SelectOK(Len(given), arr, loc.i)
InsertInv == sorter = "insertsort" => InsertOK(Len(given), arr, loc.j)
KeptInv   == (sorter = "shellsort" /\ loc.loop) \/ Same(Len(given), arr, given)

-------------------------------------------------------------------------------
Bubbled(a, j) == IF a[j] > a[j + 1] THEN Exchange(a, j, j + 1) ELSE a

LEMMA BubbleOrder ==
  ASSUME NEW n \in Nat, NEW a \in [1..n -> Int], NEW i \in 1..n, NEW j \in 1..n - i,
         BubbleOK(n, a, i, j)
  PROVE  /\ Bubbled(a, j) \in [1..n -> Int] /\ Same(n, Bubbled(a, j), a)
         /\ BubbleOK(n, Bubbled(a, j), i, j + 1)
<1>1. PICK b : b = Bubbled(a, j)
  OBVIOUS
<1>2. j \in 1..n /\ j + 1 \in 1..n
  OBVIOUS
<1>3. b \in [1..n -> Int] /\ Same(n, b, a)
  BY <1>1, <1>2, SameExchange, SameReflexive DEF Bubbled
<1>4. /\ \A k \in 1..n : k # j /\ k # j + 1 => b[k] = a[k]
      /\ b[j] <= b[j + 1]
      /\ \/ b[j] = a[j] /\ b[j + 1] = a[j + 1]
         \/ b[j] = a[j + 1] /\ b[j + 1] = a[j]
  BY <1>1, <1>2 DEF Exchange, Bubbled
<1>5. ASSUME NEW k \in n - i + 2..n, NEW l \in 1..k PROVE b[l] <= b[k]
  <2>1. b[k] = a[k] /\ k \in 1..n /\ k > j + 1
    BY <1>4
  <2>2. a[j] <= a[k] /\ a[j + 1] <= a[k] /\ a[l] <= a[k]
    BY <2>1 DEF BubbleOK
  <2> QED BY <1>4, <2>1, <2>2
<1>6. ASSUME NEW l \in 1..j + 1 PROVE b[l] <= b[j + 1]
  <2>1. CASE l = j + 1
    BY <1>2, <1>3, <2>1
  <2>2. CASE l = j
    BY <1>4, <2>2
  <2>3. CASE l < j
    <3>1. b[l] = a[l] /\ a[l] <= a[j] /\ a[j] <= b[j + 1]
      BY <1>2, <1>4, <2>3 DEF BubbleOK
    <3> QED BY <1>2, <1>3, <2>3, <3>1
  <2> QED BY <2>1, <2>2, <2>3
<1>7. BubbleOK(n, b, i, j + 1)
  BY <1>2, <1>5, <1>6 DEF BubbleOK
<1> QED BY <1>1, <1>3, <1>7

LEMMA BubbleNext ==
  ASSUME NEW n \in Nat, NEW a \in [1..n -> Int], NEW i \in 1..n, NEW j \in Int,
         BubbleOK(n, a, i, j), j > n - i
  PROVE  /\ i < n => BubbleOK(n, a, i + 1, 1)
         /\ i >= n => InOrder(a, 1, n)
<1>1. j = n - i + 1
  BY DEF BubbleOK
<1>2. CASE i < n
  <2>1. \A k \in n - (i + 1) + 2..n : \A l \in 1..k : a[l] <= a[k]
    BY <1>1 DEF BubbleOK
  <2> QED BY <1>2, <2>1 DEF BubbleOK
<1>3. CASE i >= n
  BY <1>3 DEF BubbleOK, InOrder
<1> QED BY <1>2, <1>3

(* What every step has to show for the common part. *)
LEMMA CommonStep ==
  ASSUME SortType, KeptInv, sorter # "shellsort" \/ ~loc.loop, NEW n, n = Len(given),
         sorter' \in Sorters \cup {"none"}, given' = given,
         arr' \in [1..n -> Int], Same(n, arr', arr), temparr' \in [1..n -> Int],
         loc' \in Locals, calls' \in Seq(CallSet)
  PROVE  SortType' /\ KeptInv'
<1>1. n \in Nat
  BY SortTypes
<1>2. Len(arr') = n
  BY <1>1, SeqOfLength
<1>3. Same(n, arr', given)
  <2>1. Same(n, arr, given)
    BY DEF KeptInv
  <2> QED BY <1>1, <2>1, SameTransitive
<1> QED BY <1>2, <1>3 DEF SortType, KeptInv

LEMMA BubbleStep ==
  ASSUME SortType, KeptInv, BubbleInv, bubble
  PROVE  SortType' /\ KeptInv' /\ BubbleInv' /\ sorter' = "bubblesort"
<1>1. PICK n \in Nat : n = Len(given) /\ n = Len(arr) /\ arr \in [1..n -> Int]
  BY SortTypes
<1>2. PICK i \in Int, j \in Int : i = loc.i /\ j = loc.j
  BY SortTypes
<1>3. /\ i < n /\ j <= n - i /\ arr' = Bubbled(arr, j) /\ sorter = "bubblesort"
      /\ loc' = SetJ(loc, j + 1)
      /\ sorter' = sorter /\ given' = given /\ temparr' = temparr /\ calls' = calls
  BY <1>1, <1>2 DEF bubble, Bubbled, SetJ
<1>4. BubbleOK(n, arr, i, j)
  BY <1>1, <1>2, <1>3 DEF BubbleInv
<1>5. i \in 1..n /\ j \in 1..n - i
  BY <1>3, <1>4 DEF BubbleOK
<1>6. arr' \in [1..n -> Int] /\ Same(n, arr', arr) /\ BubbleOK(n, arr', i, j + 1)
  BY <1>1, <1>3, <1>4, <1>5, BubbleOrder
<1>7. loc' \in Locals /\ loc'.i = i /\ loc'.j = j + 1
  <2>1. loc \in Locals /\ j + 1 \in Int
    BY SortTypes
  <2> QED BY <1>2, <1>3, <2>1, SetOne
<1>8. SortType' /\ KeptInv'
  BY <1>1, <1>3, <1>6, <1>7, CommonStep DEF SortType
<1> QED BY <1>1, <1>3, <1>6, <1>7, <1>8 DEF BubbleInv

LEMMA ReturnStep ==
  ASSUME SortType, KeptInv, sorter # "shellsort" \/ ~loc.loop, returns,
         InOrder(arr, 1, Len(given))
  PROVE  SortType' /\ KeptInv' /\ NoneInv' /\ sorter' = "none"
<1>1. /\ sorter' = "none" /\ given' = given /\ arr' = arr /\ temparr' = temparr
      /\ loc' = loc /\ calls' = calls
  BY DEF returns
<1>2. SortType'
  BY <1>1 DEF SortType
<1>3. Same(Len(given), arr, given)
  BY DEF KeptInv
<1> QED BY <1>1, <1>2, <1>3 DEF KeptInv, NoneInv

LEMMA BubblePassStep ==
  ASSUME SortType, KeptInv, BubbleInv, bubble_pass
  PROVE  /\ SortType' /\ KeptInv'
         /\ (sorter' = "bubblesort" /\ BubbleInv') \/ (sorter' = "none" /\ NoneInv')
<1>1. PICK n \in Nat : n = Len(given) /\ n = Len(arr) /\ arr \in [1..n -> Int]
  BY SortTypes
<1>2. PICK i \in Int, j \in Int : i = loc.i /\ j = loc.j
  BY SortTypes
<1>3. BubbleOK(n, arr, i, j) /\ sorter = "bubblesort"
  BY <1>1, <1>2 DEF BubbleInv, bubble_pass
<1>4. i \in 1..n
  BY <1>3 DEF BubbleOK
<1>5. CASE i < n
  <2>1. /\ j > n - i /\ loc' = SetIJ(loc, i + 1, 1)
        /\ sorter' = sorter /\ given' = given /\ arr' = arr /\ temparr' = temparr /\ calls' = calls
    BY <1>1, <1>2, <1>5 DEF bubble_pass, SetIJ
  <2>2. loc' \in Locals /\ loc'.i = i + 1 /\ loc'.j = 1
    <3>1. loc \in Locals /\ i + 1 \in Int
      BY SortTypes
    <3> QED BY <2>1, <3>1, SetTwo
  <2>3. BubbleOK(n, arr, i + 1, 1)
    BY <1>1, <1>3, <1>4, <1>5, <2>1, BubbleNext
  <2>4. SortType' /\ KeptInv'
    BY <1>1, <1>3, <2>1, <2>2, CommonStep, SameReflexive DEF SortType
  <2>5. BubbleInv'
    BY <1>1, <2>1, <2>2, <2>3 DEF BubbleInv
  <2>6. sorter' = "bubblesort"
    BY <1>3, <2>1
  <2> QED BY <2>4, <2>5, <2>6
<1>6. CASE i >= n
  <2>1. returns
    BY <1>1, <1>2, <1>6 DEF bubble_pass
  <2>2. InOrder(arr, 1, n)
    <3>1. j > n - i
      BY <1>3, <1>4, <1>6 DEF BubbleOK
    <3> QED BY <1>1, <1>3, <1>4, <1>6, <3>1, BubbleNext
  <2> QED BY <1>1, <1>3, <2>1, <2>2, ReturnStep
<1> QED BY <1>4, <1>5, <1>6

-------------------------------------------------------------------------------
LEMMA SelectOrder ==
  ASSUME NEW n \in Nat, NEW a \in [1..n -> Int], NEW i \in 1..n, NEW m \in i..n,
         SelectOK(n, a, i), \A k \in i..n : a[m] <= a[k]
  PROVE  SelectOK(n, Exchange(a, i, m), i + 1)
<1>1. PICK b : b = Exchange(a, i, m)
  OBVIOUS
<1>2. \A k \in 1..n : b[k] = IF k = i THEN a[m] ELSE IF k = m THEN a[i] ELSE a[k]
  BY <1>1 DEF Exchange
<1>3. ASSUME NEW k \in 1..i, NEW l \in k..n PROVE b[k] <= b[l]
  <2>1. CASE k = i
    BY <1>2, <2>1
  <2>2. CASE k < i
    <3>1. b[k] = a[k] /\ k \in 1..i - 1 /\ k \in 1..n
      BY <1>2, <2>2
    <3>2. a[k] <= a[l] /\ a[k] <= a[i] /\ a[k] <= a[m]
      BY <3>1 DEF SelectOK
    <3> QED BY <1>2, <3>1, <3>2
  <2> QED BY <2>1, <2>2
<1> QED BY <1>1, <1>3 DEF SelectOK

LEMMA LeastExists ==
  ASSUME NEW n \in Nat, NEW a \in [1..n -> Int], NEW i \in 1..n
  PROVE  \E m \in i..n : \A k \in i..n : a[m] <= a[k] /\ (a[k] = a[m] => m <= k)
<1> DEFINE P(d) == \E m \in i..i + d : \A k \in i..i + d : a[m] <= a[k] /\ (a[k] = a[m] => m <= k)
           T == {d \in Nat : i + d <= n /\ ~P(d)}
<1>1. SUFFICES ASSUME T # {} PROVE FALSE
  <2>1. n - i \in Nat /\ i + (n - i) = n
    OBVIOUS
  <2>2. P(n - i) => \E m \in i..n : \A k \in i..n : a[m] <= a[k] /\ (a[k] = a[m] => m <= k)
    BY <2>1
  <2> HIDE DEF P
  <2>3. T = {} => P(n - i)
    BY <2>1
  <2> QED BY <1>1, <2>2, <2>3
<1>2. PICK d \in T : \A e \in T : d <= e
  BY <1>1, NatMin
<1>3. d # 0
  <2>1. i + 0 = i /\ i..i = {i}
    OBVIOUS
  <2>2. P(0)
    BY <2>1
  <2> HIDE DEF P
  <2> QED BY <2>2
<1>4. P(d - 1)
  <2>1. d \in Nat /\ i + d <= n
    OBVIOUS
  <2>2. d - 1 \in Nat /\ i + (d - 1) <= n
    BY <1>3, <2>1
  <2>3. d - 1 \notin T
    <3> HIDE DEF T
    <3> QED BY <1>2, <2>1
  <2> HIDE DEF P
  <2> QED BY <2>2, <2>3
<1>5. PICK m \in i..i + (d - 1) :
          \A k \in i..i + (d - 1) : a[m] <= a[k] /\ (a[k] = a[m] => m <= k)
  BY <1>4
<1>6. P(d)
  <2>1. d \in Nat /\ i + d \in 1..n /\ m \in 1..n
    OBVIOUS
  <2> DEFINE w == IF a[i + d] < a[m] THEN i + d ELSE m
  <2>2. ASSUME NEW k \in i..i + d PROVE a[w] <= a[k] /\ (a[k] = a[w] => w <= k)
    <3>1. CASE k = i + d
      BY <2>1, <3>1
    <3>2. CASE k # i + d
      <4>1. k \in i..i + (d - 1) /\ k \in 1..n
        BY <2>1, <3>2
      <4>2. a[m] <= a[k] /\ (a[k] = a[m] => m <= k)
        BY <1>5, <4>1
      <4> QED BY <2>1, <4>1, <4>2
    <3> QED BY <3>1, <3>2
  <2>3. w \in i..i + d
    BY <2>1
  <2> QED BY <2>2, <2>3
<1> QED BY <1>6

LEMMA MinIndex ==
  ASSUME SortType, NEW n, n = Len(given), NEW i \in 1..n
  PROVE  min_index(i) \in i..n /\ \A k \in i..n : arr[min_index(i)] <= arr[k]
<1>1. arr \in [1..n -> Int] /\ Len(arr) = n /\ n \in Nat
  BY SortTypes
<1>2. \E m \in i..n : \A k \in i..n : arr[m] <= arr[k] /\ (arr[k] = arr[m] => m <= k)
  BY <1>1, LeastExists
<1> QED BY <1>1, <1>2 DEF min_index

LEMMA SelectStep ==
  ASSUME SortType, KeptInv, SelectInv, selectsort
  PROVE  /\ SortType' /\ KeptInv'
         /\ (sorter' = "selectsort" /\ SelectInv') \/ (sorter' = "none" /\ NoneInv')
<1>1. PICK n \in Nat : n = Len(given) /\ n = Len(arr) /\ arr \in [1..n -> Int]
  BY SortTypes
<1>2. PICK i \in Int : i = loc.i
  BY SortTypes
<1>3. SelectOK(n, arr, i) /\ sorter = "selectsort"
  BY <1>1, <1>2 DEF SelectInv, selectsort
<1>4. i \in 1..n + 1
  BY <1>3 DEF SelectOK
<1>5. CASE i <= n
  <2> DEFINE m == min_index(i)
  <2>1. /\ arr' = Exchange(arr, i, m) /\ loc' = SetI(loc, i + 1)
        /\ sorter' = sorter /\ given' = given /\ temparr' = temparr /\ calls' = calls
    BY <1>1, <1>2, <1>5 DEF selectsort, SetI
  <2>2. i \in 1..n /\ m \in i..n /\ \A k \in i..n : arr[m] <= arr[k]
    BY <1>1, <1>4, <1>5, MinIndex
  <2> HIDE DEF m
  <2>3. loc' \in Locals /\ loc'.i = i + 1
    <3>1. loc \in Locals /\ i + 1 \in Int
      BY SortTypes
    <3> QED BY <2>1, <3>1, SetOne
  <2>4. SelectOK(n, arr', i + 1)
    BY <1>1, <1>3, <2>1, <2>2, SelectOrder
  <2>5. arr' \in [1..n -> Int] /\ Same(n, arr', arr)
    <3>1. m \in 1..n
      BY <2>2
    <3> QED BY <1>1, <2>1, <2>2, <3>1, SameExchange
  <2>6. SortType' /\ KeptInv'
    BY <1>1, <1>3, <2>1, <2>3, <2>5, CommonStep DEF SortType
  <2>7. SelectInv'
    BY <1>1, <2>1, <2>3, <2>4 DEF SelectInv
  <2>8. sorter' = "selectsort"
    BY <1>3, <2>1
  <2> QED BY <2>6, <2>7, <2>8
<1>6. CASE i > n
  <2>1. returns
    BY <1>1, <1>2, <1>6 DEF selectsort
  <2>2. InOrder(arr, 1, n)
    BY <1>1, <1>3, <1>4, <1>6 DEF SelectOK, InOrder
  <2> QED BY <1>1, <1>3, <2>1, <2>2, ReturnStep
<1> QED BY <1>4, <1>5, <1>6

-------------------------------------------------------------------------------
LEMMA InsertOrder ==
  ASSUME NEW n \in Nat, NEW a \in [1..n -> Int], NEW j \in 1..n - 1, InsertOK(n, a, j)
  PROVE  /\ insert(a, j + 1) \in [1..n -> Int] /\ Same(n, insert(a, j + 1), a)
         /\ InsertOK(n, insert(a, j + 1), j + 1)
<1> DEFINE K == {k \in 1..j + 1 : k = j + 1 \/ a[k] >= a[j + 1]}
<1>1. K \in SUBSET Nat /\ K # {}
  OBVIOUS
<1>2. PICK x : x = Min(K) /\ x \in K /\ \A y \in K : x <= y
  BY <1>1, NatMin
<1>3. insert(a, j + 1) = Rotated(a, x, j + 1)
  <2>1. insert(a, j + 1) = Rotated(a, Min(K), j + 1)
    BY DEF insert, Rotated
  <2> QED BY <1>2, <2>1, Zenon
<1>4. x \in 1..j + 1 /\ x \in 1..n /\ j + 1 \in x..n /\ (x = j + 1 \/ a[x] >= a[j + 1])
  BY <1>2
<1>5. \A k \in 1..x - 1 : a[k] < a[j + 1]
  <2> SUFFICES ASSUME NEW k \in 1..x - 1 PROVE a[k] < a[j + 1]
    OBVIOUS
  <2>1. k \in 1..j + 1 /\ k # j + 1 /\ k < x
    BY <1>4
  <2>2. k \notin K
    <3> HIDE DEF K
    <3> QED BY <1>2, <1>4, <2>1
  <2> QED BY <2>1, <2>2
<1> HIDE DEF K
<1>6. PICK b : b = Rotated(a, x, j + 1)
  OBVIOUS
<1>7. /\ b \in [1..n -> Int] /\ Same(n, b, a)
      /\ b[x] = a[j + 1]
      /\ \A k \in x + 1..j + 1 : b[k] = a[k - 1]
      /\ \A k \in 1..n : k < x \/ k > j + 1 => b[k] = a[k]
  <2>1. PICK y \in x..n : y = j + 1
    BY <1>4
  <2>2. Same(n, b, a)
    BY <1>4, <1>6, <2>1, SameRotated
  <2>3. /\ b \in [1..n -> Int] /\ b[x] = a[y]
        /\ \A k \in x + 1..y : b[k] = a[k - 1]
        /\ \A k \in 1..n : k < x \/ k > y => b[k] = a[k]
    <3>1. x \in 1..n
      BY <1>4
    <3>2. b = Rotated(a, x, y)
      BY <1>6, <2>1
    <3>3. /\ Rotated(a, x, y) \in [1..n -> Int]
          /\ Rotated(a, x, y)[x] = a[y]
          /\ \A k \in x + 1..y : Rotated(a, x, y)[k] = a[k - 1]
          /\ \A k \in 1..n : k < x \/ k > y => Rotated(a, x, y)[k] = a[k]
      BY Zenon, <2>1, <3>1, RotatedValues
    <3> QED BY Zenon, <3>2, <3>3
  <2> QED BY <2>1, <2>2, <2>3
<1>8. ASSUME NEW k \in 1..j + 1, NEW l \in 1..j + 1, k <= l PROVE b[k] <= b[l]
  <2>1. \A u, v \in 1..j : u <= v => a[u] <= a[v]
    BY DEF InsertOK, InOrder
  <2>2. CASE k < x /\ l < x
    <3>1. k \in 1..j /\ l \in 1..j /\ b[k] = a[k] /\ b[l] = a[l]
      BY <1>4, <1>7, <2>2
    <3> QED BY <1>8, <2>1, <3>1
  <2>3. CASE k < x /\ l = x
    BY <1>4, <1>5, <1>7, <2>3
  <2>4. CASE k < x /\ l > x
    BY <1>4, <1>7, <1>8, <2>1, <2>4
  <2>5. CASE k = x /\ l = x
    BY <1>4, <1>7, <2>5
  <2>6. CASE k = x /\ l > x
    <3>1. x \in 1..j /\ l - 1 \in x..j /\ a[x] <= a[l - 1] /\ b[l] = a[l - 1]
      BY <1>4, <1>7, <2>1, <2>6
    <3> QED BY SMTT(30), <1>4, <1>7, <2>6, <3>1
  <2>7. CASE k > x
    <3>1. k - 1 \in 1..j /\ l - 1 \in 1..j /\ k - 1 <= l - 1 /\ k \in x + 1..j + 1 /\ l \in x + 1..j + 1
      BY <1>4, <1>8, <2>7
    <3> QED BY <1>7, <2>1, <3>1
  <2> QED BY <1>4, <1>8, <2>2, <2>3, <2>4, <2>5, <2>6, <2>7
<1>9. InsertOK(n, b, j + 1)
  BY <1>8 DEF InsertOK, InOrder
<1> QED BY <1>3, <1>6, <1>7, <1>9

LEMMA InsertStep ==
  ASSUME SortType, KeptInv, InsertInv, insertsort
  PROVE  /\ SortType' /\ KeptInv'
         /\ (sorter' = "insertsort" /\ InsertInv') \/ (sorter' = "none" /\ NoneInv')
<1>1. PICK n \in Nat : n = Len(given) /\ n = Len(arr) /\ arr \in [1..n -> Int]
  BY SortTypes
<1>2. PICK j \in Int : j = loc.j
  BY SortTypes
<1>3. InsertOK(n, arr, j) /\ sorter = "insertsort"
  BY <1>1, <1>2 DEF InsertInv, insertsort
<1>4. j \in 1..n
  BY <1>3 DEF InsertOK
<1>5. CASE j < n
  <2>1. /\ arr' = insert(arr, j + 1) /\ loc' = SetJ(loc, j + 1)
        /\ sorter' = sorter /\ given' = given /\ temparr' = temparr /\ calls' = calls
    BY <1>1, <1>2, <1>5 DEF insertsort, SetJ
  <2>2. loc' \in Locals /\ loc'.j = j + 1
    <3>1. loc \in Locals /\ j + 1 \in Int
      BY SortTypes
    <3> QED BY <2>1, <3>1, SetOne
  <2>3. arr' \in [1..n -> Int] /\ Same(n, arr', arr) /\ InsertOK(n, arr', j + 1)
    <3>1. j \in 1..n - 1
      BY <1>4, <1>5
    <3> QED BY <1>1, <1>3, <2>1, <3>1, InsertOrder
  <2>4. SortType' /\ KeptInv'
    BY <1>1, <1>3, <2>1, <2>2, <2>3, CommonStep DEF SortType
  <2>5. InsertInv'
    BY <1>1, <2>1, <2>2, <2>3 DEF InsertInv
  <2>6. sorter' = "insertsort"
    BY <1>3, <2>1
  <2> QED BY <2>4, <2>5, <2>6
<1>6. CASE j >= n
  <2>1. returns
    BY <1>1, <1>2, <1>6 DEF insertsort
  <2>2. InOrder(arr, 1, n)
    <3>1. j = n
      BY <1>4, <1>6
    <3> QED BY <1>3, <3>1 DEF InsertOK
  <2> QED BY <1>1, <1>3, <2>1, <2>2, ReturnStep
<1> QED BY <1>4, <1>5, <1>6

-------------------------------------------------------------------------------
LEMMA ShiftOrder ==
  ASSUME NEW n \in Nat, NEW a \in [1..n -> Int], NEW i \in Int, NEW j \in 1..n, NEW step \in Nat,
         NEW start, NEW temp \in Int, NEW g,
         ShellOK(n, a, g, i, j, step, start, temp, TRUE), temp <= a[j],
         NEW b, b = Filled(a, j + step, a[j])
  PROVE  /\ b \in [1..n -> Int]
         /\ ShellOK(n, b, g, i, j - step, step, start, temp, TRUE)
<1>1. /\ 2 * step <= n /\ i > step /\ step > 0 /\ start \in 1..step
      /\ i <= n /\ j + step \in 1..i /\ Same(n, Filled(a, j + step, temp), g)
      /\ step = 1 => HoleOrder(a, i, j + 1, temp)
  BY DEF ShellOK
<1>2. PICK p \in 1..n : p = j + step /\ p > j
  BY <1>1
<1>3. b \in [1..n -> Int] /\ \A k \in 1..n : b[k] = IF k = p THEN a[j] ELSE a[k]
  BY <1>2 DEF Filled
<1>4. Same(n, Filled(b, j, temp), g)
  <2> DEFINE f == Filled(a, p, temp)
             h == Filled(b, j, temp)
  <2>1. f \in [1..n -> Int] /\ \A k \in 1..n : f[k] = IF k = p THEN temp ELSE a[k]
    BY <1>2 DEF Filled
  <2>2. h \in [1..n -> Int] /\ \A k \in 1..n : h[k] = IF k = j THEN temp ELSE b[k]
    BY <1>3 DEF Filled
  <2> HIDE DEF f, h
  <2>3. Exchange(f, j, p) \in [1..n -> Int] /\ Same(n, Exchange(f, j, p), f)
    BY <2>1, SameExchange
  <2>4. \A k \in 1..n : Exchange(f, j, p)[k] = h[k]
    BY <1>2, <1>3, <2>1, <2>2 DEF Exchange
  <2>5. Exchange(f, j, p) = h
    BY <2>2, <2>3, <2>4
  <2>6. Same(n, h, f) /\ Same(n, f, g)
    BY <1>1, <1>2, <2>3, <2>5 DEF f
  <2> QED BY <2>6, SameTransitive DEF h
<1>5. CASE step = 1
  <2>1. HoleOrder(a, i, j + 1, temp) /\ p = j + 1
    BY <1>1, <1>2, <1>5
  <2>2. ASSUME NEW k \in 1..i, NEW l \in 1..i, k <= l, k # j, l # j PROVE b[k] <= b[l]
    <3>1. k \in 1..n /\ l \in 1..n
      BY <1>1
    <3>2. CASE k = p /\ l = p
      BY <1>3, <3>1, <3>2
    <3>3. CASE k = p /\ l # p
      <4>1. j \in 1..i /\ j <= l /\ j # j + 1
        BY <1>2, <2>2, <3>3
      <4>2. a[j] <= a[l]
        BY <2>1, <3>3, <4>1 DEF HoleOrder
      <4> QED BY <1>3, <3>1, <3>3, <4>2
    <3>4. CASE k # p /\ l = p
      <4>1. j \in 1..i /\ k <= j /\ j # j + 1
        BY <1>2, <2>1, <2>2, <3>4
      <4>2. a[k] <= a[j]
        BY <2>1, <3>4, <4>1 DEF HoleOrder
      <4> QED BY <1>3, <3>1, <3>4, <4>2
    <3>5. CASE k # p /\ l # p
      BY <1>3, <2>1, <2>2, <3>1, <3>5 DEF HoleOrder
    <3> QED BY <3>2, <3>3, <3>4, <3>5
  <2>3. ASSUME NEW l \in j + 1..i PROVE temp <= b[l]
    <3>1. l \in 1..n
      BY <1>1
    <3>2. CASE l = p
      BY <1>3, <3>1, <3>2
    <3>3. CASE l # p
      BY <1>3, <2>1, <3>1, <3>3 DEF HoleOrder
    <3> QED BY <3>2, <3>3
  <2>4. HoleOrder(b, i, j, temp)
    BY <2>2, <2>3 DEF HoleOrder
  <2>5. (j - step) + 1 = j
    BY <1>5
  <2> QED BY <1>1, <1>3, <1>4, <1>5, <2>4, <2>5 DEF ShellOK
<1>6. CASE step # 1
  <2>1. (j - step) + step = j /\ j \in 1..i
    BY <1>1
  <2> QED BY <1>1, <1>3, <1>4, <1>6, <2>1 DEF ShellOK
<1> QED BY <1>5, <1>6

LEMMA PutOrder ==
  ASSUME NEW n \in Nat, NEW a \in [1..n -> Int], NEW i \in Int, NEW j \in Int, NEW step \in Nat,
         NEW start, NEW temp \in Int, NEW g,
         ShellOK(n, a, g, i, j, step, start, temp, TRUE), j >= 1 => temp > a[j],
         NEW b, b = Filled(a, j + step, temp)
  PROVE  /\ b \in [1..n -> Int] /\ Same(n, b, g)
         /\ ShellOK(n, b, g, i + step, j, step, start, temp, FALSE)
<1>1. /\ 2 * step <= n /\ i > step /\ step > 0 /\ start \in 1..step
      /\ i <= n /\ j + step \in 1..i /\ Same(n, Filled(a, j + step, temp), g)
      /\ step = 1 => HoleOrder(a, i, j + 1, temp)
  BY DEF ShellOK
<1>2. PICK p \in 1..n : p = j + step
  BY <1>1
<1>3. b \in [1..n -> Int] /\ \A k \in 1..n : b[k] = IF k = p THEN temp ELSE a[k]
  BY <1>2 DEF Filled
<1>4. CASE step = 1
  <2>1. HoleOrder(a, i, p, temp) /\ p = j + 1 /\ p \in 1..i
    BY <1>1, <1>2, <1>4
  <2>2. ASSUME NEW k \in 1..i, NEW l \in 1..i, k <= l PROVE b[k] <= b[l]
    <3>1. k \in 1..n /\ l \in 1..n
      BY <1>1
    <3>2. CASE k = p
      BY <1>3, <2>1, <2>2, <3>1, <3>2 DEF HoleOrder
    <3>3. CASE k # p /\ l = p
      <4>1. j \in 1..i /\ k <= j /\ j # p /\ j >= 1 /\ j \in 1..n
        BY <1>1, <2>1, <2>2, <3>3
      <4>2. a[k] <= a[j] /\ a[j] < temp
        BY <2>1, <3>3, <4>1 DEF HoleOrder
      <4> QED BY <1>3, <3>1, <3>3, <4>1, <4>2
    <3>4. CASE k # p /\ l # p
      BY <1>3, <2>1, <2>2, <3>1, <3>4 DEF HoleOrder
    <3> QED BY <3>2, <3>3, <3>4
  <2>3. InOrder(b, 1, (i + step) - 1)
    <3>1. (i + step) - 1 = i
      BY <1>4
    <3> QED BY <2>2, <3>1 DEF InOrder
  <2> QED BY <1>1, <1>3, <1>4, <2>3 DEF ShellOK
<1>5. CASE step # 1
  BY <1>1, <1>3, <1>5 DEF ShellOK
<1> QED BY <1>4, <1>5

(* The common part of a step of shellsort; keeps says where the elements   *)
(* of given are after it.                                                  *)
LEMMA ShellCommon ==
  ASSUME SortType, NEW n, n = Len(given), sorter = "shellsort",
         UNCHANGED <<sorter, given, temparr, calls>>,
         arr' \in [1..n -> Int], loc' \in Locals, loc'.loop \/ Same(n, arr', given)
  PROVE  SortType' /\ KeptInv' /\ sorter' = "shellsort"
<1>1. n \in Nat
  BY SortTypes
<1>2. Len(arr') = n
  BY <1>1, SeqOfLength
<1>3. SortType'
  BY <1>2 DEF SortType
<1> QED BY <1>3 DEF KeptInv

LEMMA GroupTakeStep ==
  ASSUME SortType, KeptInv, ShellInv, group_take
  PROVE  SortType' /\ KeptInv' /\ sorter' = "shellsort" /\ ShellInv'
<1>1. PICK n \in Nat : n = Len(given) /\ n = Len(arr) /\ arr \in [1..n -> Int]
  BY SortTypes
<1>2. PICK i \in Int, step \in Int : i = loc.i /\ step = loc.step
  BY SortTypes
<1>3. /\ sorter = "shellsort" /\ ~loc.loop /\ step > 0 /\ i <= n
      /\ loc' = TakeOut(loc, arr[i], i - step)
      /\ arr' = arr /\ UNCHANGED <<sorter, given, temparr, calls>>
  BY <1>1, <1>2 DEF group_take, TakeOut
<1>4. ShellOK(n, arr, given, i, loc.j, step, loc.start, loc.temp, FALSE)
  <2>1. loc.loop = FALSE
    BY <1>3, SortTypes
  <2> QED BY <1>1, <1>2, <1>3, <2>1 DEF ShellInv
<1>5. i \in 1..n /\ step \in Nat
  BY <1>3, <1>4 DEF ShellOK
<1>6. /\ loc' \in Locals /\ loc'.i = i /\ loc'.j = i - step /\ loc'.step = step
      /\ loc'.start = loc.start /\ loc'.temp = arr[i] /\ loc'.loop = TRUE
  <2>1. PICK t \in Int, x \in Int : t = arr[i] /\ x = i - step /\ loc' = TakeOut(loc, t, x)
    BY <1>1, <1>3, <1>5
  <2>2. loc \in Locals
    BY SortTypes
  <2>3. loc' \in Locals
    BY <2>1, <2>2, SetTakeOut
  <2>4. loc'.i = loc.i /\ loc'.j = x /\ loc'.step = loc.step
    BY <2>1, <2>2 DEF TakeOut, Locals
  <2>5. loc'.start = loc.start /\ loc'.temp = t /\ loc'.loop = TRUE
    BY <2>1, <2>2 DEF TakeOut, Locals
  <2> QED BY <1>2, <2>1, <2>3, <2>4, <2>5
<1>7. ShellOK(n, arr, given, i, i - step, step, loc.start, arr[i], TRUE)
  <2>1. (i - step) + step = i
    OBVIOUS
  <2>2. Same(n, Filled(arr, i, arr[i]), given)
    <3>1. Filled(arr, i, arr[i]) = arr
      BY <1>1, <1>5 DEF Filled
    <3> QED BY <1>1, <1>3, <3>1 DEF KeptInv
  <2>3. step = 1 => HoleOrder(arr, i, (i - step) + 1, arr[i])
    <3> SUFFICES ASSUME step = 1 PROVE HoleOrder(arr, i, i, arr[i])
      BY <2>1
    <3>1. InOrder(arr, 1, i - 1)
      BY <1>4 DEF ShellOK
    <3> QED BY <1>1, <1>5, <3>1 DEF HoleOrder, InOrder
  <2> QED BY <1>3, <1>4, <1>5, <2>1, <2>2, <2>3 DEF ShellOK
<1>8. SortType' /\ KeptInv' /\ sorter' = "shellsort"
  BY <1>1, <1>3, <1>6, ShellCommon
<1>9. ShellInv'
  BY <1>1, <1>3, <1>6, <1>7 DEF ShellInv
<1> QED BY <1>8, <1>9

LEMMA GroupShiftStep ==
  ASSUME SortType, KeptInv, ShellInv, group_shift
  PROVE  SortType' /\ KeptInv' /\ sorter' = "shellsort" /\ ShellInv'
<1>1. PICK n \in Nat : n = Len(given) /\ n = Len(arr) /\ arr \in [1..n -> Int]
  BY SortTypes
<1>2. PICK i \in Int, j \in Int, step \in Int, temp \in Int :
        i = loc.i /\ j = loc.j /\ step = loc.step /\ temp = loc.temp
  BY SortTypes
<1>3. /\ sorter = "shellsort" /\ loc.loop = TRUE /\ j >= 1 /\ temp <= arr[j]
      /\ arr' = Filled(arr, j + step, arr[j]) /\ loc' = SetJ(loc, j - step)
      /\ UNCHANGED <<sorter, given, temparr, calls>>
  BY <1>2, SortTypes DEF group_shift, Filled, SetJ
<1>4. ShellOK(n, arr, given, i, j, step, loc.start, temp, TRUE)
  BY <1>1, <1>2, <1>3 DEF ShellInv
<1>5. j \in 1..n /\ step \in Nat
  BY <1>3, <1>4 DEF ShellOK
<1>6. arr' \in [1..n -> Int] /\ ShellOK(n, arr', given, i, j - step, step, loc.start, temp, TRUE)
  BY <1>1, <1>3, <1>4, <1>5, ShiftOrder
<1>7. /\ loc' \in Locals /\ loc'.i = i /\ loc'.j = j - step /\ loc'.step = step
      /\ loc'.start = loc.start /\ loc'.temp = temp /\ loc'.loop = TRUE
  <2>1. PICK u \in Int : u = j - step
    OBVIOUS
  <2>2. loc \in Locals
    BY SortTypes
  <2>3. SetJ(loc, u) \in Locals /\ SetJ(loc, u).j = u /\ SetJ(loc, u).i = loc.i
    BY Zenon, <2>2, SetOne
  <2>4. /\ SetJ(loc, u).step = loc.step /\ SetJ(loc, u).start = loc.start
        /\ SetJ(loc, u).temp = loc.temp /\ SetJ(loc, u).loop = loc.loop
    BY Zenon, <2>2, SetJKeeps
  <2>5. loc' = SetJ(loc, u)
    BY <1>3, <2>1
  <2> QED BY Zenon, <1>2, <1>3, <2>1, <2>3, <2>4, <2>5
<1>8. SortType' /\ KeptInv' /\ sorter' = "shellsort"
  BY <1>1, <1>3, <1>6, <1>7, ShellCommon
<1>9. ShellInv'
  BY <1>1, <1>3, <1>6, <1>7 DEF ShellInv
<1> QED BY <1>8, <1>9

LEMMA GroupPutStep ==
  ASSUME SortType, KeptInv, ShellInv, group_put
  PROVE  SortType' /\ KeptInv' /\ sorter' = "shellsort" /\ ShellInv'
<1>1. PICK n \in Nat : n = Len(given) /\ n = Len(arr) /\ arr \in [1..n -> Int]
  BY SortTypes
<1>2. PICK i \in Int, j \in Int, step \in Int, temp \in Int :
        i = loc.i /\ j = loc.j /\ step = loc.step /\ temp = loc.temp
  BY SortTypes
<1>3. /\ sorter = "shellsort" /\ loc.loop = TRUE /\ (j >= 1 => temp > arr[j])
      /\ arr' = Filled(arr, j + step, temp) /\ loc' = PutBack(loc, i + step)
      /\ UNCHANGED <<sorter, given, temparr, calls>>
  BY <1>2, SortTypes DEF group_put, Filled, PutBack
<1>4. ShellOK(n, arr, given, i, j, step, loc.start, temp, TRUE)
  BY <1>1, <1>2, <1>3 DEF ShellInv
<1>5. step \in Nat
  BY <1>4 DEF ShellOK
<1>6. /\ arr' \in [1..n -> Int] /\ Same(n, arr', given)
      /\ ShellOK(n, arr', given, i + step, j, step, loc.start, temp, FALSE)
  BY <1>1, <1>3, <1>4, <1>5, PutOrder
<1>7. /\ loc' \in Locals /\ loc'.i = i + step /\ loc'.step = step
      /\ loc'.start = loc.start /\ loc'.loop = FALSE
  <2>1. loc \in Locals /\ i + step \in Int
    BY SortTypes
  <2> QED BY <1>2, <1>3, <2>1, SetPutBack
<1>8. SortType' /\ KeptInv' /\ sorter' = "shellsort"
  BY <1>1, <1>3, <1>6, <1>7, ShellCommon
<1>9. ShellInv'
  BY <1>1, <1>3, <1>6, <1>7 DEF ShellInv, ShellOK
<1> QED BY <1>8, <1>9

LEMMA ShellNextStep ==
  ASSUME SortType, KeptInv, ShellInv, shellsort
  PROVE  /\ SortType' /\ KeptInv'
         /\ (sorter' = "shellsort" /\ ShellInv') \/ (sorter' = "none" /\ NoneInv')
<1>1. PICK n \in Nat : n = Len(given) /\ n = Len(arr) /\ arr \in [1..n -> Int]
  BY SortTypes
<1>2. PICK i \in Int, step \in Int, start \in Int : i = loc.i /\ step = loc.step /\ start = loc.start
  BY SortTypes
<1>3. sorter = "shellsort" /\ loc.loop = FALSE /\ loc \in Locals
  BY SortTypes DEF shellsort
<1>4. ShellOK(n, arr, given, i, loc.j, step, start, loc.temp, FALSE) /\ Same(n, arr, given)
  BY <1>1, <1>2, <1>3 DEF ShellInv, KeptInv
<1>5. step \in Nat
  BY <1>4 DEF ShellOK
<1>6. CASE step > 0 /\ start < step
  <2>1. /\ i > n /\ loc' = NextGroup(loc, start + 1, start + 1 + step)
        /\ arr' = arr /\ UNCHANGED <<sorter, given, temparr, calls>>
    BY <1>1, <1>2, <1>6 DEF shellsort, NextGroup
  <2>2. /\ loc' \in Locals /\ loc'.i = start + 1 + step /\ loc'.step = step
        /\ loc'.start = start + 1 /\ loc'.loop = FALSE
    <3>1. start + 1 \in Int /\ start + 1 + step \in Int
      OBVIOUS
    <3> QED BY <1>2, <1>3, <2>1, <3>1, SetNextGroup
  <2>3. \A j, t : ShellOK(n, arr, given, start + 1 + step, j, step, start + 1, t, FALSE)
    BY <1>4, <1>6 DEF ShellOK
  <2>4. SortType' /\ KeptInv' /\ sorter' = "shellsort"
    BY <1>1, <1>3, <1>4, <2>1, <2>2, ShellCommon
  <2>5. ShellInv'
    BY <1>1, <2>1, <2>2, <2>3 DEF ShellInv
  <2> QED BY <2>4, <2>5
<1>7. CASE step > 0 /\ ~(start < step)
  <2>1. /\ i > n /\ loc' = NextStep(loc, 1, step \div 2, 1 + step \div 2)
        /\ arr' = arr /\ UNCHANGED <<sorter, given, temparr, calls>>
    BY <1>1, <1>2, <1>7 DEF shellsort, NextStep, halved
  <2>2. /\ loc' \in Locals /\ loc'.i = 1 + step \div 2 /\ loc'.step = step \div 2
        /\ loc'.start = 1 /\ loc'.loop = FALSE
    <3>1. step \div 2 \in Int /\ 1 + step \div 2 \in Int
      OBVIOUS
    <3> QED BY <1>2, <1>3, <2>1, <3>1, SetNextStep
  <2>3. \A j, t : ShellOK(n, arr, given, 1 + step \div 2, j, step \div 2, 1, t, FALSE)
    <3>1. PICK half \in Nat : half = step \div 2 /\ 2 * half <= step /\ (half = 0 => step = 1)
      BY <1>5, <1>7
    <3>2. 2 * half <= n
      BY <1>4, <3>1 DEF ShellOK
    <3>3. half = 0 => InOrder(arr, 1, n)
      <4> SUFFICES ASSUME half = 0 PROVE InOrder(arr, 1, n)
        OBVIOUS
      <4>1. InOrder(arr, 1, i - 1)
        BY <1>4, <3>1 DEF ShellOK
      <4> QED BY <2>1, <4>1 DEF InOrder
    <3>4. half = 1 => 1 + half <= n + 1 /\ InOrder(arr, 1, (1 + half) - 1)
      BY <1>1, <3>2 DEF InOrder
    <3> QED BY <3>1, <3>2, <3>3, <3>4 DEF ShellOK
  <2>4. SortType' /\ KeptInv' /\ sorter' = "shellsort"
    BY <1>1, <1>3, <1>4, <2>1, <2>2, ShellCommon
  <2>5. ShellInv'
    BY <1>1, <2>1, <2>2, <2>3 DEF ShellInv
  <2> QED BY <2>4, <2>5
<1>8. CASE step = 0
  <2>1. returns
    BY <1>2, <1>8 DEF shellsort
  <2>2. InOrder(arr, 1, n)
    BY <1>4, <1>8 DEF ShellOK
  <2> QED BY <1>1, <1>3, <2>1, <2>2, ReturnStep
<1> QED BY <1>5, <1>6, <1>7, <1>8

-------------------------------------------------------------------------------
LEMMA CallsTail ==
  ASSUME NEW cs \in Seq(CallSet), cs # <<>>
  PROVE  /\ Head(cs) = cs[1] /\ cs[1] \in CallSet
         /\ cs[1].start \in Nat /\ cs[1].end \in Nat
         /\ Tail(cs) \in Seq(CallSet) /\ Len(Tail(cs)) = Len(cs) - 1
         /\ \A k \in 1..Len(cs) - 1 : Tail(cs)[k] = cs[k + 1]
         /\ Len(cs) \in Nat /\ Len(cs) >= 1
<1>1. cs[1] \in CallSet /\ Head(cs) = cs[1]
  OBVIOUS
<1>2. cs[1].start \in Nat /\ cs[1].end \in Nat
  BY <1>1 DEF CallSet
<1> QED BY <1>1, <1>2

LEMMA CallTypes ==
  ASSUME NEW s \in Nat, NEW e \in Nat
  PROVE  /\ Call("sort", s, e) \in CallSet /\ Call("merge", s, e) \in CallSet
         /\ Call("sort", s, e).start = s /\ Call("sort", s, e).end = e /\ Call("sort", s, e).op = "sort"
         /\ Call("merge", s, e).start = s /\ Call("merge", s, e).end = e /\ Call("merge", s, e).op = "merge"
BY DEF Call, CallSet

LEMMA CallBounds ==
  ASSUME NEW n \in Nat, NEW cs \in Seq(CallSet), Apart(n, cs), NEW k \in 1..Len(cs)
  PROVE  /\ cs[k].start \in 1..n /\ cs[k].end \in 1..n /\ cs[k].start <= cs[k].end
         /\ \A x : In(cs[k], x) => x \in 1..n
<1>1. cs[k] \in CallSet
  OBVIOUS
<1>2. cs[k].start \in Nat /\ cs[k].end \in Nat
  BY <1>1 DEF CallSet
<1> QED BY <1>2 DEF Apart, In

LEMMA FastPop ==
  ASSUME NEW n \in Nat, NEW a \in [1..n -> Int], NEW cs \in Seq(CallSet), cs # <<>>,
         Apart(n, cs), OrderedBut(n, a, cs), cs[1].start >= cs[1].end
  PROVE  Apart(n, Tail(cs)) /\ OrderedBut(n, a, Tail(cs))
<1>1. /\ Len(Tail(cs)) = Len(cs) - 1 /\ Len(cs) \in Nat /\ Len(cs) >= 1
      /\ \A k \in 1..Len(cs) - 1 : Tail(cs)[k] = cs[k + 1]
  BY CallsTail
<1>2. Apart(n, Tail(cs))
  BY <1>1 DEF Apart
<1>3. ASSUME NEW x \in 1..n, NEW y \in 1..n, x <= y, ~(a[x] <= a[y]) PROVE Together(Tail(cs), x, y)
  <2>1. PICK k \in 1..Len(cs) : In(cs[k], x) /\ In(cs[k], y)
    BY <1>3 DEF OrderedBut, Together
  <2>2. k # 1
    <3>1. cs[1].start \in Nat /\ cs[1].end \in Nat
      BY CallsTail
    <3> QED BY SMTT(30), <1>3, <2>1, <3>1 DEF In
  <2>3. k - 1 \in 1..Len(Tail(cs)) /\ Tail(cs)[k - 1] = cs[k]
    BY <1>1, <2>2
  <2> QED BY <2>1, <2>3 DEF Together
<1> QED BY <1>2, <1>3 DEF OrderedBut

(* A rearrangement within the first range. *)
LEMMA FastWithin ==
  ASSUME NEW n \in Nat, NEW a \in [1..n -> Int], NEW cs \in Seq(CallSet), cs # <<>>,
         Apart(n, cs), OrderedBut(n, a, cs), NEW b \in [1..n -> Int],
         \A k \in 1..n : IF In(cs[1], k) THEN \E m \in 1..n : In(cs[1], m) /\ b[k] = a[m]
                                         ELSE b[k] = a[k]
  PROVE  OrderedBut(n, b, cs)
<1> DEFINE c == cs[1]
<1>1. 1 \in 1..Len(cs) /\ c.start \in 1..n /\ c.end \in 1..n
  <2>1. Len(cs) \in Nat /\ Len(cs) >= 1
    BY CallsTail
  <2>2. 1 \in 1..Len(cs)
    BY <2>1
  <2> QED BY Zenon, <2>2, CallBounds
<1>2. \A x, z \in 1..n : In(c, x) /\ ~In(c, z) => ~Together(cs, x, z) /\ ~Together(cs, z, x)
  BY <1>1 DEF Apart, Together
<1> SUFFICES ASSUME NEW x \in 1..n, NEW y \in 1..n, x <= y, ~Together(cs, x, y)
             PROVE  b[x] <= b[y]
  BY DEF OrderedBut
<1>3. ~(In(c, x) /\ In(c, y))
  BY <1>1 DEF Together
<1>7. PICK s \in 1..n, e \in 1..n : \A z \in 1..n : In(c, z) <=> s <= z /\ z <= e
  <2>1. PICK s \in 1..n, e \in 1..n : s = c.start /\ e = c.end
    BY <1>1
  <2>2. \A z \in 1..n : In(c, z) <=> s <= z /\ z <= e
    BY <2>1 DEF In
  <2> QED BY <2>2
<1>4. CASE In(c, x) /\ ~In(c, y)
  <2>1. PICK m \in 1..n : In(c, m) /\ b[x] = a[m]
    BY <1>4
  <2>2. m <= y
    BY <1>4, <1>7, <2>1
  <2>3. ~Together(cs, m, y)
    BY <1>2, <1>4, <2>1
  <2>4. b[y] = a[y] /\ a[m] <= a[y]
    BY <1>4, <2>2, <2>3 DEF OrderedBut
  <2> QED BY <2>1, <2>4
<1>5. CASE ~In(c, x) /\ In(c, y)
  <2>1. PICK m \in 1..n : In(c, m) /\ b[y] = a[m]
    BY <1>5
  <2>2. x <= m
    BY <1>5, <1>7, <2>1
  <2>3. ~Together(cs, x, m)
    BY <1>2, <1>5, <2>1
  <2>4. b[x] = a[x] /\ a[x] <= a[m]
    BY <1>5, <2>2, <2>3 DEF OrderedBut
  <2> QED BY <2>1, <2>4
<1>6. CASE ~In(c, x) /\ ~In(c, y)
  BY <1>6 DEF OrderedBut
<1> QED BY <1>3, <1>4, <1>5, <1>6

LEMMA FastExchange ==
  ASSUME NEW n \in Nat, NEW a \in [1..n -> Int], NEW cs \in Seq(CallSet), cs # <<>>,
         Apart(n, cs), OrderedBut(n, a, cs), NEW x, NEW y, In(cs[1], x), In(cs[1], y)
  PROVE  /\ Exchange(a, x, y) \in [1..n -> Int] /\ Same(n, Exchange(a, x, y), a)
         /\ OrderedBut(n, Exchange(a, x, y), cs)
<1>1. x \in 1..n /\ y \in 1..n
  BY CallBounds, CallsTail
<1>2. PICK b : b = Exchange(a, x, y)
  OBVIOUS
<1>3. b \in [1..n -> Int] /\ Same(n, b, a)
  BY <1>1, <1>2, SameExchange
<1>4. \A k \in 1..n : b[k] = IF k = x THEN a[y] ELSE IF k = y THEN a[x] ELSE a[k]
  BY <1>1, <1>2 DEF Exchange
<1>5. \A k \in 1..n : IF In(cs[1], k) THEN \E m \in 1..n : In(cs[1], m) /\ b[k] = a[m]
                                      ELSE b[k] = a[k]
  BY <1>1, <1>4
<1>6. OrderedBut(n, b, cs)
  BY <1>3, <1>5, FastWithin
<1> QED BY <1>2, <1>3, <1>6

LEMMA FastSplit ==
  ASSUME NEW n \in Nat, NEW b \in [1..n -> Int], NEW cs \in Seq(CallSet), cs # <<>>,
         Apart(n, cs), OrderedBut(n, b, cs), NEW m \in Nat,
         cs[1].start < m, m <= cs[1].end,
         \A x, y \in 1..n : In(cs[1], x) /\ In(cs[1], y) /\ x < m /\ m <= y => b[x] <= b[y],
         NEW ds, ds = <<Call("sort", cs[1].start, m - 1), Call("sort", m, cs[1].end)>> \o Tail(cs)
  PROVE  ds \in Seq(CallSet) /\ Apart(n, ds) /\ OrderedBut(n, b, ds)
<1> DEFINE c == cs[1]
<1>1. /\ 1 \in 1..Len(cs) /\ c.start \in 1..n /\ c.end \in 1..n
      /\ Tail(cs) \in Seq(CallSet) /\ Len(Tail(cs)) = Len(cs) - 1 /\ Len(cs) \in Nat
      /\ \A k \in 1..Len(cs) - 1 : Tail(cs)[k] = cs[k + 1]
  BY CallsTail, CallBounds
<1>2. PICK p, q : p = Call("sort", c.start, m - 1) /\ q = Call("sort", m, c.end)
  OBVIOUS
<1>3. /\ p \in CallSet /\ p.op = "sort" /\ p.start = c.start /\ p.end = m - 1
      /\ q \in CallSet /\ q.op = "sort" /\ q.start = m /\ q.end = c.end
  <2>1. PICK s \in Nat, e \in Nat, l \in Nat : s = c.start /\ e = c.end /\ l = m - 1
    BY <1>1
  <2>2. p = Call("sort", s, l) /\ q = Call("sort", m, e)
    BY <1>2, <2>1
  <2>3. p \in CallSet /\ p.op = "sort" /\ p.start = s /\ p.end = l
    BY <2>2, CallTypes
  <2>4. q \in CallSet /\ q.op = "sort" /\ q.start = m /\ q.end = e
    BY <2>2, CallTypes
  <2> QED BY <2>1, <2>3, <2>4
<1>4. /\ ds \in Seq(CallSet) /\ Len(ds) = Len(cs) + 1
      /\ ds[1] = p /\ ds[2] = q
      /\ \A k \in 3..Len(cs) + 1 : ds[k] = cs[k - 1]
  <2>1. ds = <<p, q>> \o Tail(cs)
    BY <1>2
  <2>2. <<p, q>> \in Seq(CallSet) /\ Len(<<p, q>>) = 2
    BY <1>3
  <2>3. ds \in Seq(CallSet) /\ Len(ds) = Len(cs) + 1
    BY <1>1, <2>1, <2>2
  <2>4. ds[1] = p /\ ds[2] = q /\ \A k \in 3..Len(cs) + 1 : ds[k] = Tail(cs)[k - 2]
    <3>1. PICK t : t = Tail(cs)
      OBVIOUS
    <3>2. t \in Seq(CallSet) /\ Len(t) = Len(cs) - 1 /\ ds = <<p, q>> \o t
      BY <1>1, <2>1, <3>1
    <3>3. \A k \in 1..Len(t) + 2 : ds[k] = IF k <= 2 THEN <<p, q>>[k] ELSE t[k - 2]
      BY <1>3, <3>2
    <3> QED BY <1>1, <3>1, <3>2, <3>3
  <2>5. ASSUME NEW k \in 3..Len(cs) + 1 PROVE ds[k] = cs[k - 1]
    <3>1. k - 2 \in 1..Len(cs) - 1 /\ (k - 2) + 1 = k - 1
      BY <1>1
    <3> QED BY <1>1, <2>4, <3>1
  <2> QED BY <1>1, <2>3, <2>4, <2>5
<1>5. \A x \in 1..n : /\ In(p, x) <=> In(c, x) /\ x < m
                      /\ In(q, x) <=> In(c, x) /\ m <= x
  BY SMTT(30), <1>1, <1>3 DEF In
<1>6. ASSUME NEW k \in 1..Len(ds)
      PROVE  /\ ds[k].op = "sort" /\ 1 <= ds[k].start /\ ds[k].start <= ds[k].end /\ ds[k].end <= n
  <2>1. CASE k = 1
    BY SMTT(30), <1>1, <1>3, <1>4, <2>1
  <2>2. CASE k = 2
    BY SMTT(30), <1>1, <1>3, <1>4, <2>2
  <2>3. CASE k > 2
    <3>1. k - 1 \in 1..Len(cs) /\ ds[k] = cs[k - 1]
      BY <1>1, <1>4, <2>3
    <3> QED BY <3>1 DEF Apart
  <2> QED BY <2>1, <2>2, <2>3
<1>7. ASSUME NEW k \in 1..Len(ds), NEW x \in 1..n, In(ds[k], x)
      PROVE  \E o \in 1..Len(cs) : In(cs[o], x) /\ (k <= 2 => o = 1) /\ (k > 2 => k = o + 1 /\ o # 1)
  <2>1. CASE k = 1
    BY <1>1, <1>4, <1>5, <1>7, <2>1
  <2>2. CASE k = 2
    BY <1>1, <1>4, <1>5, <1>7, <2>2
  <2>3. CASE k > 2
    <3>1. k \in 3..Len(cs) + 1 /\ k - 1 \in 1..Len(cs)
      BY <1>1, <1>4, <2>3
    <3>2. In(cs[k - 1], x)
      BY <1>4, <1>7, <3>1
    <3> QED BY <2>3, <3>1, <3>2
  <2> QED BY <2>1, <2>2, <2>3
<1>8. ASSUME NEW k \in 1..Len(ds), NEW l \in 1..Len(ds), NEW x \in 1..n, In(ds[k], x), In(ds[l], x)
      PROVE  k = l
  <2>1. PICK o \in 1..Len(cs) : In(cs[o], x) /\ (k <= 2 => o = 1) /\ (k > 2 => k = o + 1 /\ o # 1)
    BY <1>7, <1>8
  <2>2. PICK u \in 1..Len(cs) : In(cs[u], x) /\ (l <= 2 => u = 1) /\ (l > 2 => l = u + 1 /\ u # 1)
    BY <1>7, <1>8
  <2>3. o = u
    BY <2>1, <2>2 DEF Apart
  <2>4. CASE k <= 2 /\ l <= 2
    <3>1. k \in {1, 2} /\ l \in {1, 2}
      BY <2>4
    <3> QED BY <1>4, <1>5, <1>8, <3>1
  <2>5. CASE ~(k <= 2 /\ l <= 2)
    BY <2>1, <2>2, <2>3, <2>5
  <2> QED BY <2>4, <2>5
<1>9. Apart(n, ds)
  <2>1. \A k, l \in 1..Len(ds) : \A x \in 1..n : In(ds[k], x) /\ In(ds[l], x) => k = l
    BY ZenonT(40), <1>8
  <2> QED BY <1>6, <2>1 DEF Apart
<1>10. ASSUME NEW x \in 1..n, NEW y \in 1..n, x <= y, ~(b[x] <= b[y]) PROVE Together(ds, x, y)
  <2>1. PICK k \in 1..Len(cs) : In(cs[k], x) /\ In(cs[k], y)
    BY <1>10 DEF OrderedBut, Together
  <2>2. CASE k = 1
    <3>1. (x < m /\ y < m) \/ (m <= x /\ m <= y)
      BY SMTT(30), <1>1, <1>10, <2>1, <2>2
    <3>2. (In(p, x) /\ In(p, y)) \/ (In(q, x) /\ In(q, y))
      BY <1>5, <2>1, <2>2, <3>1
    <3>3. 1 \in 1..Len(ds) /\ 2 \in 1..Len(ds)
      BY <1>1, <1>4
    <3> QED BY <1>4, <3>2, <3>3 DEF Together
  <2>3. CASE k > 1
    <3>1. k + 1 \in 3..Len(cs) + 1 /\ (k + 1) - 1 = k /\ k + 1 \in 1..Len(ds)
      BY <1>1, <1>4, <2>3
    <3>2. ds[k + 1] = cs[k]
      BY <1>4, <3>1
    <3> QED BY <2>1, <3>1, <3>2 DEF Together
  <2> QED BY <1>1, <2>2, <2>3
<1>11. OrderedBut(n, b, ds)
  BY <1>10 DEF OrderedBut
<1> QED BY <1>4, <1>9, <1>11

(* The places where partition stops. *)
FirstStops(u, v, P) == {k \in u..v : k = v \/ k \in P}
LastStops(u, v, P)  == {k \in u..v : k = u \/ k \in P}

LEMMA FirstNotLess ==
  ASSUME NEW u \in Nat, NEW v \in Nat, u <= v, NEW P, NEW l, l = Min(FirstStops(u, v, P))
  PROVE  /\ l \in u..v /\ (l = v \/ l \in P)
         /\ \A k \in u..l - 1 : k \notin P
<1> DEFINE L == {k \in u..v : k = v \/ k \in P}
<1>1. L \in SUBSET Nat /\ L # {}
  <2>1. v \in L
    OBVIOUS
  <2>2. \A k \in L : k \in Nat
    OBVIOUS
  <2> QED BY <2>1, <2>2
<1>2. l = Min(L)
  BY DEF FirstStops
<1>3. l \in L /\ \A y \in L : l <= y
  BY <1>1, <1>2, NatMin
<1>4. ASSUME NEW k \in u..l - 1 PROVE k \notin P
  <2>1. l \in u..v
    BY <1>3
  <2>2. k \in u..v /\ k < l
    BY <2>1
  <2>3. k \notin L
    <3> HIDE DEF L
    <3> QED BY <1>3, <2>1, <2>2
  <2> QED BY <2>2, <2>3
<1> QED BY <1>2, <1>3, <1>4

LEMMA LastLess ==
  ASSUME NEW u \in Nat, NEW v \in Nat, u <= v, NEW P, NEW r, r = Max(LastStops(u, v, P))
  PROVE  /\ r \in u..v /\ (r = u \/ r \in P)
         /\ \A k \in r + 1..v : k \notin P
<1> DEFINE L == {k \in u..v : k = u \/ k \in P}
<1>1. L \in SUBSET (0..v) /\ L # {}
  <2>1. u \in L
    OBVIOUS
  <2>2. \A k \in L : k \in 0..v
    OBVIOUS
  <2> QED BY <2>1, <2>2
<1>2. r = Max(L)
  BY DEF LastStops
<1>3. r \in L /\ \A y \in L : r >= y
  BY <1>1, <1>2, BoundedMax
<1>4. ASSUME NEW k \in r + 1..v PROVE k \notin P
  <2>1. r \in u..v
    BY <1>3
  <2>2. k \in u..v /\ k > r
    BY <2>1
  <2>3. k \notin L
    <3> HIDE DEF L
    <3> QED BY <1>3, <2>1, <2>2
  <2> QED BY <2>2, <2>3
<1> QED BY <1>2, <1>3, <1>4

(* One pass of the partition of s..e, from u and v to l and r. *)
LEMMA PartitionOrder ==
  ASSUME NEW n \in Nat, NEW a \in [1..n -> Int], NEW s \in 1..n, NEW e \in 1..n,
         NEW u \in Nat, NEW v \in Nat, NEW t \in Int, Parted(a, s, e, u, v, t), u < v,
         NEW l \in u..v, \A k \in u..l - 1 : a[k] < t,
         l = v \/ a[l] >= t,
         NEW r \in l..v, r = l \/ a[r] < t, \A k \in r + 1..v : a[k] >= t
  PROVE  /\ l \in 1..n /\ r \in 1..n /\ s <= l /\ l <= e /\ s <= r /\ r <= e
         /\ Parted(Exchange(a, l, r), s, e, l, r, t)
<1>1. /\ s < u /\ v <= e /\ a[s] = t
      /\ \A k \in s + 1..u - 1 : a[k] < t
      /\ \A k \in v + 1..e : a[k] >= t
  BY DEF Parted
<1>2. l \in s + 1..e /\ r \in s + 1..e /\ l <= r /\ l \in 1..n /\ r \in 1..n
  BY <1>1
<1>3. ASSUME NEW k \in s + 1..l - 1 PROVE a[k] < t
  BY <1>1
<1>4. ASSUME NEW k \in r + 1..e PROVE a[k] >= t
  <2>1. k # l
    BY <1>2
  <2> QED BY <1>1, <2>1
<1>10. PICK b : b = Exchange(a, l, r)
  OBVIOUS
<1>11. \A k \in 1..n : b[k] = IF k = l THEN a[r] ELSE IF k = r THEN a[l] ELSE a[k]
  BY <1>2, <1>10 DEF Exchange
<1>12. b[s] = t
  BY <1>1, <1>2, <1>11
<1>13. ASSUME NEW k \in s + 1..l - 1 PROVE b[k] < t
  BY <1>2, <1>3, <1>11
<1>14. ASSUME NEW k \in r + 1..e PROVE b[k] >= t
  BY <1>2, <1>4, <1>11
<1>9a. Parted(b, s, e, l, r, t)
  BY <1>2, <1>12, <1>13, <1>14 DEF Parted
<1> QED BY <1>2, <1>10, <1>9a

(* What is split when left and right have met. *)
LEMMA SplitOrder ==
  ASSUME NEW n \in Nat, NEW a \in [1..n -> Int], NEW s \in 1..n, NEW e \in 1..n,
         NEW m \in Nat, NEW t \in Int, Parted(a, s, e, m, m, t),
         NEW x \in s..m - 1, NEW y \in m..e
  PROVE  /\ ~(a[m] < t) => a[x] <= a[y]
         /\ a[m] < t => Exchange(a, s, m)[x] <= Exchange(a, s, m)[y]
<1>1. /\ s < m /\ m <= e /\ a[s] = t /\ m \in 1..n
      /\ \A k \in s + 1..m - 1 : a[k] < t
      /\ \A k \in m + 1..e : a[k] >= t
  BY DEF Parted
<1>2. x \in 1..n /\ y \in 1..n /\ x # m /\ y # s
  BY <1>1
<1>3. ASSUME ~(a[m] < t) PROVE a[x] <= a[y]
  <2>1. a[x] <= t
    BY <1>1
  <2>2. a[y] >= t
    BY <1>1, <1>3
  <2> QED BY <1>2, <2>1, <2>2
<1>4. ASSUME a[m] < t PROVE Exchange(a, s, m)[x] <= Exchange(a, s, m)[y]
  <2>1. PICK b : b = Exchange(a, s, m)
    OBVIOUS
  <2>2. \A k \in 1..n : b[k] = IF k = s THEN a[m] ELSE IF k = m THEN a[s] ELSE a[k]
    BY <1>1, <2>1 DEF Exchange
  <2>3. b[x] <= t /\ b[x] \in Int
    BY <1>1, <1>2, <1>4, <2>2
  <2>4. b[y] >= t /\ b[y] \in Int
    BY <1>1, <1>2, <2>2
  <2>5. b[x] <= b[y]
    BY <2>3, <2>4
  <2> QED BY <2>1, <2>5
<1> QED BY <1>3, <1>4

(* The updates of loc by _fastsort. *)
Enter(r, t, x, y) == [r EXCEPT !.temp = t, !.left = x, !.right = y, !.loop = TRUE]
Meet(r, x, y)     == [r EXCEPT !.left = x, !.right = y]
Leave(r)          == [r EXCEPT !.loop = FALSE]

LEMMA SetEnter ==
  ASSUME NEW r \in Locals, NEW t \in Int, NEW x \in Int, NEW y \in Int
  PROVE  /\ Enter(r, t, x, y) \in Locals
         /\ Enter(r, t, x, y).temp = t /\ Enter(r, t, x, y).left = x
         /\ Enter(r, t, x, y).right = y /\ Enter(r, t, x, y).loop = TRUE
<1>1. Enter(r, t, x, y) \in Locals
  BY DEF Locals, Enter
<1>2. /\ Enter(r, t, x, y).temp = t /\ Enter(r, t, x, y).left = x
      /\ Enter(r, t, x, y).right = y /\ Enter(r, t, x, y).loop = TRUE
  BY DEF Locals, Enter
<1> QED BY <1>1, <1>2

LEMMA SetMeet ==
  ASSUME NEW r \in Locals, NEW x \in Int, NEW y \in Int
  PROVE  /\ Meet(r, x, y) \in Locals /\ Meet(r, x, y).temp = r.temp
         /\ Meet(r, x, y).left = x /\ Meet(r, x, y).right = y /\ Meet(r, x, y).loop = r.loop
<1>1. Meet(r, x, y) \in Locals
  BY DEF Locals, Meet
<1>2. /\ Meet(r, x, y).temp = r.temp /\ Meet(r, x, y).left = x /\ Meet(r, x, y).right = y
      /\ Meet(r, x, y).loop = r.loop
  BY DEF Locals, Meet
<1> QED BY <1>1, <1>2

LEMMA SetLeave ==
  ASSUME NEW r \in Locals
  PROVE  Leave(r) \in Locals /\ Leave(r).loop = FALSE
BY DEF Locals, Leave

(* What the steps of _fastsort start from. *)
LEMMA FastFacts ==
  ASSUME SortType, FastInv, sorter = "fastsort", calls # <<>>
  PROVE  /\ Apart(Len(given), calls) /\ OrderedBut(Len(given), arr, calls)
         /\ calls \in Seq(CallSet) /\ Head(calls) = calls[1]
         /\ calls[1].start \in 1..Len(given) /\ calls[1].end \in 1..Len(given)
         /\ loc.loop => Parted(arr, calls[1].start, calls[1].end, loc.left, loc.right, loc.temp)
<1>1. calls \in Seq(CallSet)
  BY DEF SortType
<1>2. /\ Apart(Len(given), calls) /\ OrderedBut(Len(given), arr, calls)
      /\ loc.loop => Parted(arr, calls[1].start, calls[1].end, loc.left, loc.right, loc.temp)
  BY DEF FastInv, FastOK
<1>3. Len(given) \in Nat /\ 1 \in 1..Len(calls) /\ Head(calls) = calls[1]
  BY <1>1, SortTypes, CallsTail
<1> QED BY <1>1, <1>2, <1>3, CallBounds

LEMMA FastCallStep ==
  ASSUME SortType, KeptInv, FastInv, sorter = "fastsort", calls # <<>>,
         fastsort_call(Head(calls))
  PROVE  SortType' /\ KeptInv' /\ sorter' = "fastsort" /\ FastInv'
<1>1. PICK n \in Nat : n = Len(given) /\ n = Len(arr) /\ arr \in [1..n -> Int]
  BY SortTypes
<1>2. /\ Apart(n, calls) /\ OrderedBut(n, arr, calls) /\ calls \in Seq(CallSet)
      /\ Head(calls) = calls[1] /\ calls[1].start \in 1..n /\ calls[1].end \in 1..n
  BY <1>1, FastFacts
<1>3. ~loc.loop /\ UNCHANGED <<sorter, given, arr, temparr>>
  BY DEF fastsort_call
<1>4. Same(n, arr', arr) /\ arr' \in [1..n -> Int] /\ temparr' \in [1..n -> Int]
  BY <1>1, <1>3, SameReflexive DEF SortType
<1>5. CASE calls[1].start >= calls[1].end
  <2>1. calls' = Tail(calls) /\ loc' = loc
    BY <1>2, <1>5 DEF fastsort_call
  <2>2. Apart(n, calls') /\ OrderedBut(n, arr', calls')
    BY <1>1, <1>2, <1>3, <1>5, <2>1, FastPop
  <2>3. calls' \in Seq(CallSet) /\ loc' \in Locals
    BY <1>2, <2>1, CallsTail, SortTypes
  <2>4. SortType' /\ KeptInv'
    BY <1>1, <1>3, <1>4, <2>3, CommonStep DEF SortType
  <2>5. FastInv'
    BY <1>1, <1>3, <2>1, <2>2 DEF FastInv, FastOK
  <2> QED BY <1>3, <2>4, <2>5
<1>6. CASE calls[1].start < calls[1].end
  <2>1. PICK s \in 1..n, e \in 1..n, t \in Int : s = calls[1].start /\ e = calls[1].end /\ t = arr[s]
    BY <1>1, <1>2
  <2>2. calls' = calls /\ loc' = Enter(loc, t, s + 1, e)
    <3>1. ~(calls[1].start >= calls[1].end)
      BY <1>6, <2>1
    <3> QED BY <1>2, <2>1, <3>1 DEF fastsort_call, Enter
  <2>3. /\ loc' \in Locals /\ loc'.temp = t /\ loc'.left = s + 1 /\ loc'.right = e
        /\ loc'.loop = TRUE
    <3>1. PICK x \in Int : x = s + 1
      OBVIOUS
    <3>2. loc \in Locals /\ e \in Int /\ loc' = Enter(loc, t, x, e)
      BY <2>2, <3>1, SortTypes
    <3>3. Enter(loc, t, x, e) \in Locals
      BY <3>2, SetEnter
    <3>4. loc'.temp = t /\ loc'.left = x
      BY <3>2 DEF Locals, Enter
    <3>5. loc'.right = e /\ loc'.loop = TRUE
      BY <3>2 DEF Locals, Enter
    <3> QED BY <3>1, <3>2, <3>3, <3>4, <3>5
  <2>4. Parted(arr, s, e, s + 1, e, t)
    BY <1>6, <2>1 DEF Parted
  <2>5. SortType' /\ KeptInv'
    BY <1>1, <1>2, <1>3, <1>4, <2>2, <2>3, CommonStep DEF SortType
  <2>6. FastInv'
    BY <1>1, <1>2, <1>3, <2>1, <2>2, <2>3, <2>4 DEF FastInv, FastOK
  <2> QED BY <1>3, <2>5, <2>6
<1> QED BY <1>2, <1>5, <1>6

LEMMA PartitionStep ==
  ASSUME SortType, KeptInv, FastInv, sorter = "fastsort", calls # <<>>, partition
  PROVE  SortType' /\ KeptInv' /\ sorter' = "fastsort" /\ FastInv'
<1>1. PICK n \in Nat : n = Len(given) /\ n = Len(arr) /\ arr \in [1..n -> Int]
  BY SortTypes
<1>2. PICK s \in 1..n, e \in 1..n : s = calls[1].start /\ e = calls[1].end
  BY <1>1, FastFacts
<1>3. PICK u \in Int, v \in Int, t \in Int : u = loc.left /\ v = loc.right /\ t = loc.temp
  BY SortTypes
<1>4. /\ loc.loop = TRUE /\ Apart(n, calls) /\ OrderedBut(n, arr, calls)
      /\ calls \in Seq(CallSet) /\ Parted(arr, s, e, u, v, t)
  <2>1. loc.loop
    BY DEF partition
  <2> QED BY <1>1, <1>2, <1>3, <2>1, FastFacts, SortTypes
<1>5. u \in 1..n /\ v \in 1..n /\ u < v
  BY <1>3, <1>4 DEF Parted, partition
<1>6. PICK P, Q : P = {k \in 1..n : arr[k] >= t} /\ Q = {k \in 1..n : arr[k] < t}
  OBVIOUS
<1>7. \A k \in 1..n : (k \in P <=> arr[k] >= t) /\ (k \in Q <=> arr[k] < t)
  BY <1>6
<1>8. PICK l : l = Min({k \in u..v : k = v \/ arr[k] >= t})
  OBVIOUS
<1>9. l \in u..v /\ (l = v \/ l \in P) /\ \A k \in u..l - 1 : k \notin P
  <2>1. {k \in u..v : k = v \/ arr[k] >= t} = FirstStops(u, v, P)
    BY <1>5, <1>7 DEF FirstStops
  <2>2. l = Min(FirstStops(u, v, P))
    BY <1>8, <2>1
  <2> QED BY <1>5, <2>2, FirstNotLess
<1>10. PICK r : r = Max({k \in l..v : k = l \/ arr[k] < t})
  OBVIOUS
<1>11. r \in l..v /\ (r = l \/ r \in Q) /\ \A k \in r + 1..v : k \notin Q
  <2>1. l \in Nat /\ v \in Nat /\ l <= v
    BY <1>5, <1>9
  <2>2. {k \in l..v : k = l \/ arr[k] < t} = LastStops(l, v, Q)
    BY <1>5, <1>7, <1>9 DEF LastStops
  <2>3. r = Max(LastStops(l, v, Q))
    BY <1>10, <2>2
  <2> QED BY <2>1, <2>3, LastLess
<1>12. /\ l \in u..v /\ (l = v \/ arr[l] >= t) /\ r \in l..v /\ (r = l \/ arr[r] < t)
       /\ \A k \in u..l - 1 : arr[k] < t
       /\ \A k \in r + 1..v : arr[k] >= t
  <2>1. ASSUME NEW k \in u..l - 1 PROVE arr[k] < t
    <3>1. k \in 1..n /\ k \notin P
      BY <1>5, <1>9
    <3>2. ~(arr[k] >= t) /\ arr[k] \in Int
      BY <1>1, <1>7, <3>1
    <3> QED BY <1>3, <3>2
  <2>2. ASSUME NEW k \in r + 1..v PROVE arr[k] >= t
    <3>1. k \in 1..n /\ k \notin Q
      BY <1>5, <1>9, <1>11
    <3>2. ~(arr[k] < t) /\ arr[k] \in Int
      BY <1>1, <1>7, <3>1
    <3> QED BY <1>3, <3>2
  <2>3. l \in 1..n /\ r \in 1..n
    BY <1>5, <1>9, <1>11
  <2> QED BY <1>7, <1>9, <1>11, <2>1, <2>2, <2>3
<1>13. /\ l \in 1..n /\ r \in 1..n /\ s <= l /\ l <= e /\ s <= r /\ r <= e
       /\ Parted(Exchange(arr, l, r), s, e, l, r, t)
  <2>1. u \in Nat /\ v \in Nat /\ l \in u..v /\ r \in l..v
    BY <1>5, <1>12
  <2>2. arr \in [1..n -> Int] /\ Parted(arr, s, e, u, v, t) /\ u < v
    BY <1>1, <1>4, <1>5
  <2> QED BY <1>12, <2>1, <2>2, PartitionOrder
<1>14. arr' = Exchange(arr, l, r) /\ loc' = Meet(loc, l, r) /\ UNCHANGED <<sorter, given, temparr, calls>>
  BY <1>3, <1>8, <1>10 DEF partition, Meet
<1>9a. In(calls[1], l) /\ In(calls[1], r)
  BY <1>2, <1>13 DEF In
<1>16. arr' \in [1..n -> Int] /\ Same(n, arr', arr) /\ OrderedBut(n, arr', calls)
  BY <1>1, <1>4, <1>14, <1>9a, FastExchange
<1>17. /\ loc' \in Locals /\ loc'.temp = t /\ loc'.left = l /\ loc'.right = r /\ loc'.loop = TRUE
  <2>1. loc \in Locals /\ l \in Int /\ r \in Int
    BY <1>13, SortTypes
  <2> QED BY <1>3, <1>4, <1>14, <2>1, SetMeet
<1>18. SortType' /\ KeptInv'
  BY <1>1, <1>4, <1>14, <1>16, <1>17, CommonStep DEF SortType
<1>19. FastInv'
  BY <1>1, <1>2, <1>4, <1>13, <1>14, <1>16, <1>17 DEF FastInv, FastOK
<1> QED BY <1>14, <1>18, <1>19

LEMMA FastSplitStep ==
  ASSUME SortType, KeptInv, FastInv, sorter = "fastsort", calls # <<>>,
         fastsort_split(Head(calls))
  PROVE  SortType' /\ KeptInv' /\ sorter' = "fastsort" /\ FastInv'
<1>1. PICK n \in Nat : n = Len(given) /\ n = Len(arr) /\ arr \in [1..n -> Int]
  BY SortTypes
<1>2. PICK s \in 1..n, e \in 1..n : s = calls[1].start /\ e = calls[1].end
  BY <1>1, FastFacts
<1>3. PICK m \in Int, v \in Int, t \in Int : m = loc.left /\ v = loc.right /\ t = loc.temp
  BY SortTypes
<1>4. /\ Apart(n, calls) /\ OrderedBut(n, arr, calls)
      /\ calls \in Seq(CallSet) /\ Parted(arr, s, e, m, v, t) /\ Head(calls) = calls[1]
  <2>1. loc.loop
    BY DEF fastsort_split
  <2> QED BY <1>1, <1>2, <1>3, <2>1, FastFacts
<1>5. m = v /\ m \in 1..n /\ s < m /\ m <= e
  BY <1>3, <1>4 DEF Parted, fastsort_split
<1>6. PICK b : b = IF arr[m] < t THEN Exchange(arr, s, m) ELSE arr
  OBVIOUS
<1>7. /\ arr' = b /\ loc' = Leave(loc) /\ UNCHANGED <<sorter, given, temparr>>
      /\ calls' = <<Call("sort", s, m - 1), Call("sort", m, e)>> \o Tail(calls)
  BY <1>2, <1>3, <1>4, <1>5, <1>6 DEF fastsort_split, Leave
<1>8. b \in [1..n -> Int] /\ Same(n, b, arr) /\ OrderedBut(n, b, calls)
  <2>1. CASE arr[m] < t
    <3>1. In(calls[1], s) /\ In(calls[1], m)
      BY <1>2, <1>5 DEF In
    <3>2. b = Exchange(arr, s, m)
      BY <1>6, <2>1
    <3> QED BY <1>1, <1>4, <3>1, <3>2, FastExchange
  <2>2. CASE ~(arr[m] < t)
    BY <1>1, <1>4, <1>6, <2>2, SameReflexive
  <2> QED BY <2>1, <2>2
<1>9. ASSUME NEW x \in 1..n, NEW y \in 1..n, In(calls[1], x), In(calls[1], y), x < m, m <= y
      PROVE  b[x] <= b[y]
  <2>1. x \in s..m - 1 /\ y \in m..e
    BY <1>2, <1>5, <1>9 DEF In
  <2>2. /\ ~(arr[m] < t) => arr[x] <= arr[y]
        /\ arr[m] < t => Exchange(arr, s, m)[x] <= Exchange(arr, s, m)[y]
    <3>1. Parted(arr, s, e, m, m, t) /\ m \in Nat
      BY <1>4, <1>5
    <3> QED BY <1>1, <1>3, <2>1, <3>1, SplitOrder
  <2> QED BY <1>6, <2>2
<1>10. calls' \in Seq(CallSet) /\ Apart(n, calls') /\ OrderedBut(n, b, calls')
  <2>1. \A x, y \in 1..n : In(calls[1], x) /\ In(calls[1], y) /\ x < m /\ m <= y => b[x] <= b[y]
    BY <1>9
  <2>2. calls[1].start < m /\ m <= calls[1].end /\ m \in Nat
    BY <1>2, <1>5
  <2>3. calls' = <<Call("sort", calls[1].start, m - 1), Call("sort", m, calls[1].end)>> \o Tail(calls)
    BY <1>2, <1>7
  <2> QED BY <1>4, <1>8, <2>1, <2>2, <2>3, FastSplit
<1>11. loc' \in Locals /\ loc'.loop = FALSE
  BY <1>7, SortTypes, SetLeave
<1>12. SortType' /\ KeptInv'
  BY <1>1, <1>7, <1>8, <1>10, <1>11, CommonStep DEF SortType
<1>13. FastInv'
  BY <1>1, <1>7, <1>10, <1>11 DEF FastInv, FastOK
<1> QED BY <1>7, <1>12, <1>13

LEMMA FastStep ==
  ASSUME SortType, KeptInv, FastInv, fastsort
  PROVE  /\ SortType' /\ KeptInv'
         /\ (sorter' = "fastsort" /\ FastInv') \/ (sorter' = "none" /\ NoneInv')
<1>1. sorter = "fastsort"
  BY DEF fastsort
<1>2. CASE calls # <<>>
  <2>1. fastsort_call(Head(calls)) \/ partition \/ fastsort_split(Head(calls))
    BY <1>2 DEF fastsort
  <2>2. CASE fastsort_call(Head(calls))
    BY <1>1, <1>2, <2>2, FastCallStep
  <2>3. CASE partition
    BY <1>1, <1>2, <2>3, PartitionStep
  <2>4. CASE fastsort_split(Head(calls))
    BY <1>1, <1>2, <2>4, FastSplitStep
  <2> QED BY <2>1, <2>2, <2>3, <2>4
<1>3. CASE calls = <<>>
  <2>1. returns
    BY <1>3 DEF fastsort
  <2>2. InOrder(arr, 1, Len(given))
    <3>1. OrderedBut(Len(given), arr, calls) /\ Len(calls) = 0
      BY <1>1, <1>3 DEF FastInv, FastOK
    <3>2. \A x, y \in 1..Len(given) : ~Together(calls, x, y)
      BY <3>1 DEF Together
    <3> QED BY <3>1, <3>2 DEF OrderedBut, InOrder
  <2> QED BY <1>1, <2>1, <2>2, ReturnStep
<1> QED BY <1>2, <1>3

-------------------------------------------------------------------------------
(* mergesort.  The range of a call that is still to come is apart from     *)
(* that of a later one or lies in a half of it; the elements of a half are *)
(* in order unless they lie together in the range of an earlier call.      *)
Half(c, x, y) == c.op = "merge" /\ In(c, x) /\ In(c, y) /\ (x <= Mid(c) <=> y <= Mid(c))

Nested(n, cs) ==
  /\ \A k \in 1..Len(cs) : 1 <= cs[k].start /\ cs[k].start <= cs[k].end /\ cs[k].end <= n
  /\ \A k \in 1..Len(cs) : \A j \in 1..k - 1 : \A x, y \in 1..n :
       In(cs[j], x) /\ In(cs[j], y) /\ In(cs[k], x) => Half(cs[k], x, y)

Above(cs, k, x, y) == \E j \in 1..k - 1 : In(cs[j], x) /\ In(cs[j], y)

HalvesOrdered(n, a, cs) ==
  \A k \in 1..Len(cs) : \A x, y \in 1..n :
    x <= y /\ Half(cs[k], x, y) => a[x] <= a[y] \/ Above(cs, k, x, y)

(* What the array is when the elements taken so far are put in front of    *)
(* those left of the left half: it has the elements of the array.          *)
Layout(n, a, tp, s, i, l, r) ==
  [k \in 1..n |-> IF k < s \/ k >= r THEN a[k] ELSE IF k < i THEN tp[k] ELSE a[k - i + l]]

Merging(n, a, tp, s, e, m, i, l, r) ==
  /\ s <= l /\ l <= m + 1 /\ m + 1 <= r /\ r <= e + 1 /\ i = l + r - m - 1
  /\ InOrder(tp, s, i - 1)
  /\ \A k \in s..i - 1 : \A x \in l..m : tp[k] <= a[x]
  /\ \A k \in s..i - 1 : \A x \in r..e : tp[k] <= a[x]
  /\ \A k \in s..i - 1 : \E x \in s..e : tp[k] = a[x]
  /\ Same(n, Layout(n, a, tp, s, i, l, r), a)

MergeOK(n, a, tp, cs, i, l, r, loop) ==
  /\ Nested(n, cs) /\ HalvesOrdered(n, a, cs) /\ OrderedBut(n, a, cs)
  /\ loop => /\ cs # <<>> /\ cs[1].op = "merge"
             /\ Merging(n, a, tp, cs[1].start, cs[1].end, Mid(cs[1]), i, l, r)

MergeInv ==
  sorter = "mergesort" =>
    MergeOK(Len(given), arr, temparr, calls, loc.i, loc.left, loc.right, loc.loop)

LEMMA NestedBounds ==
  ASSUME NEW n \in Nat, NEW cs \in Seq(CallSet), Nested(n, cs), cs # <<>>
  PROVE  /\ cs[1].start \in 1..n /\ cs[1].end \in 1..n /\ cs[1].start <= cs[1].end
         /\ 1 \in 1..Len(cs) /\ cs[1].op \in {"sort", "merge"}
<1>1. cs[1] \in CallSet /\ 1 \in 1..Len(cs) /\ cs[1].start \in Nat /\ cs[1].end \in Nat
  BY CallsTail
<1>2. cs[1].op \in {"sort", "merge"}
  BY <1>1 DEF CallSet
<1> QED BY <1>1, <1>2 DEF Nested

(* A call that changed its range only and put it in order is done. *)
Reordered(n, a, b, c) ==
  /\ \A k \in 1..n : IF In(c, k) THEN \E m \in 1..n : In(c, m) /\ b[k] = a[m] ELSE b[k] = a[k]
  /\ \A x, y \in 1..n : In(c, x) /\ In(c, y) /\ x <= y => b[x] <= b[y]

LEMMA MergePop ==
  ASSUME NEW n \in Nat, NEW a \in [1..n -> Int], NEW cs \in Seq(CallSet), cs # <<>>,
         Nested(n, cs), HalvesOrdered(n, a, cs), OrderedBut(n, a, cs),
         NEW b \in [1..n -> Int],
         Reordered(n, a, b, cs[1])
  PROVE  /\ Nested(n, Tail(cs)) /\ HalvesOrdered(n, b, Tail(cs))
         /\ OrderedBut(n, b, Tail(cs)) /\ Tail(cs) \in Seq(CallSet)
<1>1. /\ Tail(cs) \in Seq(CallSet) /\ Len(Tail(cs)) = Len(cs) - 1 /\ Len(cs) \in Nat /\ Len(cs) >= 1
      /\ \A k \in 1..Len(cs) - 1 : Tail(cs)[k] = cs[k + 1]
  BY CallsTail
<1>0. /\ \A k \in 1..n : IF In(cs[1], k) THEN \E m \in 1..n : In(cs[1], m) /\ b[k] = a[m]
                                               ELSE b[k] = a[k]
      /\ \A x, y \in 1..n : In(cs[1], x) /\ In(cs[1], y) /\ x <= y => b[x] <= b[y]
  BY DEF Reordered
<1> DEFINE c == cs[1]
           ds == Tail(cs)
<1>2. PICK s \in 1..n, e \in 1..n : \A z \in 1..n : In(c, z) <=> s <= z /\ z <= e
  <2>1. PICK s \in 1..n, e \in 1..n : s = c.start /\ e = c.end
    BY NestedBounds
  <2>2. \A z \in 1..n : In(c, z) <=> s <= z /\ z <= e
    BY <2>1 DEF In
  <2> QED BY <2>2
<1>3. ASSUME NEW k \in 2..Len(cs), NEW x \in 1..n, NEW m \in 1..n,
             m = x \/ (In(c, x) /\ In(c, m))
      PROVE  /\ In(cs[k], x) <=> In(cs[k], m)
             /\ In(cs[k], x) => (x <= Mid(cs[k]) <=> m <= Mid(cs[k]))
  <2>1. CASE m = x
    BY <2>1
  <2>2. CASE In(c, x) /\ In(c, m)
    <3>1. k \in 1..Len(cs) /\ 1 \in 1..k - 1
      BY <1>1
    <3>2. /\ In(cs[k], x) => Half(cs[k], x, m)
          /\ In(cs[k], m) => Half(cs[k], m, x)
      BY <2>2, <3>1 DEF Nested
    <3> QED BY <3>2 DEF Half
  <2> QED BY <1>3, <2>1, <2>2
<1>4. ASSUME NEW x \in 1..n, NEW y \in 1..n, x <= y, ~(b[x] <= b[y])
      PROVE  \E u, v \in 1..n :
               /\ u = x \/ (In(c, x) /\ In(c, u))
               /\ v = y \/ (In(c, y) /\ In(c, v))
               /\ u <= v /\ b[x] = a[u] /\ b[y] = a[v] /\ ~(In(c, u) /\ In(c, v))
  <2>1. ~(In(c, x) /\ In(c, y))
    BY <1>0, <1>4
  <2>2. CASE In(c, x) /\ ~In(c, y)
    <3>1. PICK m \in 1..n : In(c, m) /\ b[x] = a[m]
      BY <1>0, <2>2
    <3>2. m <= y /\ b[y] = a[y]
      BY <1>0, <1>2, <1>4, <2>2, <3>1
    <3> QED BY <2>2, <3>1, <3>2
  <2>3. CASE ~In(c, x) /\ In(c, y)
    <3>1. PICK m \in 1..n : In(c, m) /\ b[y] = a[m]
      BY <1>0, <2>3
    <3>2. x <= m /\ b[x] = a[x]
      BY <1>0, <1>2, <1>4, <2>3, <3>1
    <3> QED BY <2>3, <3>1, <3>2
  <2>4. CASE ~In(c, x) /\ ~In(c, y)
    <3>1. b[x] = a[x] /\ b[y] = a[y]
      BY <1>0, <2>4
    <3> QED BY <1>4, <2>4, <3>1
  <2> QED BY <2>1, <2>2, <2>3, <2>4
<1>5. Nested(n, ds)
  <2>1. ASSUME NEW k \in 1..Len(ds)
        PROVE  1 <= ds[k].start /\ ds[k].start <= ds[k].end /\ ds[k].end <= n
    <3>1. k + 1 \in 1..Len(cs) /\ ds[k] = cs[k + 1]
      BY <1>1
    <3> QED BY <3>1 DEF Nested
  <2>2. ASSUME NEW k \in 1..Len(ds), NEW j \in 1..k - 1, NEW x \in 1..n, NEW y \in 1..n,
               In(ds[j], x), In(ds[j], y), In(ds[k], x)
        PROVE  Half(ds[k], x, y)
    <3>1. k + 1 \in 1..Len(cs) /\ ds[k] = cs[k + 1] /\ ds[j] = cs[j + 1] /\ j + 1 \in 1..(k + 1) - 1
      BY <1>1
    <3> QED BY <2>2, <3>1 DEF Nested
  <2> HIDE DEF ds
  <2> QED BY <2>1, <2>2 DEF Nested
<1>6. HalvesOrdered(n, b, ds)
  <2> SUFFICES ASSUME NEW k \in 1..Len(ds), NEW x \in 1..n, NEW y \in 1..n,
                      x <= y, Half(ds[k], x, y), ~(b[x] <= b[y])
               PROVE  Above(ds, k, x, y)
    BY DEF HalvesOrdered
  <2>1. k + 1 \in 2..Len(cs) /\ k + 1 \in 1..Len(cs) /\ ds[k] = cs[k + 1]
    BY <1>1
  <2>2. PICK u \in 1..n, v \in 1..n :
               /\ u = x \/ (In(c, x) /\ In(c, u))
               /\ v = y \/ (In(c, y) /\ In(c, v))
               /\ u <= v /\ b[x] = a[u] /\ b[y] = a[v] /\ ~(In(c, u) /\ In(c, v))
    BY <1>4
  <2>3. Half(cs[k + 1], u, v)
    <3>1. /\ In(cs[k + 1], x) <=> In(cs[k + 1], u)
          /\ In(cs[k + 1], x) => (x <= Mid(cs[k + 1]) <=> u <= Mid(cs[k + 1]))
      BY <1>3, <2>1, <2>2
    <3>2. /\ In(cs[k + 1], y) <=> In(cs[k + 1], v)
          /\ In(cs[k + 1], y) => (y <= Mid(cs[k + 1]) <=> v <= Mid(cs[k + 1]))
      BY <1>3, <2>1, <2>2
    <3>3. Half(cs[k + 1], x, y)
      BY <2>1
    <3> QED BY <3>1, <3>2, <3>3 DEF Half
  <2>4. Above(cs, k + 1, u, v)
    <3>1. a[u] <= a[v] \/ Above(cs, k + 1, u, v)
      BY <2>1, <2>2, <2>3 DEF HalvesOrdered
    <3> QED BY <2>2, <3>1
  <2>5. PICK j \in 1..k : In(cs[j], u) /\ In(cs[j], v)
    BY <2>4 DEF Above
  <2>6. j # 1
    BY <2>2, <2>5
  <2>7. j \in 2..Len(cs) /\ j - 1 \in 1..k - 1 /\ ds[j - 1] = cs[j]
    BY <1>1, <2>1, <2>6
  <2>8. In(cs[j], x) /\ In(cs[j], y)
    <3>1. In(cs[j], x) <=> In(cs[j], u)
      BY <1>3, <2>2, <2>7
    <3>2. In(cs[j], y) <=> In(cs[j], v)
      BY <1>3, <2>2, <2>7
    <3> QED BY <2>5, <3>1, <3>2
  <2> QED BY <2>7, <2>8 DEF Above
<1>7. OrderedBut(n, b, ds)
  <2> SUFFICES ASSUME NEW x \in 1..n, NEW y \in 1..n, x <= y, ~(b[x] <= b[y])
               PROVE  Together(ds, x, y)
    BY DEF OrderedBut
  <2>2. PICK u \in 1..n, v \in 1..n :
               /\ u = x \/ (In(c, x) /\ In(c, u))
               /\ v = y \/ (In(c, y) /\ In(c, v))
               /\ u <= v /\ b[x] = a[u] /\ b[y] = a[v] /\ ~(In(c, u) /\ In(c, v))
    BY <1>4
  <2>4. Together(cs, u, v)
    BY <2>2 DEF OrderedBut
  <2>5. PICK j \in 1..Len(cs) : In(cs[j], u) /\ In(cs[j], v)
    BY <2>4 DEF Together
  <2>6. j # 1
    BY <2>2, <2>5
  <2>7. j \in 2..Len(cs) /\ j - 1 \in 1..Len(ds) /\ ds[j - 1] = cs[j]
    BY <1>1, <2>6
  <2>8. In(cs[j], x) /\ In(cs[j], y)
    <3>1. In(cs[j], x) <=> In(cs[j], u)
      BY <1>3, <2>2, <2>7
    <3>2. In(cs[j], y) <=> In(cs[j], v)
      BY <1>3, <2>2, <2>7
    <3> QED BY <2>5, <3>1, <3>2
  <2> QED BY <2>7, <2>8 DEF Together
<1> QED BY <1>1, <1>5, <1>6, <1>7

LEMMA MidBetween ==
  ASSUME NEW c, c.start \in Nat, c.end \in Nat, c.start <= c.end
  PROVE  /\ Mid(c) \in Nat /\ c.start <= Mid(c) /\ Mid(c) <= c.end
         /\ c.start < c.end => Mid(c) < c.end
<1>1. PICK s \in Nat, d \in Nat : s = c.start /\ d = c.end - c.start
  OBVIOUS
<1>2. d \div 2 \in Nat /\ d \div 2 <= d /\ (d > 0 => d \div 2 < d)
  BY <1>1
<1>3. Mid(c) = s + d \div 2
  BY <1>1 DEF Mid
<1> QED BY <1>1, <1>2, <1>3

LEMMA PushShape ==
  ASSUME NEW cs \in Seq(CallSet), cs # <<>>, NEW p \in CallSet, NEW q \in CallSet, NEW g \in CallSet,
         NEW ds, ds = <<p, q, g>> \o Tail(cs)
  PROVE  /\ ds \in Seq(CallSet) /\ Len(ds) = Len(cs) + 2
         /\ ds[1] = p /\ ds[2] = q /\ ds[3] = g
         /\ \A k \in 4..Len(cs) + 2 : ds[k] = cs[k - 2]
<1>1. PICK t : t = Tail(cs)
  OBVIOUS
<1>2. /\ t \in Seq(CallSet) /\ Len(t) = Len(cs) - 1 /\ Len(cs) \in Nat /\ Len(cs) >= 1
      /\ \A k \in 1..Len(cs) - 1 : t[k] = cs[k + 1]
  BY <1>1, CallsTail
<1>3. PICK h : h = <<p, q, g>>
  OBVIOUS
<1>4. h \in Seq(CallSet) /\ Len(h) = 3 /\ h[1] = p /\ h[2] = q /\ h[3] = g
  BY <1>3
<1>5. ds = h \o t
  BY <1>1, <1>3
<1>6. ds \in Seq(CallSet) /\ Len(ds) = Len(cs) + 2
  BY <1>2, <1>4, <1>5
<1>7. \A k \in 1..Len(h) + Len(t) : ds[k] = IF k <= Len(h) THEN h[k] ELSE t[k - Len(h)]
  BY SMTT(30), <1>2, <1>4, <1>5
<1>8. ds[1] = p /\ ds[2] = q /\ ds[3] = g
  BY <1>2, <1>4, <1>7
<1>9. ASSUME NEW k \in 4..Len(cs) + 2 PROVE ds[k] = cs[k - 2]
  <2>1. ds[k] = t[k - 3]
    BY <1>2, <1>4, <1>7
  <2>2. k - 3 \in 1..Len(cs) - 1 /\ (k - 3) + 1 = k - 2
    BY <1>2
  <2> QED BY <1>2, <2>1, <2>2
<1> QED BY <1>6, <1>8, <1>9

(* A call for s..e is split in two at m and the merge of them. *)
LEMMA MergePush ==
  ASSUME NEW n \in Nat, NEW a \in [1..n -> Int], NEW cs \in Seq(CallSet), cs # <<>>,
         Nested(n, cs), HalvesOrdered(n, a, cs), OrderedBut(n, a, cs),
         NEW s \in Nat, NEW m \in Nat, NEW e \in Nat, s <= m, m < e,
         s = cs[1].start, e = cs[1].end,
         NEW p \in CallSet, p.op = "sort", p.start = s, p.end = m,
         NEW q \in CallSet, q.op = "sort", q.start = m + 1, q.end = e,
         NEW g \in CallSet, g.op = "merge", g.start = s, g.end = e, Mid(g) = m,
         NEW ds \in Seq(CallSet), Len(ds) = Len(cs) + 2, ds[1] = p, ds[2] = q, ds[3] = g,
         \A k \in 4..Len(cs) + 2 : ds[k] = cs[k - 2]
  PROVE  Nested(n, ds) /\ HalvesOrdered(n, a, ds) /\ OrderedBut(n, a, ds)
<1> DEFINE c == cs[1]
<1>1. Len(cs) \in Nat /\ Len(cs) >= 1
  BY CallsTail
<1>2. 1 <= s /\ s < e /\ e <= n
  BY SMTT(30), NestedBounds
<1>3. m \in Nat /\ s <= m /\ m < e
  OBVIOUS
<1>5. p.op = "sort" /\ p.start = s /\ p.end = m
  OBVIOUS
<1>6. q.op = "sort" /\ q.start = m + 1 /\ q.end = e
  OBVIOUS
<1>7. g.op = "merge" /\ g.start = s /\ g.end = e /\ Mid(g) = m
  OBVIOUS
<1>8. /\ Len(ds) = Len(cs) + 2 /\ ds[1] = p /\ ds[2] = q /\ ds[3] = g
      /\ \A k \in 4..Len(cs) + 2 : ds[k] = cs[k - 2]
  OBVIOUS
<1>9. \A x \in 1..n : /\ In(c, x) <=> (s <= x /\ x <= e)
                      /\ In(p, x) <=> (s <= x /\ x <= m)
                      /\ In(q, x) <=> (m < x /\ x <= e)
                      /\ In(g, x) <=> (s <= x /\ x <= e)
  BY SMTT(30), <1>2, <1>3, <1>5, <1>6, <1>7 DEF In
<1>9a. \A x \in 1..n : In(ds[1], x) \/ In(ds[2], x) \/ In(ds[3], x) => In(c, x) /\ In(g, x)
  BY SMTT(30), <1>3, <1>8, <1>9
<1>10. ASSUME NEW k \in 4..Len(ds) PROVE k - 2 \in 2..Len(cs) /\ k - 2 \in 1..Len(cs) /\ ds[k] = cs[k - 2]
  BY <1>1, <1>8
<1>11. ASSUME NEW k \in 1..Len(ds) PROVE k = 1 \/ k = 2 \/ k = 3 \/ k \in 4..Len(ds)
  BY <1>8, <1>1
<1>12. Nested(n, ds)
  <2>1. ASSUME NEW k \in 1..Len(ds)
        PROVE  1 <= ds[k].start /\ ds[k].start <= ds[k].end /\ ds[k].end <= n
    <3>1. CASE k \in 4..Len(ds)
      BY <1>10, <3>1 DEF Nested
    <3>2. CASE k = 1
      BY SMTT(30), <1>2, <1>3, <1>5, <1>8, <3>2
    <3>3. CASE k = 2
      BY SMTT(30), <1>2, <1>3, <1>6, <1>8, <3>3
    <3>4. CASE k = 3
      BY SMTT(30), <1>2, <1>3, <1>7, <1>8, <3>4
    <3> QED BY <1>11, <3>1, <3>2, <3>3, <3>4
  <2>2. ASSUME NEW k \in 1..Len(ds), NEW j \in 1..k - 1, NEW x \in 1..n, NEW y \in 1..n,
               In(ds[j], x), In(ds[j], y), In(ds[k], x)
        PROVE  Half(ds[k], x, y)
    <3>1. CASE k \in 4..Len(ds)
      <4>1. k - 2 \in 1..Len(cs) /\ ds[k] = cs[k - 2] /\ 1 \in 1..(k - 2) - 1
        BY SMTT(30), <1>1, <1>10, <3>1
      <4>2. CASE j \in 4..Len(ds)
        <5>1. ds[j] = cs[j - 2] /\ j - 2 \in 1..(k - 2) - 1
          BY SMTT(30), <1>10, <3>1, <4>2
        <5> QED BY <2>2, <4>1, <5>1 DEF Nested
      <4>3. CASE j = 1 \/ j = 2 \/ j = 3
        <5>1. In(c, x) /\ In(c, y)
          BY <1>9a, <2>2, <4>3
        <5> QED BY <2>2, <4>1, <5>1 DEF Nested
      <4> QED
        <5>1. j \in 1..Len(ds)
          BY <1>1, <1>8
        <5> QED BY <1>11, <4>2, <4>3, <5>1
    <3>2. CASE k = 3
      <4>1. j = 1 \/ j = 2
        BY <3>2
      <4>2. (x <= m /\ y <= m) \/ (~(x <= m) /\ ~(y <= m))
        BY <1>3, <1>8, <1>9, <2>2, <4>1
      <4>3. In(g, x) /\ In(g, y)
        BY <1>9a, <2>2, <4>1
      <4> QED BY <1>7, <1>8, <3>2, <4>2, <4>3 DEF Half
    <3>3. CASE k = 2
      <4>1. j = 1
        BY <3>3
      <4> QED BY <1>3, <1>8, <1>9, <2>2, <3>3, <4>1
    <3>4. k # 1
      OBVIOUS
    <3> QED BY <1>11, <3>1, <3>2, <3>3, <3>4
  <2> QED BY <2>1, <2>2 DEF Nested
<1>13. HalvesOrdered(n, a, ds)
  <2> SUFFICES ASSUME NEW k \in 1..Len(ds), NEW x \in 1..n, NEW y \in 1..n,
                      x <= y, Half(ds[k], x, y), ~(a[x] <= a[y])
               PROVE  Above(ds, k, x, y)
    BY DEF HalvesOrdered
  <2>1. CASE k \in 4..Len(ds)
    <3>1. k - 2 \in 1..Len(cs) /\ ds[k] = cs[k - 2]
      BY <1>10, <2>1
    <3>2. PICK j \in 1..(k - 2) - 1 : In(cs[j], x) /\ In(cs[j], y)
      BY <3>1 DEF HalvesOrdered, Above
    <3>3. CASE j = 1
      <4>1. 3 \in 1..k - 1 /\ In(ds[3], x) /\ In(ds[3], y)
        BY <1>8, <1>9, <2>1, <3>2, <3>3
      <4> QED BY <4>1 DEF Above
    <3>4. CASE j # 1
      <4>1. j + 2 \in 4..Len(ds) /\ j + 2 \in 1..k - 1 /\ (j + 2) - 2 = j
        BY <1>8, <2>1, <3>1, <3>4
      <4>2. ds[j + 2] = cs[j]
        BY <1>10, <4>1
      <4> QED BY <3>2, <4>1, <4>2 DEF Above
    <3> QED BY <3>3, <3>4
  <2>2. CASE k = 3
    <3>1. In(g, x) /\ In(g, y) /\ (x <= m <=> y <= m)
      BY <1>7, <1>8, <2>2 DEF Half
    <3>2. (In(p, x) /\ In(p, y)) \/ (In(q, x) /\ In(q, y))
      BY <1>3, <1>9, <3>1
    <3>3. 1 \in 1..k - 1 /\ 2 \in 1..k - 1
      BY <2>2
    <3> QED BY <1>8, <3>2, <3>3 DEF Above
  <2>3. CASE k = 1 \/ k = 2
    <3>1. ds[k].op = "sort"
      BY <1>5, <1>6, <1>8, <2>3
    <3> QED BY <3>1 DEF Half
  <2> QED BY <1>11, <2>1, <2>2, <2>3
<1>14. OrderedBut(n, a, ds)
  <2> SUFFICES ASSUME NEW x \in 1..n, NEW y \in 1..n, x <= y, ~(a[x] <= a[y])
               PROVE  Together(ds, x, y)
    BY DEF OrderedBut
  <2>1. PICK j \in 1..Len(cs) : In(cs[j], x) /\ In(cs[j], y)
    BY DEF OrderedBut, Together
  <2>2. CASE j = 1
    <3>1. 3 \in 1..Len(ds) /\ In(ds[3], x) /\ In(ds[3], y)
      BY <1>1, <1>8, <1>9, <2>1, <2>2
    <3> QED BY <3>1 DEF Together
  <2>3. CASE j # 1
    <3>1. j + 2 \in 4..Len(ds) /\ j + 2 \in 1..Len(ds) /\ (j + 2) - 2 = j
      BY <1>1, <1>8, <2>3
    <3>2. ds[j + 2] = cs[j]
      BY <1>10, <3>1
    <3> QED BY <2>1, <3>1, <3>2 DEF Together
  <2> QED BY <2>2, <2>3
<1> QED BY <1>12, <1>13, <1>14

LEMMA RotatedIs ==
  ASSUME NEW n \in Nat, NEW a \in [1..n -> Int], NEW b \in [1..n -> Int],
         NEW x \in 1..n, NEW y \in x..n, b[x] = a[y],
         \A k \in x + 1..y : b[k] = a[k - 1],
         \A k \in 1..n : k < x \/ k > y => b[k] = a[k]
  PROVE  Same(n, b, a)
<1>1. PICK c : c = Rotated(a, x, y)
  OBVIOUS
<1>2. /\ c \in [1..n -> Int] /\ c[x] = a[y]
      /\ \A k \in x + 1..y : c[k] = a[k - 1]
      /\ \A k \in 1..n : k < x \/ k > y => c[k] = a[k]
  BY <1>1, RotatedValues
<1>3. ASSUME NEW k \in 1..n PROVE b[k] = c[k]
  <2>1. k = x \/ k \in x + 1..y \/ k < x \/ k > y
    OBVIOUS
  <2> QED BY <1>2, <2>1
<1>4. b = c
  BY <1>2, <1>3
<1> QED BY <1>1, <1>4, SameRotated

LaidOut(b, n, a, tp, s, i, l, r) ==
  /\ b \in [1..n -> Int]
  /\ \A k \in 1..n : k < s \/ k >= r => b[k] = a[k]
  /\ \A k \in 1..n : s <= k /\ k < i => b[k] = tp[k]
  /\ \A k \in 1..n : i <= k /\ k < r => b[k] = a[k - i + l]

LEMMA LayoutValues ==
  ASSUME NEW n \in Nat, NEW a \in [1..n -> Int], NEW tp \in [1..n -> Int], NEW s \in 1..n,
         NEW i \in 1..n + 1, NEW l \in 1..n + 1, NEW r \in 1..n + 1, s <= i, i <= r, r - i + l <= n + 1
  PROVE  LaidOut(Layout(n, a, tp, s, i, l, r), n, a, tp, s, i, l, r)
<1>0. PICK b : b = Layout(n, a, tp, s, i, l, r)
  OBVIOUS
<1>1. b = [k \in 1..n |-> IF k < s \/ k >= r THEN a[k] ELSE IF k < i THEN tp[k] ELSE a[k - i + l]]
  BY <1>0 DEF Layout
<1>2. ASSUME NEW k \in 1..n
      PROVE  (IF k < s \/ k >= r THEN a[k] ELSE IF k < i THEN tp[k] ELSE a[k - i + l]) \in Int
  <2>1. i <= k /\ k < r => k - i + l \in 1..n
    OBVIOUS
  <2> QED BY <2>1
<1>3. b \in [1..n -> Int]
  BY <1>1, <1>2
<1>4. \A k \in 1..n :
        b[k] = IF k < s \/ k >= r THEN a[k] ELSE IF k < i THEN tp[k] ELSE a[k - i + l]
  BY <1>1
<1>5. \A k \in 1..n : k < s \/ k >= r => b[k] = a[k]
  BY <1>4
<1>6. \A k \in 1..n : s <= k /\ k < i => b[k] = tp[k]
  BY <1>4
<1>7. ASSUME NEW k \in 1..n, i <= k, k < r PROVE b[k] = a[k - i + l]
  <2>1. ~(k < s \/ k >= r) /\ ~(k < i)
    BY <1>7
  <2> QED BY <1>4, <2>1
<1> QED BY <1>0, <1>3, <1>5, <1>6, <1>7 DEF LaidOut

(* The loop of _mergesort: the left element is taken, the right element is *)
(* taken, and what is over is copied.                                      *)
LEMMA TakeLeft ==
  ASSUME NEW n \in Nat, NEW a \in [1..n -> Int], NEW tp \in [1..n -> Int], NEW s \in 1..n,
         NEW e \in 1..n, NEW m \in Int, NEW i \in Int, NEW l \in Int, NEW r \in Int,
         Merging(n, a, tp, s, e, m, i, l, r), l <= m, r <= e, a[l] < a[r],
         InOrder(a, s, m), InOrder(a, m + 1, e),
         NEW tq, tq = [tp EXCEPT ![i] = a[l]]
  PROVE  tq \in [1..n -> Int] /\ Merging(n, a, tq, s, e, m, i + 1, l + 1, r)
<1>1. /\ s <= l /\ l <= m /\ m + 1 <= r /\ r <= e /\ i = l + r - m - 1
      /\ InOrder(tp, s, i - 1)
      /\ \A k \in s..i - 1 : \A x \in l..m : tp[k] <= a[x]
      /\ \A k \in s..i - 1 : \A x \in r..e : tp[k] <= a[x]
      /\ \A k \in s..i - 1 : \E x \in s..e : tp[k] = a[x]
      /\ Same(n, Layout(n, a, tp, s, i, l, r), a)
  BY DEF Merging
<1>2. i \in s..e /\ i < r /\ l \in 1..n /\ r \in 1..n /\ i \in 1..n
  BY <1>1
<1>3. tq \in [1..n -> Int] /\ \A k \in 1..n : tq[k] = IF k = i THEN a[l] ELSE tp[k]
  BY <1>2
<1>4. InOrder(tq, s, i)
  <2> SUFFICES ASSUME NEW k \in s..i, NEW x \in s..i, k <= x PROVE tq[k] <= tq[x]
    BY DEF InOrder
  <2>1. k \in 1..n /\ x \in 1..n
    BY SMTT(30), <1>2
  <2>2. CASE x < i
    <3>1. k \in s..i - 1 /\ x \in s..i - 1 /\ k # i /\ x # i
      BY SMTT(30), <1>2, <2>2
    <3> QED BY <1>1, <1>3, <2>1, <3>1 DEF InOrder
  <2>3. CASE x = i /\ k < i
    <3>1. k \in s..i - 1 /\ l \in l..m
      BY <1>1, <1>2, <2>3
    <3>2. tp[k] <= a[l]
      BY <1>1, <3>1
    <3> QED BY <1>3, <2>1, <2>3, <3>2
  <2>4. CASE x = i /\ k = i
    BY <1>2, <1>3, <2>4
  <2> QED BY SMTT(30), <1>2, <2>2, <2>3, <2>4
<1>5. ASSUME NEW x \in (l + 1)..m PROVE a[l] <= a[x]
  <2>1. l \in s..m /\ x \in s..m /\ l <= x
    BY <1>1
  <2> QED BY <2>1 DEF InOrder
<1>6. ASSUME NEW x \in r..e PROVE a[l] <= a[x]
  <2>1. r \in m + 1..e /\ x \in m + 1..e /\ r <= x /\ x \in 1..n
    BY <1>1, <1>2
  <2>2. a[r] <= a[x]
    BY <2>1 DEF InOrder
  <2>3. PICK u \in Int, v \in Int, w \in Int : u = a[l] /\ v = a[r] /\ w = a[x]
    BY <1>2, <2>1
  <2>4. u < v /\ v <= w
    BY <2>2, <2>3
  <2>5. u <= w
    BY <2>4
  <2> QED BY <2>3, <2>5
<1>7. ASSUME NEW k \in s..i, NEW x \in (l + 1)..m PROVE tq[k] <= a[x]
  <2>1. k \in 1..n /\ x \in l..m
    BY <1>1, <1>2
  <2>2. CASE k = i
    BY <1>3, <1>5, <2>1, <2>2
  <2>3. CASE k # i
    <3>1. k \in s..i - 1
      BY <1>2, <2>3
    <3> QED BY <1>1, <1>3, <2>1, <2>3, <3>1
  <2> QED BY <2>2, <2>3
<1>8. ASSUME NEW k \in s..i, NEW x \in r..e PROVE tq[k] <= a[x]
  <2>1. k \in 1..n
    BY <1>2
  <2>2. CASE k = i
    BY <1>3, <1>6, <2>1, <2>2
  <2>3. CASE k # i
    <3>1. k \in s..i - 1
      BY <1>2, <2>3
    <3> QED BY <1>1, <1>3, <2>1, <2>3, <3>1
  <2> QED BY <2>2, <2>3
<1>9. ASSUME NEW k \in s..i PROVE \E x \in s..e : tq[k] = a[x]
  <2>1. k \in 1..n /\ l \in s..e
    BY <1>1, <1>2
  <2>2. CASE k = i
    BY <1>3, <2>1, <2>2
  <2>3. CASE k # i
    <3>1. k \in s..i - 1
      BY <1>2, <2>3
    <3> QED BY <1>1, <1>3, <2>1, <2>3, <3>1
  <2> QED BY <2>2, <2>3
<1>10. Layout(n, a, tq, s, i + 1, l + 1, r) = Layout(n, a, tp, s, i, l, r)
  <2>1. ASSUME NEW k \in 1..n
        PROVE  (IF k < s \/ k >= r THEN a[k] ELSE IF k < i + 1 THEN tq[k] ELSE a[k - (i + 1) + (l + 1)])
               = (IF k < s \/ k >= r THEN a[k] ELSE IF k < i THEN tp[k] ELSE a[k - i + l])
    <3>1. k - (i + 1) + (l + 1) = k - i + l
      OBVIOUS
    <3>2. CASE k = i
      <4>1. k - i + l = l
        BY <3>2
      <4> QED BY <1>2, <1>3, <3>2, <4>1
    <3>3. CASE k # i
      <4>1. k < i + 1 <=> k < i
        BY <3>3
      <4> QED BY <1>3, <3>1, <3>3, <4>1
    <3> QED BY <3>2, <3>3
  <2> QED BY <2>1 DEF Layout
<1>11. (i + 1) - 1 = i /\ i + 1 = (l + 1) + r - m - 1
  BY <1>1
<1> QED BY <1>1, <1>3, <1>4, <1>7, <1>8, <1>9, <1>10, <1>11 DEF Merging

LEMMA TakeRight ==
  ASSUME NEW n \in Nat, NEW a \in [1..n -> Int], NEW tp \in [1..n -> Int], NEW s \in 1..n,
         NEW e \in 1..n, NEW m \in Int, NEW i \in Int, NEW l \in Int, NEW r \in Int,
         Merging(n, a, tp, s, e, m, i, l, r), l <= m, r <= e, ~(a[l] < a[r]),
         InOrder(a, s, m), InOrder(a, m + 1, e),
         NEW tq, tq = [tp EXCEPT ![i] = a[r]]
  PROVE  tq \in [1..n -> Int] /\ Merging(n, a, tq, s, e, m, i + 1, l, r + 1)
<1>1. /\ s <= l /\ l <= m /\ m + 1 <= r /\ r <= e /\ i = l + r - m - 1
      /\ InOrder(tp, s, i - 1)
      /\ \A k \in s..i - 1 : \A x \in l..m : tp[k] <= a[x]
      /\ \A k \in s..i - 1 : \A x \in r..e : tp[k] <= a[x]
      /\ \A k \in s..i - 1 : \E x \in s..e : tp[k] = a[x]
      /\ Same(n, Layout(n, a, tp, s, i, l, r), a)
  BY DEF Merging
<1>2. i \in s..e /\ i < r /\ l \in 1..n /\ r \in 1..n /\ i \in 1..n
  BY <1>1
<1>3. tq \in [1..n -> Int] /\ \A k \in 1..n : tq[k] = IF k = i THEN a[r] ELSE tp[k]
  BY <1>2
<1>4. InOrder(tq, s, i)
  <2> SUFFICES ASSUME NEW k \in s..i, NEW x \in s..i, k <= x PROVE tq[k] <= tq[x]
    BY DEF InOrder
  <2>1. k \in 1..n /\ x \in 1..n
    BY SMTT(30), <1>2
  <2>2. CASE x < i
    <3>1. k \in s..i - 1 /\ x \in s..i - 1 /\ k # i /\ x # i
      BY SMTT(30), <1>2, <2>2
    <3> QED BY <1>1, <1>3, <2>1, <3>1 DEF InOrder
  <2>3. CASE x = i /\ k < i
    <3>1. k \in s..i - 1 /\ r \in r..e
      BY <1>1, <1>2, <2>3
    <3>2. tp[k] <= a[r]
      BY <1>1, <3>1
    <3> QED BY <1>3, <2>1, <2>3, <3>2
  <2>4. CASE x = i /\ k = i
    BY <1>2, <1>3, <2>4
  <2> QED BY SMTT(30), <1>2, <2>2, <2>3, <2>4
<1>5. ASSUME NEW x \in r + 1..e PROVE a[r] <= a[x]
  <2>1. r \in m + 1..e /\ x \in m + 1..e /\ r <= x
    BY <1>1
  <2> QED BY <2>1 DEF InOrder
<1>6. ASSUME NEW x \in l..m PROVE a[r] <= a[x]
  <2>1. l \in s..m /\ x \in s..m /\ l <= x /\ x \in 1..n
    BY SMTT(30), <1>1, <1>2
  <2>2. a[l] <= a[x]
    BY <2>1 DEF InOrder
  <2>3. PICK u \in Int, v \in Int, w \in Int : u = a[l] /\ v = a[r] /\ w = a[x]
    BY <1>2, <2>1
  <2>4. ~(u < v) /\ u <= w
    BY <2>2, <2>3
  <2>5. v <= w
    BY <2>4
  <2> QED BY <2>3, <2>5
<1>7. ASSUME NEW k \in s..i, NEW x \in l..m PROVE tq[k] <= a[x]
  <2>1. k \in 1..n
    BY <1>2
  <2>2. CASE k = i
    BY <1>3, <1>6, <2>1, <2>2
  <2>3. CASE k # i
    <3>1. k \in s..i - 1
      BY <1>2, <2>3
    <3> QED BY <1>1, <1>3, <2>1, <2>3, <3>1
  <2> QED BY <2>2, <2>3
<1>8. ASSUME NEW k \in s..i, NEW x \in r + 1..e PROVE tq[k] <= a[x]
  <2>1. k \in 1..n /\ x \in r..e
    BY <1>1, <1>2
  <2>2. CASE k = i
    BY <1>3, <1>5, <2>1, <2>2
  <2>3. CASE k # i
    <3>1. k \in s..i - 1
      BY <1>2, <2>3
    <3> QED BY <1>1, <1>3, <2>1, <2>3, <3>1
  <2> QED BY <2>2, <2>3
<1>9. ASSUME NEW k \in s..i PROVE \E x \in s..e : tq[k] = a[x]
  <2>1. k \in 1..n /\ r \in s..e
    BY <1>1, <1>2
  <2>2. CASE k = i
    BY <1>3, <2>1, <2>2
  <2>3. CASE k # i
    <3>1. k \in s..i - 1
      BY <1>2, <2>3
    <3> QED BY <1>1, <1>3, <2>1, <2>3, <3>1
  <2> QED BY <2>2, <2>3
<1>10. PICK old, new : old = Layout(n, a, tp, s, i, l, r) /\ new = Layout(n, a, tq, s, i + 1, l, r + 1)
  OBVIOUS
<1>11. /\ old \in [1..n -> Int]
       /\ \A k \in 1..n : k < s \/ k >= r => old[k] = a[k]
       /\ \A k \in 1..n : s <= k /\ k < i => old[k] = tp[k]
       /\ \A k \in 1..n : i <= k /\ k < r => old[k] = a[k - i + l]
  <2>1. i \in 1..n + 1 /\ l \in 1..n + 1 /\ r \in 1..n + 1 /\ s <= i /\ i <= r /\ r - i + l <= n + 1
    BY <1>1, <1>2
  <2>2. LaidOut(Layout(n, a, tp, s, i, l, r), n, a, tp, s, i, l, r)
    BY <1>2, <2>1, LayoutValues
  <2> QED BY <1>10, <2>2 DEF LaidOut
<1>12. /\ new \in [1..n -> Int]
       /\ \A k \in 1..n : k < s \/ k > r => new[k] = a[k]
       /\ \A k \in 1..n : s <= k /\ k < i => new[k] = tp[k]
       /\ new[i] = a[r]
       /\ \A k \in i + 1..r : new[k] = a[k - (i + 1) + l]
  <2>1. PICK h \in 1..n + 1, g \in 1..n + 1 : h = i + 1 /\ g = r + 1
    BY <1>2
  <2>2. l \in 1..n + 1 /\ s <= h /\ h <= g /\ g - h + l <= n + 1
    BY <1>1, <1>2, <2>1
  <2>3. new = Layout(n, a, tq, s, h, l, g)
    BY <1>10, <2>1
  <2>4. /\ new \in [1..n -> Int]
        /\ \A k \in 1..n : k < s \/ k >= g => new[k] = a[k]
        /\ \A k \in 1..n : s <= k /\ k < h => new[k] = tq[k]
        /\ \A k \in 1..n : h <= k /\ k < g => new[k] = a[k - h + l]
    <3>1. LaidOut(Layout(n, a, tq, s, h, l, g), n, a, tq, s, h, l, g)
      BY <1>2, <1>3, <2>2, LayoutValues
    <3> QED BY <2>3, <3>1 DEF LaidOut
  <2>5. \A k \in 1..n : k < s \/ k > r => new[k] = a[k]
    BY <1>2, <2>1, <2>4
  <2>6. \A k \in 1..n : s <= k /\ k < i => new[k] = tp[k]
    BY <1>2, <1>3, <2>1, <2>4
  <2>7. new[i] = a[r]
    BY <1>2, <1>3, <2>1, <2>4
  <2>8. ASSUME NEW k \in i + 1..r PROVE new[k] = a[k - (i + 1) + l]
    <3>1. k \in 1..n /\ h <= k /\ k < g
      BY <1>2, <2>1
    <3>2. new[k] = a[k - h + l]
      BY <2>4, <3>1
    <3> QED BY <2>1, <3>2
  <2> QED BY <2>4, <2>5, <2>6, <2>7, <2>8
<1>13. Same(n, new, a)
  <2>1. Same(n, new, old)
    <3>1. new[i] = old[r]
      BY <1>2, <1>11, <1>12
    <3>2. ASSUME NEW k \in i + 1..r PROVE new[k] = old[k - 1]
      <4>1. k - 1 \in 1..n /\ i <= k - 1 /\ k - 1 < r /\ (k - 1) - i + l = k - (i + 1) + l
        BY <1>2
      <4>2. old[k - 1] = a[(k - 1) - i + l]
        BY <1>11, <4>1
      <4>3. new[k] = a[k - (i + 1) + l]
        BY <1>12
      <4> QED BY <4>1, <4>2, <4>3
    <3>3. ASSUME NEW k \in 1..n, k < i \/ k > r PROVE new[k] = old[k]
      <4>1. CASE s <= k /\ k < i
        BY <1>11, <1>12, <4>1
      <4>2. CASE k < s \/ k > r
        <5>1. k < s \/ k >= r
          BY <1>2, <4>2
        <5> QED BY <1>11, <1>12, <4>2, <5>1
      <4> QED BY <1>2, <3>3, <4>1, <4>2
    <3>4. r \in i..n
      BY <1>2
    <3> QED BY <1>2, <1>11, <1>12, <3>1, <3>2, <3>3, <3>4, RotatedIs
  <2>2. Same(n, old, a)
    BY <1>1, <1>10
  <2> QED BY <2>1, <2>2, SameTransitive
<1>14. (i + 1) - 1 = i /\ i + 1 = l + (r + 1) - m - 1
  BY <1>1
<1> QED BY <1>1, <1>3, <1>4, <1>7, <1>8, <1>9, <1>10, <1>13, <1>14 DEF Merging

LEMMA InOrderPart ==
  ASSUME NEW a, NEW u \in Int, NEW v \in Int, InOrder(a, u, v),
         NEW x \in Int, NEW y \in Int, u <= x, y <= v
  PROVE  InOrder(a, x, y)
BY DEF InOrder

Copied(a, b, tp, s, e, i, d, u, v) ==
  /\ InOrder(tp, s, i - 1) /\ InOrder(a, u, v)
  /\ \A k \in s..i - 1 : b[k] = tp[k]
  /\ \A k \in i..e : b[k] = a[k + d]
  /\ \A k \in s..i - 1 : \A x \in u..v : tp[k] <= a[x]
  /\ \A k \in s..i - 1 : \E x \in s..e : tp[k] = a[x]

Within(b, a, s, e) == \A k \in s..e : \E x \in s..e : b[k] = a[x]

LEMMA CopiedBack ==
  ASSUME NEW n \in Nat, NEW a \in [1..n -> Int], NEW b \in [1..n -> Int], NEW tp \in [1..n -> Int],
         NEW s \in 1..n, NEW e \in 1..n, NEW i \in Int, s <= i, i <= e + 1,
         NEW d \in Int, NEW u \in Int, NEW v \in Int, s <= u, v <= e, u <= i + d, e + d <= v,
         Copied(a, b, tp, s, e, i, d, u, v)
  PROVE  InOrder(b, s, e) /\ Within(b, a, s, e)
<1>0. /\ InOrder(tp, s, i - 1) /\ InOrder(a, u, v)
      /\ \A k \in s..i - 1 : b[k] = tp[k]
      /\ \A k \in i..e : b[k] = a[k + d]
      /\ \A k \in s..i - 1 : \A x \in u..v : tp[k] <= a[x]
      /\ \A k \in s..i - 1 : \E x \in s..e : tp[k] = a[x]
  BY DEF Copied
<1>1. ASSUME NEW k \in s..e PROVE \E x \in s..e : b[k] = a[x]
  <2>1. CASE k \in s..i - 1
    BY <1>0, <2>1
  <2>2. CASE k \in i..e
    <3>1. k + d \in s..e
      BY <2>2
    <3> QED BY <1>0, <2>2, <3>1
  <2> QED BY <2>1, <2>2
<1>2. ASSUME NEW k \in s..e, NEW x \in s..e, k <= x PROVE b[k] <= b[x]
  <2>1. CASE k \in s..i - 1 /\ x \in s..i - 1
    BY <1>0, <1>2, <2>1 DEF InOrder
  <2>2. CASE k \in s..i - 1 /\ x \in i..e
    <3>1. x + d \in u..v
      BY <2>2
    <3> QED BY <1>0, <2>2, <3>1
  <2>3. CASE k \in i..e /\ x \in i..e
    <3>1. k + d \in u..v /\ x + d \in u..v /\ k + d <= x + d
      BY <1>2, <2>3
    <3>2. a[k + d] <= a[x + d]
      BY <1>0, <3>1 DEF InOrder
    <3> QED BY <1>0, <2>3, <3>2
  <2>4. ~(k \in i..e /\ x \in s..i - 1)
    BY <1>2
  <2> QED BY <2>1, <2>2, <2>3, <2>4
<1> QED BY <1>1, <1>2 DEF InOrder, Within

CopiedOver(n, a, b, tp, s, e, m, i, l, r) ==
  /\ \A k \in 1..n : k < s \/ k > e => b[k] = a[k]
  /\ \A k \in s..i - 1 : b[k] = tp[k]
  /\ l <= m => \A k \in i..e : b[k] = a[l + k - i]
  /\ l > m => \A k \in i..e : b[k] = a[r + k - i]

LEMMA MergeEnd ==
  ASSUME NEW n \in Nat, NEW a \in [1..n -> Int], NEW b \in [1..n -> Int], NEW tp \in [1..n -> Int],
         NEW s \in 1..n, NEW e \in 1..n, NEW m \in Int, NEW i \in Int, NEW l \in Int, NEW r \in Int,
         Merging(n, a, tp, s, e, m, i, l, r), l > m \/ r > e,
         InOrder(a, s, m), InOrder(a, m + 1, e),
         CopiedOver(n, a, b, tp, s, e, m, i, l, r)
  PROVE  /\ InOrder(b, s, e) /\ Same(n, b, a)
         /\ Within(b, a, s, e)
<1>1. /\ s <= l /\ l <= m + 1 /\ m + 1 <= r /\ r <= e + 1 /\ i = l + r - m - 1
      /\ InOrder(tp, s, i - 1)
      /\ \A k \in s..i - 1 : \A x \in l..m : tp[k] <= a[x]
      /\ \A k \in s..i - 1 : \A x \in r..e : tp[k] <= a[x]
      /\ \A k \in s..i - 1 : \E x \in s..e : tp[k] = a[x]
      /\ Same(n, Layout(n, a, tp, s, i, l, r), a)
  BY DEF Merging
<1>0. /\ \A k \in 1..n : k < s \/ k > e => b[k] = a[k]
      /\ \A k \in s..i - 1 : b[k] = tp[k]
      /\ l <= m => \A k \in i..e : b[k] = a[l + k - i]
      /\ l > m => \A k \in i..e : b[k] = a[r + k - i]
  BY DEF CopiedOver
<1>2. s <= i /\ i <= e + 1 /\ i <= r
  BY <1>1
<1>3. PICK c : c = Layout(n, a, tp, s, i, l, r)
  OBVIOUS
<1>4. LaidOut(c, n, a, tp, s, i, l, r)
  <2>1. i \in 1..n + 1 /\ l \in 1..n + 1 /\ r \in 1..n + 1 /\ r - i + l <= n + 1
    BY <1>1, <1>2
  <2> QED BY <1>2, <1>3, <2>1, LayoutValues
<1>5. CASE l <= m
  <2>1. r = e + 1 /\ i = l + e - m
    BY <1>1, <1>5
  <2>2. PICK d \in Int : d = l - i
    OBVIOUS
  <2>3. ASSUME NEW k \in i..e PROVE b[k] = a[k + d] /\ k + d = k - i + l /\ k + d = l + k - i
    <3>1. k + d = k - i + l /\ k + d = l + k - i
      BY <2>2
    <3> QED BY <1>0, <1>5, <3>1
  <2>4. InOrder(a, l, m)
    BY <1>1, InOrderPart
  <2>5. s <= l /\ m <= e /\ l <= i + d /\ e + d <= m
    BY <1>1, <2>1, <2>2
  <2>6. InOrder(b, s, e) /\ Within(b, a, s, e)
    <3>1. Copied(a, b, tp, s, e, i, d, l, m)
      BY <1>0, <1>1, <2>3, <2>4 DEF Copied
    <3> QED BY <1>2, <2>5, <3>1, CopiedBack
  <2>7. ASSUME NEW k \in 1..n PROVE b[k] = c[k]
    <3>1. CASE k < s \/ k > e
      <4>1. k < s \/ k >= r
        BY <2>1, <3>1
      <4> QED BY <1>0, <1>4, <3>1, <4>1 DEF LaidOut
    <3>2. CASE k \in s..i - 1
      BY <1>0, <1>4, <3>2 DEF LaidOut
    <3>3. CASE k \in i..e
      <4>1. i <= k /\ k < r
        BY <2>1, <3>3
      <4>2. c[k] = a[k - i + l]
        BY <1>4, <4>1 DEF LaidOut
      <4> QED BY <2>3, <3>3, <4>2
    <3> QED BY <3>1, <3>2, <3>3
  <2>8. b = c
    BY <1>4, <2>7 DEF LaidOut
  <2> QED BY <1>1, <1>3, <2>6, <2>8
<1>6. CASE l > m
  <2>1. i = r
    BY <1>1, <1>6
  <2>2. PICK d \in Int : d = 0
    OBVIOUS
  <2>3. ASSUME NEW k \in i..e PROVE b[k] = a[k + d] /\ k + d = k /\ r + k - i = k
    <3>1. k + d = k /\ r + k - i = k
      BY <2>1, <2>2
    <3> QED BY <1>0, <1>6, <3>1
  <2>4. InOrder(a, r, e)
    <3>1. m + 1 \in Int
      OBVIOUS
    <3> QED BY <1>1, <3>1, InOrderPart
  <2>5. e \in Int /\ s <= r /\ e <= e /\ r <= i + d /\ e + d <= e
    BY <1>1, <2>1, <2>2
  <2>6. InOrder(b, s, e) /\ Within(b, a, s, e)
    <3>1. Copied(a, b, tp, s, e, i, d, r, e)
      BY <1>0, <1>1, <2>3, <2>4 DEF Copied
    <3> QED BY <1>2, <2>5, <3>1, CopiedBack
  <2>7. ASSUME NEW k \in 1..n PROVE b[k] = c[k]
    <3>1. CASE k \in s..i - 1
      BY <1>0, <1>4, <3>1 DEF LaidOut
    <3>2. CASE k < s \/ k >= i
      <4>1. k < s \/ k >= r
        BY <2>1, <3>2
      <4>2. c[k] = a[k]
        BY <1>4, <4>1 DEF LaidOut
      <4>3. b[k] = a[k]
        <5>1. CASE k < s \/ k > e
          BY <1>0, <5>1
        <5>2. CASE k \in i..e
          BY <2>3, <5>2
        <5> QED BY <3>2, <5>1, <5>2
      <4> QED BY <4>2, <4>3
    <3> QED BY <3>1, <3>2
  <2>8. b = c
    BY <1>4, <2>7 DEF LaidOut
  <2> QED BY <1>1, <1>3, <2>6, <2>8
<1> QED BY <1>5, <1>6

(* The updates of loc by _mergesort. *)
Start(r, x, y)    == [r EXCEPT !.left = x, !.right = y, !.i = x, !.loop = TRUE]
SetLeft(r, p, x)  == [r EXCEPT !.i = p, !.left = x]
SetRight(r, p, x) == [r EXCEPT !.i = p, !.right = x]

LEMMA SetStart ==
  ASSUME NEW r \in Locals, NEW x \in Int, NEW y \in Int
  PROVE  /\ Start(r, x, y) \in Locals /\ Start(r, x, y).left = x /\ Start(r, x, y).right = y
         /\ Start(r, x, y).i = x /\ Start(r, x, y).loop = TRUE
<1>1. Start(r, x, y) \in Locals
  BY DEF Locals, Start
<1>2. /\ Start(r, x, y).left = x /\ Start(r, x, y).right = y
      /\ Start(r, x, y).i = x /\ Start(r, x, y).loop = TRUE
  BY DEF Locals, Start
<1> QED BY <1>1, <1>2

LEMMA SetLeftRight ==
  ASSUME NEW r \in Locals, NEW p \in Int, NEW x \in Int
  PROVE  /\ SetLeft(r, p, x) \in Locals /\ SetRight(r, p, x) \in Locals
         /\ SetLeft(r, p, x).i = p /\ SetLeft(r, p, x).left = x
         /\ SetLeft(r, p, x).right = r.right /\ SetLeft(r, p, x).loop = r.loop
         /\ SetRight(r, p, x).i = p /\ SetRight(r, p, x).right = x
         /\ SetRight(r, p, x).left = r.left /\ SetRight(r, p, x).loop = r.loop
<1>1. SetLeft(r, p, x) \in Locals /\ SetRight(r, p, x) \in Locals
  BY DEF Locals, SetLeft, SetRight
<1>2. /\ SetLeft(r, p, x).i = p /\ SetLeft(r, p, x).left = x
      /\ SetLeft(r, p, x).right = r.right /\ SetLeft(r, p, x).loop = r.loop
  BY DEF Locals, SetLeft
<1>3. /\ SetRight(r, p, x).i = p /\ SetRight(r, p, x).right = x
      /\ SetRight(r, p, x).left = r.left /\ SetRight(r, p, x).loop = r.loop
  BY DEF Locals, SetRight
<1> QED BY <1>1, <1>2, <1>3

(* What the steps of _mergesort start from. *)
LEMMA MergeFacts ==
  ASSUME SortType, MergeInv, sorter = "mergesort", calls # <<>>
  PROVE  /\ Nested(Len(given), calls) /\ HalvesOrdered(Len(given), arr, calls)
         /\ OrderedBut(Len(given), arr, calls)
         /\ calls \in Seq(CallSet) /\ Head(calls) = calls[1]
         /\ calls[1].start \in 1..Len(given) /\ calls[1].end \in 1..Len(given)
         /\ calls[1].start <= Mid(calls[1]) /\ Mid(calls[1]) <= calls[1].end
         /\ calls[1].start <= calls[1].end /\ Mid(calls[1]) \in Nat
         /\ calls[1].op \in {"sort", "merge"}
         /\ calls[1].start < calls[1].end => Mid(calls[1]) < calls[1].end
         /\ loc.loop => calls[1].op = "merge"
<1>1. calls \in Seq(CallSet) /\ Len(given) \in Nat /\ Head(calls) = calls[1]
  BY SortTypes, CallsTail DEF SortType
<1>2. /\ Nested(Len(given), calls) /\ HalvesOrdered(Len(given), arr, calls)
      /\ OrderedBut(Len(given), arr, calls)
      /\ loc.loop => calls[1].op = "merge"
  BY DEF MergeInv, MergeOK
<1>3. /\ calls[1].start \in 1..Len(given) /\ calls[1].end \in 1..Len(given)
      /\ calls[1].start <= calls[1].end /\ calls[1].op \in {"sort", "merge"}
  BY <1>1, <1>2, NestedBounds
<1>4. calls[1].start \in Nat /\ calls[1].end \in Nat
  BY <1>1, CallsTail
<1> QED BY <1>1, <1>2, <1>3, <1>4, MidBetween

LEMMA MergeHalves ==
  ASSUME NEW n \in Nat, NEW a, NEW cs, HalvesOrdered(n, a, cs), 1 \in 1..Len(cs),
         cs[1].op = "merge", NEW s \in 1..n, NEW e \in 1..n, NEW m \in Nat,
         s = cs[1].start, e = cs[1].end, m = Mid(cs[1]), s <= m, m <= e
  PROVE  InOrder(a, s, m) /\ InOrder(a, m + 1, e)
<1>1. ASSUME NEW x \in 1..n, NEW y \in 1..n, x <= y, Half(cs[1], x, y) PROVE a[x] <= a[y]
  <2>1. ~Above(cs, 1, x, y)
    BY DEF Above
  <2> QED BY <1>1, <2>1 DEF HalvesOrdered
<1>2. \A x \in 1..n : In(cs[1], x) <=> (s <= x /\ x <= e)
  BY DEF In
<1>3. ASSUME NEW x \in s..m, NEW y \in s..m, x <= y PROVE a[x] <= a[y]
  <2>1. x \in 1..n /\ y \in 1..n /\ x <= m /\ y <= m /\ In(cs[1], x) /\ In(cs[1], y)
    BY <1>2
  <2>2. Half(cs[1], x, y)
    BY <2>1 DEF Half
  <2> QED BY <1>1, <1>3, <2>1, <2>2
<1>4. ASSUME NEW x \in m + 1..e, NEW y \in m + 1..e, x <= y PROVE a[x] <= a[y]
  <2>1. x \in 1..n /\ y \in 1..n /\ ~(x <= m) /\ ~(y <= m) /\ In(cs[1], x) /\ In(cs[1], y)
    BY <1>2
  <2>2. Half(cs[1], x, y)
    BY <2>1 DEF Half
  <2> QED BY <1>1, <1>4, <2>1, <2>2
<1> QED BY <1>3, <1>4 DEF InOrder

LEMMA MergeCallStep ==
  ASSUME SortType, KeptInv, MergeInv, sorter = "mergesort", calls # <<>>,
         mergesort_call(Head(calls))
  PROVE  SortType' /\ KeptInv' /\ sorter' = "mergesort" /\ MergeInv'
<1>1. PICK n \in Nat : n = Len(given) /\ n = Len(arr) /\ arr \in [1..n -> Int]
  BY SortTypes
<1>2. /\ Nested(n, calls) /\ HalvesOrdered(n, arr, calls) /\ OrderedBut(n, arr, calls)
      /\ calls \in Seq(CallSet) /\ Head(calls) = calls[1]
  BY <1>1, MergeFacts
<1>3. /\ calls[1].op = "sort" /\ ~loc.loop /\ UNCHANGED <<sorter, given, arr, temparr, loc>>
  <2>1. calls[1].op = "sort" /\ UNCHANGED <<sorter, given, arr, temparr, loc>>
    BY <1>2 DEF mergesort_call
  <2> QED BY <2>1, MergeFacts
<1>4. Same(n, arr', arr) /\ arr' \in [1..n -> Int] /\ temparr' \in [1..n -> Int] /\ loc' \in Locals
  BY <1>1, <1>3, SameReflexive DEF SortType
<1>5. PICK s \in 1..n, e \in 1..n, m \in Nat :
        /\ s = calls[1].start /\ e = calls[1].end /\ m = Mid(calls[1])
        /\ s <= e /\ s <= m /\ (s < e => m < e)
  BY <1>1, MergeFacts
<1>6. ASSUME calls' \in Seq(CallSet), Nested(n, calls'), HalvesOrdered(n, arr, calls'),
             OrderedBut(n, arr, calls')
      PROVE  SortType' /\ KeptInv' /\ MergeInv'
  <2>1. SortType' /\ KeptInv'
    BY <1>1, <1>3, <1>4, <1>6, CommonStep DEF SortType
  <2>2. MergeOK(n, arr', temparr', calls', loc'.i, loc'.left, loc'.right, loc'.loop)
    BY <1>3, <1>6 DEF MergeOK
  <2>3. MergeInv'
    BY <1>1, <1>3, <2>2 DEF MergeInv
  <2> QED BY <2>1, <2>3
<1>7. CASE s >= e
  <2>1. calls' = Tail(calls)
    BY <1>2, <1>5, <1>7 DEF mergesort_call
  <2>2. \A k \in 1..n : IF In(calls[1], k) THEN \E x \in 1..n : In(calls[1], x) /\ arr[k] = arr[x]
                                           ELSE arr[k] = arr[k]
    OBVIOUS
  <2>3. ASSUME NEW x \in 1..n, NEW y \in 1..n, In(calls[1], x), In(calls[1], y), x <= y
        PROVE  arr[x] <= arr[y]
    <3>1. x = y
      BY <1>5, <1>7, <2>3 DEF In
    <3>2. arr[x] \in Int
      BY <1>1
    <3> QED BY <3>1, <3>2
  <2>4. Reordered(n, arr, arr, calls[1])
    BY <2>2, <2>3 DEF Reordered
  <2>5. /\ Nested(n, Tail(calls)) /\ HalvesOrdered(n, arr, Tail(calls))
        /\ OrderedBut(n, arr, Tail(calls)) /\ Tail(calls) \in Seq(CallSet)
    BY <1>1, <1>2, <2>4, MergePop
  <2> QED BY <1>3, <1>6, <2>1, <2>5
<1>8. CASE s < e
  <2>1. PICK p, q, g : p = Call("sort", s, m) /\ q = Call("sort", m + 1, e) /\ g = Call("merge", s, e)
    OBVIOUS
  <2>2. calls' = <<p, q, g>> \o Tail(calls)
    <3>1. ~(s >= e)
      BY <1>8
    <3> QED BY <1>2, <1>5, <2>1, <3>1 DEF mergesort_call
  <2>3. s \in Nat /\ e \in Nat
    OBVIOUS
  <2>4. p \in CallSet /\ p.op = "sort" /\ p.start = s /\ p.end = m
    BY <2>1, <2>3, CallTypes
  <2>5. q \in CallSet /\ q.op = "sort" /\ q.start = m + 1 /\ q.end = e
    <3>1. PICK l \in Nat : l = m + 1
      OBVIOUS
    <3> QED BY <2>1, <2>3, <3>1, CallTypes
  <2>6. g \in CallSet /\ g.op = "merge" /\ g.start = s /\ g.end = e
    BY <2>1, <2>3, CallTypes
  <2>7. Mid(g) = m
    BY <1>5, <2>6 DEF Mid
  <2>8. /\ calls' \in Seq(CallSet) /\ Len(calls') = Len(calls) + 2
        /\ calls'[1] = p /\ calls'[2] = q /\ calls'[3] = g
        /\ \A k \in 4..Len(calls) + 2 : calls'[k] = calls[k - 2]
    BY <1>2, <2>2, <2>4, <2>5, <2>6, PushShape
  <2>9. m < e
    BY <1>5, <1>8
  <2>10. Nested(n, calls') /\ HalvesOrdered(n, arr, calls') /\ OrderedBut(n, arr, calls')
    <3>1. PICK ds : ds = calls'
      OBVIOUS
    <3>2. /\ ds \in Seq(CallSet) /\ Len(ds) = Len(calls) + 2
          /\ ds[1] = p /\ ds[2] = q /\ ds[3] = g
          /\ \A k \in 4..Len(calls) + 2 : ds[k] = calls[k - 2]
      BY Zenon, <2>8, <3>1
    <3>3. Nested(n, ds) /\ HalvesOrdered(n, arr, ds) /\ OrderedBut(n, arr, ds)
      BY ZenonT(40), <1>1, <1>2, <1>5, <2>3, <2>4, <2>5, <2>6, <2>7, <2>9, <3>2, MergePush
    <3> QED BY <3>1, <3>3
  <2> QED BY <1>3, <1>6, <2>8, <2>10
<1> QED BY <1>5, <1>7, <1>8

LEMMA MergeStartsStep ==
  ASSUME SortType, KeptInv, MergeInv, sorter = "mergesort", calls # <<>>,
         merge_starts(Head(calls))
  PROVE  SortType' /\ KeptInv' /\ sorter' = "mergesort" /\ MergeInv'
<1>1. PICK n \in Nat : n = Len(given) /\ n = Len(arr) /\ arr \in [1..n -> Int]
  BY SortTypes
<1>2. /\ Nested(n, calls) /\ HalvesOrdered(n, arr, calls) /\ OrderedBut(n, arr, calls)
      /\ calls \in Seq(CallSet) /\ Head(calls) = calls[1]
  BY <1>1, MergeFacts
<1>3. PICK s \in 1..n, e \in 1..n, m \in Int :
        /\ s = calls[1].start /\ e = calls[1].end /\ m = Mid(calls[1])
        /\ s <= m /\ m <= e
  BY <1>1, MergeFacts
<1>4. PICK r \in Int : r = m + 1
  OBVIOUS
<1>5. /\ calls[1].op = "merge" /\ loc' = Start(loc, s, r)
      /\ UNCHANGED <<sorter, given, arr, temparr, calls>>
  BY <1>2, <1>3, <1>4 DEF merge_starts, Start
<1>6. loc' \in Locals /\ loc'.i = s /\ loc'.left = s /\ loc'.right = r /\ loc'.loop = TRUE
  <2>1. loc \in Locals /\ s \in Int
    BY SortTypes
  <2> QED BY ZenonT(40), <1>5, <2>1, SetStart
<1>7. temparr \in [1..n -> Int]
  BY <1>1 DEF SortType
<1>8. PICK b : b = Layout(n, arr, temparr, s, s, s, r)
  OBVIOUS
<1>9. LaidOut(b, n, arr, temparr, s, s, s, r)
  <2>1. s \in 1..n + 1 /\ r \in 1..n + 1 /\ s <= s /\ s <= r /\ r - s + s <= n + 1
    BY <1>3, <1>4
  <2> QED BY <1>1, <1>7, <1>8, <2>1, LayoutValues
<1>10. b = arr
  <2>1. ASSUME NEW k \in 1..n PROVE b[k] = arr[k]
    <3>1. CASE k < s \/ k >= r
      BY <1>9, <3>1 DEF LaidOut
    <3>2. CASE s <= k /\ k < r
      <4>1. k - s + s = k
        OBVIOUS
      <4> QED BY <1>9, <3>2, <4>1 DEF LaidOut
    <3> QED BY <1>4, <3>1, <3>2
  <2>2. b \in [1..n -> Int]
    BY <1>9 DEF LaidOut
  <2> QED BY <1>1, <2>1, <2>2
<1>11. Merging(n, arr, temparr, s, e, m, s, s, r)
  <2>1. /\ s <= s /\ s <= m + 1 /\ m + 1 <= r /\ r <= e + 1 /\ s = s + r - m - 1
        /\ ~(\E k \in s..s - 1 : TRUE)
    BY <1>3, <1>4
  <2>2. Same(n, Layout(n, arr, temparr, s, s, s, r), arr)
    BY <1>1, <1>8, <1>10, SameReflexive
  <2> QED BY <2>1, <2>2 DEF Merging, InOrder
<1>12. SortType' /\ KeptInv'
  BY <1>1, <1>2, <1>5, <1>6, <1>7, SameReflexive, CommonStep DEF SortType
<1>13. MergeOK(n, arr', temparr', calls', loc'.i, loc'.left, loc'.right, loc'.loop)
  BY <1>2, <1>3, <1>5, <1>6, <1>11 DEF MergeOK
<1> QED BY <1>1, <1>5, <1>12, <1>13 DEF MergeInv

LEMMA MergeTakesStep ==
  ASSUME SortType, KeptInv, MergeInv, sorter = "mergesort", calls # <<>>,
         merge_takes(Head(calls))
  PROVE  SortType' /\ KeptInv' /\ sorter' = "mergesort" /\ MergeInv'
<1>1. PICK n \in Nat : n = Len(given) /\ n = Len(arr) /\ arr \in [1..n -> Int]
  BY SortTypes
<1>2. /\ Nested(n, calls) /\ HalvesOrdered(n, arr, calls) /\ OrderedBut(n, arr, calls)
      /\ calls \in Seq(CallSet) /\ Head(calls) = calls[1] /\ 1 \in 1..Len(calls)
  <2>1. calls \in Seq(CallSet)
    BY MergeFacts
  <2> QED BY <1>1, <2>1, MergeFacts, CallsTail
<1>3. PICK s \in 1..n, e \in 1..n, m \in Nat :
        /\ s = calls[1].start /\ e = calls[1].end /\ m = Mid(calls[1])
        /\ s <= m /\ m <= e
  BY <1>1, MergeFacts
<1>4. PICK i \in Int, l \in Int, r \in Int : i = loc.i /\ l = loc.left /\ r = loc.right
  BY SortTypes
<1>5. /\ loc.loop = TRUE /\ l <= m /\ r <= e
      /\ UNCHANGED <<sorter, given, arr, calls>>
  <2>1. loc.loop /\ l <= m /\ r <= e /\ UNCHANGED <<sorter, given, arr, calls>>
    BY <1>2, <1>3, <1>4 DEF merge_takes
  <2> QED BY <2>1, SortTypes
<1>6. calls[1].op = "merge" /\ Merging(n, arr, temparr, s, e, m, i, l, r)
  BY <1>1, <1>3, <1>4, <1>5 DEF MergeInv, MergeOK
<1>7. InOrder(arr, s, m) /\ InOrder(arr, m + 1, e)
  BY <1>1, <1>2, <1>3, <1>6, MergeHalves
<1>8. temparr \in [1..n -> Int] /\ loc \in Locals
  BY <1>1 DEF SortType
<1>9. PICK i1 \in Int, l1 \in Int, r1 \in Int : i1 = i + 1 /\ l1 = l + 1 /\ r1 = r + 1
  OBVIOUS
<1>10. ASSUME NEW x \in Int, NEW y \in Int, temparr' \in [1..n -> Int],
              Merging(n, arr, temparr', s, e, m, i1, x, y), loc' \in Locals,
              loc'.i = i1, loc'.left = x, loc'.right = y, loc'.loop = TRUE
       PROVE  SortType' /\ KeptInv' /\ MergeInv'
  <2>1. SortType' /\ KeptInv'
    BY <1>1, <1>2, <1>5, <1>10, SameReflexive, CommonStep DEF SortType
  <2>2. MergeOK(n, arr', temparr', calls', loc'.i, loc'.left, loc'.right, loc'.loop)
    BY <1>2, <1>3, <1>5, <1>6, <1>10 DEF MergeOK
  <2> QED BY <1>1, <1>5, <2>1, <2>2 DEF MergeInv
<1>11. CASE arr[l] < arr[r]
  <2>1. temparr' = [temparr EXCEPT ![i] = arr[l]] /\ loc' = SetLeft(loc, i1, l1)
    BY <1>4, <1>9, <1>11 DEF merge_takes, SetLeft
  <2>2. temparr' \in [1..n -> Int] /\ Merging(n, arr, temparr', s, e, m, i1, l1, r)
    <3>1. PICK t : t = [temparr EXCEPT ![i] = arr[l]]
      OBVIOUS
    <3>2. t \in [1..n -> Int] /\ Merging(n, arr, t, s, e, m, i + 1, l + 1, r)
      <4>1. m \in Int
        OBVIOUS
      <4> QED BY ZenonT(40), <1>1, <1>5, <1>6, <1>7, <1>8, <1>11, <3>1, <4>1, TakeLeft
    <3> QED BY <1>9, <2>1, <3>1, <3>2
  <2>3. /\ loc' \in Locals /\ loc'.i = i1 /\ loc'.left = l1 /\ loc'.right = r /\ loc'.loop = TRUE
    BY <1>4, <1>5, <1>8, <2>1, SetLeftRight
  <2> QED BY <1>5, <1>10, <2>2, <2>3
<1>12. CASE ~(arr[l] < arr[r])
  <2>1. temparr' = [temparr EXCEPT ![i] = arr[r]] /\ loc' = SetRight(loc, i1, r1)
    BY <1>4, <1>9, <1>12 DEF merge_takes, SetRight
  <2>2. temparr' \in [1..n -> Int] /\ Merging(n, arr, temparr', s, e, m, i1, l, r1)
    <3>1. PICK t : t = [temparr EXCEPT ![i] = arr[r]]
      OBVIOUS
    <3>2. t \in [1..n -> Int] /\ Merging(n, arr, t, s, e, m, i + 1, l, r + 1)
      <4>1. m \in Int
        OBVIOUS
      <4> QED BY ZenonT(40), <1>1, <1>5, <1>6, <1>7, <1>8, <1>12, <3>1, <4>1, TakeRight
    <3> QED BY <1>9, <2>1, <3>1, <3>2
  <2>3. /\ loc' \in Locals /\ loc'.i = i1 /\ loc'.left = l /\ loc'.right = r1 /\ loc'.loop = TRUE
    BY <1>4, <1>5, <1>8, <2>1, SetLeftRight
  <2> QED BY <1>5, <1>10, <2>2, <2>3
<1> QED BY <1>11, <1>12

LEMMA MergeEndsStep ==
  ASSUME SortType, KeptInv, MergeInv, sorter = "mergesort", calls # <<>>,
         merge_ends(Head(calls))
  PROVE  SortType' /\ KeptInv' /\ sorter' = "mergesort" /\ MergeInv'
<1>1. PICK n \in Nat : n = Len(given) /\ n = Len(arr) /\ arr \in [1..n -> Int]
  BY SortTypes
<1>2. /\ Nested(n, calls) /\ HalvesOrdered(n, arr, calls) /\ OrderedBut(n, arr, calls)
      /\ calls \in Seq(CallSet) /\ Head(calls) = calls[1] /\ 1 \in 1..Len(calls)
  <2>1. calls \in Seq(CallSet)
    BY MergeFacts
  <2> QED BY <1>1, <2>1, MergeFacts, CallsTail
<1>3. PICK s \in 1..n, e \in 1..n, m \in Nat :
        /\ s = calls[1].start /\ e = calls[1].end /\ m = Mid(calls[1])
        /\ s <= m /\ m <= e
  BY <1>1, MergeFacts
<1>4. PICK i \in Int, l \in Int, r \in Int : i = loc.i /\ l = loc.left /\ r = loc.right
  BY SortTypes
<1>5. PICK over \in Int : over = IF l <= m THEN l ELSE r
  OBVIOUS
<1>6. DOMAIN arr = 1..n
  BY <1>1
<1>7. /\ loc.loop /\ (l > m \/ r > e) /\ UNCHANGED <<sorter, given>>
      /\ calls' = Tail(calls) /\ loc' = Leave(loc)
  BY <1>2, <1>3, <1>4 DEF merge_ends, Leave
<1>8. /\ temparr' = [k \in 1..n |-> IF k \in i..e THEN arr[over + k - i] ELSE temparr[k]]
      /\ arr' = [k \in 1..n |-> IF k \in s..e THEN temparr'[k] ELSE arr[k]]
  BY <1>2, <1>3, <1>4, <1>5, <1>6 DEF merge_ends
<1>9. calls[1].op = "merge" /\ Merging(n, arr, temparr, s, e, m, i, l, r)
  BY <1>1, <1>3, <1>4, <1>7, SortTypes DEF MergeInv, MergeOK
<1>10. InOrder(arr, s, m) /\ InOrder(arr, m + 1, e)
  BY <1>1, <1>2, <1>3, <1>9, MergeHalves
<1>11. temparr \in [1..n -> Int] /\ loc \in Locals
  BY <1>1 DEF SortType
<1>12. s <= i /\ \A k \in i..e : over + k - i \in 1..n
  <2>1. /\ s <= l /\ l <= m + 1 /\ m + 1 <= r /\ r <= e + 1 /\ i = l + r - m - 1
    BY <1>9 DEF Merging
  <2>2. CASE l <= m
    <3>1. over = l /\ r = e + 1
      BY <1>5, <1>7, <2>1, <2>2
    <3>2. ASSUME NEW k \in i..e PROVE l + k - i \in 1..n
      <4>1. i = l + e - m
        BY <2>1, <3>1
      <4>2. l + k - i = k - e + m /\ k <= e /\ k >= l + e - m
        BY <4>1
      <4>3. l >= 1 /\ m <= n
        <5>1. l >= 1
          BY <2>1
        <5>2. m <= e /\ e <= n
          BY <1>3
        <5> QED BY <5>1, <5>2
      <4>4. k - e + m \in 1..n
        BY <4>2, <4>3
      <4> QED BY <4>2, <4>4
    <3> QED BY <2>1, <3>1, <3>2
  <2>3. CASE l > m
    <3>1. over = r /\ i = r
      BY <1>5, <2>1, <2>3
    <3>2. ASSUME NEW k \in i..e PROVE r + k - i \in 1..n
      BY <2>1, <3>1
    <3> QED BY <2>1, <3>1, <3>2
  <2> QED BY <2>2, <2>3
<1>13. PICK t, b : t = temparr' /\ b = arr'
  OBVIOUS
<1>14. t \in [1..n -> Int] /\ \A k \in 1..n : t[k] = IF k \in i..e THEN arr[over + k - i] ELSE temparr[k]
  BY <1>1, <1>8, <1>11, <1>12, <1>13
<1>15. b \in [1..n -> Int] /\ \A k \in 1..n : b[k] = IF k \in s..e THEN t[k] ELSE arr[k]
  BY <1>1, <1>8, <1>13, <1>14
<1>16. /\ \A k \in 1..n : k < s \/ k > e => b[k] = arr[k]
       /\ \A k \in s..i - 1 : b[k] = temparr[k]
       /\ \A k \in i..e : b[k] = arr[over + k - i]
  <2>1. i <= e + 1
    BY <1>9 DEF Merging
  <2>2. ASSUME NEW k \in s..i - 1 PROVE b[k] = temparr[k]
    <3>1. k \in 1..n /\ k \in s..e /\ k \notin i..e
      BY <2>1
    <3> QED BY <1>14, <1>15, <3>1
  <2>3. ASSUME NEW k \in i..e PROVE b[k] = arr[over + k - i]
    <3>1. k \in 1..n /\ k \in s..e
      BY <1>12
    <3> QED BY <1>14, <1>15, <3>1
  <2>4. \A k \in 1..n : k < s \/ k > e => b[k] = arr[k]
    BY <1>15
  <2> QED BY <2>2, <2>3, <2>4
<1>17. InOrder(b, s, e) /\ Same(n, b, arr) /\ Within(b, arr, s, e)
  <2>1. /\ l <= m => \A k \in i..e : b[k] = arr[l + k - i]
        /\ l > m => \A k \in i..e : b[k] = arr[r + k - i]
    BY <1>5, <1>16
  <2>2. CopiedOver(n, arr, b, temparr, s, e, m, i, l, r)
    BY <1>16, <2>1 DEF CopiedOver
  <2>3. m \in Int
    OBVIOUS
  <2> QED BY <1>1, <1>7, <1>9, <1>10, <1>11, <1>15, <2>2, <2>3, MergeEnd
<1>18. \A x \in 1..n : In(calls[1], x) <=> (s <= x /\ x <= e)
  BY <1>3 DEF In
<1>19. /\ Nested(n, calls') /\ HalvesOrdered(n, b, calls')
       /\ OrderedBut(n, b, calls') /\ calls' \in Seq(CallSet)
  <2>1. ASSUME NEW k \in 1..n
        PROVE  IF In(calls[1], k) THEN \E x \in 1..n : In(calls[1], x) /\ b[k] = arr[x]
                                  ELSE b[k] = arr[k]
    <3>1. CASE In(calls[1], k)
      <4>1. PICK x \in s..e : b[k] = arr[x]
        BY <1>17, <1>18, <3>1 DEF Within
      <4>2. x \in 1..n /\ In(calls[1], x)
        BY <1>18
      <4> QED BY <3>1, <4>1, <4>2
    <3>2. CASE ~In(calls[1], k)
      BY <1>16, <1>18, <3>2
    <3> QED BY <3>1, <3>2
  <2>2. \A x, y \in 1..n : In(calls[1], x) /\ In(calls[1], y) /\ x <= y => b[x] <= b[y]
    BY <1>17, <1>18 DEF InOrder
  <2>3. Reordered(n, arr, b, calls[1])
    BY <2>1, <2>2 DEF Reordered
  <2>4. /\ Nested(n, Tail(calls)) /\ HalvesOrdered(n, b, Tail(calls))
        /\ OrderedBut(n, b, Tail(calls)) /\ Tail(calls) \in Seq(CallSet)
    BY <1>1, <1>2, <1>15, <2>3, MergePop
  <2> QED BY <1>7, <2>4
<1>20. loc' \in Locals /\ loc'.loop = FALSE
  BY <1>7, <1>11, SetLeave
<1>21. SortType' /\ KeptInv'
  <2>1. arr' \in [1..n -> Int] /\ Same(n, arr', arr) /\ temparr' \in [1..n -> Int]
    BY <1>13, <1>14, <1>15, <1>17
  <2>2. sorter' \in Sorters \cup {"none"} /\ given' = given
    BY <1>7 DEF SortType
  <2> QED BY <1>1, <1>19, <1>20, <2>1, <2>2, CommonStep
<1>22. MergeOK(n, arr', temparr', calls', loc'.i, loc'.left, loc'.right, loc'.loop)
  BY <1>13, <1>19, <1>20 DEF MergeOK
<1> QED BY <1>1, <1>7, <1>21, <1>22 DEF MergeInv

LEMMA MergeStep ==
  ASSUME SortType, KeptInv, MergeInv, mergesort
  PROVE  /\ SortType' /\ KeptInv'
         /\ (sorter' = "mergesort" /\ MergeInv') \/ (sorter' = "none" /\ NoneInv')
<1>1. sorter = "mergesort"
  BY DEF mergesort
<1>2. CASE calls # <<>>
  <2>1. \/ mergesort_call(Head(calls)) \/ merge_starts(Head(calls))
        \/ merge_takes(Head(calls)) \/ merge_ends(Head(calls))
    BY <1>2 DEF mergesort
  <2>2. CASE mergesort_call(Head(calls))
    BY <1>1, <1>2, <2>2, MergeCallStep
  <2>3. CASE merge_starts(Head(calls))
    BY <1>1, <1>2, <2>3, MergeStartsStep
  <2>4. CASE merge_takes(Head(calls))
    BY <1>1, <1>2, <2>4, MergeTakesStep
  <2>5. CASE merge_ends(Head(calls))
    BY <1>1, <1>2, <2>5, MergeEndsStep
  <2> QED BY <2>1, <2>2, <2>3, <2>4, <2>5
<1>3. CASE calls = <<>>
  <2>1. returns
    BY <1>3 DEF mergesort
  <2>2. InOrder(arr, 1, Len(given))
    <3>1. OrderedBut(Len(given), arr, calls) /\ Len(calls) = 0
      BY <1>1, <1>3 DEF MergeInv, MergeOK
    <3>2. \A x, y \in 1..Len(given) : ~Together(calls, x, y)
      BY <3>1 DEF Together
    <3> QED BY <3>1, <3>2 DEF OrderedBut, InOrder
  <2> QED BY <1>1, <2>1, <2>2, ReturnStep
<1> QED BY <1>2, <1>3

-------------------------------------------------------------------------------
SortInv ==
  /\ SortType /\ KeptInv /\ NoneInv
  /\ BubbleInv /\ SelectInv /\ InsertInv /\ ShellInv /\ MergeInv /\ FastInv

LEMMA OneCall ==
  ASSUME NEW n \in Nat, n >= 1, NEW a \in [1..n -> Int],
         NEW cs, cs = <<Call("sort", 1, n)>>
  PROVE  /\ cs \in Seq(CallSet) /\ OrderedBut(n, a, cs)
         /\ Apart(n, cs) /\ Nested(n, cs) /\ HalvesOrdered(n, a, cs)
<1>0. PICK o \in Nat : o = 1
  OBVIOUS
<1>1. PICK c : c = Call("sort", o, n) /\ o = 1
  BY <1>0
<1>2. c \in CallSet /\ c.start = o /\ c.end = n /\ c.op = "sort"
  BY <1>1, CallTypes
<1>3. cs = <<c>>
  BY <1>1
<1>4. cs \in Seq(CallSet) /\ Len(cs) = 1 /\ cs[1] = c
  BY <1>2, <1>3
<1>5. \A k \in 1..Len(cs) : k = 1
  BY <1>4
<1>6. \A x \in 1..n : In(c, x)
  BY <1>1, <1>2 DEF In
<1>7. OrderedBut(n, a, cs)
  <2>1. \A x, y \in 1..n : Together(cs, x, y)
    BY <1>4, <1>6 DEF Together
  <2> QED BY <2>1 DEF OrderedBut
<1>8. Apart(n, cs)
  BY <1>1, <1>2, <1>4, <1>5 DEF Apart
<1>9. Nested(n, cs)
  <2>1. \A k \in 1..Len(cs) : \A j \in 1..k - 1 : FALSE
    BY <1>5
  <2>2. \A k \in 1..Len(cs) : 1 <= cs[k].start /\ cs[k].start <= cs[k].end /\ cs[k].end <= n
    BY <1>1, <1>2, <1>4, <1>5
  <2> QED BY <2>1, <2>2 DEF Nested
<1>10. HalvesOrdered(n, a, cs)
  <2>1. \A x, y \in 1..n : ~Half(cs[1], x, y)
    BY <1>2, <1>4 DEF Half
  <2> QED BY <1>5, <2>1 DEF HalvesOrdered
<1> QED BY <1>4, <1>7, <1>8, <1>9, <1>10

LEMMA SortBegins ==
  ASSUME NEW n \in Nat, NEW a \in [1..n -> Int], NEW f \in Sorters \cup {"none"}, Begins(f, a),
         f = "none" <=> n = 0
  PROVE  SortInv
<1>1. a \in Seq(Int) /\ Len(a) = n
  BY SeqOfLength
<1>2. PICK gap \in Nat : gap = IF f = "shellsort" THEN n \div 2 ELSE 0
  <2>1. n \div 2 \in Nat
    OBVIOUS
  <2> QED BY <2>1
<1>3. /\ sorter = f /\ given = a /\ arr = a /\ temparr = a
      /\ loc = [i |-> 1 + gap, j |-> 1, step |-> gap, start |-> 1, temp |-> 0,
                left |-> 0, right |-> 0, loop |-> FALSE]
      /\ calls = IF f \in {"mergesort", "fastsort"} THEN <<Call("sort", 1, n)>> ELSE <<>>
  BY <1>1, <1>2 DEF Begins, halved
<1>4. /\ loc \in Locals /\ loc.i = 1 + gap /\ loc.j = 1 /\ loc.step = gap /\ loc.start = 1
      /\ loc.loop = FALSE
  BY <1>3 DEF Locals
<1>5. f \in {"mergesort", "fastsort"} =>
        /\ calls \in Seq(CallSet) /\ OrderedBut(n, a, calls)
        /\ Apart(n, calls) /\ Nested(n, calls) /\ HalvesOrdered(n, a, calls)
  <2>1. SUFFICES ASSUME f \in {"mergesort", "fastsort"}
                 PROVE  /\ calls \in Seq(CallSet) /\ OrderedBut(n, a, calls)
                        /\ Apart(n, calls) /\ Nested(n, calls) /\ HalvesOrdered(n, a, calls)
    OBVIOUS
  <2>2. n >= 1 /\ calls = <<Call("sort", 1, n)>>
    BY <1>3, <2>1
  <2> QED BY <2>2, OneCall
<1>6. SortType
  <2>1. calls \in Seq(CallSet)
    BY <1>3, <1>5
  <2> QED BY <1>1, <1>3, <1>4, <2>1 DEF SortType
<1>7. KeptInv
  <2>1. Same(n, arr, given)
    BY <1>3, SameReflexive
  <2> QED BY <1>1, <1>3, <2>1 DEF KeptInv
<1>8. NoneInv
  <2> SUFFICES ASSUME f = "none" PROVE InOrder(arr, 1, n)
    BY <1>1, <1>3 DEF NoneInv
  <2> QED BY DEF InOrder
<1>9. BubbleInv
  <2>1. f = "bubblesort" => BubbleOK(n, arr, 1, 1)
    <3> SUFFICES ASSUME f = "bubblesort" PROVE BubbleOK(n, arr, 1, 1)
      OBVIOUS
    <3>1. n >= 1 /\ arr[1] \in Int
      BY <1>3
    <3> QED BY <3>1 DEF BubbleOK
  <2>2. f = "bubblesort" => loc.i = 1 /\ loc.j = 1
    BY <1>2, <1>4
  <2> QED BY <1>1, <1>3, <2>1, <2>2 DEF BubbleInv
<1>10. SelectInv
  <2>1. f = "selectsort" => loc.i = 1 /\ n >= 1
    BY <1>2, <1>4
  <2>2. f = "selectsort" => SelectOK(n, arr, 1)
    BY <2>1 DEF SelectOK
  <2> QED BY <1>1, <1>3, <2>1, <2>2 DEF SelectInv
<1>11. InsertInv
  <2>1. f = "insertsort" => n >= 1 /\ arr[1] \in Int
    BY <1>3
  <2>2. f = "insertsort" => InsertOK(n, arr, 1)
    BY <2>1 DEF InsertOK, InOrder
  <2> QED BY <1>1, <1>3, <1>4, <2>2 DEF InsertInv
<1>12. ShellInv
  <2> SUFFICES ASSUME f = "shellsort"
               PROVE  ShellOK(n, arr, given, 1 + gap, 1, gap, 1, loc.temp, FALSE)
    BY <1>1, <1>3, <1>4 DEF ShellInv
  <2>1. n >= 1 /\ gap = n \div 2
    BY <1>2
  <2>2. 2 * gap <= n /\ (gap = 0 => n = 1)
    BY <2>1
  <2>3. gap = 0 => InOrder(arr, 1, n)
    <3>1. arr[1] \in Int
      BY <1>3, <2>1
    <3> QED BY <2>2, <3>1 DEF InOrder
  <2>4. gap = 1 => 1 + gap <= n + 1 /\ InOrder(arr, 1, (1 + gap) - 1)
    <3>1. arr[1] \in Int
      BY <1>3, <2>1
    <3> QED BY <2>2, <3>1 DEF InOrder
  <2> QED BY <2>2, <2>3, <2>4 DEF ShellOK
<1>13. MergeInv
  BY <1>1, <1>3, <1>4, <1>5 DEF MergeInv, MergeOK
<1>14. FastInv
  BY <1>1, <1>3, <1>4, <1>5 DEF FastInv, FastOK
<1> QED BY <1>6, <1>7, <1>8, <1>9, <1>10, <1>11, <1>12, <1>13, <1>14 DEF SortInv

LEMMA OtherSorters ==
  ASSUME SortType', KeptInv',
         \/ sorter' = "none" /\ NoneInv'
         \/ sorter' = "bubblesort" /\ BubbleInv'
         \/ sorter' = "selectsort" /\ SelectInv'
         \/ sorter' = "insertsort" /\ InsertInv'
         \/ sorter' = "shellsort" /\ ShellInv'
         \/ sorter' = "mergesort" /\ MergeInv'
         \/ sorter' = "fastsort" /\ FastInv'
  PROVE  SortInv'
<1>1. CASE sorter' = "none" /\ NoneInv'
  BY <1>1 DEF SortInv, BubbleInv, SelectInv, InsertInv, ShellInv, MergeInv, FastInv
<1>2. CASE sorter' = "bubblesort" /\ BubbleInv'
  BY <1>2 DEF SortInv, NoneInv, SelectInv, InsertInv, ShellInv, MergeInv, FastInv
<1>3. CASE sorter' = "selectsort" /\ SelectInv'
  BY <1>3 DEF SortInv, NoneInv, BubbleInv, InsertInv, ShellInv, MergeInv, FastInv
<1>4. CASE sorter' = "insertsort" /\ InsertInv'
  BY <1>4 DEF SortInv, NoneInv, BubbleInv, SelectInv, ShellInv, MergeInv, FastInv
<1>5. CASE sorter' = "shellsort" /\ ShellInv'
  BY <1>5 DEF SortInv, NoneInv, BubbleInv, SelectInv, InsertInv, MergeInv, FastInv
<1>6. CASE sorter' = "mergesort" /\ MergeInv'
  BY <1>6 DEF SortInv, NoneInv, BubbleInv, SelectInv, InsertInv, ShellInv, FastInv
<1>7. CASE sorter' = "fastsort" /\ FastInv'
  BY <1>7 DEF SortInv, NoneInv, BubbleInv, SelectInv, InsertInv, ShellInv, MergeInv
<1> QED BY <1>1, <1>2, <1>3, <1>4, <1>5, <1>6, <1>7

LEMMA SortNextStep ==
  ASSUME SortInv, SortNext
  PROVE  SortInv'
<1>0. /\ SortType /\ KeptInv /\ NoneInv
      /\ BubbleInv /\ SelectInv /\ InsertInv /\ ShellInv /\ MergeInv /\ FastInv
  BY DEF SortInv
<1>1. CASE bubble
  BY <1>0, <1>1, BubbleStep, OtherSorters
<1>2. CASE bubble_pass
  BY <1>0, <1>2, BubblePassStep, OtherSorters
<1>3. CASE selectsort
  BY <1>0, <1>3, SelectStep, OtherSorters
<1>4. CASE insertsort
  BY <1>0, <1>4, InsertStep, OtherSorters
<1>5. CASE group_take
  BY <1>0, <1>5, GroupTakeStep, OtherSorters
<1>6. CASE group_shift
  BY <1>0, <1>6, GroupShiftStep, OtherSorters
<1>7. CASE group_put
  BY <1>0, <1>7, GroupPutStep, OtherSorters
<1>8. CASE shellsort
  BY <1>0, <1>8, ShellNextStep, OtherSorters
<1>9. CASE mergesort
  BY <1>0, <1>9, MergeStep, OtherSorters
<1>10. CASE fastsort
  BY <1>0, <1>10, FastStep, OtherSorters
<1> QED BY <1>1, <1>2, <1>3, <1>4, <1>5, <1>6, <1>7, <1>8, <1>9, <1>10 DEF SortNext

LEMMA SortStutter ==
  ASSUME SortInv, UNCHANGED sortVars
  PROVE  SortInv'
<1>1. /\ sorter' = sorter /\ given' = given /\ arr' = arr /\ temparr' = temparr
      /\ loc' = loc /\ calls' = calls
  BY DEF sortVars
<1>2. SortType' /\ KeptInv' /\ NoneInv'
  BY <1>1 DEF SortInv, SortType, KeptInv, NoneInv
<1>3. BubbleInv' /\ SelectInv' /\ InsertInv'
  BY <1>1 DEF SortInv, BubbleInv, SelectInv, InsertInv
<1>4. ShellInv' /\ MergeInv' /\ FastInv'
  BY <1>1 DEF SortInv, ShellInv, MergeInv, FastInv
<1> QED BY <1>2, <1>3, <1>4 DEF SortInv

LEMMA SortStarts ==
  ASSUME SortInit \/ SortIdle
  PROVE  SortInv
<1>1. CASE SortInit
  <2>1. PICK f \in Sorters, a \in Arrays : Begins(f, a)
    BY <1>1 DEF SortInit
  <2>2. PICK n \in 1..MaxLen : a \in [1..n -> Keys]
    BY <2>1 DEF Arrays
  <2>3. n \in Nat /\ n >= 1
    BY SortAssumption
  <2>5. a \in [1..n -> Int]
    BY <2>2, SortAssumption
  <2>4. f # "none"
    BY DEF Sorters
  <2> QED BY <2>1, <2>3, <2>4, <2>5, SortBegins
<1>2. CASE SortIdle
  <2>1. Begins("none", <<>>) /\ <<>> \in [1..0 -> Int]
    BY <1>2 DEF SortIdle
  <2> QED BY <2>1, SortBegins
<1> QED BY <1>1, <1>2

LEMMA SortInvSorts ==
  ASSUME SortInv
  PROVE  SortsSort
<1> SUFFICES ASSUME sorter = "none"
             PROVE  /\ \A k \in 1..Len(arr) - 1 : arr[k] <= arr[k + 1]
                    /\ Len(arr) = Len(given)
                    /\ \A v \in Keys : Cardinality({k \in DOMAIN arr : arr[k] = v})
                                       = Cardinality({k \in DOMAIN given : given[k] = v})
  BY DEF SortsSort
<1>1. PICK n \in Nat : n = Len(given) /\ n = Len(arr) /\ arr \in [1..n -> Int]
  BY SortTypes DEF SortInv
<1>2. DOMAIN arr = 1..n /\ DOMAIN given = 1..n
  BY <1>1 DEF SortInv, SortType
<1>3. InOrder(arr, 1, n)
  BY <1>1 DEF SortInv, NoneInv
<1>4. \A k \in 1..n - 1 : arr[k] <= arr[k + 1]
  BY <1>3 DEF InOrder
<1>5. Same(n, arr, given)
  BY <1>1 DEF SortInv, KeptInv
<1>6. \A v \in Keys : Cardinality(Places(n, arr, v)) = Cardinality(Places(n, given, v))
  BY <1>1, <1>5, SameCounts
<1>7. ASSUME NEW v \in Keys
      PROVE  /\ {k \in DOMAIN arr : arr[k] = v} = Places(n, arr, v)
             /\ {k \in DOMAIN given : given[k] = v} = Places(n, given, v)
  BY <1>2 DEF Places
<1> QED BY <1>1, <1>4, <1>6, <1>7

(* A run of one of the sorting programs; the other programs of             *)
(* SmallPrograms leave its variables alone, which is a stuttering step.    *)
SortSpec == (SortInit \/ SortIdle) /\ [][SortNext]_sortVars

(* Whatever array of integers of whatever length a program of              *)
(* Algorithem/sort is given, what main prints is in ascending order and    *)
(* has every value as often as before: the passes of bubblesort.c and      *)
(* selectsort.c, the shifts of insertsort.c and shellsort.c, the merges    *)
(* of mergesort.c and the exchanges of fastsort.c lose no element.         *)
THEOREM SortsSortAlways == SortSpec => []SortsSort
<1>1. SortInit \/ SortIdle => SortInv
  BY SortStarts
<1>2. SortInv /\ [SortNext]_sortVars => SortInv'
  BY SortNextStep, SortStutter
<1>3. SortInv => SortsSort
  BY SortInvSorts
<1> QED BY <1>1, <1>2, <1>3, PTL DEF SortSpec
===============================================================================
