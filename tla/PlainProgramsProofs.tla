-------------------------- MODULE PlainProgramsProofs --------------------------
(***************************************************************************)
(* Theorems about PlainPrograms: the script leaves no byte of an image out *)
(* of the digest, the list programs print every node, the references of    *)
(* the demos balance over any number of loads and unloads, and all of this *)
(* and the sorting holds whichever program runs.                           *)
(***************************************************************************)
EXTENDS PlainPrograms, SortProofs

(* FlattenSeq is what agrees with it step by step. *)
Flattens(f, ps) == f = [i \in 1..Len(ps) |-> IF i = 1 THEN ps[i] ELSE f[i - 1] \o ps[i]]

LEMMA FlattenIs ==
  ASSUME NEW ps, NEW n \in Nat \ {0}, Len(ps) = n, NEW g, Flattens(g, ps)
  PROVE  FlattenSeq(ps) = g[n]
<1> DEFINE f == CHOOSE h : Flattens(h, ps)
<1>1. Flattens(f, ps)
  OBVIOUS
<1>2. FlattenSeq(ps) = f[n]
  <2>1. FlattenSeq(ps) = (CHOOSE h : Flattens(h, ps))[Len(ps)]
    BY Zenon DEF FlattenSeq, Flattens
  <2> QED BY <2>1
<1> HIDE DEF f
<1>3. \A i \in 1..n : f[i] = IF i = 1 THEN ps[i] ELSE f[i - 1] \o ps[i]
  BY <1>1 DEF Flattens
<1>4. \A i \in 1..n : g[i] = IF i = 1 THEN ps[i] ELSE g[i - 1] \o ps[i]
  BY DEF Flattens
<1> DEFINE Bad == {i \in 1..n : f[i] # g[i]}
<1>5. Bad = {}
  <2> SUFFICES ASSUME Bad # {} PROVE FALSE
    OBVIOUS
  <2>0. Bad \in SUBSET Nat
    OBVIOUS
  <2>1. PICK i \in Bad : \A k \in Bad : i <= k
    <3> HIDE DEF Bad
    <3> QED BY <2>0, NatMin
  <2>2. i \in 1..n /\ f[i] # g[i]
    OBVIOUS
  <2>3. i # 1
    BY <1>3, <1>4, <2>2
  <2>4. i - 1 \in 1..n /\ i - 1 \notin Bad
    BY <2>1, <2>2, <2>3
  <2>5. f[i - 1] = g[i - 1]
    BY <2>4
  <2> QED BY <1>3, <1>4, <2>2, <2>3, <2>5
<1> QED BY <1>2, <1>5

LEMMA SubSeqJoin ==
  ASSUME NEW S, NEW s \in Seq(S), NEW a \in Nat, NEW b \in a..Len(s)
  PROVE  SubSeq(s, 1, a) \o SubSeq(s, a + 1, b) = SubSeq(s, 1, b)
OBVIOUS

(* Pieces of a sequence, each up to cut[i] and from where the one before   *)
(* it ends.                                                                *)
Pieces(ps, s, n, cut) ==
  /\ Len(ps) = n /\ cut[0] = 0
  /\ \A i \in 1..n : cut[i] \in Nat /\ cut[i - 1] <= cut[i] /\ cut[i] <= Len(s)
                     /\ ps[i] = SubSeq(s, cut[i - 1] + 1, cut[i])

LEMMA FlattenPieces ==
  ASSUME NEW S, NEW s \in Seq(S), NEW n \in Nat \ {0}, NEW ps, NEW cut, Pieces(ps, s, n, cut)
  PROVE  FlattenSeq(ps) = SubSeq(s, 1, cut[n])
<1> DEFINE g == [i \in 1..n |-> SubSeq(s, 1, cut[i])]
<1>1. \A i \in 1..n : cut[i] \in Nat /\ cut[i] <= Len(s) /\ cut[i - 1] <= cut[i]
                      /\ ps[i] = SubSeq(s, cut[i - 1] + 1, cut[i])
  BY DEF Pieces
<1>2. ps[1] = SubSeq(s, 1, cut[1])
  <2>1. 1 \in 1..n /\ 1 - 1 = 0
    OBVIOUS
  <2>2. ps[1] = SubSeq(s, cut[0] + 1, cut[1])
    BY <1>1, <2>1
  <2> QED BY <2>2 DEF Pieces
<1>3. ASSUME NEW i \in 1..n, i # 1
      PROVE  SubSeq(s, 1, cut[i]) = SubSeq(s, 1, cut[i - 1]) \o ps[i]
  <2>1. i - 1 \in 1..n
    BY <1>3
  <2>2. cut[i - 1] \in Nat /\ cut[i] \in cut[i - 1]..Len(s)
    BY <1>1, <2>1
  <2> QED BY <1>1, <2>2, SubSeqJoin
<1>4. Flattens(g, ps)
  <2>1. Len(ps) = n
    BY DEF Pieces
  <2>2. \A i \in 1..n : g[i] = IF i = 1 THEN ps[i] ELSE g[i - 1] \o ps[i]
    <3> SUFFICES ASSUME NEW i \in 1..n PROVE g[i] = IF i = 1 THEN ps[i] ELSE g[i - 1] \o ps[i]
      OBVIOUS
    <3>1. CASE i = 1
      BY <1>2, <3>1
    <3>2. CASE i # 1
      <4>1. i - 1 \in 1..n
        BY <3>2
      <4>2. g[i] = SubSeq(s, 1, cut[i]) /\ g[i - 1] = SubSeq(s, 1, cut[i - 1])
        BY <4>1
      <4> HIDE DEF g
      <4> QED BY <1>3, <3>2, <4>2
    <3> QED BY <3>1, <3>2
  <2>3. g = [i \in 1..n |-> g[i]]
    OBVIOUS
  <2> HIDE DEF g
  <2> QED BY <2>1, <2>2, <2>3 DEF Flattens
<1>5. g[n] = SubSeq(s, 1, cut[n])
  <2>1. n \in 1..n
    OBVIOUS
  <2> QED BY <2>1
<1> HIDE DEF g
<1>6. Len(ps) = n
  BY DEF Pieces
<1> QED BY <1>4, <1>5, <1>6, FlattenIs

-------------------------------------------------------------------------------
LEMMA DivMod ==
  ASSUME NEW a \in Nat, NEW b \in Nat \ {0}
  PROVE  /\ a \div b \in Nat /\ a % b \in 0..b - 1
         /\ a = (a \div b) * b + (a % b)
<1>1. a \div b \in Nat
  OBVIOUS
<1>2. a % b \in 0..b - 1
  OBVIOUS
<1>3. a = (a \div b) * b + (a % b)
  OBVIOUS
<1> QED BY <1>1, <1>2, <1>3

LEMMA Multiple ==
  ASSUME NEW q \in Nat, NEW b \in Nat \ {0}
  PROVE  q * b \in Nat /\ (q * b) % b = 0 /\ (q * b) \div b = q
<1>1. q * b \in Nat
  OBVIOUS
<1>2. (q * b + 0) \div b = q /\ (q * b + 0) % b = 0
  OBVIOUS
<1> QED BY <1>1, <1>2

LEMMA AlignedIs ==
  ASSUME NEW n \in Nat, NEW b \in Nat \ {0}
  PROVE  \E q \in Nat : /\ Aligned(n, b) = q * b /\ q * b \in Nat
                        /\ q * b >= n /\ q * b < n + b
<1>1. PICK a \in Nat : a = n + b - 1
  OBVIOUS
<1>2. PICK q \in Nat : q = a \div b
  BY DivMod
<1>3. PICK r \in 0..b - 1 : r = a % b
  BY DivMod
<1>4. PICK p \in Nat : p = q * b
  BY Multiple
<1>5. a = p + r
  BY <1>2, <1>3, <1>4, DivMod
<1>6. p >= n /\ p < n + b
  BY <1>1, <1>5
<1> QED BY <1>1, <1>2, <1>4, <1>6 DEF Aligned

LEMMA MinPair ==
  ASSUME NEW a \in Nat, NEW b \in Nat
  PROVE  Min({a, b}) = IF a <= b THEN a ELSE b
<1>1. Min({a, b}) \in {a, b} /\ \A y \in {a, b} : Min({a, b}) <= y
  <2>1. {a, b} \in SUBSET Nat /\ {a, b} # {}
    OBVIOUS
  <2> QED BY <2>1, NatMin
<1> QED BY <1>1

(* How many blocks an image has. *)
LEMMA BlockCount ==
  ASSUME image \in Seq(Nat)
  PROVE  \E n \in Nat : /\ n = Aligned(Len(image), block_size) \div block_size
                        /\ n * block_size >= Len(image)
                        /\ n * block_size < Len(image) + block_size
<1>1. Len(image) \in Nat /\ block_size \in Nat \ {0}
  BY ImageAssumption
<1>2. PICK n \in Nat : /\ Aligned(Len(image), block_size) = n * block_size
                       /\ n * block_size >= Len(image) /\ n * block_size < Len(image) + block_size
  BY <1>1, AlignedIs
<1>3. n = Aligned(Len(image), block_size) \div block_size
  BY <1>1, <1>2, Multiple
<1> QED BY <1>2, <1>3

LEMMA LastCount ==
  ASSUME NEW len \in Nat \ {0}, NEW b \in Nat \ {0}, NEW n \in Nat,
         n * b >= len, n * b < len + b
  PROVE  /\ n \in Nat \ {0} /\ (n - 1) * b \in Nat
         /\ (n - 1) * b + (IF len % b = 0 THEN b ELSE len % b) = len
<1>1. PICK q \in Nat, r \in 0..b - 1 : q = len \div b /\ r = len % b
  BY DivMod
<1>2. len = q * b + r
  BY <1>1, DivMod
<1>3. n # 0
  OBVIOUS
<1>4. PICK m \in Nat : m = n - 1
  BY <1>3
<1>5. PICK x \in Nat : x = m * b
  BY <1>4, Multiple
<1>6. n * b = x + b
  BY <1>4, <1>5
<1>7. PICK y \in Nat : y = q * b
  BY Multiple
<1>8. x + b >= len /\ x < len /\ len = y + r
  BY <1>2, <1>6, <1>7
<1>9. CASE r = 0
  <2>1. m < q
    BY <1>5, <1>7, <1>8, <1>9
  <2>2. q < m + 2
    <3>1. (m + 2) * b = x + b + b
      BY <1>5
    <3> QED BY <3>1, <1>7, <1>8, <1>9
  <2>3. q = m + 1
    BY <2>1, <2>2
  <2>4. y = x + b
    BY <2>3, <1>5, <1>7
  <2> QED BY <1>1, <1>3, <1>4, <1>5, <1>8, <1>9, <2>4
<1>10. CASE r # 0
  <2>1. q < m + 1
    <3>1. (m + 1) * b = x + b
      BY <1>5
    <3> QED BY <3>1, <1>7, <1>8, <1>10
  <2>2. m < q + 1
    <3>1. (q + 1) * b = y + b
      BY <1>7
    <3> QED BY <3>1, <1>5, <1>8
  <2>3. y = x
    BY <2>1, <2>2, <1>5, <1>7
  <2> QED BY <1>1, <1>3, <1>4, <1>5, <1>8, <1>10, <2>3
<1> QED BY <1>9, <1>10

Parts(n) == [i \in 1..n |-> dd((i - 1) * block_size, IF i = n THEN last_count ELSE block_size)]
Cut(n)   == [i \in 0..n |-> IF i = n THEN Len(image) ELSE i * block_size]

LEMMA PartsArePieces ==
  ASSUME image \in Seq(Nat), image # <<>>, NEW n \in Nat,
         n * block_size >= Len(image), n * block_size < Len(image) + block_size
  PROVE  /\ n \in Nat \ {0} /\ Pieces(Parts(n), image, n, Cut(n)) /\ Cut(n)[n] = Len(image)
         /\ \A i \in 1..n : Len(Parts(n)[i]) \in 1..block_size
<1>1. PICK len \in Nat \ {0} : len = Len(image)
  OBVIOUS
<1>2. PICK b \in Nat \ {0} : b = block_size
  BY ImageAssumption
<1>3. PICK c : c = last_count
  OBVIOUS
<1>4. c \in Nat \ {0} /\ c <= b
  <2>1. len % b \in 0..b - 1
    BY DivMod
  <2> QED BY <1>1, <1>2, <1>3, <2>1 DEF last_count
<1>5. n \in Nat \ {0} /\ (n - 1) * b \in Nat /\ (n - 1) * b + c = len
  <2>1. c = IF len % b = 0 THEN b ELSE len % b
    BY <1>1, <1>2, <1>3 DEF last_count
  <2> QED BY <1>1, <1>2, <2>1, LastCount
<1>6. ASSUME NEW i \in 1..n
      PROVE  /\ Cut(n)[i] \in Nat /\ Cut(n)[i - 1] <= Cut(n)[i] /\ Cut(n)[i] <= len
             /\ Parts(n)[i] = SubSeq(image, Cut(n)[i - 1] + 1, Cut(n)[i])
             /\ Len(Parts(n)[i]) \in 1..b
  <2>1. PICK x \in Nat : x = (i - 1) * b
    <3>1. i - 1 \in Nat
      OBVIOUS
    <3> QED BY <3>1, Multiple
  <2>2. i * b = x + b
    BY <2>1
  <2>3. Cut(n)[i - 1] = x
    BY <1>2, <1>5, <2>1 DEF Cut
  <2>4. PICK d \in Nat \ {0} : d <= b /\ d = IF i = n THEN c ELSE b
    BY <1>4
  <2>5. Cut(n)[i] = x + d
    <3>1. CASE i = n
      <4>1. Cut(n)[i] = len
        BY <1>1, <1>5, <3>1 DEF Cut
      <4>2. x + c = len
        BY <1>5, <2>1, <3>1
      <4> QED BY <2>4, <3>1, <4>1, <4>2
    <3>2. CASE i # n
      <4>1. Cut(n)[i] = i * b
        BY <1>2, <3>2 DEF Cut
      <4> QED BY <2>2, <2>4, <3>2, <4>1
    <3> QED BY <3>1, <3>2
  <2>6. x + d <= len
    <3>1. CASE i = n
      BY <1>5, <2>1, <2>4, <3>1
    <3>2. CASE i # n
      <4>1. PICK k \in Nat : k = (n - 1) - i
        BY <3>2
      <4>2. (n - 1) * b = i * b + k * b
        BY <4>1
      <4>3. k * b \in Nat
        BY Multiple
      <4> QED BY <1>4, <1>5, <2>2, <2>4, <3>2, <4>2, <4>3
    <3> QED BY <3>1, <3>2
  <2>7. Parts(n)[i] = dd(x, d)
    BY <1>2, <1>3, <2>1, <2>4 DEF Parts
  <2>8. Min({x + d, len}) = x + d
    BY <2>6, MinPair
  <2>9. Parts(n)[i] = SubSeq(image, x + 1, x + d)
    BY <1>1, <2>7, <2>8 DEF dd
  <2>10. Len(Parts(n)[i]) = d
    BY <1>1, <2>6, <2>9
  <2> QED BY <2>3, <2>4, <2>5, <2>6, <2>9, <2>10
<1>7. Len(Parts(n)) = n
  BY <1>5 DEF Parts
<1>8. Cut(n)[0] = 0 /\ Cut(n)[n] = len
  BY <1>1, <1>2, <1>5 DEF Cut
<1>9. Pieces(Parts(n), image, n, Cut(n))
  BY <1>1, <1>6, <1>7, <1>8 DEF Pieces
<1> QED BY <1>1, <1>2, <1>5, <1>6, <1>8, <1>9

(* The table: byte number j of hash number i is at (i - 1) * hash_size + j.*)
HashOf(i)     == [k \in 1..hash_size |-> {<<i, k>>}]
Hashes(n)     == [i \in 1..n |-> HashOf(i)]
TableByte(n, k) == {<<i, HashAt(i, k)>> : i \in {b \in 1..n : HashAt(b, k) \in 1..hash_size}}
Table(n)      == [k \in 1..Aligned(n * hash_size, hash_block_size) |-> TableByte(n, k)]
HashCut(n)    == [i \in 0..n |-> i * hash_size]

LEMMA TableByteIs ==
  ASSUME NEW n \in Nat, NEW i \in 1..n, NEW j \in 1..hash_size,
         NEW k \in Nat, k = (i - 1) * hash_size + j
  PROVE  TableByte(n, k) = {<<i, j>>}
<1>1. PICK h \in Nat \ {0} : h = hash_size
  BY ImageAssumption
<1>2. PICK m \in Nat : m = i - 1
  OBVIOUS
<1>3. PICK x \in Nat : x = m * h
  BY Multiple
<1>4. k = x + j
  BY <1>1, <1>2, <1>3
<1>5. HashAt(i, k) = j
  BY <1>1, <1>2, <1>3, <1>4 DEF HashAt
<1>6. ASSUME NEW b \in 1..n, HashAt(b, k) \in 1..h
      PROVE  b = i
  <2>1. PICK a \in Nat : a = b - 1
    OBVIOUS
  <2>2. PICK y \in Nat : y = a * h
    BY Multiple
  <2>3. k - y \in 1..h
    BY <1>1, <1>6, <2>1, <2>2 DEF HashAt
  <2>4. y < x + h /\ x < y + h
    BY <1>1, <1>4, <2>3
  <2>5. a < m + 1
    <3>1. (m + 1) * h = x + h
      BY <1>3
    <3> QED BY <2>2, <2>4, <3>1
  <2>6. m < a + 1
    <3>1. (a + 1) * h = y + h
      BY <2>2
    <3> QED BY <1>3, <2>4, <3>1
  <2> QED BY <1>2, <2>1, <2>5, <2>6
<1>7. TableByte(n, k) = {<<i, j>>}
  BY <1>1, <1>5, <1>6 DEF TableByte
<1> QED BY <1>1, <1>2, <1>3, <1>4, <1>7

LEMMA HashesAreTable ==
  ASSUME NEW n \in Nat \ {0}
  PROVE  /\ IsPrefix(FlattenSeq(Hashes(n)), Table(n))
         /\ Len(Table(n)) % hash_block_size = 0
         /\ Len(Table(n)) < Len(FlattenSeq(Hashes(n))) + hash_block_size
<1>1. PICK h \in Nat \ {0} : h = hash_size
  BY ImageAssumption
<1>2. PICK b \in Nat \ {0} : b = hash_block_size
  BY ImageAssumption
<1>3. PICK x \in Nat : x = n * h
  BY Multiple
<1>4. PICK q \in Nat : Aligned(x, b) = q * b /\ q * b \in Nat /\ q * b >= x /\ q * b < x + b
  BY AlignedIs
<1>5. PICK m \in Nat : m = q * b
  BY <1>4
<1>6. Table(n) = [k \in 1..m |-> TableByte(n, k)]
  BY <1>1, <1>2, <1>3, <1>4, <1>5 DEF Table
<1> DEFINE S == {TableByte(n, k) : k \in 1..m}
<1>7. Table(n) \in Seq(S) /\ Len(Table(n)) = m
  BY <1>6
<1>8. \A k \in 1..m : Table(n)[k] = TableByte(n, k)
  BY <1>6
<1> HIDE DEF S
<1>9. ASSUME NEW i \in 1..n
      PROVE  /\ HashCut(n)[i] \in Nat /\ HashCut(n)[i - 1] <= HashCut(n)[i] /\ HashCut(n)[i] <= m
             /\ Hashes(n)[i] = SubSeq(Table(n), HashCut(n)[i - 1] + 1, HashCut(n)[i])
  <2>1. PICK y \in Nat : y = (i - 1) * h
    <3>1. i - 1 \in Nat
      OBVIOUS
    <3> QED BY <3>1, Multiple
  <2>2. HashCut(n)[i - 1] = y
    <3>1. i - 1 \in 0..n
      OBVIOUS
    <3> QED BY <1>1, <2>1, <3>1 DEF HashCut
  <2>3. HashCut(n)[i] = y + h
    <3>1. i * h = y + h
      BY <2>1
    <3> QED BY <1>1, <3>1 DEF HashCut
  <2>4. y + h <= m
    <3>1. PICK k \in Nat : k = n - i
      OBVIOUS
    <3>2. k * h \in Nat
      BY Multiple
    <3>3. n * h = (i - 1) * h + h + k * h
      BY <3>1
    <3> QED BY <1>3, <1>4, <1>5, <2>1, <3>2, <3>3
  <2>5. \A j \in 1..h : Table(n)[y + j] = {<<i, j>>}
    <3> SUFFICES ASSUME NEW j \in 1..h PROVE Table(n)[y + j] = {<<i, j>>}
      OBVIOUS
    <3>1. y + j \in 1..m
      BY <2>4
    <3>2. PICK k \in Nat : k = y + j
      OBVIOUS
    <3>3. k = (i - 1) * hash_size + j /\ j \in 1..hash_size
      BY <1>1, <2>1, <3>2
    <3>4. TableByte(n, k) = {<<i, j>>}
      BY <3>3, TableByteIs
    <3> QED BY <1>8, <3>1, <3>2, <3>4
  <2>6. Hashes(n)[i] = [j \in 1..h |-> {<<i, j>>}]
    BY <1>1 DEF Hashes, HashOf
  <2>7. SubSeq(Table(n), y + 1, y + h) = [j \in 1..h |-> Table(n)[y + j]]
    BY <1>7, <2>4
  <2>8. SubSeq(Table(n), y + 1, y + h) = Hashes(n)[i]
    BY <2>5, <2>6, <2>7
  <2> QED BY <2>2, <2>3, <2>4, <2>8
<1>10. Len(Hashes(n)) = n
  BY DEF Hashes
<1>11. HashCut(n)[0] = 0 /\ HashCut(n)[n] = x
  BY <1>1, <1>3 DEF HashCut
<1>12. Pieces(Hashes(n), Table(n), n, HashCut(n))
  BY <1>7, <1>9, <1>10, <1>11 DEF Pieces
<1>13. FlattenSeq(Hashes(n)) = SubSeq(Table(n), 1, x)
  BY <1>7, <1>11, <1>12, FlattenPieces
<1>14. Len(SubSeq(Table(n), 1, x)) = x /\ x <= m
  BY <1>4, <1>5, <1>7
<1>15. IsPrefix(SubSeq(Table(n), 1, x), Table(n))
  BY <1>7, <1>14 DEF IsPrefix
<1>16. m % b = 0
  BY <1>5, Multiple
<1> QED BY <1>2, <1>4, <1>5, <1>7, <1>13, <1>14, <1>15, <1>16

-------------------------------------------------------------------------------
(* What the two commands make.                                             *)
LEMMA HashCovers ==
  ASSUME image \in Seq(Nat), Len(image) <= hash_set_l3_blk_sz, NEW m, m = process_hash_set
  PROVE  /\ m.digest # "none" <=> Len(image) \in 1..hash_set_l3_blk_sz
         /\ m.digest # "none" =>
              /\ FlattenSeq(m.parts) = image
              /\ \A i \in DOMAIN m.parts : Len(m.parts[i]) \in 1..block_size
              /\ m.digest = "part1" <=> Len(m.parts) = 1
              /\ IsPrefix(FlattenSeq([i \in DOMAIN m.parts |-> [k \in 1..hash_size |-> {<<i, k>>}]]), m.table)
              /\ Len(m.table) % hash_block_size = 0
              /\ Len(m.table) < Len(FlattenSeq([i \in DOMAIN m.parts |-> [k \in 1..hash_size |-> {<<i, k>>}]]))
                                + hash_block_size
<1>1. PICK len \in Nat : len = Len(image)
  OBVIOUS
<1>2. PICK b \in Nat \ {0} : b = block_size
  BY ImageAssumption
<1>3. PICK n \in Nat : /\ n = Aligned(Len(image), block_size) \div block_size
                       /\ n * b >= len /\ n * b < len + b
  BY <1>1, <1>2, BlockCount
<1>4. /\ m.parts = Parts(n) /\ m.table = Table(n)
      /\ m.digest = IF len > b THEN "table" ELSE IF n = 0 THEN "none" ELSE "part1"
  BY <1>1, <1>2, <1>3 DEF process_hash_set, Nothing, Parts, Table, TableByte
<1>5. n = 0 <=> len = 0
  <2>1. CASE n = 0
    BY <1>3, <2>1
  <2>2. CASE n # 0
    <3>1. PICK k \in Nat : k = n - 1
      BY <2>2
    <3>2. n * b = k * b + b /\ k * b \in Nat
      BY <3>1, Multiple
    <3> QED BY <1>3, <2>2, <3>2
  <2> QED BY <2>1, <2>2
<1>6. m.digest # "none" <=> len # 0
  BY <1>2, <1>4, <1>5
<1>7. ASSUME len # 0
      PROVE  /\ FlattenSeq(m.parts) = image
             /\ \A i \in DOMAIN m.parts : Len(m.parts[i]) \in 1..block_size
             /\ m.digest = "part1" <=> Len(m.parts) = 1
             /\ IsPrefix(FlattenSeq([i \in DOMAIN m.parts |-> [k \in 1..hash_size |-> {<<i, k>>}]]), m.table)
             /\ Len(m.table) % hash_block_size = 0
             /\ Len(m.table) < Len(FlattenSeq([i \in DOMAIN m.parts |-> [k \in 1..hash_size |-> {<<i, k>>}]]))
                               + hash_block_size
  <2>1. /\ n \in Nat \ {0} /\ Pieces(Parts(n), image, n, Cut(n)) /\ Cut(n)[n] = len
        /\ \A i \in 1..n : Len(Parts(n)[i]) \in 1..block_size
    <3>1. n * block_size >= Len(image) /\ n * block_size < Len(image) + block_size
      BY <1>1, <1>2, <1>3
    <3>2. image # <<>>
      BY <1>1, <1>7
    <3> QED BY <1>1, <3>1, <3>2, PartsArePieces
  <2>2. FlattenSeq(m.parts) = image
    <3>1. FlattenSeq(Parts(n)) = SubSeq(image, 1, len)
      BY <2>1, FlattenPieces
    <3> QED BY <1>1, <1>4, <3>1
  <2>3. DOMAIN m.parts = 1..n /\ Len(m.parts) = n
    BY <1>4 DEF Parts
  <2>4. [i \in DOMAIN m.parts |-> [k \in 1..hash_size |-> {<<i, k>>}]] = Hashes(n)
    BY <2>3 DEF Hashes, HashOf
  <2>5. m.digest = "part1" <=> n = 1
    <3>1. CASE n = 1
      BY <1>2, <1>3, <1>4, <3>1
    <3>2. CASE n # 1
      <4>1. PICK k \in Nat : k = n - 2
        BY <2>1, <3>2
      <4>2. n * b = k * b + b + b /\ k * b \in Nat
        BY <4>1, Multiple
      <4>3. len > b
        BY <1>1, <1>2, <1>3, <4>2
      <4> QED BY <1>4, <3>2, <4>3
    <3> QED BY <3>1, <3>2
  <2> QED BY <1>4, <2>1, <2>2, <2>3, <2>4, <2>5, HashesAreTable
<1> QED BY <1>1, <1>6, <1>7

LEMMA PadCovers ==
  ASSUME image \in Seq(Nat), pad_size \in Nat \ {0}, NEW m, m = pad_image
  PROVE  /\ IsPrefix(image, m.pad) /\ Len(m.pad) < Len(image) + pad_size
         /\ pad_size % CipherBlock = 0 => m.enc
<1>1. PICK len \in Nat : len = Len(image)
  OBVIOUS
<1>2. PICK p \in Nat \ {0} : p = pad_size
  OBVIOUS
<1>3. PICK q \in Nat, r \in 0..p - 1 : q = len \div p /\ r = len % p
  BY DivMod
<1>4. PICK x \in Nat : x = q * p
  BY Multiple
<1>5. len = x + r
  BY <1>3, <1>4, DivMod
<1>6. PICK a \in Nat : a = IF r = 0 THEN len ELSE len + (p - r)
  <2>1. len + (p - r) \in Nat
    OBVIOUS
  <2> QED BY <2>1
<1>7. /\ m.pad = [k \in 1..a |-> IF k <= len THEN image[k] ELSE Zero]
      /\ m.enc = (a % CipherBlock = 0)
  <2>1. p - (len % p) = p <=> r = 0
    BY <1>3
  <2> QED BY <1>1, <1>2, <1>3, <1>6, <2>1 DEF pad_image, Nothing
<1>8. len <= a /\ a < len + p
  BY <1>3, <1>6
<1>9. IsPrefix(image, m.pad) /\ Len(m.pad) = a
  <2>1. Len(m.pad) = a /\ \A k \in 1..len : m.pad[k] = image[k]
    BY <1>7, <1>8
  <2>2. m.pad \in Seq(Nat)
    BY <1>1, <1>7 DEF Zero
  <2>3. SubSeq(image, 1, len) = SubSeq(m.pad, 1, len)
    BY <1>1, <1>8, <2>1, <2>2
  <2> QED BY <1>1, <1>8, <2>1, <2>3 DEF IsPrefix
<1>10. ASSUME pad_size % CipherBlock = 0 PROVE m.enc
  <2>1. PICK c \in Nat \ {0} : c = CipherBlock
    BY ImageAssumption
  <2>2. PICK u \in Nat : p = u * c
    <3>1. p % c = 0
      BY <1>2, <1>10, <2>1
    <3>2. p \div c \in Nat /\ p = (p \div c) * c + (p % c)
      BY DivMod
    <3>3. PICK t \in Nat : t = p \div c
      BY <3>2
    <3>4. t * c \in Nat
      BY Multiple
    <3>5. p = t * c
      BY <3>1, <3>2, <3>3, <3>4
    <3> QED BY <3>5
  <2>3. PICK v \in Nat : a = v * p
    <3>1. CASE r = 0
      BY <1>4, <1>5, <1>6, <3>1
    <3>2. CASE r # 0
      <4>1. a = (q + 1) * p
        BY <1>4, <1>5, <1>6, <3>2
      <4> QED BY <4>1
    <3> QED BY <3>1, <3>2
  <2>4. v * u \in Nat /\ a = (v * u) * c
    BY <2>2, <2>3
  <2>5. a % c = 0
    BY <2>4, Multiple
  <2> QED BY <1>7, <2>1, <2>5
<1> QED BY <1>1, <1>2, <1>8, <1>9, <1>10

ImageInv ==
  /\ image \in Seq(Nat) /\ pad_size \in Nat
  /\ made = IF ~ended THEN Nothing
            ELSE IF option = "e" THEN pad_image
            ELSE IF Len(image) > hash_set_l3_blk_sz THEN process_hash_set_lv3 ELSE process_hash_set
  /\ ended => option \in {"h", "e"}

LEMMA ImageStarts ==
  ASSUME ImageInit \/ ImageIdle
  PROVE  ImageInv
<1>1. CASE ImageInit
  <2>1. PICK n \in 0..MaxImage : image = [k \in 1..n |-> k]
    BY <1>1 DEF ImageInit
  <2>2. n \in Nat
    BY ImageAssumption
  <2>3. image \in Seq(Nat)
    BY <2>1, <2>2
  <2>4. pad_size \in Nat
    BY <1>1, ImageAssumption DEF ImageInit
  <2> QED BY <1>1, <2>3, <2>4 DEF ImageInit, ImageInv
<1>2. CASE ImageIdle
  <2>1. CipherBlock \in Nat
    BY ImageAssumption
  <2> QED BY <1>2, <2>1 DEF ImageIdle, ImageInv
<1> QED BY <1>1, <1>2

LEMMA ImageStep ==
  ASSUME ImageInv, ImageNext
  PROVE  ImageInv'
<1>1. CASE hash_image
  BY <1>1 DEF ImageInv, hash_image, process_hash_set, process_hash_set_lv3, dd, last_count, Nothing
<1>2. CASE encrypt_image
  BY <1>2 DEF ImageInv, encrypt_image, pad_image, Nothing
<1> QED BY <1>1, <1>2 DEF ImageNext

LEMMA ImageStutter ==
  ASSUME ImageInv, UNCHANGED imageVars
  PROVE  ImageInv'
BY DEF ImageInv, imageVars, process_hash_set, process_hash_set_lv3, dd, last_count, Nothing, pad_image

LEMMA ImageInvCovers ==
  ASSUME ImageInv
  PROVE  DigestCoversImage
<1> SUFFICES ASSUME ended PROVE DigestCoversImage
  BY DEF DigestCoversImage
<1>1. image \in Seq(Nat) /\ Len(image) \in Nat /\ hash_set_l3_blk_sz \in Nat
  BY ImageAssumption DEF ImageInv
<1>2. CASE option = "e"
  <2>1. made = pad_image /\ pad_size \in Nat
    BY <1>2 DEF ImageInv
  <2>2. made.digest = "none"
    BY <2>1 DEF pad_image, Nothing
  <2>3. pad_size # 0 => /\ IsPrefix(image, made.pad) /\ Len(made.pad) < Len(image) + pad_size
                        /\ pad_size % CipherBlock = 0 => made.enc
    BY <1>1, <2>1, PadCovers
  <2> QED BY <1>2, <2>2, <2>3 DEF DigestCoversImage
<1>3. CASE option = "h" /\ Len(image) > hash_set_l3_blk_sz
  <2>1. made.digest = "none"
    BY <1>3 DEF ImageInv, process_hash_set_lv3, Nothing
  <2>2. ~(Len(image) \in 1..hash_set_l3_blk_sz)
    BY <1>1, <1>3
  <2> QED BY <1>3, <2>1, <2>2 DEF DigestCoversImage
<1>4. CASE option = "h" /\ ~(Len(image) > hash_set_l3_blk_sz)
  <2>1. made = process_hash_set
    BY <1>4 DEF ImageInv
  <2>2. Len(image) <= hash_set_l3_blk_sz
    BY <1>1, <1>4
  <2> QED BY <1>1, <1>4, <2>1, <2>2, HashCovers DEF DigestCoversImage
<1> QED BY <1>2, <1>3, <1>4 DEF ImageInv

(* What PlainPrograms lets the script do, whichever program it runs.       *)
ImageSpec == (ImageInit \/ ImageIdle) /\ [][ImageNext]_imageVars

(* A digest that util_auth.sh -h leaves stands for every byte of an image  *)
(* of any length, with any sizes of block and hash, and what -e encrypts   *)
(* is the image and less than one pad.                                     *)
THEOREM DigestCoversImageAlways == ImageSpec => []DigestCoversImage
<1>1. ImageInit \/ ImageIdle => ImageInv
  BY ImageStarts
<1>2. ImageInv /\ [ImageNext]_imageVars => ImageInv'
  BY ImageStep, ImageStutter
<1>3. ImageInv => DigestCoversImage
  BY ImageInvCovers
<1> QED BY <1>1, <1>2, <1>3, PTL DEF ImageSpec

-------------------------------------------------------------------------------
(* The list programs. *)
LEMMA ListNodes ==
  /\ Len(LNodes) \in Nat /\ Len(LNodes) >= 3
  /\ \A i \in 1..Len(LNodes) : LNodes[i] \in Node
  /\ \A x \in Node : x # NULL /\ \E i \in 1..Len(LNodes) : x = LNodes[i]
  /\ \A i, j \in 1..Len(LNodes) : LNodes[i] = LNodes[j] => i = j
  /\ LNodes \in Seq(Node)
  /\ Cardinality(Node) = Len(LNodes)
<1>1. PICK n \in Nat : n = Len(LNodes) /\ n >= 3 /\ DOMAIN LNodes = 1..n
  BY ListAssumption
<1>2. /\ \A i \in 1..n : LNodes[i] \in Node
      /\ \A x \in Node : x # NULL /\ \E i \in 1..n : x = LNodes[i]
  BY <1>1, ListAssumption DEF Node, ToSet
<1>3. \A i, j \in 1..n : LNodes[i] = LNodes[j] => i = j
  BY <1>1, ListAssumption DEF IsInjective
<1>4. LNodes \in Seq(Node)
  BY <1>1, <1>2, ListAssumption
<1>5. LNodes \in [1..n -> Node]
  BY <1>1, <1>4
<1>6. LNodes \in Bijection(1..n, Node)
  BY <1>2, <1>3, <1>5, Fun_IsBij
<1>7. ExistsBijection(1..n, Node)
  BY <1>6 DEF ExistsBijection
<1>8. IsFiniteSet(1..n) /\ Cardinality(1..n) = n
  BY FS_Interval
<1>9. Cardinality(Node) = n
  BY <1>7, <1>8, FS_Bijection
<1> QED BY <1>1, <1>2, <1>3, <1>4, <1>9

Follows(f, nx, n) ==
  f = [k \in 0..Cardinality(Node) + 1 |->
         IF k = 0 THEN <<n>>
         ELSE IF nx[Last(f[k - 1])] = NULL THEN f[k - 1]
         ELSE Append(f[k - 1], nx[Last(f[k - 1])])]

LEMMA FollowsIs ==
  ASSUME NEW nx, NEW n, NEW c \in Nat, c = Cardinality(Node) + 1, NEW g, Follows(g, nx, n)
  PROVE  Chain(nx, n) = g[c]
<1> DEFINE f == CHOOSE h : Follows(h, nx, n)
<1>1. Follows(f, nx, n)
  OBVIOUS
<1>2. Chain(nx, n) = f[c]
  <2>1. Chain(nx, n) = (CHOOSE h : Follows(h, nx, n))[Cardinality(Node) + 1]
    BY Zenon DEF Chain, Follows
  <2> QED BY <2>1
<1> HIDE DEF f
<1> DEFINE Grown(s) == IF nx[Last(s)] = NULL THEN s ELSE Append(s, nx[Last(s)])
<1>3. \A k \in 0..c : f[k] = IF k = 0 THEN <<n>> ELSE Grown(f[k - 1])
  BY <1>1 DEF Follows
<1>4. \A k \in 0..c : g[k] = IF k = 0 THEN <<n>> ELSE Grown(g[k - 1])
  BY DEF Follows
<1> HIDE DEF Grown
<1> DEFINE Bad == {k \in 0..c : f[k] # g[k]}
<1>5. Bad = {}
  <2> SUFFICES ASSUME Bad # {} PROVE FALSE
    OBVIOUS
  <2>1. Bad \in SUBSET Nat
    OBVIOUS
  <2>2. PICK k \in Bad : \A l \in Bad : k <= l
    <3> HIDE DEF Bad
    <3> QED BY <2>1, NatMin
  <2>3. k \in 0..c /\ f[k] # g[k]
    OBVIOUS
  <2>4. k # 0
    BY <1>3, <1>4, <2>3
  <2>5. k - 1 \in 0..c /\ k - 1 \notin Bad
    BY <2>2, <2>3, <2>4
  <2>6. f[k - 1] = g[k - 1]
    BY <2>5
  <2> QED BY <1>3, <1>4, <2>3, <2>4, <2>6
<1>6. c \in 0..c
  OBVIOUS
<1> QED BY <1>2, <1>5, <1>6

(* A list that ends in NULL is followed to its end.                        *)
Linked(nx, s) ==
  /\ \A i \in 1..Len(s) - 1 : nx[s[i]] = s[i + 1]
  /\ nx[s[Len(s)]] = NULL

LEMMA ChainIs ==
  ASSUME NEW nx, NEW s \in Seq(Node), Len(s) \in 1..Len(LNodes), Linked(nx, s)
  PROVE  Chain(nx, s[1]) = s
<1>1. PICK c \in Nat : c = Cardinality(Node) + 1 /\ c = Len(LNodes) + 1
  BY ListNodes
<1>2. PICK m \in Nat : m = Len(s) /\ m >= 1 /\ m < c
  BY <1>1
<1> DEFINE upto(k) == IF k < m THEN k + 1 ELSE m
           g == [k \in 0..c |-> SubSeq(s, 1, upto(k))]
<1>3. \A k \in 0..c : upto(k) \in 1..m
  BY <1>2
<1>4. \A k \in 0..c : /\ g[k] = SubSeq(s, 1, upto(k)) /\ Len(g[k]) = upto(k)
                      /\ Last(g[k]) = s[upto(k)]
  <2> SUFFICES ASSUME NEW k \in 0..c
               PROVE  /\ g[k] = SubSeq(s, 1, upto(k)) /\ Len(g[k]) = upto(k)
                      /\ Last(g[k]) = s[upto(k)]
    OBVIOUS
  <2>1. PICK u \in 1..m : u = upto(k)
    BY <1>3
  <2>2. g[k] = SubSeq(s, 1, u)
    BY <2>1
  <2>3. Len(SubSeq(s, 1, u)) = u /\ SubSeq(s, 1, u)[u] = s[u]
    BY <1>2
  <2>4. PICK t : t = g[k]
    OBVIOUS
  <2>5. t = SubSeq(s, 1, u)
    BY <2>2, <2>4
  <2>6. Len(t) = u /\ t[u] = s[u]
    BY <2>3, <2>5
  <2>7. Last(t) = s[u]
    BY <2>6 DEF Last
  <2> HIDE DEF g, upto
  <2> QED BY <2>1, <2>4, <2>5, <2>6, <2>7
<1>5. g[0] = <<s[1]>>
  <2>1. upto(0) = 1 /\ 0 \in 0..c
    BY <1>2
  <2>2. SubSeq(s, 1, 1) = <<s[1]>>
    <3>1. PICK t : t = SubSeq(s, 1, 1)
      OBVIOUS
    <3>2. t \in Seq(Node) /\ Len(t) = 1 /\ t[1] = s[1]
      BY <1>2, <3>1
    <3>3. t = <<t[1]>>
      BY <3>2
    <3> QED BY <3>1, <3>2, <3>3
  <2> QED BY <2>1, <2>2
<1>6. ASSUME NEW k \in 1..c, k < m
      PROVE  nx[Last(g[k - 1])] # NULL /\ g[k] = Append(g[k - 1], nx[Last(g[k - 1])])
  <2>1. Last(g[k - 1]) = s[k] /\ g[k - 1] = SubSeq(s, 1, k) /\ g[k] = SubSeq(s, 1, k + 1)
    BY <1>2, <1>4, <1>6
  <2>2. nx[s[k]] = s[k + 1]
    BY <1>2, <1>6 DEF Linked
  <2>3. s[k + 1] \in Node
    BY <1>2, <1>6
  <2>4. SubSeq(s, 1, k + 1) = Append(SubSeq(s, 1, k), s[k + 1])
    BY <1>2, <1>6
  <2> QED BY <2>1, <2>2, <2>3, <2>4, ListNodes
<1>7. ASSUME NEW k \in 1..c, ~(k < m)
      PROVE  nx[Last(g[k - 1])] = NULL /\ g[k] = g[k - 1]
  <2>1. upto(k - 1) = m /\ upto(k) = m /\ k - 1 \in 0..c
    BY <1>2, <1>7
  <2>2. Last(g[k - 1]) = s[m] /\ g[k] = g[k - 1]
    <3>1. k \in 0..c
      OBVIOUS
    <3> HIDE DEF g, upto
    <3> QED BY <1>4, <2>1, <3>1
  <2> QED BY <1>2, <2>2 DEF Linked
<1>8. Follows(g, nx, s[1])
  <2>1. \A k \in 0..c : g[k] = IF k = 0 THEN <<s[1]>>
                               ELSE IF nx[Last(g[k - 1])] = NULL THEN g[k - 1]
                               ELSE Append(g[k - 1], nx[Last(g[k - 1])])
    <3> HIDE DEF g
    <3> SUFFICES ASSUME NEW k \in 0..c
                 PROVE  g[k] = IF k = 0 THEN <<s[1]>>
                               ELSE IF nx[Last(g[k - 1])] = NULL THEN g[k - 1]
                               ELSE Append(g[k - 1], nx[Last(g[k - 1])])
      OBVIOUS
    <3>1. CASE k = 0
      BY <1>5, <3>1
    <3>2. CASE k # 0 /\ k < m
      <4>1. k \in 1..c
        BY <3>2
      <4> QED BY <1>6, <3>2, <4>1
    <3>3. CASE k # 0 /\ ~(k < m)
      <4>1. k \in 1..c
        BY <3>3
      <4> QED BY <1>7, <3>3, <4>1
    <3> QED BY <3>1, <3>2, <3>3
  <2>2. g = [k \in 0..c |-> g[k]]
    OBVIOUS
  <2> HIDE DEF g
  <2> QED BY <1>1, <2>1, <2>2 DEF Follows
<1>9. g[c] = s
  <2>1. upto(c) = m /\ c \in 0..c
    BY <1>2
  <2> QED BY <1>2, <2>1
<1> HIDE DEF g
<1> QED BY <1>1, <1>8, <1>9, FollowsIs

-------------------------------------------------------------------------------
(* The nodes inserted so far are linked in their order.  single_list.c     *)
(* finds in its second pass what it has linked in the first, but for the   *)
(* head, which the first insertion makes point to itself.                  *)
LinkedUpTo(nx, b) ==
  \A i \in 1..Len(LNodes) : nx[LNodes[i]] = IF i < b THEN LNodes[i + 1] ELSE NULL

LinkedButHead(nx, b) ==
  /\ nx[LNodes[1]] = LNodes[1]
  /\ \A i \in 2..Len(LNodes) : nx[LNodes[i]] = IF i < b THEN LNodes[i + 1] ELSE NULL

Replaced(s) ==
  \E k \in 2..Len(LNodes) - 1 : FirstOfValue(k) /\ s = [Front(LNodes) EXCEPT ![k] = Spare]

Built == IF pass = 2 THEN Len(LNodes) ELSE lstep

SingleInv ==
  /\ lstep \in 0..Len(LNodes) /\ pass \in {1, 2}
  /\ cell = IF lstep = 0 THEN LNodes[1] ELSE LNodes[lstep]
  /\ lstep = 1 => LinkedButHead(next, Built)
  /\ lstep # 1 => LinkedUpTo(next, Built)
  /\ printed = IF pass = 1 THEN <<>> ELSE LNodes

ExperimentInv ==
  /\ lstep \in 1..Len(LNodes) - 1 /\ LinkedUpTo(next, lstep)
  /\ printed = <<>> /\ pass = 1

ListInv ==
  /\ next \in [Node -> Node \cup {NULL}]
  /\ lprog \in {"single_list", "list_expriment", "print", "segv", "none"}
  /\ lprog = "single_list" => SingleInv
  /\ lprog = "list_expriment" => ExperimentInv
  /\ lprog = "print" => printed = <<>> /\ pass = 1 /\ Replaced(Chain(next, HeadNode))
  /\ lprog = "segv" => /\ printed = <<>>
                       /\ \A k \in 2..Len(LNodes) - 1 : num[LNodes[k]] # value
  /\ lprog = "none" => printed = <<>> \/ printed = LNodes \/ (pass = 1 /\ Replaced(printed))

LEMMA ChainUpTo ==
  ASSUME NEW nx, NEW b \in 1..Len(LNodes), LinkedUpTo(nx, b)
  PROVE  /\ Chain(nx, HeadNode) = SubSeq(LNodes, 1, b)
         /\ Len(SubSeq(LNodes, 1, b)) = b /\ \A i \in 1..b : SubSeq(LNodes, 1, b)[i] = LNodes[i]
<1>1. PICK n \in Nat : n = Len(LNodes)
  BY ListNodes
<1>2. PICK s : s = SubSeq(LNodes, 1, b)
  OBVIOUS
<1>3. s \in Seq(Node) /\ Len(s) = b /\ \A i \in 1..b : s[i] = LNodes[i]
  BY <1>1, <1>2, ListNodes
<1>4. Linked(nx, s)
  <2>1. ASSUME NEW i \in 1..b - 1 PROVE nx[s[i]] = s[i + 1]
    BY <1>1, <1>3 DEF LinkedUpTo
  <2>2. nx[s[b]] = NULL
    BY <1>1, <1>3 DEF LinkedUpTo
  <2> QED BY <1>3, <2>1, <2>2 DEF Linked
<1>5. Chain(nx, s[1]) = s
  BY <1>1, <1>3, <1>4, ChainIs
<1>6. s[1] = HeadNode
  BY <1>1, <1>3 DEF HeadNode
<1> QED BY <1>2, <1>3, <1>5, <1>6

LEMMA SingleInsertStep ==
  ASSUME ListInv, single_list_insert
  PROVE  ListInv'
<1>1. PICK n \in Nat : n = Len(LNodes) /\ n >= 3
  BY ListNodes
<1>2. PICK t \in Nat : t = lstep /\ t < n /\ lprog = "single_list"
  BY <1>1 DEF ListInv, SingleInv, single_list_insert
<1>3. /\ pass \in {1, 2} /\ cell = IF t = 0 THEN LNodes[1] ELSE LNodes[t]
      /\ t = 1 => LinkedButHead(next, Built)
      /\ t # 1 => LinkedUpTo(next, Built)
      /\ printed = IF pass = 1 THEN <<>> ELSE LNodes
      /\ next \in [Node -> Node \cup {NULL}]
  BY <1>2 DEF ListInv, SingleInv
<1>4. /\ next' = [next EXCEPT ![cell] = LNodes[t + 1]] /\ cell' = LNodes[t + 1] /\ lstep' = t + 1
      /\ lprog' = lprog /\ pass' = pass /\ printed' = printed
  BY <1>2 DEF single_list_insert
<1>5. next' \in [Node -> Node \cup {NULL}]
  BY <1>1, <1>2, <1>3, <1>4, ListNodes
<1>6. t = 0 => LinkedButHead(next', Built')
  <2> SUFFICES ASSUME t = 0 PROVE LinkedButHead(next', Built')
    OBVIOUS
  <2>1. next' = [next EXCEPT ![LNodes[1]] = LNodes[1]]
    BY <1>3, <1>4
  <2>2. \A i \in 2..n : next'[LNodes[i]] = next[LNodes[i]]
    BY <1>1, <1>3, <2>1, ListNodes
  <2>3. next'[LNodes[1]] = LNodes[1]
    BY <1>1, <1>3, <2>1, ListNodes
  <2>4. \A i \in 2..n : (i < Built <=> i < Built')
    BY <1>2, <1>3, <1>4 DEF Built
  <2>5. \A i \in 2..n : next'[LNodes[i]] = IF i < Built' THEN LNodes[i + 1] ELSE NULL
    BY <1>1, <1>3, <2>2, <2>4 DEF LinkedUpTo
  <2> QED BY <1>1, <2>3, <2>5 DEF LinkedButHead
<1>7. t > 0 => LinkedUpTo(next', Built')
  <2> SUFFICES ASSUME t > 0 PROVE LinkedUpTo(next', Built')
    OBVIOUS
  <2>0. cell = LNodes[t]
    BY <1>3
  <2>1. next' = [next EXCEPT ![LNodes[t]] = LNodes[t + 1]]
    BY <1>4, <2>0
  <2>2. \A i \in 1..n : i # t => next'[LNodes[i]] = next[LNodes[i]]
    BY <1>1, <1>2, <1>3, <2>1, ListNodes
  <2>3. next'[LNodes[t]] = LNodes[t + 1] /\ t < Built'
    BY <1>1, <1>2, <1>3, <1>4, <2>1, ListNodes DEF Built
  <2>4. \A i \in 1..n : i # t => (i < Built <=> i < Built')
    BY <1>2, <1>3, <1>4 DEF Built
  <2>5. \A i \in 1..n : i # t => next[LNodes[i]] = IF i < Built THEN LNodes[i + 1] ELSE NULL
    <3>1. CASE t = 1
      BY <1>1, <1>3, <3>1 DEF LinkedButHead
    <3>2. CASE t # 1
      BY <1>1, <1>3, <3>2 DEF LinkedUpTo
    <3> QED BY <3>1, <3>2
  <2>6. \A i \in 1..n : next'[LNodes[i]] = IF i < Built' THEN LNodes[i + 1] ELSE NULL
    BY <2>2, <2>3, <2>4, <2>5
  <2> QED BY <1>1, <2>6 DEF LinkedUpTo
<1>8. SingleInv'
  BY <1>1, <1>2, <1>3, <1>4, <1>6, <1>7 DEF SingleInv
<1> QED BY <1>2, <1>4, <1>5, <1>8 DEF ListInv

LEMMA SinglePrintsStep ==
  ASSUME ListInv, single_list_prints
  PROVE  ListInv'
<1>1. PICK n \in Nat : n = Len(LNodes) /\ n >= 3
  BY ListNodes
<1>2. lprog = "single_list" /\ lstep = n /\ SingleInv
  BY <1>1 DEF ListInv, single_list_prints
<1>3. LinkedUpTo(next, n)
  BY <1>1, <1>2 DEF SingleInv, Built
<1>4. Chain(next, HeadNode) = LNodes
  <2>1. Chain(next, HeadNode) = SubSeq(LNodes, 1, n)
    BY <1>1, <1>3, ChainUpTo
  <2> QED BY <1>1, <2>1, ListNodes
<1>5. printed' = LNodes /\ next' = next
  BY <1>4 DEF single_list_prints
<1>6. CASE pass = 1
  <2>1. pass' = 2 /\ lstep' = 0 /\ cell' = LNodes[1] /\ lprog' = lprog
    BY <1>6 DEF single_list_prints, HeadNode
  <2>2. LinkedUpTo(next', n)
    BY <1>3, <1>5
  <2>3. SingleInv'
    BY <1>1, <1>5, <2>1, <2>2 DEF SingleInv, Built
  <2> QED BY <1>2, <1>5, <2>1, <2>3 DEF ListInv
<1>7. CASE pass # 1
  <2>1. lprog' = "none"
    BY <1>7 DEF single_list_prints
  <2> QED BY <1>5, <2>1 DEF ListInv
<1> QED BY <1>6, <1>7

LEMMA InsertListStep ==
  ASSUME ListInv, insert_list
  PROVE  ListInv'
<1>1. PICK n \in Nat : n = Len(LNodes) /\ n >= 3
  BY ListNodes
<1>2. PICK t \in 1..n - 1 : /\ t = lstep /\ t < n - 1 /\ lprog = "list_expriment" /\ LinkedUpTo(next, t)
                            /\ printed = <<>> /\ pass = 1 /\ next \in [Node -> Node \cup {NULL}]
  BY <1>1 DEF ListInv, ExperimentInv, insert_list
<1>3. Last(Chain(next, HeadNode)) = LNodes[t]
  <2>1. /\ Chain(next, HeadNode) = SubSeq(LNodes, 1, t)
        /\ Len(SubSeq(LNodes, 1, t)) = t /\ SubSeq(LNodes, 1, t)[t] = LNodes[t]
    BY <1>1, <1>2, ChainUpTo
  <2> QED BY <2>1 DEF Last
<1>4. /\ next' = [next EXCEPT ![LNodes[t]] = LNodes[t + 1]] /\ lstep' = t + 1
      /\ lprog' = lprog /\ pass' = pass /\ printed' = printed
  BY <1>2, <1>3 DEF insert_list
<1>5. \A i \in 1..n : next'[LNodes[i]] = IF i < t + 1 THEN LNodes[i + 1] ELSE NULL
  <2>1. \A i \in 1..n : i # t => next'[LNodes[i]] = next[LNodes[i]]
    BY <1>1, <1>2, <1>4, ListNodes
  <2>2. next'[LNodes[t]] = LNodes[t + 1]
    BY <1>1, <1>2, <1>4, ListNodes
  <2>3. \A i \in 1..n : next[LNodes[i]] = IF i < t THEN LNodes[i + 1] ELSE NULL
    BY <1>1, <1>2 DEF LinkedUpTo
  <2> QED BY <1>2, <2>1, <2>2, <2>3
<1>6. LinkedUpTo(next', t + 1)
  BY <1>1, <1>5 DEF LinkedUpTo
<1>7. next' \in [Node -> Node \cup {NULL}]
  BY <1>1, <1>2, <1>4, ListNodes
<1>8. ExperimentInv'
  BY <1>1, <1>2, <1>4, <1>6 DEF ExperimentInv
<1> QED BY <1>2, <1>4, <1>7, <1>8 DEF ListInv

LEMMA ReplaceStep ==
  ASSUME ListInv, insert_list_posion
  PROVE  ListInv'
<1>1. PICK n \in Nat : n = Len(LNodes) /\ n >= 3
  BY ListNodes
<1>2. /\ lprog = "list_expriment" /\ LinkedUpTo(next, n - 1)
      /\ printed = <<>> /\ pass = 1 /\ next \in [Node -> Node \cup {NULL}]
  BY <1>1 DEF ListInv, ExperimentInv, insert_list_posion
<1>3. PICK chain : chain = Chain(next, HeadNode)
  OBVIOUS
<1>4. Len(chain) = n - 1 /\ \A i \in 1..n - 1 : chain[i] = LNodes[i]
  <2>1. n - 1 \in 1..n
    BY <1>1
  <2> QED BY <1>1, <1>2, <1>3, <2>1, ChainUpTo
<1>5. PICK tmps : tmps = {k \in 1..Len(chain) - 1 : num[chain[k + 1]] = value}
  OBVIOUS
<1>6. /\ printed' = <<>> /\ pass' = 1 /\ num' = num /\ value' = value
      /\ IF tmps = {} THEN lprog' = "segv" /\ next' = next
         ELSE lprog' = "print" /\ next' = [next EXCEPT ![Spare] = next[next[chain[Min(tmps)]]],
                                                       ![chain[Min(tmps)]] = Spare]
  BY <1>2, <1>3, <1>5 DEF insert_list_posion
<1>7. CASE tmps = {}
  <2>1. lprog' = "segv" /\ next' = next
    BY <1>6, <1>7
  <2>2. ASSUME NEW k \in 2..n - 1 PROVE num[LNodes[k]] # value
    <3>1. k - 1 \in 1..Len(chain) - 1 /\ chain[(k - 1) + 1] = LNodes[k]
      BY <1>1, <1>4
    <3> QED BY <1>5, <1>7, <3>1
  <2> QED BY <1>1, <1>2, <1>6, <2>1, <2>2 DEF ListInv
<1>8. CASE tmps # {}
  <2>1. PICK k : k = Min(tmps)
    OBVIOUS
  <2>2. k \in 1..n - 2
    <3>1. tmps \in SUBSET Nat
      BY <1>1, <1>4, <1>5
    <3>2. k \in tmps
      BY <1>8, <2>1, <3>1, NatMin
    <3> QED BY <1>1, <1>4, <1>5, <3>2
  <2>3. next[LNodes[k]] = LNodes[k + 1] /\ k + 1 \in 1..n /\ k \in 1..n
    BY <1>1, <1>2, <2>2 DEF LinkedUpTo
  <2>4. PICK p : p = next[LNodes[k + 1]]
    OBVIOUS
  <2>5. lprog' = "print" /\ next' = [next EXCEPT ![LNodes[n]] = p, ![LNodes[k]] = LNodes[n]]
    BY <1>1, <1>4, <1>6, <1>8, <2>1, <2>2, <2>3, <2>4 DEF Spare
  <2>6. p \in Node \cup {NULL} /\ next' \in [Node -> Node \cup {NULL}]
    BY <1>1, <1>2, <2>3, <2>4, <2>5, ListNodes
  <2>7. /\ next'[LNodes[n]] = p /\ next'[LNodes[k]] = LNodes[n]
        /\ \A i \in 1..n - 1 : i # k => next'[LNodes[i]] = next[LNodes[i]]
    <3>1. LNodes[n] # LNodes[k]
      BY <1>1, <2>2, ListNodes
    <3> QED BY SMTT(30), <1>1, <1>2, <2>2, <2>5, <3>1, ListNodes
  <2>8. \A i \in 1..n : next[LNodes[i]] = IF i < n - 1 THEN LNodes[i + 1] ELSE NULL
    BY <1>1, <1>2 DEF LinkedUpTo
  <2>9. PICK s : s = [Front(LNodes) EXCEPT ![k + 1] = Spare]
    OBVIOUS
  <2>10. /\ s \in Seq(Node) /\ Len(s) = n - 1 /\ s[k + 1] = LNodes[n]
         /\ \A i \in 1..n - 1 : i # k + 1 => s[i] = LNodes[i]
    <3>1. /\ Front(LNodes) \in Seq(Node) /\ Len(Front(LNodes)) = n - 1
          /\ \A i \in 1..n - 1 : Front(LNodes)[i] = LNodes[i]
      BY <1>1, ListNodes DEF Front
    <3>2. Spare \in Node /\ Spare = LNodes[n]
      BY <1>1, ListNodes DEF Spare
    <3> QED BY <2>2, <2>9, <3>1, <3>2
  <2>11. Linked(next', s)
    <3>1. ASSUME NEW i \in 1..n - 2 PROVE next'[s[i]] = s[i + 1]
      <4>1. CASE i = k
        BY <1>1, <2>2, <2>7, <2>10, <4>1
      <4>2. CASE i = k + 1
        <5>1. next'[s[i]] = p
          BY <2>7, <2>10, <4>2
        <5>2. p = LNodes[k + 2]
          BY <2>4, <2>8, <3>1, <4>2, <2>2, <1>1
        <5>3. s[i + 1] = LNodes[k + 2]
          BY <2>10, <2>2, <4>2, <1>1
        <5> QED BY <5>1, <5>2, <5>3
      <4>3. CASE i # k /\ i # k + 1
        <5>1. s[i] = LNodes[i] /\ s[i + 1] = LNodes[i + 1]
          BY <1>1, <2>2, <2>10, <4>3
        <5>2. next'[LNodes[i]] = next[LNodes[i]]
          BY <1>1, <2>7, <4>3
        <5>3. next[LNodes[i]] = LNodes[i + 1]
          BY <1>1, <2>8
        <5> QED BY <5>1, <5>2, <5>3
      <4> QED BY <4>1, <4>2, <4>3
    <3>2. next'[s[n - 1]] = NULL
      <4>1. CASE k + 1 = n - 1
        <5>1. next'[s[n - 1]] = p
          BY <2>7, <2>10, <4>1
        <5> QED BY <1>1, <2>4, <2>8, <4>1, <5>1
      <4>2. CASE k + 1 # n - 1
        <5>1. s[n - 1] = LNodes[n - 1]
          BY <1>1, <2>10, <4>2
        <5>2. next'[LNodes[n - 1]] = next[LNodes[n - 1]]
          BY <1>1, <2>2, <2>7
        <5> QED BY <1>1, <2>8, <5>1, <5>2
      <4> QED BY <4>1, <4>2
    <3> QED BY <1>1, <2>10, <3>1, <3>2 DEF Linked
  <2>12. Chain(next', HeadNode) = s
    <3>1. s[1] = HeadNode
      BY <1>1, <2>2, <2>10 DEF HeadNode
    <3>2. Len(s) \in 1..Len(LNodes)
      BY <1>1, <2>10
    <3> QED BY <2>10, <2>11, <3>1, <3>2, ChainIs
  <2>13. FirstOfValue(k + 1)
    <3>1. tmps \in SUBSET Nat
      BY <1>1, <1>4, <1>5
    <3>2. k \in tmps /\ \A i \in tmps : k <= i
      BY <1>8, <2>1, <3>1, NatMin
    <3>3. num[LNodes[k + 1]] = value
      BY <1>1, <1>4, <1>5, <2>2, <3>2
    <3>4. ASSUME NEW j \in 2..(k + 1) - 1 PROVE num[LNodes[j]] # value
      <4>1. j - 1 \in 1..Len(chain) - 1 /\ ~(k <= j - 1) /\ (j - 1) + 1 = j
        BY <1>1, <1>4, <2>2
      <4>2. j - 1 \notin tmps BY <3>2, <4>1
      <4>3. chain[j] = LNodes[j] BY <1>1, <1>4, <2>2
      <4> QED BY <1>5, <4>1, <4>2, <4>3
    <3> QED BY <3>3, <3>4 DEF FirstOfValue
  <2>14. Replaced(s)
    <3>1. k + 1 \in 2..n - 1
      BY <1>1, <2>2
    <3> QED BY <1>1, <2>9, <2>13, <3>1 DEF Replaced
  <2>15. Replaced(Chain(next, HeadNode))'
    BY <1>6, <2>12, <2>14 DEF Replaced, FirstOfValue
  <2> QED BY <1>6, <2>5, <2>6, <2>15 DEF ListInv
<1> QED BY <1>7, <1>8

LEMMA ListPrintsStep ==
  ASSUME ListInv, list_prints
  PROVE  ListInv'
BY DEF ListInv, list_prints, Replaced, FirstOfValue

LEMMA ListStutter ==
  ASSUME ListInv, UNCHANGED listVars
  PROVE  ListInv'
<1>1. /\ lprog' = lprog /\ next' = next /\ num' = num /\ value' = value /\ cell' = cell /\ lstep' = lstep
      /\ pass' = pass /\ printed' = printed
  BY DEF listVars
<1>2. SingleInv = SingleInv' /\ ExperimentInv = ExperimentInv'
  BY <1>1 DEF SingleInv, ExperimentInv, Built
<1> QED BY <1>1, <1>2 DEF ListInv, Replaced, FirstOfValue

LEMMA ListStarts ==
  ASSUME ListInit \/ ListIdle
  PROVE  ListInv
<1>1. PICK n \in Nat : n = Len(LNodes) /\ n >= 3
  BY ListNodes
<1>2. next = [x \in Node |-> NULL] /\ printed = <<>> /\ pass = 1 /\ cell = HeadNode
  BY DEF ListInit, ListIdle
<1>3. next \in [Node -> Node \cup {NULL}] /\ \A i \in 1..n : next[LNodes[i]] = NULL
  BY <1>1, <1>2, ListNodes
<1>4. LinkedUpTo(next, 0) /\ LinkedUpTo(next, 1)
  BY <1>1, <1>3 DEF LinkedUpTo
<1>5. CASE lprog = "single_list"
  <2>1. lstep = 0
    BY <1>5 DEF ListInit, ListIdle
  <2>2. SingleInv
    BY <1>1, <1>2, <1>4, <2>1 DEF SingleInv, Built, HeadNode
  <2> QED BY <1>3, <1>5, <2>2 DEF ListInv
<1>6. CASE lprog = "list_expriment"
  <2>1. lstep = 1
    BY <1>6 DEF ListInit, ListIdle
  <2>2. ExperimentInv
    BY <1>1, <1>2, <1>4, <2>1 DEF ExperimentInv
  <2> QED BY <1>3, <1>6, <2>2 DEF ListInv
<1>7. CASE lprog = "none"
  BY <1>2, <1>3, <1>7 DEF ListInv
<1> QED BY <1>5, <1>6, <1>7 DEF ListInit, ListIdle

(* What PlainPrograms lets the list programs do, whichever program it runs.*)
ListSpec == (ListInit \/ ListIdle) /\ [][ListNext]_listVars

(* Of any number of nodes, single_list.c and list_expriment.c print each   *)
(* once and in order, the spare one in the place of the first that has the *)
(* value, and the null pointer is followed only for a value that no node   *)
(* behind the head has.                                                    *)
THEOREM ListPrintsAllAlways == ListSpec => []ListPrintsAll
<1>1. ListInit \/ ListIdle => ListInv
  BY ListStarts
<1>2. ListInv /\ [ListNext]_listVars => ListInv'
  BY SingleInsertStep, SinglePrintsStep, InsertListStep, ReplaceStep, ListPrintsStep, ListStutter
     DEF ListNext
<1>3. ListInv => ListPrintsAll
  <2> SUFFICES ASSUME ListInv PROVE ListPrintsAll
    OBVIOUS
  <2>1. CASE lprog = "single_list"
    BY <2>1 DEF ListInv, SingleInv, ListPrintsAll
  <2>2. CASE lprog = "list_expriment"
    BY <2>2 DEF ListInv, ExperimentInv, ListPrintsAll
  <2>3. CASE lprog \in {"print", "segv", "none"}
    BY <2>3 DEF ListInv, ListPrintsAll, Replaced
  <2> QED BY <2>1, <2>2, <2>3 DEF ListInv
<1> QED BY <1>1, <1>2, <1>3, PTL DEF ListSpec

-------------------------------------------------------------------------------
(* The demos of kernel interfaces. *)
(* What PlainPrograms lets these modules do, whichever program it runs.    *)
DemoSpec == (DemoInit \/ DemoIdle) /\ [][DemoNext]_demoVars

(* kobject.c: one reference at most is left for the unloading, and none    *)
(* only after CREATE_AND_ADD; with bdev allocated or kobj NULL none was    *)
(* taken.  The first reference of bdev->kobj is there from INIT on, and    *)
(* stays behind when bdev is freed.                                        *)
KobjectInv ==
  /\ attached = {} /\ kmod \in {"out", "init", "in", "oops"} /\ cmd \in Commands.kobject
  /\ \A o \in Objs \ {"VirOs", "bdev"} : refs[o] = 0
  /\ refs["VirOs"] \in {0, 1}
  /\ refs["bdev"] = 0 \/ (refs["bdev"] = 1 /\ cmd = "INIT")
  /\ kmod \in {"out", "init"} => refs["VirOs"] = 0
  /\ kmod = "init" => kobj = "NULL" /\ ~bdev
  /\ kmod = "in" /\ (bdev \/ kobj = "NULL") => refs["VirOs"] = 0
  /\ kmod = "in" /\ ~bdev /\ kobj # "NULL" /\ refs["VirOs"] = 0 => cmd = "CREATE_AND_ADD"
  /\ kmod = "oops" => cmd = "CREATE_AND_ADD"

(* The references of the nodes while the iterator walks (at <= 6): the     *)
(* list's and one more at the iterator's node; while they are removed: the *)
(* list's at the nodes still to come.                                      *)
NodeRefs(j) ==
  IF kmod # "init" \/ at = 0 THEN 0
  ELSE IF at <= Len(KNodes) THEN IF j = at THEN 2 ELSE 1
  ELSE IF j < at - Len(KNodes) THEN 0 ELSE 1

KlistInv ==
  /\ attached = {} /\ kmod \in {"out", "init", "in"}
  /\ kmod = "init" => at \in 0 .. 2 * Len(KNodes)
  /\ refs["VirOs"] = 0 /\ refs["bdev"] = 0
  /\ \A j \in 1 .. Len(KNodes) : refs[KNodes[j]] = NodeRefs(j)

(* device_tree.c: a command that tests all it looks up, or PROPERTY_ATTR,  *)
(* uses only what every node of DTS_demo.dts has.                          *)
TreeDemoInv ==
  /\ refs = NoRefs
  /\ kmod \in {"out", "init", "in", "oops"} /\ cmd \in Commands.device_tree
  /\ probes \in Seq(ToSet(Devices))
  /\ kmod = "out" => attached = {}
  /\ kmod = "oops" => again \/ cmd \in {"FIND_OPERATION", "NODE_OPERATION", "PROPERTY_OPERATION"}

DemoInv ==
  /\ demo \in {"none", "kobject", "klist", "device_tree"}
  /\ refs \in [Objs -> Int]
  /\ demo = "none" => kmod = "out" /\ refs = NoRefs /\ attached = {}
  /\ demo = "kobject" => KobjectInv
  /\ demo = "klist" => KlistInv
  /\ demo = "device_tree" => TreeDemoInv

LEMMA DemoTables ==
  /\ DOMAIN Commands = {"kobject", "klist", "device_tree"}
  /\ Len(KNodes) = 6 /\ KNodes[1] = "node0"
  /\ \A j \in 1 .. 6 : KNodes[j] \in Objs /\ KNodes[j] \notin {"VirOs", "bdev"}
  /\ \A j, k \in 1 .. 6 : KNodes[j] = KNodes[k] => j = k
  /\ \A o \in Objs : o \in {"VirOs", "bdev"} \/ \E j \in 1 .. 6 : o = KNodes[j]
  /\ "VirOs" \in Objs /\ "bdev" \in Objs
<1>1. Len(KNodes) = 6 /\ DOMAIN KNodes = 1 .. 6
  BY DEF KNodes
<1>2. /\ KNodes[1] = "node0" /\ KNodes[2] = "node1" /\ KNodes[3] = "node2"
      /\ KNodes[4] = "node3" /\ KNodes[5] = "node4" /\ KNodes[6] = "node5"
  BY DEF KNodes
<1>3. \A j \in 1 .. 6 : j = 1 \/ j = 2 \/ j = 3 \/ j = 4 \/ j = 5 \/ j = 6
  OBVIOUS
<1>4. \A j, k \in 1 .. 6 : KNodes[j] = KNodes[k] => j = k
  BY <1>2, <1>3
<1>5. \A j \in 1 .. 6 : KNodes[j] \notin {"VirOs", "bdev"}
  BY <1>2, <1>3
<1> QED BY <1>1, <1>2, <1>4, <1>5 DEF Objs, ToSet, Commands

LEMMA KobjectStep ==
  ASSUME DemoInv, demo = "kobject", DemoNext
  PROVE  demo' = demo /\ refs' \in [Objs -> Int] /\ KobjectInv'
<1> USE DemoTables DEF DemoInv, KobjectInv
<1>1. ASSUME NEW d \in DOMAIN Commands, NEW c \in Commands[d], insmod_demo(d, c)
      PROVE  demo' = demo /\ refs' \in [Objs -> Int] /\ KobjectInv'
  BY <1>1 DEF insmod_demo
<1>2. CASE kobject_create_and_add
  BY <1>2 DEF kobject_create_and_add, Put, dtVars
<1>3. CASE kobject_get
  BY <1>3 DEF kobject_get, Put, dtVars
<1>4. CASE kobject_init
  BY <1>4 DEF kobject_init, dtVars
<1>5. CASE kobject_init_fails
  BY <1>5 DEF kobject_init_fails, dtVars
<1>6. CASE kobject_demo_exit
  BY <1>6 DEF kobject_demo_exit, Put, dtVars
<1> QED BY <1>1, <1>2, <1>3, <1>4, <1>5, <1>6
        DEF DemoNext, klist_add, klist_next, klist_remove, klist_demo_exit, devicetree_demo_probe,
            devicetree_init_ends, devicetree_demo_remove, unbind, bind

LEMMA KlistStep ==
  ASSUME DemoInv, demo = "klist", DemoNext
  PROVE  demo' = demo /\ refs' \in [Objs -> Int] /\ KlistInv'
<1> USE DemoTables DEF DemoInv, KlistInv
<1>1. ASSUME NEW d \in DOMAIN Commands, NEW c \in Commands[d], insmod_demo(d, c)
      PROVE  demo' = demo /\ refs' \in [Objs -> Int] /\ KlistInv'
  BY <1>1 DEF insmod_demo, NodeRefs
<1>2. CASE klist_add
  <2>1. CASE at' = 1
    <3>1. /\ refs' = [o \in Objs |-> IF o = KNodes[1] THEN 2 ELSE IF o \in {"VirOs", "bdev"} THEN 0 ELSE 1]
          /\ UNCHANGED <<demo, kmod, attached>> /\ kmod = "init"
      BY <1>2, <2>1 DEF klist_add, dtVars
    <3>2. \A j \in 1 .. 6 : refs'[KNodes[j]] = IF j = 1 THEN 2 ELSE 1
      BY <3>1
    <3> QED BY <2>1, <3>1, <3>2 DEF NodeRefs
  <2>2. CASE at' = at /\ refs' = refs
    BY <1>2, <2>2 DEF klist_add, NodeRefs, dtVars
  <2> QED BY <1>2, <2>1, <2>2 DEF klist_add
<1>3. CASE klist_next
  BY <1>3 DEF klist_next, NodeRefs, dtVars
<1>4. CASE klist_remove
  BY <1>4 DEF klist_remove, NodeRefs, dtVars
<1>5. CASE klist_demo_exit
  BY <1>5 DEF klist_demo_exit, NodeRefs, dtVars
<1> QED BY <1>1, <1>2, <1>3, <1>4, <1>5
        DEF DemoNext, kobject_create_and_add, kobject_get, kobject_init, kobject_init_fails,
            kobject_demo_exit, devicetree_demo_probe, devicetree_init_ends, devicetree_demo_remove,
            unbind, bind

LEMMA TreeDemoStep ==
  ASSUME DemoInv, demo = "device_tree", DemoNext
  PROVE  demo' = demo /\ refs' \in [Objs -> Int] /\ TreeDemoInv'
<1> USE DemoTables DEF DemoInv, TreeDemoInv
<1>1. ASSUME NEW d \in DOMAIN Commands, NEW c \in Commands[d], insmod_demo(d, c)
      PROVE  demo' = demo /\ refs' \in [Objs -> Int] /\ TreeDemoInv'
  <2>1. Devices \in Seq(ToSet(Devices))
    BY DEF Devices, ToSet
  <2>2. refs' = NoRefs
    BY <1>1 DEF insmod_demo, NoRefs
  <2> QED BY <1>1, <2>1, <2>2 DEF insmod_demo
<1>2. CASE devicetree_demo_probe
  <2>1. Head(probes) \in ToSet(Devices) /\ Tail(probes) \in Seq(ToSet(Devices))
    BY <1>2 DEF devicetree_demo_probe
  <2>2. ToSet(Devices) = {"DTS_demo", "DTS_demoX", "virnode_0", "mdio"}
    BY DEF Devices, ToSet
  <2>3. \A d \in ToSet(Devices) : "compatible" \in dts(d)
    BY <2>2 DEF dts
  <2>4. Uses(cmd) \subseteq {"compatible"}
          \/ cmd \in {"FIND_OPERATION", "NODE_OPERATION", "PROPERTY_OPERATION"}
    BY DEF Uses, property_attr_uses, Commands
  <2> QED BY <1>2, <2>1, <2>3, <2>4 DEF devicetree_demo_probe, kobjVars
<1>3. CASE devicetree_init_ends
  BY <1>3 DEF devicetree_init_ends, kobjVars, dtVars
<1>4. CASE devicetree_demo_remove
  BY <1>4 DEF devicetree_demo_remove, kobjVars
<1>5. ASSUME NEW d \in ToSet(Devices), unbind(d) \/ bind(d)
      PROVE  demo' = demo /\ refs' \in [Objs -> Int] /\ TreeDemoInv'
  BY <1>5 DEF unbind, bind, kobjVars
<1> QED BY <1>1, <1>2, <1>3, <1>4, <1>5
        DEF DemoNext, kobject_create_and_add, kobject_get, kobject_init, kobject_init_fails,
            kobject_demo_exit, klist_add, klist_next, klist_remove, klist_demo_exit

(* Over any number of loads and unloads with any commands, kobject.c and   *)
(* klist.c give back what they took but for the first reference of bdev,   *)
(* klist_remove never sleeps on the module's own iterator, and memory that *)
(* is not there is used in the three known cases only.                     *)
THEOREM DemosEndWellAlways == DemoSpec => []DemosEndWell
<1>1. DemoInit \/ DemoIdle => DemoInv
  <2> SUFFICES ASSUME DemoInit \/ DemoIdle PROVE DemoInv
    OBVIOUS
  <2>1. /\ demo \in {"none", "kobject", "klist", "device_tree"}
        /\ cmd = "nothing" /\ kmod = "out" /\ refs = NoRefs /\ probes = <<>> /\ attached = {}
    BY DemoTables DEF DemoInit, DemoIdle
  <2>2. refs \in [Objs -> Int] /\ \A o \in Objs : refs[o] = 0
    BY <2>1 DEF NoRefs
  <2>3. \A d \in DOMAIN Commands : cmd \in Commands[d]
    BY <2>1 DEF Commands
  <2> QED BY <2>1, <2>2, <2>3, DemoTables DEF DemoInv, KobjectInv, KlistInv, TreeDemoInv, NodeRefs
<1>2. DemoInv /\ [DemoNext]_demoVars => DemoInv'
  <2> SUFFICES ASSUME DemoInv, [DemoNext]_demoVars PROVE DemoInv'
    OBVIOUS
  <2>1. CASE UNCHANGED demoVars
    BY <2>1 DEF demoVars, DemoInv, KobjectInv, KlistInv, TreeDemoInv, NodeRefs
  <2>2. CASE DemoNext /\ demo = "none"
    BY <2>2, DemoTables
       DEF DemoNext, insmod_demo, kobject_create_and_add, kobject_get, kobject_init,
           kobject_init_fails, kobject_demo_exit, klist_add, klist_next, klist_remove,
           klist_demo_exit, devicetree_demo_probe, devicetree_init_ends, devicetree_demo_remove,
           unbind, bind
  <2> QED BY <2>1, <2>2, KobjectStep, KlistStep, TreeDemoStep DEF DemoInv
<1>3. DemoInv => DemosEndWell
  <2> SUFFICES ASSUME DemoInv PROVE DemosEndWell
    OBVIOUS
  <2>1. ASSUME kmod = "out", NEW o \in Objs, refs[o] # 0
        PROVE  o = "bdev" /\ refs[o] = 1 /\ cmd = "INIT"
    BY <2>1, DemoTables DEF DemoInv, KobjectInv, KlistInv, TreeDemoInv, NodeRefs, NoRefs
  <2> QED BY <2>1 DEF DemoInv, KobjectInv, KlistInv, TreeDemoInv, DemosEndWell
<1> QED BY <1>1, <1>2, <1>3, PTL DEF DemoSpec

(* The probes go through the devices in the order of DTS_demo.dts, and     *)
(* PROPERTY_ATTR of DTS_demoX comes right before that of virnode_0.        *)
ProbesLeft ==
  {<<"DTS_demo", "DTS_demoX", "virnode_0", "mdio">>, <<"DTS_demoX", "virnode_0", "mdio">>,
   <<"virnode_0", "mdio">>, <<"mdio">>, <<>>}

DriftInv ==
  /\ drift \in [Nodes -> Int]
  /\ PutsAreCovered
  /\ demo = "device_tree" /\ kmod = "init" =>
       /\ probes \in ProbesLeft
       /\ cmd = "PROPERTY_ATTR" /\ probes = <<"virnode_0", "mdio">> => drift["virnode_0"] > 0

LEMMA NodeNames ==
  Nodes = {"DTS_demo", "DTS_demoX", "virnode_0", "mdio", "child0", "gpio0", "phy0", "phy1",
           "cpu0", "pdev"}
  BY DEF Nodes, Devices, ToSet

(* The other commands take and do not put. *)
LEMMA OthersTake ==
  ASSUME NEW c, c # "PROPERTY_ATTR", NEW d, NEW n
  PROVE  Drift(c, d, n) \in Nat
  BY DEF Drift, find_operation_drift, get_operation_drift, node_operation_drift

LEMMA ProbeKeepsDrift ==
  ASSUME DriftInv, devicetree_demo_probe
  PROVE  DriftInv'
<1>1. probes \in ProbesLeft /\ demo' = demo /\ cmd' = cmd /\ kmod = "init" /\ probes' = Tail(probes)
      /\ probes # <<>> /\ demo = "device_tree"
  BY DEF DriftInv, devicetree_demo_probe
<1>2. /\ probes' \in ProbesLeft
      /\ probes' = <<"virnode_0", "mdio">> => Head(probes) = "DTS_demoX"
      /\ Head(probes) = "DTS_demoX" => probes' = <<"virnode_0", "mdio">>
      /\ Head(probes) = "virnode_0" => probes = <<"virnode_0", "mdio">>
      /\ Head(probes) \in {"DTS_demo", "DTS_demoX", "virnode_0", "mdio"}
  <2>1. CASE probes = <<"DTS_demo", "DTS_demoX", "virnode_0", "mdio">>
    BY <1>1, <2>1 DEF ProbesLeft
  <2>2. CASE probes = <<"DTS_demoX", "virnode_0", "mdio">> BY <1>1, <2>2 DEF ProbesLeft
  <2>3. CASE probes = <<"virnode_0", "mdio">> BY <1>1, <2>3 DEF ProbesLeft
  <2>4. CASE probes = <<"mdio">> BY <1>1, <2>4 DEF ProbesLeft
  <2> QED BY <1>1, <2>1, <2>2, <2>3, <2>4 DEF ProbesLeft
<1>3. CASE kmod' = "oops" /\ drift' = drift
  BY <1>3 DEF DriftInv, PutsAreCovered
<1>4. CASE cmd = "ADDR_RESOURCE" /\ drift' = drift
  BY <1>1, <1>2, <1>4 DEF DriftInv, PutsAreCovered
<1>5. CASE drift' = [n \in Nodes |-> drift[n] + Drift(cmd, Head(probes), n)]
  <2> DEFINE d == Head(probes)
             D(n) == Drift(cmd, d, n)
  <2>1. CASE cmd = "PROPERTY_ATTR"
    <3>1. \A n \in Nodes : D(n) = (IF n = Behind(d) THEN 1 ELSE 0) - (IF n = d THEN 1 ELSE 0)
      BY <2>1 DEF Drift, property_attr_drift
    <3>2. \A n \in Nodes : drift'[n] = drift[n] + D(n)
      BY <1>5
    <3> HIDE DEF D
    <3>3. CASE d = "DTS_demo"
      BY <1>2, <3>1, <3>2, <3>3, NodeNames, <1>5 DEF DriftInv, PutsAreCovered, Behind
    <3>4. CASE d = "DTS_demoX"
      BY <1>2, <3>1, <3>2, <3>4, NodeNames, <1>5 DEF DriftInv, PutsAreCovered, Behind
    <3>5. CASE d = "virnode_0"
      <4>1. probes = <<"virnode_0", "mdio">> BY <1>2, <3>5
      <4>2. drift["virnode_0"] > 0 BY <1>1, <2>1, <4>1 DEF DriftInv
      <4>3. ~(probes' = <<"virnode_0", "mdio">>) BY <1>2, <3>5
      <4>4. Behind(d) = "gpio0" BY <3>5 DEF Behind
      <4>5. /\ drift'["virnode_0"] = drift["virnode_0"] - 1 /\ drift'["gpio0"] = drift["gpio0"] + 1
            /\ \A n \in Nodes \ {"virnode_0", "gpio0"} : drift'[n] = drift[n]
        BY <3>1, <3>2, <3>5, <4>4, NodeNames DEF DriftInv
      <4>6. drift' \in [Nodes -> Int]
        BY <1>5, <3>1, <3>2 DEF DriftInv
      <4>7. PutsAreCovered'
        BY <4>2, <4>5, <4>6, NodeNames DEF DriftInv, PutsAreCovered
      <4> QED BY <1>2, <4>3, <4>6, <4>7 DEF DriftInv
    <3>6. CASE d = "mdio"
      BY <1>2, <3>1, <3>2, <3>6, NodeNames, <1>5 DEF DriftInv, PutsAreCovered, Behind
    <3> QED BY <1>2, <3>3, <3>4, <3>5, <3>6
  <2>2. CASE cmd # "PROPERTY_ATTR"
    <3>1. \A n \in Nodes : D(n) \in Nat
      BY <2>2, OthersTake
    <3>2. \A n \in Nodes : drift'[n] = drift[n] + D(n)
      BY <1>5
    <3> HIDE DEF D
    <3>3. /\ drift' \in [Nodes -> Int]
          /\ \A n \in Nodes : drift'[n] >= drift[n] /\ drift[n] \in Int /\ drift'[n] \in Int
      BY <1>5, <3>1, <3>2 DEF DriftInv, D
    <3>4. PutsAreCovered'
      BY <3>3, NodeNames DEF DriftInv, PutsAreCovered
    <3> QED BY <1>1, <1>2, <2>2, <3>3, <3>4 DEF DriftInv
  <2> QED BY <2>1, <2>2
<1> QED BY <1>3, <1>4, <1>5 DEF devicetree_demo_probe

(* However often device_tree.c is loaded with whichever commands, the      *)
(* references it puts without having taken them are covered by those that  *)
(* it takes and never puts.                                                *)
THEOREM PutsAreCoveredAlways == DemoSpec => []PutsAreCovered
<1>1. DemoInit \/ DemoIdle => DriftInv
  <2> SUFFICES ASSUME DemoInit \/ DemoIdle PROVE DriftInv
    OBVIOUS
  <2>1. kmod = "out" /\ drift = NoDrift BY DEF DemoInit, DemoIdle
  <2> QED BY <2>1, NodeNames DEF DriftInv, PutsAreCovered, NoDrift
<1>2. DriftInv /\ [DemoNext]_demoVars => DriftInv'
  <2> SUFFICES ASSUME DriftInv, [DemoNext]_demoVars PROVE DriftInv'
    OBVIOUS
  <2>1. ASSUME NEW c \in DOMAIN Commands, NEW o \in Commands[c], insmod_demo(c, o)
        PROVE  DriftInv'
    <3>1. drift' = drift /\ demo' = demo /\ (demo = "device_tree" => probes' = Devices)
      BY <2>1 DEF insmod_demo
    <3>2. Devices \in ProbesLeft /\ Devices # <<"virnode_0", "mdio">>
      BY DEF Devices, ProbesLeft
    <3> QED BY <3>1, <3>2 DEF DriftInv, PutsAreCovered
  <2>2. CASE \/ kobject_create_and_add \/ kobject_get \/ kobject_init \/ kobject_init_fails
             \/ kobject_demo_exit \/ klist_add \/ klist_next \/ klist_remove \/ klist_demo_exit
    BY <2>2 DEF kobject_create_and_add, kobject_get, kobject_init, kobject_init_fails,
                kobject_demo_exit, klist_add, klist_next, klist_remove, klist_demo_exit, dtVars,
                DriftInv, PutsAreCovered
  <2>3. CASE devicetree_demo_probe BY <2>3, ProbeKeepsDrift
  <2>4. CASE devicetree_init_ends \/ devicetree_demo_remove
    BY <2>4 DEF devicetree_init_ends, devicetree_demo_remove, dtVars, DriftInv, PutsAreCovered
  <2>5. ASSUME NEW d \in ToSet(Devices), unbind(d) \/ bind(d) PROVE DriftInv'
    BY <2>5 DEF unbind, bind, DriftInv, PutsAreCovered
  <2>6. CASE UNCHANGED demoVars
    BY <2>6 DEF demoVars, DriftInv, PutsAreCovered
  <2> QED BY <2>1, <2>2, <2>3, <2>4, <2>5, <2>6 DEF DemoNext
<1>3. DriftInv => PutsAreCovered BY DEF DriftInv
<1> QED BY <1>1, <1>2, <1>3, PTL DEF DemoSpec

-------------------------------------------------------------------------------
(* Each program is a part of the whole. *)
LEMMA PlainInitParts ==
  ASSUME PlainInit \/ PlainIdle
  PROVE  /\ SortInit \/ SortIdle
         /\ ImageInit \/ ImageIdle
         /\ ListInit \/ ListIdle
         /\ DemoInit \/ DemoIdle
  BY DEF PlainInit, PlainIdle

LEMMA PlainNextParts ==
  ASSUME [PlainNext]_plainVars
  PROVE  /\ [SortNext]_sortVars /\ [ImageNext]_imageVars
         /\ [ListNext]_listVars /\ [DemoNext]_demoVars
<1>1. CASE UNCHANGED plainVars
  BY <1>1 DEF plainVars
<1>2. CASE PlainNext
  BY <1>2 DEF PlainNext, RunSort, RunImage, RunList, RunDemo
<1> QED BY <1>1, <1>2

(* Whichever of these programs runs, what it prints is what it should be:  *)
(* a sorted array of the elements main was given, a digest of the whole    *)
(* image, a list of all nodes.                                             *)
THEOREM ResultsRightAlways == PlainSpec => []ResultsRight
<1>1. (PlainInit \/ PlainIdle) =>
        ((SortInit \/ SortIdle) /\ (ImageInit \/ ImageIdle) /\ (ListInit \/ ListIdle))
  BY PlainInitParts
<1>2. [PlainNext]_plainVars =>
        ([SortNext]_sortVars /\ [ImageNext]_imageVars /\ [ListNext]_listVars)
  BY PlainNextParts
<1>3. PlainSpec => (SortSpec /\ ImageSpec /\ ListSpec)
  BY <1>1, <1>2, PTL DEF PlainSpec, SortSpec, ImageSpec, ListSpec
<1>4. (SortsSort /\ DigestCoversImage /\ ListPrintsAll) => ResultsRight
  BY DEF ResultsRight
<1> QED
  BY <1>3, <1>4, SortsSortAlways, DigestCoversImageAlways, ListPrintsAllAlways, PTL

(* The demos end as described whichever of the programs runs.              *)
THEOREM PlainDemosEndWell == PlainSpec => []DemosEndWell
<1>1. (PlainInit \/ PlainIdle) => (DemoInit \/ DemoIdle)
  BY PlainInitParts
<1>2. [PlainNext]_plainVars => [DemoNext]_demoVars
  BY PlainNextParts
<1>3. PlainSpec => DemoSpec
  BY <1>1, <1>2, PTL DEF PlainSpec, DemoSpec
<1> QED BY <1>3, DemosEndWellAlways, PTL
===============================================================================
