----------------------------- MODULE ImageDigest -----------------------------
(***************************************************************************)
(* Languge/shell/safeboot/util_auth.sh: -h hashes an image in blocks and   *)
(* the table of their hashes, -e pads an image and encrypts it.  An image  *)
(* is the sequence of its byte numbers, and a byte of the table the set of *)
(* those hash bytes, block and number, that were written there.  The       *)
(* script runs under set -e: it ends at the first command that fails.      *)
(***************************************************************************)
EXTENDS Integers, Sequences, SequencesExt, FiniteSetsExt

CONSTANTS
  hash_size, hash_block_size, block_size, hash_set_l3_blk_sz,  \* as in the script
  CipherBlock,    \* what openssl enc -nopad accepts multiples of
  MaxImage,       \* bound: longest image
  PadSizes        \* the values of -p

ASSUME ImageAssumption ==
  /\ {hash_size, hash_block_size, block_size, hash_set_l3_blk_sz, CipherBlock} \subseteq Nat \ {0}
  /\ hash_block_size % hash_size = 0 /\ hash_set_l3_blk_sz >= block_size
  /\ MaxImage \in Nat /\ PadSizes \subseteq Nat

VARIABLES
  image,          \* the file given with -i
  option,         \* "h", "e"; "none" when another program runs
  pad_size,
  ended,
  made            \* the files it left

imageVars == <<image, option, pad_size, ended, made>>

Nothing == [parts |-> <<>>, table |-> <<>>, digest |-> "none", pad |-> <<>>, enc |-> FALSE]
Zero    == 0

Aligned(n, size) == ((n + size - 1) \div size) * size

(* dd bs=1 reads up to count bytes from skip on. *)
dd(skip, count) == SubSeq(image, skip + 1, Min({skip + count, Len(image)}))

(* The bytes the last block is cut off after. *)
last_count == IF Len(image) % block_size = 0 THEN block_size ELSE Len(image) % block_size

(* Hash i goes to hash_curr, which moves on by hash_size, byte by byte. *)
HashAt(i, k) == k - (i - 1) * hash_size

(* A hash is written over the zeros of the table, behind the one before.   *)
(* Up to one block no table is needed and the digest is a copy of the      *)
(* block's hash, which an empty image does not have.                       *)
process_hash_set ==
  LET blk_num == Aligned(Len(image), block_size) \div block_size
      l2_sz   == Aligned(blk_num * hash_size, hash_block_size)
  IN  [Nothing EXCEPT
        !.parts  = [i \in 1..blk_num |->
                      dd((i - 1) * block_size, IF i = blk_num THEN last_count ELSE block_size)],
        !.table  = [k \in 1..l2_sz |->
                      {<<i, HashAt(i, k)>> : i \in {b \in 1..blk_num : HashAt(b, k) \in 1..hash_size}}],
        !.digest = IF Len(image) > block_size THEN "table"
                   ELSE IF blk_num = 0 THEN "none" ELSE "part1"]

(* process_hash_set_lv3 asks wc for the size with "0c", the name of a file *)
(* that is not there, and the script ends.                                 *)
process_hash_set_lv3 == Nothing

hash_image ==
  /\ option = "h" /\ ~ended
  /\ made' = IF Len(image) > hash_set_l3_blk_sz THEN process_hash_set_lv3 ELSE process_hash_set
  /\ ended' = TRUE
  /\ UNCHANGED <<image, option, pad_size>>

(* A pad size of 0 ends the script in the remainder. *)
pad_image ==
  LET mod == pad_size - (Len(image) % pad_size)
      img_size_align == IF mod = pad_size THEN Len(image) ELSE Len(image) + mod
  IN  IF pad_size = 0 THEN Nothing
      ELSE [Nothing EXCEPT !.pad = [k \in 1..img_size_align |->
                                      IF k <= Len(image) THEN image[k] ELSE Zero],
                           !.enc = img_size_align % CipherBlock = 0]

encrypt_image ==
  /\ option = "e" /\ ~ended
  /\ made' = pad_image
  /\ ended' = TRUE
  /\ UNCHANGED <<image, option, pad_size>>

ImageInit ==
  /\ image \in {[k \in 1..n |-> k] : n \in 0..MaxImage}
  /\ option \in {"h", "e"}
  /\ pad_size \in IF option = "e" THEN PadSizes ELSE {CipherBlock}
  /\ made = Nothing /\ ended = FALSE

(* Another program runs. *)
ImageIdle == image = <<>> /\ option = "none" /\ pad_size = CipherBlock /\ made = Nothing /\ ended = FALSE

ImageNext == hash_image \/ encrypt_image

-----------------------------------------------------------------------------
(* A digest stands for the whole image: the blocks follow each other       *)
(* without a gap or an overlap and none is empty; the table holds every    *)
(* hash whole, in their order, and fills blocks of the hash with less than *)
(* one of them left over.  Every image that is not empty and not beyond    *)
(* the third level gets a digest.  What is encrypted begins with the image *)
(* and ends in fewer zeros than the pad size, and a pad size the cipher    *)
(* can use is never refused.                                               *)
DigestCoversImage ==
  LET hash(i) == [k \in 1..hash_size |-> {<<i, k>>}]
      hashes  == FlattenSeq([i \in DOMAIN made.parts |-> hash(i)])
  IN  ended =>
        /\ option = "h" => (made.digest # "none" <=> Len(image) \in 1..hash_set_l3_blk_sz)
        /\ made.digest # "none" =>
             /\ FlattenSeq(made.parts) = image
             /\ \A i \in DOMAIN made.parts : Len(made.parts[i]) \in 1..block_size
             /\ made.digest = "part1" <=> Len(made.parts) = 1
             /\ IsPrefix(hashes, made.table)
             /\ Len(made.table) % hash_block_size = 0
             /\ Len(made.table) < Len(hashes) + hash_block_size
        /\ option = "e" =>
             /\ pad_size # 0 => IsPrefix(image, made.pad) /\ Len(made.pad) < Len(image) + pad_size
             /\ pad_size # 0 /\ pad_size % CipherBlock = 0 => made.enc
=============================================================================
