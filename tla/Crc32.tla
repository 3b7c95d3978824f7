------------------------------- MODULE Crc32 -------------------------------
(***************************************************************************)
(* The checksum of mkimage (crc32.c), and what it is: the remainder of a   *)
(* division of polynomials.  A byte or a word is the set of the numbers of *)
(* its bits that are 1, so that exclusive-or is the symmetric difference.  *)
(***************************************************************************)
EXTENDS Integers, FiniteSetsExt, Sequences

Byte == SUBSET (0 .. 7)
Ones == 0 .. 31

Shifted(w, k) == {i - k : i \in {j \in w : j >= k}}

(* The terms of the polynomial, except x^32 *)
Terms == {0, 1, 2, 4, 5, 7, 8, 10, 11, 12, 16, 22, 23, 26}

(* Multiplication by x, modulo the polynomial: the lowest power is bit 31. *)
TimesX(c) ==
  IF 0 \in c THEN SymDiff({31 - p : p \in Terms}, Shifted(c, 1)) ELSE Shifted(c, 1)

(* The table that a build with DYNAMIC_CRC_TABLE computes *)
make_crc_table ==
  [n \in Byte |->
    LET c[k \in 0 .. 8] == IF k = 0 THEN n ELSE TimesX(c[k - 1]) IN c[8]]

(* The table that the build has, entry by entry, each in two halves *)
Literal == <<
  \h0000, \h0000, \h7707, \h3096, \hee0e, \h612c, \h9909, \h51ba, \h076d, \hc419, \h706a, \hf48f, \he963, \ha535, \h9e64, \h95a3,
  \h0edb, \h8832, \h79dc, \hb8a4, \he0d5, \he91e, \h97d2, \hd988, \h09b6, \h4c2b, \h7eb1, \h7cbd, \he7b8, \h2d07, \h90bf, \h1d91,
  \h1db7, \h1064, \h6ab0, \h20f2, \hf3b9, \h7148, \h84be, \h41de, \h1ada, \hd47d, \h6ddd, \he4eb, \hf4d4, \hb551, \h83d3, \h85c7,
  \h136c, \h9856, \h646b, \ha8c0, \hfd62, \hf97a, \h8a65, \hc9ec, \h1401, \h5c4f, \h6306, \h6cd9, \hfa0f, \h3d63, \h8d08, \h0df5,
  \h3b6e, \h20c8, \h4c69, \h105e, \hd560, \h41e4, \ha267, \h7172, \h3c03, \he4d1, \h4b04, \hd447, \hd20d, \h85fd, \ha50a, \hb56b,
  \h35b5, \ha8fa, \h42b2, \h986c, \hdbbb, \hc9d6, \hacbc, \hf940, \h32d8, \h6ce3, \h45df, \h5c75, \hdcd6, \h0dcf, \habd1, \h3d59,
  \h26d9, \h30ac, \h51de, \h003a, \hc8d7, \h5180, \hbfd0, \h6116, \h21b4, \hf4b5, \h56b3, \hc423, \hcfba, \h9599, \hb8bd, \ha50f,
  \h2802, \hb89e, \h5f05, \h8808, \hc60c, \hd9b2, \hb10b, \he924, \h2f6f, \h7c87, \h5868, \h4c11, \hc161, \h1dab, \hb666, \h2d3d,
  \h76dc, \h4190, \h01db, \h7106, \h98d2, \h20bc, \hefd5, \h102a, \h71b1, \h8589, \h06b6, \hb51f, \h9fbf, \he4a5, \he8b8, \hd433,
  \h7807, \hc9a2, \h0f00, \hf934, \h9609, \ha88e, \he10e, \h9818, \h7f6a, \h0dbb, \h086d, \h3d2d, \h9164, \h6c97, \he663, \h5c01,
  \h6b6b, \h51f4, \h1c6c, \h6162, \h8565, \h30d8, \hf262, \h004e, \h6c06, \h95ed, \h1b01, \ha57b, \h8208, \hf4c1, \hf50f, \hc457,
  \h65b0, \hd9c6, \h12b7, \he950, \h8bbe, \hb8ea, \hfcb9, \h887c, \h62dd, \h1ddf, \h15da, \h2d49, \h8cd3, \h7cf3, \hfbd4, \h4c65,
  \h4db2, \h6158, \h3ab5, \h51ce, \ha3bc, \h0074, \hd4bb, \h30e2, \h4adf, \ha541, \h3dd8, \h95d7, \ha4d1, \hc46d, \hd3d6, \hf4fb,
  \h4369, \he96a, \h346e, \hd9fc, \had67, \h8846, \hda60, \hb8d0, \h4404, \h2d73, \h3303, \h1de5, \haa0a, \h4c5f, \hdd0d, \h7cc9,
  \h5005, \h713c, \h2702, \h41aa, \hbe0b, \h1010, \hc90c, \h2086, \h5768, \hb525, \h206f, \h85b3, \hb966, \hd409, \hce61, \he49f,
  \h5ede, \hf90e, \h29d9, \hc998, \hb0d0, \h9822, \hc7d7, \ha8b4, \h59b3, \h3d17, \h2eb4, \h0d81, \hb7bd, \h5c3b, \hc0ba, \h6cad,
  \hedb8, \h8320, \h9abf, \hb3b6, \h03b6, \he20c, \h74b1, \hd29a, \head5, \h4739, \h9dd2, \h77af, \h04db, \h2615, \h73dc, \h1683,
  \he363, \h0b12, \h9464, \h3b84, \h0d6d, \h6a3e, \h7a6a, \h5aa8, \he40e, \hcf0b, \h9309, \hff9d, \h0a00, \hae27, \h7d07, \h9eb1,
  \hf00f, \h9344, \h8708, \ha3d2, \h1e01, \hf268, \h6906, \hc2fe, \hf762, \h575d, \h8065, \h67cb, \h196c, \h3671, \h6e6b, \h06e7,
  \hfed4, \h1b76, \h89d3, \h2be0, \h10da, \h7a5a, \h67dd, \h4acc, \hf9b9, \hdf6f, \h8ebe, \heff9, \h17b7, \hbe43, \h60b0, \h8ed5,
  \hd6d6, \ha3e8, \ha1d1, \h937e, \h38d8, \hc2c4, \h4fdf, \hf252, \hd1bb, \h67f1, \ha6bc, \h5767, \h3fb5, \h06dd, \h48b2, \h364b,
  \hd80d, \h2bda, \haf0a, \h1b4c, \h3603, \h4af6, \h4104, \h7a60, \hdf60, \hefc3, \ha867, \hdf55, \h316e, \h8eef, \h4669, \hbe79,
  \hcb61, \hb38c, \hbc66, \h831a, \h256f, \hd2a0, \h5268, \he236, \hcc0c, \h7795, \hbb0b, \h4703, \h2202, \h16b9, \h5505, \h262f,
  \hc5ba, \h3bbe, \hb2bd, \h0b28, \h2bb4, \h5a92, \h5cb3, \h6a04, \hc2d7, \hffa7, \hb5d0, \hcf31, \h2cd9, \h9e8b, \h5bde, \hae1d,
  \h9b64, \hc2b0, \hec63, \hf226, \h756a, \ha39c, \h026d, \h930a, \h9c09, \h06a9, \heb0e, \h363f, \h7207, \h6785, \h0500, \h5713,
  \h95bf, \h4a82, \he2b8, \h7a14, \h7bb1, \h2bae, \h0cb6, \h1b38, \h92d2, \h8e9b, \he5d5, \hbe0d, \h7cdc, \hefb7, \h0bdb, \hdf21,
  \h86d3, \hd2d4, \hf1d4, \he242, \h68dd, \hb3f8, \h1fda, \h836e, \h81be, \h16cd, \hf6b9, \h265b, \h6fb0, \h77e1, \h18b7, \h4777,
  \h8808, \h5ae6, \hff0f, \h6a70, \h6606, \h3bca, \h1101, \h0b5c, \h8f65, \h9eff, \hf862, \hae69, \h616b, \hffd3, \h166c, \hcf45,
  \ha00a, \he278, \hd70d, \hd2ee, \h4e04, \h8354, \h3903, \hb3c2, \ha767, \h2661, \hd060, \h16f7, \h4969, \h474d, \h3e6e, \h77db,
  \haed1, \h6a4a, \hd9d6, \h5adc, \h40df, \h0b66, \h37d8, \h3bf0, \ha9bc, \hae53, \hdebb, \h9ec5, \h47b2, \hcf7f, \h30b5, \hffe9,
  \hbdbd, \hf21c, \hcaba, \hc28a, \h53b3, \h9330, \h24b4, \ha3a6, \hbad0, \h3605, \hcdd7, \h0693, \h54de, \h5729, \h23d9, \h67bf,
  \hb366, \h7a2e, \hc461, \h4ab8, \h5d68, \h1b02, \h2a6f, \h2b94, \hb40b, \hbe37, \hc30c, \h8ea1, \h5a05, \hdf1b, \h2d02, \hef8d>>

OneBits(half) == {i \in 0 .. 15 : (half \div 2 ^ i) % 2 = 1}

Entry(k) == {16 + i : i \in OneBits(Literal[2 * k + 1])} \union OneBits(Literal[2 * k + 2])

Index(n) == MapThenSumSet(LAMBDA i : 2 ^ i, n)

(* Mutant: two entries of the table are exchanged. *)
TwoExchanged ==
  [n \in Byte |-> Entry(CASE n = {5} -> 33 [] n = {0, 5} -> 32 [] OTHER -> Index(n))]

crc_table == [n \in Byte |-> Entry(Index(n))]

TableIsMade == crc_table = make_crc_table

DO1(crc, b) == SymDiff(crc_table[SymDiff(crc \intersect (0 .. 7), b)], Shifted(crc, 8))

(* What bytes do to the register; halved, to keep the recursion flat *)
RECURSIVE Bytes(_)
Bytes(buf) ==
  [crc \in SUBSET Ones |->
    IF buf = <<>> THEN crc
    ELSE IF Len(buf) = 1 THEN DO1(crc, buf[1])
    ELSE LET half == Len(buf) \div 2
         IN Bytes(SubSeq(buf, half + 1, Len(buf)))[Bytes(SubSeq(buf, 1, half))[crc]]]

Whole(buf) == Len(buf) - (Len(buf) % 8)

(* Eight bytes at a time while there are eight, then those that are left *)
InChunks(crc, buf) == Bytes(SubSeq(buf, 1, Whole(buf)))[crc]

(* Mutant: the loop for the bytes that are left is missing. *)
NoRemaining(crc, buf) == crc

Remaining(crc, buf) == Bytes(SubSeq(buf, Whole(buf) + 1, Len(buf)))[crc]

crc32(crc, buf) ==
  SymDiff(Ones, Remaining(InChunks(SymDiff(crc, Ones), buf), buf))

-----------------------------------------------------------------------------
(* The reference.  A polynomial over GF(2) is the set of its powers.  The   *)
(* first bit of a message (bit 0 of its first byte) is the highest power.   *)

Generator == Terms \union {32}

Message(buf) ==
  {8 * Len(buf) + 31 - k :
     k \in {j \in 0 .. 8 * Len(buf) - 1 : j % 8 \in buf[j \div 8 + 1]}}

(* The message's first 32 bits (of those with 32 zeros behind) are inverted *)
Dividend(buf) == SymDiff(Message(buf), 8 * Len(buf) .. 8 * Len(buf) + 31)

(* What is left of m when its powers high .. low have been eliminated, the  *)
(* upper half first                                                         *)
RECURSIVE Divided(_, _, _)
Divided(m, low, high) ==
  IF low = high
  THEN IF low \in m THEN SymDiff(m, {p + low - 32 : p \in Generator}) ELSE m
  ELSE LET middle == (low + high) \div 2
           rest   == Divided(m, middle + 1, high)
       IN IF rest = {} THEN {} ELSE Divided(rest, low, middle)

(* The remainder with its powers as bits, and every bit inverted *)
Remainder(buf) ==
  SymDiff(Ones, {31 - p : p \in
    IF buf = <<>> THEN Dividend(buf)
    ELSE Divided(Dividend(buf), 32, 8 * Len(buf) + 31)})

=============================================================================
