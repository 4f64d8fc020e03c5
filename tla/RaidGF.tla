------------------------------- MODULE RaidGF -------------------------------
(***************************************************************************)
(* The arithmetic of the raid6 driver (bdev/raid6/raid6mmx.c and           *)
(* raid6tables.c): the two parities of a stripe, and the recovery of up to *)
(* two of its blocks.  Every loop there treats each byte of a block for    *)
(* itself, so a block is one byte here, and a stripe d a function from     *)
(* 0..n-1 to bytes: data first, then P, then Q.                            *)
(***************************************************************************)
EXTENDS Integers, Sequences, SequencesExt, Bitwise

Byte == 0..255

\* v times 2 modulo 0x11d: pcmpgtb, paddb, pand, pxor.
Double(v) == IF v >= 128 THEN (2 * v - 256) ^^ 29 ELSE 2 * v

\* The tables; raid6_gfexp has 0 where 2^255 = 1 would be.
Powers == FoldLeft(LAMBDA s, i : Append(s, Double(Last(s))), <<1>>,
                   [i \in 1..254 |-> i])
raid6_gfexp(i) == IF i = 255 THEN 0 ELSE Powers[i + 1]
Log(v) == CHOOSE i \in 0..254 : Powers[i + 1] = v
raid6_gfinv(v) == IF v = 0 THEN 0 ELSE raid6_gfexp((255 - Log(v)) % 255)
raid6_gfexi(i) == IF i = 255 THEN 1 ELSE raid6_gfinv(raid6_gfexp(i) ^^ 1)
raid6_gfmul(v, w) ==
    IF 0 \in {v, w} THEN 0 ELSE raid6_gfexp((Log(v) + Log(w)) % 255)

\* The exclusive or of the blocks in the columns 0..last.
XorUpTo(d, last) ==
    FoldLeft(LAMBDA x, z : x ^^ d[z - 1], 0, [z \in 1..last + 1 |-> z])

\* Horner's rule from the last column to the first.
Horner(d, last) ==
    FoldLeft(LAMBDA q, z : Double(q) ^^ d[last + 1 - z], 0,
             [z \in 1..last + 1 |-> z])

raid6_gen_syndromes(n, d) ==
    [d EXCEPT ![n - 2] = XorUpTo(d, n - 3), ![n - 1] = Horner(d, n - 3)]
raid6_gen_syndrome_Q(n, d) == [d EXCEPT ![n - 1] = Horner(d, n - 3)]
raid5_gen_syndrome(n, d) == [d EXCEPT ![n - 1] = XorUpTo(d, n - 2)]

\* One data block and P are lost.  The program computes the parities of the
\* stripe with a zero block, Q into the lost one.
raid6_recover_DP(n, d, f) ==
    LET zero == raid6_gen_syndromes(n, [d EXCEPT ![f] = 0])
        t    == raid6_gfmul(raid6_gfinv(raid6_gfexp(f)),
                            d[n - 1] ^^ zero[n - 1])
    IN  [d EXCEPT ![f] = t, ![n - 2] = zero[n - 2] ^^ t]

\* Two data blocks are lost, f < g.
raid6_recover_D2(n, d, f, g) ==
    LET zero == raid6_gen_syndromes(n, [d EXCEPT ![f] = 0, ![g] = 0])
        px == d[n - 2] ^^ zero[n - 2]
        qx == raid6_gfmul(raid6_gfinv(raid6_gfexp(f) ^^ raid6_gfexp(g)),
                          d[n - 1] ^^ zero[n - 1])
        db == raid6_gfmul(raid6_gfexi(g - f), px) ^^ qx
    IN  [d EXCEPT ![f] = db ^^ px, ![g] = db]

\* Only the data block f is lost: P takes its place in an XOR over the rest.
RecoverD(n, d, f) ==
    LET swapped == [d EXCEPT ![f] = d[n - 2]]
    IN  [d EXCEPT ![f] = raid5_gen_syndrome(n - 1, swapped)[n - 2]]

RecoverOne(n, d, f) ==
    CASE f < n - 2 -> RecoverD(n, d, f)
      [] f = n - 2 -> raid5_gen_syndrome(n - 1, d)
      [] OTHER     -> raid6_gen_syndrome_Q(n, d)

\* raid6_recover; failed is a set of at most two columns of 0..n-1.
raid6_recover(n, failed, d) ==
    IF failed = {} THEN d
    ELSE LET f == CHOOSE x \in failed : \A y \in failed : x <= y
             g == CHOOSE x \in failed : \A y \in failed : x >= y
         IN  CASE f = g     -> RecoverOne(n, d, f)
               [] f # g /\ g = n - 1 ->
                    raid6_gen_syndrome_Q(n, RecoverOne(n, d, f))
               [] f # g /\ g = n - 2 -> raid6_recover_DP(n, d, f)
               [] OTHER     -> raid6_recover_D2(n, d, f, g)
=============================================================================
