-------------------------------- MODULE Aes --------------------------------
(***************************************************************************)
(* The block cipher of the dmcrypt driver (crypt/cipher/aes.c), for its    *)
(* three lengths of keys.  A byte is a number, a 32-bit word of the code   *)
(* the tuple of its bytes from the lowest to the highest, so that          *)
(* le2host32 and host2le32 leave the bytes of a block in their order.      *)
(*                                                                         *)
(* dev.key is the key in words, dev.in the block; st.e and st.d are E_KEY  *)
(* and D_KEY, st.b the block between two rounds, st.k the round.           *)
(***************************************************************************)
EXTENDS Integers, Sequences, SequencesExt, Bitwise

CONSTANTS
    KeyWords,    \* lengths of keys in words, of {4, 6, 8}
    Patterns     \* the keys and blocks tried

VARIABLES dev, st

Byte == 0..255
Nibbles == [a \in 0..15 |-> [b \in 0..15 |-> a ^^ b]]
Xor8(a, b) == (16 * Nibbles[a \div 16][b \div 16]) + Nibbles[a % 16][b % 16]
Xor32(v, w) == <<Xor8(v[1], w[1]), Xor8(v[2], w[2]), Xor8(v[3], w[3]), Xor8(v[4], w[4])>>
Zero == <<0, 0, 0, 0>>

\* rol32(w, 8 * n) and ror32(w, 8 * n).
rol32(w, n) == <<w[1 + ((4 - n) % 4)], w[1 + ((5 - n) % 4)], w[1 + ((6 - n) % 4)], w[1 + ((7 - n) % 4)]>>
ror32(w, n) == rol32(w, 4 - n)

(***************************************************************************)
(* gen_tabs.                                                               *)
(***************************************************************************)
\* (p << 1) ^ (p & 0x80 ? 0x1b : 0), in 8 bits; star_x does it to four bytes.
Twice(p) == Xor8((2 * p) % 256, IF p >= 128 THEN 27 ELSE 0)

Repeat(n, first, F(_)) == FoldLeft(LAMBDA s, i : Append(s, F(Last(s))), <<first>>, [i \in 1..n - 1 |-> i])
rco_tab == Repeat(10, 1, Twice)

\* pow_tab and log_tab, from which the other tables are made.
PowLog ==
    LET pow == Repeat(256, 1, LAMBDA p : Xor8(p, Twice(p)))
    IN  [pow |-> pow, log |-> [x \in Byte |-> IF x \in {0, 1} THEN 0 ELSE CHOOSE i \in 1..254 : pow[i + 1] = x]]

\* f_mult: the sum of the logarithms is an u8, and wraps to one less.
f_mult(T, a, b) ==
    LET cc == (T.log[a] + T.log[b]) % 256
    IN  T.pow[1 + cc + (IF cc < T.log[a] THEN 1 ELSE 0)]
ff_mult(T, a, b) == IF 0 \in {a, b} THEN 0 ELSE f_mult(T, a, b)

\* (p >> 8 - n) | (p << n), in 8 bits.
Rol8(p, n) == ((p * 2^n) % 256) + (p \div 2^(8 - n))
Substitute(p) ==
    LET q == Xor8(Rol8(p, 1), Rol8(p, 2))
    IN  Xor8(p, Xor8(99, Xor8(q, Rol8(q, 2))))
sbx_tab(T) == [i \in Byte |-> Substitute(IF i = 0 THEN 0 ELSE T.pow[1 + 255 - T.log[i]])]
isb_tab(sbx) == [p \in Byte |-> CHOOSE i \in Byte : sbx[i] = p]

\* Of the four tables each the first; the others are its rotations.
fl_tab(sbx) == [i \in Byte |-> <<sbx[i], 0, 0, 0>>]
il_tab(isb) == [i \in Byte |-> <<isb[i], 0, 0, 0>>]
ft_tab(T, sbx) == [i \in Byte |-> <<ff_mult(T, 2, sbx[i]), sbx[i], sbx[i], ff_mult(T, 3, sbx[i])>>]
it_tab(T, isb) == [i \in Byte |-> <<ff_mult(T, 14, isb[i]), ff_mult(T, 9, isb[i]),
                                    ff_mult(T, 13, isb[i]), ff_mult(T, 11, isb[i])>>]
gen_tabs ==
    LET T == PowLog
        sbx == sbx_tab(T)
        isb == isb_tab(sbx)
    IN  [fl |-> fl_tab(sbx), ft |-> ft_tab(T, sbx), il |-> il_tab(isb), it |-> it_tab(T, isb)]

(***************************************************************************)
(* aes_makectx: the two key schedules.                                     *)
(***************************************************************************)
\* The key (its length in words), and the block 00 11 22 ..., by pattern.
KeyByte(p, i) == CASE p = "zeros"  -> 0
                   [] p = "counts" -> i
                   [] p = "tail"   -> IF i < 4 THEN 0 ELSE 255 - ((17 * i) % 256)
                   [] p = "ones"   -> IF i < 4 THEN 0 ELSE 255
TextByte(p, i) == CASE p = "zeros"  -> 0
                    [] p = "counts" -> 17 * i
                    [] p = "tail"   -> (i * i * 7) % 256
                    [] p = "ones"   -> 255
Word(F(_, _), p, i) == <<F(p, 4 * i), F(p, (4 * i) + 1), F(p, (4 * i) + 2), F(p, (4 * i) + 3)>>

Init ==
    \E n \in KeyWords, p, q \in Patterns :
      /\ dev = [driver |-> "aes", key |-> [i \in 1..n |-> Word(KeyByte, p, i - 1)],
                in |-> [i \in 1..4 |-> Word(TextByte, q, i - 1)]]
      /\ st = [pc |-> "make", e |-> <<>>, d |-> <<>>, b |-> <<>>, k |-> 0, cipher |-> <<>>]

Nk == Len(dev.key)
Rounds == 10 + (IF Nk > 4 THEN 2 ELSE 0) + (IF Nk > 6 THEN 2 ELSE 0)
Go(s) == st' = s /\ UNCHANGED dev

\* for (i = key_length / 4; --i;): the words from the last to the second.  The
\* first keeps the zero of zmalloc.
Copied == [i \in 1..Nk |-> IF i = 1 THEN Zero ELSE dev.key[i]]
CopyKey == st.pc = "make" /\ Go([st EXCEPT !.pc = "expand", !.e = Copied])

ls_box(w) == <<gen_tabs.fl[w[1]][1], gen_tabs.fl[w[2]][1], gen_tabs.fl[w[3]][1], gen_tabs.fl[w[4]][1]>>

\* One word more: t is the word before it.
NextWord(e) ==
    LET at == Len(e) % Nk
        t  == CASE at = 0             -> Xor32(ls_box(ror32(Last(e), 1)),
                                               <<rco_tab[Len(e) \div Nk], 0, 0, 0>>)
                [] at = 4 /\ Nk = 8   -> ls_box(Last(e))
                [] OTHER              -> Last(e)
    IN  Xor32(t, e[Len(e) - Nk + 1])
\* loop4, loop6 and loop8; they run 10, 8 and 7 times, and the last may make
\* words nobody uses.
Loop(e) == FoldLeft(LAMBDA w, i : Append(w, NextWord(w)), e, [i \in 1..Nk |-> i])
Loops == CASE Nk = 4 -> 10 [] Nk = 6 -> 8 [] Nk = 8 -> 7
ExpandKey ==
    /\ st.pc = "expand" /\ Len(st.e) < (Loops + 1) * Nk
    /\ Go([st EXCEPT !.e = Loop(@)])

\* imix_col.
star_x(w) == <<Twice(w[1]), Twice(w[2]), Twice(w[3]), Twice(w[4])>>
imix_col(x) ==
    LET u == star_x(x)
        v == star_x(u)
        w == star_x(v)
        t == Xor32(w, x)
    IN  Xor32(Xor32(Xor32(u, v), Xor32(w, ror32(Xor32(u, t), 1))),
              Xor32(ror32(Xor32(v, t), 2), ror32(t, 3)))
MixKey ==
    /\ st.pc = "expand" /\ Len(st.e) = (Loops + 1) * Nk
    /\ Go([st EXCEPT !.pc = "ready",
             !.d = [i \in 1..(4 * Nk) + 24 |-> IF i <= 4 THEN st.e[i] ELSE imix_col(st.e[i])]])

(***************************************************************************)
(* aes_encrypt and aes_decrypt, one round per step.                        *)
(***************************************************************************)
\* f_rn, f_rl, i_rn and i_rl: the n-th word of a round from the words of b,
\* where the i-th byte comes from the word n + i, or n - i to decrypt.
RoundWord(tab, b, n, step, key) ==
    LET From(i) == rol32(tab[b[1 + ((n + (i * step)) % 4)][i + 1]], i)
    IN  Xor32(Xor32(Xor32(From(0), From(1)), Xor32(From(2), From(3))), key)
Round(tab, b, step, key, k) ==
    <<RoundWord(tab, b, 0, step, key[k + 1]), RoundWord(tab, b, 1, step, key[k + 2]),
      RoundWord(tab, b, 2, step, key[k + 3]), RoundWord(tab, b, 3, step, key[k + 4])>>
AddKey(b, key, k) ==
    <<Xor32(b[1], key[k + 1]), Xor32(b[2], key[k + 2]), Xor32(b[3], key[k + 3]), Xor32(b[4], key[k + 4])>>

StartEncrypt ==
    /\ st.pc = "ready"
    /\ Go([st EXCEPT !.pc = "encrypt", !.b = AddKey(dev.in, st.e, 0), !.k = 1])
EncryptRound ==
    /\ st.pc = "encrypt" /\ st.k < Rounds
    /\ Go([st EXCEPT !.b = Round(gen_tabs.ft, @, 1, st.e, 4 * st.k), !.k = @ + 1])
EncryptLast ==
    /\ st.pc = "encrypt" /\ st.k = Rounds
    /\ LET out == Round(gen_tabs.fl, st.b, 1, st.e, 4 * st.k)
       IN  Go([st EXCEPT !.pc = "encrypted", !.cipher = out, !.b = out])

StartDecrypt ==
    /\ st.pc = "encrypted"
    /\ Go([st EXCEPT !.pc = "decrypt", !.b = AddKey(@, st.e, (4 * Nk) + 24), !.k = Nk + 5])
DecryptRound ==
    /\ st.pc = "decrypt" /\ st.k > 0
    /\ Go([st EXCEPT !.b = Round(gen_tabs.it, @, 3, st.d, 4 * st.k), !.k = @ - 1])
DecryptLast ==
    /\ st.pc = "decrypt" /\ st.k = 0
    /\ Go([st EXCEPT !.pc = "decrypted", !.b = Round(gen_tabs.il, @, 3, st.d, 0)])

Next == CopyKey \/ ExpandKey \/ MixKey \/ StartEncrypt \/ EncryptRound \/ EncryptLast \/ StartDecrypt \/ DecryptRound \/ DecryptLast

(***************************************************************************)
(* The reference: Rijndael by its own definition, on columns of bytes.     *)
(***************************************************************************)
\* The product in GF(2^8): bit by bit of b, from the highest.
Times(a, b) ==
    LET r[i \in 0..8] == IF i = 0 THEN 0
                         ELSE Xor8(Twice(r[i - 1]), IF (b \div 2^(8 - i)) % 2 = 1 THEN a ELSE 0)
    IN  r[8]
Inverse8 == [x \in Byte |-> IF x = 0 THEN 0 ELSE CHOOSE y \in Byte : Times(x, y) = 1]
Bit(x, i) == (x \div 2^(i % 8)) % 2
\* The affine map over the bits of the inverse.
Affine(y) ==
    LET b(i) == (Bit(y, i) + Bit(y, i + 4) + Bit(y, i + 5) + Bit(y, i + 6) + Bit(y, i + 7) + Bit(99, i)) % 2
    IN  b(0) + 2 * b(1) + 4 * b(2) + 8 * b(3) + 16 * b(4) + 32 * b(5) + 64 * b(6) + 128 * b(7)
SubByte == [x \in Byte |-> Affine(Inverse8[x])]
SubWord(w) == <<SubByte[w[1]], SubByte[w[2]], SubByte[w[3]], SubByte[w[4]]>>
\* w, whatever else it has, starts with the words of the schedule of key.
IsSchedule(w, key) ==
    LET nk == Len(key)
        Rcon == <<1, 2, 4, 8, 16, 32, 64, 128, 27, 54>>
        Temp(i) == CASE i % nk = 0            -> Xor32(SubWord(<<w[i][2], w[i][3], w[i][4], w[i][1]>>),
                                                       <<Rcon[i \div nk], 0, 0, 0>>)
                     [] i % nk = 4 /\ nk > 6  -> SubWord(w[i])
                     [] OTHER                 -> w[i]
    IN  /\ SubSeq(w, 1, nk) = key
        /\ \A i \in nk..(4 * (nk + 7)) - 1 : w[i + 1] = Xor32(w[i - nk + 1], Temp(i))
MixColumn(c) ==
    LET m(r) == Xor8(Xor8(Twice(c[1 + r]), Times(c[1 + ((r + 1) % 4)], 3)),
                     Xor8(c[1 + ((r + 2) % 4)], c[1 + ((r + 3) % 4)]))
    IN  <<m(0), m(1), m(2), m(3)>>
ShiftedColumn(s, c) == <<s[c + 1][1], s[1 + ((c + 1) % 4)][2], s[1 + ((c + 2) % 4)][3], s[1 + ((c + 3) % 4)][4]>>
\* A round on s, without MixColumn in the last, nr.
RijndaelRound(s, w, r, nr) ==
    LET Mixed(c)  == IF r < nr THEN MixColumn(c) ELSE c
        Column(c) == Xor32(Mixed(SubWord(ShiftedColumn(s, c))), w[(4 * r) + c + 1])
    IN  <<Column(0), Column(1), Column(2), Column(3)>>
Rijndael(w, nr, in) ==
    LET state[r \in 0..nr] == IF r = 0 THEN AddKey(in, w, 0) ELSE RijndaelRound(state[r - 1], w, r, nr)
    IN  state[nr]

\* Decrypting undoes encrypting, for every length of keys, and the tables and
\* the two schedules give Rijndael for the key that was copied.
Right ==
    /\ st.pc = "decrypted" => st.b = dev.in
    /\ st.pc = "encrypted" => /\ IsSchedule(st.e, Copied)
                              /\ st.cipher = Rijndael(st.e, Nk + 6, dev.in)
\* The schedule is the one of the key that was given, its first word included.
\* The code's is not: the loop that copies the key stops before the first word.
IsRijndael == st.pc = "encrypted" => IsSchedule(st.e, dev.key)
Spec == Init /\ [][Next]_<<dev, st>>
=============================================================================
