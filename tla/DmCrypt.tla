------------------------------- MODULE DmCrypt -------------------------------
(***************************************************************************)
(* The dmcrypt driver (bdev/dmcrypt/dmcrypt.c): blocks of a device that    *)
(* are encrypted in cipher block chaining, each with its number as initial *)
(* vector, and shifted by one block.  The cipher is any permutation of its *)
(* small blocks, which are numbers below 4 here.                           *)
(*                                                                         *)
(* dev.of is the device below, dev.ops the two accesses that follow each   *)
(* other; st.below are the contents of that device, st.buf the buffer of   *)
(* the access, st.plain what was written.                                  *)
(***************************************************************************)
EXTENDS BlockDevice, Sequences

CONSTANTS
    CryptSize,   \* blocks of the device below
    CipherLen    \* cipher blocks of a block (32)

VARIABLES dev, st

Cells == 0..3
Cells2 == [1..CipherLen -> {0, 1}]    \* bound: the contents written
Xor(a, b) == (((a \div 2 + b \div 2) % 2) * 2) + ((a + b) % 2)
Encrypt == <<2, 0, 3, 1>>             \* the permutation, from 0
Enc(x) == Encrypt[x + 1]
Dec(y) == CHOOSE x \in Cells : Enc(x) = y

\* dm_crypt_iv_plain_generate: the lower bits of the number.
Iv(block) == block % 4

\* dmcrypt_encrypt_block: v[i] is what the i-th cipher block is chained with.
EncryptBlock(block, plain) ==
    LET c[i \in 0..CipherLen] == IF i = 0 THEN Iv(block) ELSE Enc(Xor(plain[i], c[i - 1]))
    IN  [i \in 1..CipherLen |-> c[i]]

\* dmcrypt_decrypt_block, in place: v is saved before it is overwritten.
DecryptBlock(block, cipher) ==
    [i \in 1..CipherLen |-> Xor(Dec(cipher[i]), IF i = 1 THEN Iv(block) ELSE cipher[i - 1])]

\* Blocks of the device, as registered.
Size == dev.of.size - 1
Ops == [write : BOOLEAN, first : 0..CryptSize - 1, num : 1..CryptSize]
Fresh == [i \in 1..CipherLen |-> 0]

Init ==
    \E of \in Devices(CryptSize), op1, op2 \in Ops, text \in Cells2 :
      /\ op1.write /\ op1.first + op1.num < CryptSize /\ op2.first + op2.num < CryptSize
      /\ dev = [driver |-> "dmcrypt", of |-> of, ops |-> <<op1, op2>>, text |-> text]
      /\ st = [pc |-> "access", op |-> 1, n |-> 0, ret |-> 0,
               below |-> [b \in 0..CryptSize - 1 |-> Fresh],
               plain |-> [b \in 0..CryptSize - 2 |-> DecryptBlock(b, Fresh)],
               buf |-> <<>>]

Op == dev.ops[st.op]
Go(s) == st' = s /\ UNCHANGED dev
\* What the k-th block of the op-th access is to be.
Text(op, k) == [i \in 1..CipherLen |-> Xor(dev.text[i], (op + k) % 4)]

\* dmcrypt_write: all blocks are encrypted into a buffer first.
EncryptNext ==
    /\ st.pc = "access" /\ Op.write /\ st.n < Op.num
    /\ Go([st EXCEPT !.n = @ + 1,
             !.buf = Append(@, EncryptBlock(Op.first + st.n, Text(st.op, st.n)))])
WriteBelow ==
    /\ st.pc = "access" /\ Op.write /\ st.n = Op.num
    /\ LET r  == Write(dev.of, Op.first + 1, Op.num)
           at == Op.first + 1..Op.first + r
       IN  Go([st EXCEPT !.pc = "returned", !.ret = r,
                 !.below = [b \in DOMAIN @ |-> IF b \in at THEN st.buf[b - Op.first] ELSE @[b]],
                 !.plain = [b \in DOMAIN @ |-> IF b + 1 \in at
                              THEN Text(st.op, b - Op.first) ELSE @[b]]])

\* dmcrypt_read: what was read is decrypted in the caller's buffer, and a -1
\* from below is passed on.
ReadBelow ==
    /\ st.pc = "access" /\ ~Op.write
    /\ LET r == Read(dev.of, Op.first + 1, Op.num)
       IN  Go([st EXCEPT !.pc = IF r = -1 THEN "returned" ELSE "decrypt", !.ret = r, !.n = 0,
                 !.buf = [k \in 1..r |-> st.below[Op.first + k]]])
DecryptNext ==
    /\ st.pc = "decrypt" /\ st.n < st.ret
    /\ Go([st EXCEPT !.n = @ + 1, !.buf[st.n + 1] = DecryptBlock(Op.first + st.n, @)])

\* No context for the cipher (no memory): -1, in the middle of what was read
\* or before anything is written.
CipherFails ==
    /\ \/ st.pc = "decrypt" /\ st.n < st.ret
       \/ st.pc = "access" /\ Op.write /\ st.n < Op.num
    /\ Go([st EXCEPT !.pc = "returned", !.ret = -1])
ReadDone == st.pc = "decrypt" /\ st.n = st.ret /\ Go([st EXCEPT !.pc = "returned"])

NextAccess ==
    /\ st.pc = "returned" /\ st.op = 1
    /\ Go([st EXCEPT !.pc = "access", !.op = 2, !.n = 0, !.ret = 0, !.buf = <<>>])

Next == \/ EncryptNext \/ WriteBelow \/ ReadBelow \/ DecryptNext \/ CipherFails
        \/ ReadDone \/ NextAccess
Halted == st.pc = "returned" /\ st.op = 2

\* A block reads as what was written to it last, and every block below the
\* first decrypts to it.
Right ==
    /\ st.pc = "returned" /\ ~Op.write =>
         \A k \in 1..st.ret : st.buf[k] = st.plain[Op.first + k - 1]
    /\ \A b \in 0..Size - 1 : DecryptBlock(b, st.below[b + 1]) = st.plain[b]
    /\ st.below[0] = Fresh
=============================================================================
