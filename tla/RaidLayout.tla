----------------------------- MODULE RaidLayout -----------------------------
(***************************************************************************)
(* Where the raid6 driver finds a block (bdev/raid6/raid6.c).  A chunk is  *)
(* the same cs blocks of every component; a stripe is one block of each.   *)
(* In a chunk, column c < data holds the blocks c*cs .. c*cs+cs-1 of the   *)
(* chunk, the columns from data on hold P and Q, and a role, the place of  *)
(* a component in the array, is assigned to every column.                  *)
(***************************************************************************)
EXTENDS Integers, FiniteSets

LEFT_ASYMMETRIC  == 0
RIGHT_ASYMMETRIC == 1
LEFT_SYMMETRIC   == 2
RIGHT_SYMMETRIC  == 3
RAID4            == 4

IsStatic(layout)    == layout = RAID4
IsRight(layout)     == layout \in {RIGHT_ASYMMETRIC, RIGHT_SYMMETRIC}
IsSymmetric(layout) == layout \in {LEFT_SYMMETRIC, RIGHT_SYMMETRIC, RAID4}

\* The role that holds P in a chunk of an array of n components, p of them
\* parities.
ParityRole(layout, n, p, chunk) ==
    CASE IsStatic(layout) -> n - p
      [] IsRight(layout)  -> chunk % n
      [] OTHER            -> n - 1 - (chunk % n)

\* The c-th role, from 0, that holds no parity, when P is at role idx.
DataRole(n, p, idx, c) ==
    LET parity == {(idx + i) % n : i \in 0..p - 1}
    IN  CHOOSE r \in 0..n - 1 :
            r \notin parity /\ Cardinality((0..r - 1) \ parity) = c

\* raid6_get_role_mapping_for_chunk: the role of each column.
RoleOfColumn(layout, n, p, chunk) ==
    LET idx  == ParityRole(layout, n, p, chunk)
        data == n - p
    IN  [c \in 0..n - 1 |->
           IF c >= data          THEN (idx + (c - data)) % n
           ELSE IF IsSymmetric(layout) THEN (idx + p + c) % n
           ELSE DataRole(n, p, idx, c)]

(***************************************************************************)
(* raid6_do_read cuts an access into chunks, and each chunk into stripes.  *)
(* A part of a chunk is read in rounds: round s of disks columns from      *)
(* column disk on at stripe (stripe + s) % cs; one column less after the   *)
(* round at stripe dec, and one column further after the last stripe.      *)
(***************************************************************************)
Bounds(cs, data, first, num) ==
    LET last == first + num - 1
        full == data * cs
    IN  [chunk  |-> first \div full,  lchunk  |-> last \div full,
         disk   |-> (first % full) \div cs, ldisk |-> (last % full) \div cs,
         stripe |-> first % cs,       lstripe |-> last % cs]

StartsInside(b) == b.disk # 0 \/ b.stripe # 0
EndsInside(cs, data, b) == b.ldisk # data - 1 \/ b.lstripe # cs - 1

\* The whole access lies in this chunk, and neither begins nor ends with it.
CutBoth(cs, b) ==
    LET rounds == 1 + b.lstripe + cs - b.stripe
        wide   == rounds > cs
    IN  IF b.disk = b.ldisk
        THEN [stripe |-> b.stripe, disk |-> b.disk, disks |-> 1,
              rounds |-> 1 + b.lstripe - b.stripe, dec |-> cs]
        ELSE [stripe |-> b.stripe, disk |-> b.disk,
              disks  |-> b.ldisk - b.disk + (IF wide THEN 1 ELSE 0),
              rounds |-> IF b.disk + 1 # b.ldisk THEN 8
                         ELSE IF wide THEN cs ELSE rounds,
              dec    |-> b.lstripe]

CutStart(cs, data, b) ==
    [stripe |-> b.stripe, disk |-> b.disk, disks |-> data - b.disk,
     rounds |-> IF b.disk # data - 1 THEN cs ELSE cs - b.stripe,
     dec    |-> cs - 1]

CutEndLate(cs, b) ==
    [stripe |-> 0, disk |-> 0, disks |-> 1 + b.ldisk,
     rounds |-> IF b.ldisk # 0 THEN cs ELSE 1 + b.lstripe,
     dec    |-> b.lstripe + 1]

CutEnd(cs, b) ==
    [stripe |-> 0, disk |-> 0, disks |-> 1 + b.ldisk,
     rounds |-> IF b.ldisk # 0 THEN cs ELSE 1 + b.lstripe,
     dec    |-> b.lstripe]

WholeChunk(cs, data) ==
    [stripe |-> 0, disk |-> 0, disks |-> data, rounds |-> cs, dec |-> cs]

Cut(cs, data, b, chunk) ==
    LET starts == chunk = b.chunk /\ StartsInside(b)
        ends   == chunk = b.lchunk /\ EndsInside(cs, data, b)
    IN  CASE starts /\ ends  -> CutBoth(cs, b)
          [] starts /\ ~ends -> CutStart(cs, data, b)
          [] ~starts /\ ends -> CutEnd(cs, b)
          [] OTHER           -> WholeChunk(cs, data)

\* One round done: the cut that is left for the next one.
NextRound(cs, cut) ==
    [cut EXCEPT !.stripe = (@ + 1) % cs,
                !.disk   = IF cut.stripe + 1 = cs THEN @ + 1 ELSE @,
                !.disks  = IF cut.stripe = cut.dec THEN @ - 1 ELSE @,
                !.rounds = @ - 1]
=============================================================================
