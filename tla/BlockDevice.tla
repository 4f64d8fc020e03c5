---------------------------- MODULE BlockDevice ----------------------------
(***************************************************************************)
(* The block devices that other drivers stack on, and what those drivers   *)
(* share.  A device is a record of its size, of the set of its bad blocks  *)
(* (those the map of a looperr device does not have, or where the disk     *)
(* under a loop device fails) and of whether it is stacked on another one. *)
(* A loop or looperr device answers 0 when it delivers nothing.  A cache   *)
(* answers -1 then, dmcrypt passes that on, and a device without a         *)
(* function for the access always answers -1 (its blocks are all bad).     *)
(***************************************************************************)
EXTENDS Integers, FiniteSets

Devices(size) == [size : {size}, bad : SUBSET (0..size - 1), stacked : BOOLEAN]

\* looperr_access_one_block, reading, and access_one_block of the cache.
CanRead(d, b) == b \in 0..d.size - 1 /\ b \notin d.bad

\* The number of blocks from first on, up to num, before one that fails.
UpToBad(d, first, num) ==
    CHOOSE r \in 0..num :
        /\ \A b \in first..first + r - 1 : CanRead(d, b)
        /\ r < num => ~CanRead(d, first + r)

\* access_blocks of the cache, and what bdev_read and bdev_write return when
\* the device has no such function: block_t is signed, and nothing is -1.
Answer(d, r, num) == IF d.stacked /\ r = 0 /\ num > 0 THEN -1 ELSE r

\* looperr_read: block by block up to the first that fails.
Read(d, first, num) == Answer(d, UpToBad(d, first, num), num)

\* loop_write: nothing if the range leaves the device, else what the disk takes.
Write(d, first, num) ==
    Answer(d, IF first + num > d.size /\ ~d.stacked THEN 0 ELSE UpToBad(d, first, num), num)

\* The blocks that an answer stands for, where the caller looks for -1 first.
Delivered(r) == IF r = -1 THEN 0 ELSE r

\* The arguments [size:]device[@addr] of blindread and dump: where the range
\* ends, and whether it is refused.
RangeEnd(d, addr, size) == IF size = {} THEN d.size ELSE addr + CHOOSE n \in size : TRUE
RangeRefused(d, addr, size) ==
    d.size < addr \/ RangeEnd(d, addr, size) > d.size \/ addr = d.size
\* A size that is given is a set of one number.
Sizes(max) == {{}} \cup {{n} : n \in 0..max}
=============================================================================
