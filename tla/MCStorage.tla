----------------------------- MODULE MCStorage -----------------------------
(***************************************************************************)
(* The two drivers that keep redundant blocks, the cache driver and the    *)
(* raid6 driver, in one run: either is there and the other one's variables *)
(* stay as they are.  The arrays: three components of any age and in any   *)
(* order, four of a RAID 6 whose blocks fail, three with chunks of 4, 8    *)
(* and 16 blocks for the accesses that are cut, and two that are read by   *)
(* two threads at a time.                                                  *)
(***************************************************************************)
EXTENDS CacheDev, TLC

CONSTANT RaidReaders

VARIABLES
    on,    \* the driver that is there
    arr, phase, rest, d, param_role, raid_disk, layoutmapping, can_recover,
    max_events, events_in_sync, may_verify_parity, space, raid_pc, acc, at,
    column, failmap, data, errs, errors

raidVars == <<arr, phase, rest, d, param_role, raid_disk, layoutmapping, can_recover,
    max_events, events_in_sync, may_verify_parity, space, raid_pc, acc, at,
    column, failmap, data, errs, errors>>

Missing == [kind |-> "missing"]
Dev1(ev, active, role) ==
    [kind |-> "dev", events |-> ev, active |-> active, role |-> role]
Bad == [Dev1(2, 0, 0) EXCEPT !.kind = "bad"]

\* RAID 5 of three: before and after one or two failures, spares and all.
\* Super blocks that were written together say the same of the array.
Devs5(active) == {Dev1(1, 3, r) : r \in 0..2} \cup
                 {Dev1(2, active, r) : r \in 0..3} \cup {Missing, Bad}
\* RAID 6 of four, the roles in order.
Devs6(active, r) == {Dev1(1, 4, r), Dev1(2, active, r), Missing}

\* No spare is newer than all members: md writes all super blocks together.
SpareNotNewest(args) ==
    \A i \in DOMAIN args : args[i].kind = "dev" /\ args[i].role = 3 =>
      \E j \in DOMAIN args : /\ args[j].kind = "dev" /\ args[j].role < 3
                             /\ args[j].events >= args[i].events

Small == [layout |-> 2, cs |-> 1, byParam |-> FALSE, maxErrors |-> 1,
          shared |-> FALSE,
          accesses |-> {<<0, 1>>, <<1, 2>>}]
Scanned5 == {Small @@ [level |-> 5, n |-> 3, args |-> a] :
               a \in {x \in [1..3 -> Devs5(1)] \cup [1..3 -> Devs5(2)] :
                        SpareNotNewest(x)}}
Scanned6 == {Small @@ [level |-> 6, n |-> 4, args |-> <<w, x, y, z>>] :
               <<w, x, y, z>> \in UNION {Devs6(a, 0) \X Devs6(a, 1) \X
                 Devs6(a, 2) \X Devs6(a, 3) : a \in {1, 3}}}

InOrder(m) == [i \in 1..m |-> Dev1(2, m, i - 1)]
Failing6 == {[level |-> 6, n |-> 5, layout |-> l, cs |-> 1, byParam |-> TRUE,
              maxErrors |-> 2, shared |-> FALSE, args |-> InOrder(5),
              accesses |-> {<<3 * c, 3>> : c \in 0..4}] : l \in 0..3}

\* First and last block at every kind of place in two chunks of 3 columns.
Edges(cs) == IF cs = 16 THEN {0, 1, 15, 16, 31, 32, 46, 47}
             ELSE {0, 1, cs - 2, cs - 1, cs, cs + 1, 2 * cs - 1, 2 * cs,
                   2 * cs + 1, 3 * cs - 2, 3 * cs - 1}
Spans(cs) == {<<f, l - f + 1>> :
                f \in Edges(cs), l \in Edges(cs) \cup {3 * cs + e : e \in Edges(cs)}}
CutUp == {[level |-> l[1], n |-> 4, layout |-> l[2], cs |-> l[3], byParam |-> TRUE,
           maxErrors |-> 0, shared |-> FALSE, args |-> InOrder(4),
           accesses |-> {a \in Spans(l[3]) : a[2] > 0}] :
             l \in {<<5, 0, 8>>, <<5, 3, 8>>, <<4, 0, 8>>, <<5, 2, 4>>,
                    <<5, 1, 16>>}}

\* A RAID 5 that two threads read at the same time.  None of its components
\* is missing: the threads recover in the same d_space and p_space.
Shared5 == {[level |-> 5, n |-> 3, layout |-> l, cs |-> 2, byParam |-> TRUE,
             maxErrors |-> 0, shared |-> TRUE,
             accesses |-> {<<1, 1>>, <<1, 2>>, <<3, 4>>}, args |-> InOrder(3)] :
               l \in {0, 2}}

SomeArrays == Scanned5 \cup Scanned6 \cup Failing6 \cup CutUp \cup Shared5

Raid == INSTANCE Raid6 WITH Arrays <- SomeArrays, Readers <- RaidReaders,
                            pc <- raid_pc, disk <- raid_disk

NoCache == Init /\ dir = {}    \* never started
NoRaid ==
    /\ arr = 0 /\ phase = 0 /\ rest = 0 /\ d = 0 /\ param_role = 0 /\ raid_disk = 0
    /\ layoutmapping = 0 /\ can_recover = 0 /\ max_events = 0 /\ events_in_sync = 0
    /\ may_verify_parity = 0 /\ space = 0 /\ raid_pc = 0 /\ acc = 0 /\ at = 0
    /\ column = 0 /\ failmap = 0 /\ data = 0 /\ errs = 0 /\ errors = 0
StorageInit == \/ on = "cache" /\ Init /\ NoRaid
               \/ on = "raid" /\ Raid!Init /\ NoCache
StorageNext == /\ UNCHANGED on
               /\ \/ on = "cache" /\ Next /\ UNCHANGED raidVars
                  \/ on = "raid" /\ Raid!Next /\ UNCHANGED vars
StorageSpec == StorageInit /\ [][StorageNext]_<<on, vars, raidVars>>

Symmetric == Permutations(Readers) \cup Permutations(Blocks)
               \cup Permutations(RaidReaders)

\* Whatever the order of the arguments (raid6.c, the loop over the super blocks),
\* a role is held by one device that says so, and none older than a member.
RolesHeld == on = "raid" => Raid!RolesHeld
\* An access returns what was written last, every block at its place in the
\* buffer, and all of it unless more blocks of a stripe were lost than there
\* are parities (raid6.c, the rounds of an access that is cut; recovery).
\* Not so, and left out: the 8 rounds of raid6.c:2512 for other chunk sizes.
ReadsRight == on = "raid" => Raid!ReadsRight
=============================================================================
