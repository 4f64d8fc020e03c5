------------------------------- MODULE Raid6 -------------------------------
(***************************************************************************)
(* The raid6 driver (bdev/raid6/raid6.c): raid6_init assembles an array    *)
(* from the super blocks of the components it is given, in any order, some *)
(* stale, spare or missing; raid6_do_read and raid6_read_stripe read it,   *)
(* one block of one component after the other, and recover what cannot be  *)
(* read.  Several threads may read the device; the buffers for the blocks  *)
(* nobody asked for, parities among them, belong to the device.            *)
(*                                                                         *)
(* A block is one byte.  What the components hold is laid out by the       *)
(* formulas in the comment at raid6.c:1384, and read by the code's way.    *)
(***************************************************************************)
EXTENDS Integers, Sequences, FiniteSets, RaidGF, RaidLayout

CONSTANTS Arrays,   \* what the driver is called with
          Readers   \* the threads that read the device

VARIABLES
    arr,       \* the array: level, n, layout, cs, byParam, args, and the
               \* bounds: accesses, maxErrors (blocks that cannot be read),
               \* shared (several threads read at the same time)
    phase,     \* "scan", "ready", "refused", "dead"
    rest, d,   \* the arguments not looked at yet; the slot to fill next
    param_role,
    disk,      \* slot -> the device in it
    layoutmapping,
    can_recover, max_events, events_in_sync, may_verify_parity,
    space,     \* p_space and d_space: a block per column
    pc, acc,   \* of a reader: where it is; its access
    at,        \* chunk, cut, round s, retval and retval_add of its loops
    column, failmap, \* the next column to read, those that failed
    data, errs,\* what it stored in its buffer and its error map so far
    errors     \* blocks that could not be read so far

scan == <<rest, d, param_role>>
assembled == <<disk, layoutmapping, can_recover, max_events, events_in_sync,
               may_verify_parity>>
reader == <<pc, acc, at, column, failmap, data, errs>>
vars == <<arr, phase, scan, assembled, space, reader, errors>>

n == arr.n
p == IF arr.level = 6 THEN 2 ELSE 1
ndata == n - p
Slots == 0..n - 1
layout == IF arr.level = 4 THEN RAID4 ELSE arr.layout

Missing == [kind |-> "missing"]
NoDisk == [kind |-> "none", events |-> 0]
Garbage(e) == [kind |-> "none", events |-> e]  \* memory nobody wrote to
Idle == [chunk |-> 0, cut |-> WholeChunk(1, 1), s |-> 0, retval |-> 0, add |-> 0]

Init ==
    /\ arr \in Arrays
    /\ phase = "scan" /\ rest = arr.args /\ d = 0 /\ param_role = 0
    /\ \E e \in {0, 2} : disk = [s \in Slots |-> Garbage(e)]
    /\ layoutmapping = [r \in Slots |-> -1]
    /\ can_recover = TRUE /\ max_events = 0
    /\ events_in_sync = FALSE /\ may_verify_parity = FALSE
    /\ space = [c \in Slots |-> 0] /\ errors = 0
    /\ pc = [r \in Readers |-> "idle"]
    /\ acc = [r \in Readers |-> [first |-> 0, num |-> 0, short |-> FALSE]]
    /\ at = [r \in Readers |-> Idle]
    /\ column = [r \in Readers |-> 0]
    /\ failmap = [r \in Readers |-> {}]
    /\ data = [r \in Readers |-> <<>>] /\ errs = [r \in Readers |-> <<>>]

(***************************************************************************)
(* raid6_init: one turn of its loop for each argument.                     *)
(***************************************************************************)
Scanning == phase = "scan" /\ rest # <<>>
Dev == Head(rest)
NextArg == rest' = Tail(rest) /\ UNCHANGED <<arr, space, reader, errors>>

SkipMissing ==
    /\ Scanning /\ Dev.kind = "missing"
    /\ param_role' = param_role + 1 /\ NextArg
    /\ UNCHANGED <<phase, d, assembled>>

\* The arguments describe the array: no super block is read, and the fields
\* about events stay as zmalloc and malloc left them.
ByParam ==
    /\ Scanning /\ Dev.kind # "missing" /\ arr.byParam
    /\ disk' = [disk EXCEPT ![d] = [Dev EXCEPT !.events = disk[d].events]]
    /\ layoutmapping' = [layoutmapping EXCEPT ![param_role] = d]
    /\ d' = d + 1 /\ param_role' = param_role + 1 /\ NextArg
    /\ UNCHANGED <<phase, can_recover, max_events, events_in_sync,
                   may_verify_parity>>

BySuperBlock == Scanning /\ Dev.kind # "missing" /\ ~arr.byParam

\* What memcmp compares of two super blocks: the part about the whole array.
Header(x) == <<x.events, x.active>>
Differs == d > 0 /\ Header(Dev) # Header(disk[0])
\* The device and not the ones before it is kept, or the other way round.
SupersedesNewer == Differs /\ can_recover /\ disk[0].events >= Dev.events

Supersedes == Differs /\ can_recover /\ disk[0].events <= Dev.events

Outdated == Differs /\ can_recover /\ ~Supersedes
TooManyFailed == d > 0 /\ can_recover /\ Dev.active < n - p
IsSpare == Dev.role >= n
RoleTaken ==
    ~IsSpare /\ ~Outdated /\ ~Supersedes /\ layoutmapping[Dev.role] # -1

\* An unreadable or inconsistent super block, or a role that is taken.
Refuse ==
    /\ BySuperBlock
    /\ \/ Dev.kind = "bad"
       \/ ~TooManyFailed /\ RoleTaken
    /\ phase' = "refused" /\ UNCHANGED <<arr, scan, assembled, space, reader, errors>>

\* Too many failed disks: the scan starts again, and this time keeps all.
Restart ==
    /\ BySuperBlock /\ Dev.kind = "dev" /\ TooManyFailed
    /\ can_recover' = FALSE /\ rest' = arr.args /\ d' = 0 /\ param_role' = 0
    /\ layoutmapping' = [r \in Slots |-> -1]
    /\ max_events' = IF Differs /\ Dev.events > max_events THEN Dev.events
                     ELSE max_events
    /\ events_in_sync' = (events_in_sync /\ ~(Differs /\ max_events # Dev.events))
    /\ may_verify_parity' =
         (may_verify_parity \/ (Differs /\ max_events # Dev.events))
    /\ LET x == [Dev EXCEPT !.events = disk[d].events]
       IN  disk' = IF Supersedes THEN [disk EXCEPT ![d] = x, ![0] = x]
                   ELSE [disk EXCEPT ![d] = x]
    /\ UNCHANGED <<arr, phase, space, reader, errors>>

TakeDisk ==
    /\ BySuperBlock /\ Dev.kind = "dev" /\ ~TooManyFailed /\ ~RoleTaken
    /\ LET s    == IF Supersedes THEN 0 ELSE d
           kick == Outdated \/ IsSpare
           kept == IF Supersedes THEN [r \in Slots |-> -1] ELSE layoutmapping
           news == Differs /\ max_events # Dev.events
       IN  /\ disk' = [disk EXCEPT ![d] = Dev,
                                   ![s] = IF kick THEN NoDisk ELSE Dev]
           /\ layoutmapping' =
                IF kick THEN kept ELSE [kept EXCEPT ![Dev.role] = s]
           /\ d' = IF kick THEN s ELSE s + 1
           /\ max_events' = IF d = 0 \/ (news /\ Dev.events > max_events)
                            THEN Dev.events ELSE max_events
           /\ events_in_sync' = (d = 0 \/ (events_in_sync /\ ~news))
           /\ may_verify_parity' = (may_verify_parity \/ news)
    /\ NextArg /\ UNCHANGED <<phase, param_role, can_recover>>

\* The device is registered; with no component at all nothing is read.
Register ==
    /\ phase = "scan" /\ rest = <<>>
    /\ phase' = IF d > 0 THEN "ready" ELSE "refused"
    /\ UNCHANGED <<arr, scan, assembled, space, reader, errors>>

(***************************************************************************)
(* raid6_do_read: for every chunk of the access its rounds, one stripe     *)
(* each; d_buffer_ptr points into the caller's buffer where a column is    *)
(* part of the round.                                                      *)
(***************************************************************************)
B(r) == Bounds(arr.cs, ndata, acc[r].first, acc[r].num)
Needed(r) == at[r].cut.disk..at[r].cut.disk + at[r].cut.disks - 1
\* Where the block of a needed column goes in the buffer.
Offset(r, c) == at[r].retval + at[r].s + (c - at[r].cut.disk) * arr.cs
Role(r) == RoleOfColumn(layout, n, p, at[r].chunk)
Store(buf, o, v) == [x \in DOMAIN buf \cup {o} |-> IF x = o THEN v ELSE buf[x]]
StoreAll(buf, os, val(_)) ==
    [x \in DOMAIN buf \cup os |-> IF x \in os THEN val(x) ELSE buf[x]]

Request(r) ==
    /\ phase = "ready" /\ pc[r] = "idle"
    /\ arr.shared \/ \A q \in Readers : pc[q] = "idle"
    /\ \E a \in arr.accesses, short \in BOOLEAN :
         LET b == Bounds(arr.cs, ndata, a[1], a[2])
         IN  /\ acc' = [acc EXCEPT ![r] =
                          [first |-> a[1], num |-> a[2], short |-> short]]
             /\ at' = [at EXCEPT ![r] = [Idle EXCEPT !.chunk = b.chunk,
                                   !.cut = Cut(arr.cs, ndata, b, b.chunk)]]
    /\ pc' = [pc EXCEPT ![r] = "column"]
    /\ column' = [column EXCEPT ![r] = 0] /\ failmap' = [failmap EXCEPT ![r] = {}]
    /\ data' = [data EXCEPT ![r] = <<>>] /\ errs' = [errs EXCEPT ![r] = <<>>]
    /\ UNCHANGED <<arr, phase, scan, assembled, space, errors>>

(***************************************************************************)
(* raid6_read_stripe                                                       *)
(***************************************************************************)
\* The role and column of the block b of a chunk, by the formulas above
\* raid6_get_role_mapping_for_chunk, with didx for data and i for P and Q.
FormulaParity(chunk, i) ==
    LET pidx == CASE layout = RAID4    -> n - p
                  [] layout \in {1, 3} -> chunk % n
                  [] OTHER             -> n - 1 - (chunk % n)
    IN  (pidx + i) % n
FormulaData(chunk, didx) ==
    LET pidx == FormulaParity(chunk, 0)
        Skip(x, i) == IF x >= (pidx + i) % n THEN x + 1 ELSE x
    IN  CASE layout = RAID4    -> didx
          [] layout \in {2, 3} -> (pidx + p + didx) % n
          [] OTHER             -> IF p = 1 THEN Skip(didx, 0)
                                  ELSE Skip(Skip(didx, 0), 1)

\* What was written: version v of block b, and the stripe of each version.
Block(b, v) == IF v = 2 THEN b + 1 ELSE (b + 1) ^^ 128
Stripe(chunk, stripe, v) ==
    LET width == ndata + 2
    IN  raid6_gen_syndromes(width, [c \in 0..width - 1 |->
          IF c < ndata THEN Block((chunk * ndata + c) * arr.cs + stripe, v)
          ELSE 0])
ColumnByFormula(chunk, role) ==
    CHOOSE c \in Slots : role = IF c < ndata THEN FormulaData(chunk, c)
                                ELSE FormulaParity(chunk, c - ndata)
Version(dev) == IF arr.byParam THEN 2 ELSE dev.events
OnDevice(dev, chunk, stripe) ==
    Stripe(chunk, stripe, Version(dev))[ColumnByFormula(chunk, dev.role)]

\* What dataptrs point to: the caller's buffer or the device's space.
View(r) == [c \in Slots |-> IF c \in Needed(r) /\ c < ndata
                            THEN data[r][Offset(r, c)] ELSE space[c]]
PutColumn(r, c, v) ==
    IF c \in Needed(r) /\ c < ndata
    THEN data' = [data EXCEPT ![r] = Store(@, Offset(r, c), v)] /\ UNCHANGED space
    ELSE space' = [space EXCEPT ![c] = v] /\ UNCHANGED data

\* The access ends, with retval blocks.
Return(r, retval) ==
    /\ pc' = [pc EXCEPT ![r] = "done"]
    /\ at' = [at EXCEPT ![r].retval = retval]

ReadColumn(r) ==
    /\ pc[r] = "column" /\ column[r] < n
    /\ LET c == column[r]
           slot == layoutmapping[Role(r)[c]]
       IN  /\ slot # -1
           /\ PutColumn(r, c, OnDevice(disk[slot], at[r].chunk, at[r].cut.stripe))
    /\ column' = [column EXCEPT ![r] = @ + 1]
    /\ UNCHANGED <<arr, phase, scan, assembled, pc, acc, at, failmap, errs, errors>>

EnoughFailed(r) == Cardinality(failmap[r]) > p
TooManyFail(r) == Cardinality(failmap[r]) = p

\* A component is missing, or bdev_read fails: the block is left to
\* recovery, unless there are as many already as there are parities.
ColumnFails(r) ==
    /\ pc[r] = "column" /\ column[r] < n
    /\ LET c == column[r]
           slot == layoutmapping[Role(r)[c]]
       IN  /\ slot # -1 => errors < arr.maxErrors
           /\ errors' = IF slot # -1 THEN errors + 1 ELSE errors
           /\ IF TooManyFail(r)
              THEN /\ Return(r, at[r].retval + at[r].s)
                   /\ UNCHANGED <<column, failmap, data>>
              ELSE /\ failmap' = [failmap EXCEPT ![r] = @ \cup {c}]
                   /\ column' = [column EXCEPT ![r] = @ + 1]
                   /\ data' = IF c \in Needed(r) /\ Offset(r, c) \notin DOMAIN data[r]
                              THEN [data EXCEPT ![r] = Store(@, Offset(r, c), 0)]
                              ELSE data
                   /\ UNCHANGED <<pc, at>>
    /\ UNCHANGED <<arr, phase, scan, assembled, space, acc, errs>>

\* The recovered blocks go where the columns are.
Recover(r) ==
    /\ pc[r] = "column" /\ column[r] = n
    /\ LET width == ndata + 2
           full == [c \in 0..width - 1 |-> IF c < n THEN View(r)[c] ELSE 0]
           rec  == raid6_recover(width, failmap[r], full)
           mine == {c \in failmap[r] : c \in Needed(r) /\ c < ndata}
       IN  /\ data' = [data EXCEPT ![r] =
                 StoreAll(@, {Offset(r, c) : c \in mine},
                          LAMBDA o : rec[CHOOSE c \in mine : Offset(r, c) = o])]
           /\ space' = [c \in Slots |->
                          IF c \in failmap[r] \ mine THEN rec[c] ELSE space[c]]
    /\ pc' = [pc EXCEPT ![r] = "verify"]
    /\ UNCHANGED <<arr, phase, scan, assembled, acc, at, column, failmap, errs,
                   errors>>

\* Whether the parities are compared.  The counter of events is looked up
\* under mapping[d] where d is a slot already.
DoVerify(r) ==
    LET slot(c) == layoutmapping[Role(r)[c]]
        need == {c \in Needed(r) : c < ndata}
    IN  /\ ~events_in_sync
        /\ ~(\A c \in need :
                slot(c) # -1 /\ disk[Role(r)[slot(c)]].events = max_events)
Verifying(r) == DoVerify(r) /\ Cardinality(failmap[r]) # p
Syndrome(r) ==
    LET width == ndata + 2
    IN  raid6_gen_syndromes(width,
          [c \in 0..width - 1 |-> IF c < ndata THEN View(r)[c] ELSE 0])
Mismatch(r) == \E c \in ndata..n - 1 : Syndrome(r)[c] # View(r)[c]
DiffMask(r) ==
    LET x(c) == Syndrome(r)[c] ^^ View(r)[c]
    IN  IF p = 1 THEN x(ndata) ELSE x(ndata) | x(ndata + 1)
\* The program ends: v_space was never allocated, or the code of the repair
\* is reached, whose first statement is assert_never_reached.
Dies(r) ==
    may_verify_parity =>
      IF Mismatch(r) THEN 1 < p - Cardinality(failmap[r]) ELSE failmap[r] # {}

Die(r) ==
    /\ pc[r] = "verify" /\ Verifying(r) /\ Dies(r)
    /\ phase' = "dead" /\ pc' = [q \in Readers |-> "dead"]
    /\ UNCHANGED <<arr, scan, assembled, space, acc, at, column, failmap, data,
                   errs, errors>>

\* The stripe is refused: there is no error map to report the mismatch in.
MismatchFails(r) ==
    /\ pc[r] = "verify" /\ Verifying(r) /\ ~Dies(r) /\ Mismatch(r)
    /\ ~acc[r].short
    /\ Return(r, at[r].retval + at[r].s)
    /\ UNCHANGED <<arr, phase, scan, assembled, space, acc, column, failmap,
                   data, errs, errors>>

\* The error map gets the mismatch, or nothing where it was not looked for;
\* it is not touched where the parities were compared and found right.
\* Then the next round, the next chunk, or the end of the access.
StripeDone(r) ==
    /\ pc[r] = "verify" /\ ~(Verifying(r) /\ Dies(r))
    /\ ~(Verifying(r) /\ Mismatch(r) /\ ~acc[r].short)
    /\ errs' =
         IF ~acc[r].short \/ (Verifying(r) /\ ~Mismatch(r)) THEN errs
         ELSE LET os == {Offset(r, c) : c \in {x \in Needed(r) : x < ndata}}
                  mask == IF Verifying(r) THEN DiffMask(r) ELSE 0
              IN  [errs EXCEPT ![r] = StoreAll(@, os, LAMBDA o : mask)]
    /\ LET t == at[r]
           add == t.add + Cardinality({c \in Needed(r) : c < ndata})
           cut == NextRound(arr.cs, t.cut)
       IN  CASE cut.rounds > 0 ->
                  /\ at' = [at EXCEPT ![r] =
                              [t EXCEPT !.cut = cut, !.s = @ + 1, !.add = add]]
                  /\ pc' = [pc EXCEPT ![r] = "column"]
             [] cut.rounds <= 0 /\ t.chunk < B(r).lchunk ->
                  /\ at' = [at EXCEPT ![r] =
                              [chunk |-> t.chunk + 1, s |-> 0, add |-> 0,
                               retval |-> t.retval + add,
                               cut |-> Cut(arr.cs, ndata, B(r), t.chunk + 1)]]
                  /\ pc' = [pc EXCEPT ![r] = "column"]
             [] OTHER -> Return(r, t.retval + add)
    /\ column' = [column EXCEPT ![r] = 0] /\ failmap' = [failmap EXCEPT ![r] = {}]
    /\ UNCHANGED <<arr, phase, scan, assembled, space, acc, data, errors>>

Next ==
    \/ SkipMissing \/ ByParam \/ Refuse \/ Restart \/ TakeDisk \/ Register
    \/ \E r \in Readers :
         \/ Request(r) \/ ReadColumn(r) \/ ColumnFails(r) \/ Recover(r)
         \/ Die(r) \/ MismatchFails(r) \/ StripeDone(r)

Spec == Init /\ [][Next]_vars

(***************************************************************************)
(* Properties                                                              *)
(***************************************************************************)
TypeOK ==
    /\ phase \in {"scan", "ready", "refused", "dead"}
    /\ d \in 0..n /\ Len(rest) <= n /\ errors \in 0..arr.maxErrors
    /\ layoutmapping \in [Slots -> -1..n - 1]
    /\ \A r \in Readers :
         /\ pc[r] \in {"idle", "column", "verify", "done", "dead"}
         /\ column[r] \in 0..n /\ failmap[r] \subseteq Slots
         /\ Cardinality(failmap[r]) <= p

Members == {i \in 1..n : arr.args[i].kind = "dev" /\ arr.args[i].role < n}

\* Whatever the order of the arguments (raid6.c:930-990), the roles of the
\* array are held by the devices that say so, each by one, and while the
\* array can be recovered none of them is older than another member.
RolesHeld ==
    phase = "ready" /\ ~arr.byParam =>
      \A r \in Slots : layoutmapping[r] # -1 =>
        LET dev == disk[layoutmapping[r]]
        IN  /\ dev.kind = "dev" /\ dev.role = r
            /\ \A q \in Slots \ {r} : layoutmapping[q] # layoutmapping[r]
            /\ can_recover =>
                 \A i \in Members : arr.args[i].events <= dev.events

InSync == arr.byParam \/ events_in_sync
Newest == IF \E i \in Members : Version(arr.args[i]) = 2 THEN 2 ELSE 1
Asked(r) == 0..acc[r].num - 1

\* raid6.c:2512 counts 8 rounds for an access to more than two columns that
\* begins and ends inside the same chunk, whatever the size of the chunk.
EightRounds(r) ==
    LET b == B(r)
    IN  /\ b.chunk = b.lchunk /\ b.disk + 1 < b.ldisk
        /\ StartsInside(b) /\ EndsInside(arr.cs, ndata, b)

\* An access returns what was written last, every block at its place in the
\* buffer and nothing beside it, and returns all of it unless more blocks of
\* a stripe were lost than there are parities (raid6.c:2491-2612: the rounds
\* of an access that is cut; raid6.c:1555-1681: recovery).  That is not so
\* for the accesses with 8 rounds unless a chunk has 8 blocks, nor for an
\* array of which too many components failed (~can_recover).
ReadsRight ==
    \A r \in Readers : can_recover /\ (EightRounds(r) => arr.cs = 8) =>
      /\ pc[r] # "idle" => DOMAIN data[r] \subseteq Asked(r)
      /\ pc[r] = "done" =>
           /\ \A k \in 0..at[r].retval - 1 :
                /\ k \in DOMAIN data[r]
                /\ data[r][k] = Block(acc[r].first + k, Newest)
           /\ InSync /\ Cardinality(failmap[r]) < p => at[r].retval = acc[r].num
=============================================================================
