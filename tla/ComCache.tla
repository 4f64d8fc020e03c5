------------------------------ MODULE ComCache ------------------------------
(***************************************************************************)
(* The cluster owner map cache (fs/ext2/com_cache.c, fs/ext2/bitmap.c):    *)
(* the map is cut into groups of clusters; a group is compressed, or has   *)
(* an uncompressed entry in memory that the threads of the fsck (Clients)  *)
(* get, use and release, that com_cache_work compresses again and drops    *)
(* when there are too many.                                                *)
(*                                                                         *)
(* com_cache_work is called by a thread of its own if                      *)
(* allow_com_cache_thread, by comc_move_front otherwise.  What is done     *)
(* under the lock of the cache, sc->comc.debug_lock (CC_LOCK), is one      *)
(* step; what the code reads without it has a step of its own.             *)
(*                                                                         *)
(* CC_LOCK and CCE_LOCK do nothing unless allow_com_cache_thread.  Without *)
(* the thread this module is therefore only about a program whose main     *)
(* thread alone uses the cache (CacheScope): one built without THREADS or  *)
(* without ALLOW_CONCURRENT_CHK_BLOCK_FUNCTION.  The conf.h that comes     *)
(* with the code (no com cache thread, but workers that check), and a      *)
(* com_cache_thread that cannot be started (fsck.c:1307), leave several    *)
(* clients without any lock, and nothing here holds for them.              *)
(*                                                                         *)
(* The owners in a group are abstracted to whether a copy of them has all  *)
(* the stores: "behind" are the groups whose compressed copy lacks one,    *)
(* "lost" those whose entry in memory does.                                *)
(***************************************************************************)
EXTENDS Integers, Sequences, FiniteSets

CONSTANTS Clients,
          Groups,                    \* the indices of sc->comc.ccgroup
          Nobody,                    \* the owner of a free lock, no group
          Cct,                       \* com_cache_work as the owner of a lock
          allow_com_cache_thread,
          MAX_COMC_IN_MEMORY,
          MAX_COMC_DIRTY

ASSUME CacheAssumption ==
    /\ IsFiniteSet(Clients) /\ IsFiniteSet(Groups)
    /\ Nobody \notin Clients \cup Groups \cup {Cct}
    /\ Cct \notin Clients
    /\ allow_com_cache_thread \in BOOLEAN
    /\ MAX_COMC_IN_MEMORY \in Nat /\ MAX_COMC_DIRTY \in Nat
    /\ MAX_COMC_DIRTY < MAX_COMC_IN_MEMORY
    /\ Cardinality(Clients) < MAX_COMC_DIRTY

OnlyMainThread == ~allow_com_cache_thread /\ Cardinality(Clients) = 1
ASSUME CacheScope == allow_com_cache_thread \/ OnlyMainThread

VARIABLES
    list,            \* the groups from comc.head to comc.tail
    present,         \* the groups with ccgroup[g] # NULL
    num_in_memory,
    num_in_use,      \* num_in_use[g], while g is present
    cce,             \* cce[g]: the owner of the lock of the entry
    dirty,           \* the groups whose entry is marked dirty
    behind, lost,    \* see above
    pc, at,          \* where a client is, and with which group
    call,            \* why it is or was last in comc_move_front
    wpc, wat,        \* where com_cache_work is, and with which group
    woken,           \* com_cache_thread_lock->locked is not -1
    failed           \* how the program died: "no", "null_prev", "assert"

vars == <<list, present, num_in_memory, num_in_use, cce, dirty, behind, lost,
          pc, at, call, wpc, wat, woken, failed>>
data == <<dirty, behind, lost>>
dir  == <<present, num_in_memory>>
work == <<wpc, wat>>
other == <<call, woken, failed>>

ClientLabels == {"idle", "load", "wake", "lock", "use", "release", "unlock",
                 "dec",
                 "work", "front", "relink"}   \* in comc_move_front

(* comc_move_front is called for a new entry (comc_get), for any entry     *)
(* (get_com_cache_entry) and by release; where the client goes on after it:*)
Calls == {"new", "get", "release"}
Return == [k \in Calls |-> CASE k = "new" -> "wake"
                             [] k = "get" -> "use"
                             [] k = "release" -> "unlock"]
WorkLabels == {"off", "scan", "lock", "store", "done", "true", "false",
               "wait", "reset"}

Init ==
    /\ list = <<>> /\ present = {} /\ num_in_memory = 0
    /\ num_in_use = [g \in Groups |-> 0]
    /\ cce = [g \in Groups |-> Nobody]
    /\ dirty = {} /\ behind = {} /\ lost = {}
    /\ pc = [c \in Clients |-> "idle"]
    /\ at = [c \in Clients |-> Nobody]
    /\ call = [c \in Clients |-> "new"]
    /\ wpc = IF allow_com_cache_thread THEN "scan" ELSE "off"
    /\ wat = Nobody
    /\ woken = FALSE
    /\ failed = "no"

Goto(c, from, to) ==
    /\ failed = "no"
    /\ pc[c] = from
    /\ pc' = [pc EXCEPT ![c] = to]

WorkGoto(from, to) == failed = "no" /\ wpc = from /\ wpc' = to

(* The list without the entry g, which is in it once. *)
Without(s, g) ==
    LET k == CHOOSE i \in DOMAIN s : s[i] = g
    IN  [i \in 1..(Len(s) - 1) |-> IF i < k THEN s[i] ELSE s[i + 1]]

(* Entering comc_move_front; its first step without a thread is "work". *)
MoveFront(c, from, why) ==
    /\ Goto(c, from, IF allow_com_cache_thread THEN "front" ELSE "work")
    /\ call' = [call EXCEPT ![c] = why]

-----------------------------------------------------------------------------
(* get_com_cache_entry *)

\* Variant: the new entry is not counted as used.
GetNewUnused(c, g) ==
    /\ g \notin present
    /\ Goto(c, "idle", "load")
    /\ at' = [at EXCEPT ![c] = g]
    /\ present' = present \cup {g}
    /\ num_in_memory' = num_in_memory + 1
    /\ cce' = [cce EXCEPT ![g] = c]
    /\ UNCHANGED <<list, num_in_use, data, work, other>>

GetNew(c, g) ==
    /\ g \notin present
    /\ Goto(c, "idle", "load")
    /\ at' = [at EXCEPT ![c] = g]
    /\ present' = present \cup {g}
    /\ num_in_memory' = num_in_memory + 1
    /\ num_in_use' = [num_in_use EXCEPT ![g] = 1]
    /\ cce' = [cce EXCEPT ![g] = c]
    /\ UNCHANGED <<list, data, work, other>>

GetKnown(c, g) ==
    /\ g \in present
    /\ Goto(c, "idle", "lock")
    /\ at' = [at EXCEPT ![c] = g]
    /\ num_in_use' = [num_in_use EXCEPT ![g] = @ + 1]
    /\ UNCHANGED <<list, dir, cce, data, work, other>>

(* CCE_LOCK: the thread that loads or uses the entry is waited for. *)
LockEntry(c) ==
    /\ MoveFront(c, "lock", "get")
    /\ cce[at[c]] = Nobody
    /\ cce' = [cce EXCEPT ![at[c]] = c]
    /\ UNCHANGED <<list, dir, num_in_use, data, at, work, woken, failed>>

(* comc_get: the entry is made of the compressed copy, if there is one. *)
Load(c) ==
    /\ MoveFront(c, "load", "new")
    /\ lost' = IF at[c] \in behind THEN lost \cup {at[c]} ELSE lost
    /\ dirty' = dirty \ {at[c]}
    /\ UNCHANGED <<list, dir, num_in_use, cce, behind, at, work, woken, failed>>

(* comc_move_front(sc, walk, true) *)
FrontNew(c) ==
    /\ call[c] = "new"
    /\ Goto(c, "front", Return[call[c]])
    /\ list' = <<at[c]>> \o list
    /\ UNCHANGED <<dir, num_in_use, cce, data, at, work, other>>

(* CCT_WAKE, which does nothing without the thread. *)
WakeCct(c) ==
    /\ MoveFront(c, "wake", "get")
    /\ woken' = (woken \/ allow_com_cache_thread)
    /\ UNCHANGED <<list, dir, num_in_use, cce, data, at, work, failed>>

-----------------------------------------------------------------------------
(* comc_move_front(sc, walk, false) *)

\* Variant: the entry is waited for to get to the front.
CheckPrevRetry(c) ==
    /\ call[c] # "new"
    /\ Goto(c, "front", IF list[1] = at[c] THEN Return[call[c]] ELSE "work")
    /\ UNCHANGED <<list, dir, num_in_use, cce, data, at, work, other>>

(* walk->prev is read before CC_LOCK. *)
CheckPrev(c) ==
    /\ call[c] # "new"
    /\ Goto(c, "front",
            IF list[1] = at[c] THEN Return[call[c]] ELSE "relink")
    /\ UNCHANGED <<list, dir, num_in_use, cce, data, at, work, other>>

\* Variant: the entry is put in front without being unlinked.
RelinkTwice(c) ==
    /\ Goto(c, "relink", Return[call[c]])
    /\ list' = <<at[c]>> \o list
    /\ UNCHANGED <<dir, num_in_use, cce, data, at, work, other>>

(* walk->prev->next = walk->next, and walk is the new head.  If everything *)
(* in front of walk was dropped in between, walk->prev is NULL.            *)
Relink(c) ==
    /\ Goto(c, "relink", Return[call[c]])
    /\ IF list[1] = at[c]
       THEN failed' = "null_prev" /\ UNCHANGED list
       ELSE list' = <<at[c]>> \o Without(list, at[c]) /\ UNCHANGED failed
    /\ UNCHANGED <<dir, num_in_use, cce, data, at, work, woken, call>>

-----------------------------------------------------------------------------
(* bitmap.c, while the entry is locked, and release *)

GetOwner(c) ==
    /\ Goto(c, "use", "release")
    /\ UNCHANGED <<list, dir, num_in_use, cce, data, at, work, other>>

(* set_owner, and set_owners as far as it stores something. *)
SetOwner(c) ==
    /\ Goto(c, "use", "release")
    /\ dirty' = dirty \cup {at[c]}
    /\ behind' = behind \cup {at[c]}
    /\ UNCHANGED <<list, dir, num_in_use, cce, lost, at, work, other>>

(* set_owners, if the first cluster already has an owner. *)
SetOwnersNone(c) ==
    /\ Goto(c, "use", "release")
    /\ dirty' = dirty \cup {at[c]}
    /\ UNCHANGED <<list, dir, num_in_use, cce, behind, lost, at, work, other>>

(* num_in_use is read without CC_LOCK. *)
Release(c) ==
    /\ \/ /\ MoveFront(c, "release", "release")
          /\ num_in_use[at[c]] = 1
       \/ /\ Goto(c, "release", "unlock")
          /\ num_in_use[at[c]] # 1
          /\ UNCHANGED call
    /\ UNCHANGED <<list, dir, num_in_use, cce, data, at, work, woken, failed>>

UnlockEntry(c) ==
    /\ Goto(c, "unlock", "dec")
    /\ cce' = [cce EXCEPT ![at[c]] = Nobody]
    /\ UNCHANGED <<list, dir, num_in_use, data, at, work, other>>

DropUse(c) ==
    /\ Goto(c, "dec", "idle")
    /\ num_in_use' = [num_in_use EXCEPT ![at[c]] = @ - 1]
    /\ at' = [at EXCEPT ![c] = Nobody]
    /\ call' = [call EXCEPT ![c] = "new"]   \* not used until it is set again
    /\ UNCHANGED <<list, dir, cce, data, work, woken, failed>>

(* Without a thread the client is com_cache_work until that returns. *)
CallWork(c) ==
    /\ pc[c] = "work"
    /\ WorkGoto("off", "scan")
    /\ UNCHANGED <<list, dir, num_in_use, cce, data, pc, at, wat, other>>

WorkReturns(c) ==
    /\ ~allow_com_cache_thread
    /\ wpc \in {"true", "false"}
    /\ Goto(c, "work", "front")
    /\ wpc' = "off"
    /\ UNCHANGED <<list, dir, num_in_use, cce, data, at, wat, other>>

-----------------------------------------------------------------------------
(* com_cache_work *)

Last(S) == CHOOSE i \in S : \A j \in S : j <= i

(* How many entries from comc.tail on are looked at for one to write out,  *)
(* and those of them that are not used and dirty.                          *)
Surplus == num_in_memory - MAX_COMC_DIRTY

Writable == {i \in DOMAIN list : /\ i > Len(list) - Surplus
                                 /\ num_in_use[list[i]] = 0
                                 /\ list[i] \in dirty}

\* Variant: the limit is taken for a number that may be reached.
DropOneLate(use) ==
    LET droppable == {i \in DOMAIN list : /\ use[list[i]] = 0
                                           /\ list[i] \notin dirty}
    IN  IF num_in_memory > MAX_COMC_IN_MEMORY + 1 /\ droppable # {}
        THEN LET g == list[Last(droppable)]
             IN  /\ list' = Without(list, g)
                 /\ present' = present \ {g}
                 /\ num_in_memory' = num_in_memory - 1
        ELSE UNCHANGED <<list, dir>>

(* The last entry in the list that is neither used nor dirty is dropped,   *)
(* if there are too many.                                                  *)
DropOne(use) ==
    LET droppable == {i \in DOMAIN list : /\ use[list[i]] = 0
                                           /\ list[i] \notin dirty}
    IN  IF num_in_memory >= MAX_COMC_IN_MEMORY /\ droppable # {}
        THEN LET g == list[Last(droppable)]
             IN  /\ list' = Without(list, g)
                 /\ present' = present \ {g}
                 /\ num_in_memory' = num_in_memory - 1
        ELSE UNCHANGED <<list, dir>>

ScanFinds ==
    /\ WorkGoto("scan", "lock")
    /\ Writable # {}
    /\ wat' = list[Last(Writable)]
    /\ num_in_use' = [num_in_use EXCEPT ![wat'] = @ + 1]
    /\ UNCHANGED <<list, dir, cce, data, pc, at, other>>

(* The loop ends with assert(walk) if the entries to look at are more than *)
(* there are in front of the last of them.                                 *)
ScanFindsNothing ==
    /\ WorkGoto("scan", "false")
    /\ Writable = {}
    /\ IF Surplus > 0 /\ Len(list) <= Surplus
       THEN failed' = "assert" /\ UNCHANGED <<list, dir>>
       ELSE DropOne(num_in_use) /\ UNCHANGED failed
    /\ UNCHANGED <<num_in_use, cce, data, pc, at, wat, woken, call>>

\* Variant: the entry is compressed while a client may use it.
CompressUnlocked ==
    /\ WorkGoto("lock", "store")
    /\ behind' = behind \ {wat}
    /\ UNCHANGED <<list, dir, num_in_use, cce, dirty, lost, pc, at, wat, other>>

(* CCE_LOCK, then the entry is compressed as it is now. *)
Compress ==
    /\ WorkGoto("lock", "store")
    /\ cce[wat] = Nobody
    /\ cce' = [cce EXCEPT ![wat] = Cct]
    /\ behind' = behind \ {wat}
    /\ UNCHANGED <<list, dir, num_in_use, dirty, lost, pc, at, wat, other>>

\* Variant: the entry stays locked.
StoreCompressedLocked ==
    /\ WorkGoto("store", "done")
    /\ dirty' = dirty \ {wat}
    /\ UNCHANGED <<list, dir, num_in_use, cce, behind, lost, pc, at, wat,
                   other>>

StoreCompressed ==
    /\ WorkGoto("store", "done")
    /\ dirty' = dirty \ {wat}
    /\ cce' = [cce EXCEPT ![wat] = Nobody]
    /\ UNCHANGED <<list, dir, num_in_use, behind, lost, pc, at, wat,
                   other>>

Written ==
    /\ WorkGoto("done", "true")
    /\ num_in_use' = [num_in_use EXCEPT ![wat] = @ - 1]
    /\ DropOne(num_in_use')
    /\ wat' = Nobody
    /\ UNCHANGED <<cce, data, pc, at, other>>

-----------------------------------------------------------------------------
(* com_cache_thread *)

WorkAgain ==
    /\ allow_com_cache_thread
    /\ WorkGoto("true", "scan") \/ WorkGoto("false", "wait")
    /\ UNCHANGED <<list, dir, num_in_use, cce, data, pc, at, wat, other>>

(* btlock_wait returns when woken, or on a signal, and then resets. *)
WaitReturns ==
    /\ WorkGoto("wait", "reset")
    /\ UNCHANGED <<list, dir, num_in_use, cce, data, pc, at, wat, other>>

WaitResets ==
    /\ WorkGoto("reset", "scan")
    /\ woken' = FALSE
    /\ UNCHANGED <<list, dir, num_in_use, cce, data, pc, at, wat, failed, call>>

Work == \/ ScanFinds \/ ScanFindsNothing
        \/ Compress \/ StoreCompressed \/ Written
        \/ WorkAgain \/ (woken /\ WaitReturns) \/ WaitResets

ClientStep(c) ==
    \/ LockEntry(c) \/ Load(c) \/ FrontNew(c) \/ WakeCct(c)
    \/ CheckPrev(c) \/ Relink(c)
    \/ GetOwner(c) \/ SetOwner(c) \/ SetOwnersNone(c)
    \/ Release(c) \/ UnlockEntry(c) \/ DropUse(c)
    \/ CallWork(c) \/ WorkReturns(c)

Get(c) == \E g \in Groups : GetNew(c, g) \/ GetKnown(c, g)

Next == \/ Work
        \/ WaitReturns
        \/ \E c \in Clients : Get(c) \/ ClientStep(c)

(* The threads are scheduled; a client need not ask for another group.     *)
Fairness == WF_vars(Work) /\ \A c \in Clients : WF_vars(ClientStep(c))

Spec == Init /\ [][Next]_vars /\ Fairness

-----------------------------------------------------------------------------
Holders(g) == {c \in Clients : at[c] = g} \cup (IF wat = g THEN {Cct} ELSE {})

Elements(s) == {s[i] : i \in DOMAIN s}

TypeOK ==
    /\ list \in Seq(Groups)
    /\ present \subseteq Groups
    /\ num_in_memory \in Nat
    /\ num_in_use \in [Groups -> Nat]
    /\ cce \in [Groups -> Clients \cup {Cct, Nobody}]
    /\ dirty \subseteq Groups /\ behind \subseteq Groups
    /\ lost \subseteq Groups
    /\ pc \in [Clients -> ClientLabels]
    /\ at \in [Clients -> Groups \cup {Nobody}] /\ call \in [Clients -> Calls]
    /\ wpc \in WorkLabels /\ wat \in Groups \cup {Nobody}
    /\ woken \in BOOLEAN
    /\ failed \in {"no", "null_prev", "assert"}

(* A store never gets lost: every entry is loaded with all the owners set  *)
(* before, and what is not in memory, or may be dropped from it at once,   *)
(* is up to date in its compressed form.                                   *)
NothingLost ==
    /\ lost = {}
    /\ \A g \in behind : /\ g \in Elements(list)
                         /\ g \in dirty \/ cce[g] \in Clients

(* An entry that somebody still refers to is not freed: num_in_use counts  *)
(* the clients that have the entry and com_cache_work, and whoever has it  *)
(* finds it in memory.                                                     *)
UsedEntriesStay ==
    \A g \in Groups :
       /\ g \in present => num_in_use[g] = Cardinality(Holders(g))
       /\ Holders(g) # {} => g \in present

(* assert(walk) in com_cache_work: the entries that are being loaded are   *)
(* counted but not in the list, and there are fewer than MAX_COMC_DIRTY.   *)
ScanStaysInList == failed # "assert"

(* The list has the loaded entries, each once; an entry in memory that is  *)
(* not in it is being loaded; num_in_memory counts them all.  The scan,    *)
(* which counts on that, does not run off the list.                        *)
ListIsConsistent ==
    /\ ScanStaysInList
    /\ num_in_memory = Cardinality(present)
    /\ Cardinality(Elements(list)) = Len(list)
    /\ Elements(list) \subseteq present
    /\ \A g \in present \ Elements(list) :
          \E c \in Clients : at[c] = g /\ cce[g] = c

(* A client that asks for an entry and uses it is not held up for ever by  *)
(* com_cache_work, and com_cache_work is not held up by the clients it     *)
(* shares locks with: always somebody can go on, or all are at rest.       *)
NobodyStuck ==
    failed = "no" =>
       \/ ENABLED Work
       \/ \E c \in Clients : ENABLED ClientStep(c)
       \/ \A c \in Clients : pc[c] = "idle"

(* MAX_COMC_IN_MEMORY, an "upper limit" (conf.h.example), is exceeded by no *)
(* more than the entries just asked for: when nobody uses the cache and    *)
(* com_cache_work has had its turn, it is kept.                            *)
AtRest == /\ \A c \in Clients : pc[c] = "idle"
          /\ wpc \in {"off", "wait"} /\ ~woken
LimitKept == AtRest => num_in_memory <= MAX_COMC_IN_MEMORY

(* At every moment, the entries in memory are no more than that and one.   *)
OneTooMany == num_in_memory <= MAX_COMC_IN_MEMORY + 1

(* If the main thread alone uses the cache, a client that needs an entry gets it, through       *)
(* comc_move_front and com_cache_work, and is done with it some time.      *)
GetReturns == \A c \in Clients : pc[c] # "idle" ~> pc[c] = "idle"

(* "CCE_LOCK(walk) must be held" (com_cache.c) is all that comc_move_front *)
(* asks for: with it, the list cannot change under its hands.              *)
PrevIsThere == failed # "null_prev"

-----------------------------------------------------------------------------
(* Why the invariants above hold.  A client has the lock of its entry from *)
(* the moment it gets it until UnlockEntry, except while it waits for it   *)
(* at "lock"; and the entry is in the list, except while it is loaded.     *)
Locking == ClientLabels \ {"idle", "lock", "dec"}
Loading(c) == \/ pc[c] = "load"
              \/ pc[c] \in {"work", "front"} /\ call[c] = "new"

ClientsHold ==
    /\ \A c \in Clients :
          /\ pc[c] = "idle" <=> at[c] = Nobody
          /\ pc[c] \in Locking => cce[at[c]] = c
          /\ Loading(c) => at[c] \notin Elements(list)
          /\ pc[c] = "relink" => call[c] # "new"
    /\ \A g \in Groups, c \in Clients : cce[g] = c => at[c] = g /\ pc[c] \in Locking

(* com_cache_work holds its entry, and has its lock while it stores.       *)
WorkHolds ==
    /\ wpc \in {"lock", "store", "done"} <=> wat # Nobody
    /\ \A g \in Groups : cce[g] = Cct <=> wpc = "store" /\ wat = g
    /\ wpc = "store" => wat \notin behind

Distinct(s) == \A i, j \in DOMAIN s : s[i] = s[j] => i = j

ListHolds ==
    /\ Distinct(list)
    /\ Elements(list) \subseteq present
    /\ \A g \in present \ Elements(list) : \E c \in Clients : at[c] = g /\ Loading(c)
    /\ num_in_memory = Cardinality(present)

DataHolds ==
    /\ lost = {}
    /\ behind \subseteq dirty
    /\ behind \subseteq Elements(list)

IInv == /\ TypeOK /\ ClientsHold /\ WorkHolds /\ UsedEntriesStay
        /\ ListHolds /\ DataHolds /\ ScanStaysInList

(* If OnlyMainThread, the only client is com_cache_work while that runs:   *)
(* nothing changes under its hands, and com_cache_work, called for a new   *)
(* entry, finds one to drop for it.                                        *)
Overfull(c) == /\ num_in_memory = MAX_COMC_IN_MEMORY + 1 /\ Loading(c)
               /\ \/ pc[c] = "load"
                  \/ pc[c] = "work" /\ wpc \notin {"true", "false"}

WorkAlone ==
    /\ wpc \notin {"wait", "reset"}
    /\ wat \in Elements(list) \cup {Nobody}
    /\ wpc = "done" => wat \notin dirty
    /\ \A c \in Clients :
          /\ wpc # "off" => pc[c] = "work"
          /\ pc[c] = "relink" => list[1] # at[c]
          /\ num_in_memory <= MAX_COMC_IN_MEMORY \/ Overfull(c)
    /\ PrevIsThere

AloneInv == OnlyMainThread => IInv /\ WorkAlone
=============================================================================
