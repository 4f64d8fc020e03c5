----------------------------- MODULE RefCounter -----------------------------
(***************************************************************************)
(* The reference counters of btlib (refcounter.c) and the object types     *)
(* that live by them (object.c): a type is kept by who made it and by the  *)
(* trees that order things of it (avl_mk_tree, avl_free), here those of    *)
(* the cache driver.  A counter is found by the address of its object, in  *)
(* a tree that is a set here (module Avl); counters come out of chunks,    *)
(* whose free ones are chained.                                            *)
(*                                                                         *)
(* st.chunks[i].free is the chain of chunk i, st.rc[c] the counter c,      *)
(* st.set the tree, st.types the types whose memory is there, st.made the  *)
(* references of their makers, st.trees the number of trees of a type.     *)
(***************************************************************************)
EXTENDS Integers, Sequences, FiniteSets, FiniteSetsExt

CONSTANTS
    RcTypes,    \* types made by drivers
    MaxTrees,   \* bound: trees of a type at a time
    RcChunk     \* next_alloc at the start (256)

VARIABLES dev, st

NoType == "none"
Counter(data, n) == [data |-> data, refcount |-> n]
Unused == [chunks |-> <<>>, rc |-> <<>>, set |-> {}, next_alloc |-> RcChunk, sum_free |-> 0, sum_all |-> 0]

(***************************************************************************)
(* The counters: operators on the part of st that refcounter.c keeps.      *)
(***************************************************************************)
\* rc_new_refcounter: the first free one of the first chunk that has one, or
\* the first of a new chunk; .c = 0 if there is no memory for that.
FreeChunks(s) == {i \in DOMAIN s.chunks : s.chunks[i].free # <<>>}
FromChunk(s) ==
    LET i == Min(FreeChunks(s))
    IN  [c |-> Head(s.chunks[i].free),
         s |-> [s EXCEPT !.chunks[i].free = Tail(@), !.sum_free = @ - 1]]
FromNewChunk(s) ==
    LET base == s.sum_all + 1
        all  == s.sum_all + s.next_alloc
    IN  [c |-> base,
         s |-> [s EXCEPT !.chunks = Append(@, [base |-> base, all |-> s.next_alloc,
                                               free |-> [i \in 1..s.next_alloc - 1 |-> base + i]]),
                  !.rc = @ \o [i \in 1..s.next_alloc |-> Counter(NoType, 0)],
                  !.sum_free = @ + s.next_alloc - 1, !.sum_all = all,
                  !.next_alloc = IF 2 * @ <= all \div 10 THEN 2 * @ ELSE @]]
NewCounter(s, memory) ==
    CASE FreeChunks(s) # {}              -> FromChunk(s)
      [] FreeChunks(s) = {} /\ memory    -> FromNewChunk(s)
      [] FreeChunks(s) = {} /\ ~memory   -> [c |-> 0, s |-> s]

\* rc_delete_refcounter, but for its lock.
Delete(s, c) ==
    LET i == CHOOSE j \in DOMAIN s.chunks : c \in s.chunks[j].base..(s.chunks[j].base + s.chunks[j].all - 1)
    IN  [s EXCEPT !.chunks[i].free = <<c>> \o @, !.sum_free = @ + 1]

IncRef(s, c) == [s EXCEPT !.rc[c].refcount = @ + 1]

\* rc_get_refcounter_for, for an object that has a counter or gets one with no
\* reference.  The tree keeps none either: what avl_insert_rc counts is taken
\* back.  If the tree has no memory for a node, the counter is given back
\* while rc_lock is held, which rc_delete_refcounter takes: it hangs.
Having(s, data) == {c \in s.set : s.rc[c].data = data}
GetFor(s, data, memory) ==
    LET new == NewCounter(s, memory # "no chunk")
    IN  CASE Having(s, data) # {} -> [c |-> CHOOSE c \in Having(s, data) : TRUE, s |-> s, hangs |-> FALSE]
          [] Having(s, data) = {} /\ new.c = 0 -> [c |-> 0, s |-> s, hangs |-> FALSE]
          [] OTHER -> [c |-> new.c, hangs |-> memory = "no node",
                       s |-> [new.s EXCEPT !.rc[new.c] = Counter(data, 0),
                                !.set = IF memory = "no node" THEN @ ELSE @ \cup {new.c}]]

\* rc_dec_refcount: the object goes with its last reference, its counter with it.
DecRef(s, c) ==
    LET less == [s EXCEPT !.rc[c].refcount = @ - 1]
    IN  IF less.rc[c].refcount # 0 THEN [s |-> less, freed |-> {}]
        ELSE [s |-> Delete([less EXCEPT !.set = @ \ {c}], c), freed |-> {s.rc[c].data}]

\* do_obj_mk_type up to "start_over" and, in it, rc_init: the type of types,
\* and a type for the counters, which has one counter outside of the tree, for
\* its type field, and one in it.
Booted(s) ==
    LET own   == NewCounter(s, TRUE)
        tree  == [own.s EXCEPT !.rc[own.c] = Counter("refcounter", 2)]
        inner == GetFor(tree, "refcounter", "enough")
        outer == GetFor(IncRef(inner.s, inner.c), "obj_type", "enough")
    IN  IncRef(outer.s, outer.c)

(***************************************************************************)
(* The calls of the drivers.                                               *)
(***************************************************************************)
Init == /\ dev = [driver |-> "rc"]
        /\ st = [k |-> Unused, types |-> {}, made |-> {}, trees |-> [t \in RcTypes |-> 0], hung |-> FALSE,
                 failed |-> "enough"]
Go(s) == st' = s /\ UNCHANGED dev

\* obj_mk_type_1 to obj_mk_type_3.
MkType(t, memory) ==
    /\ ~st.hung /\ t \notin st.types
    /\ LET boots == st.k = Unused
           k     == IF boots THEN Booted(st.k) ELSE st.k
           types == IF boots THEN {"obj_type", "refcounter"} ELSE st.types
           get   == GetFor(k, t, memory)
       IN  IF get.c = 0 \/ get.hangs
           THEN Go([st EXCEPT !.k = get.s, !.types = types, !.hung = get.hangs, !.failed = memory])
           ELSE Go([st EXCEPT !.k = IncRef(get.s, get.c), !.types = types \cup {t}, !.made = @ \cup {t}])

\* obj_free, by who made the type.
FreeType(t) ==
    /\ ~st.hung /\ t \in st.made
    /\ LET get == GetFor(st.k, t, "enough")
           dec == DecRef(get.s, get.c)
       IN  Go([st EXCEPT !.k = dec.s, !.made = @ \ {t}, !.types = @ \ dec.freed])

\* avl_mk_tree, which looks the counter up, and avl_free, which has it.
MkTree(t) ==
    /\ ~st.hung /\ t \in st.made /\ st.trees[t] < MaxTrees
    /\ LET get == GetFor(st.k, t, "enough")
       IN  Go([st EXCEPT !.k = IncRef(get.s, get.c), !.trees[t] = @ + 1])
FreeTree(t) ==
    /\ ~st.hung /\ st.trees[t] > 0
    /\ LET dec == DecRef(st.k, CHOOSE c \in Having(st.k, t) : TRUE)
       IN  Go([st EXCEPT !.k = dec.s, !.trees[t] = @ - 1, !.types = @ \ dec.freed])

Next == \E t \in RcTypes :
          \/ \E memory \in {"enough", "no chunk", "no node"} : MkType(t, memory)
          \/ FreeType(t) \/ MkTree(t) \/ FreeTree(t)

(***************************************************************************)
(* What the counters are to be.                                            *)
(***************************************************************************)
FreeCounters(s) == UNION {{s.chunks[i].free[j] : j \in DOMAIN s.chunks[i].free} : i \in DOMAIN s.chunks}
FreeTotal(s) == MapThenSumSet(LAMBDA i : Len(s.chunks[i].free), DOMAIN s.chunks)

\* A type is there as long as its maker or a tree wants it and no longer, its
\* counter is the only one for it, and no counter is free and in use, or
\* free twice.  Nothing hangs but the way out when a node cannot be had.
Right ==
    /\ \A t \in RcTypes :
         LET wanted == st.trees[t] + (IF t \in st.made THEN 1 ELSE 0)
         IN  /\ (t \in st.types) = (wanted > 0)
             /\ Cardinality(Having(st.k, t)) = (IF wanted > 0 THEN 1 ELSE 0)
             /\ \A c \in Having(st.k, t) : st.k.rc[c].refcount = wanted
    /\ st.k.set \cap FreeCounters(st.k) = {}
    /\ st.k.sum_free = FreeTotal(st.k) /\ FreeTotal(st.k) = Cardinality(FreeCounters(st.k))
    /\ ~st.hung => FreeTotal(st.k) + Cardinality(st.k.set) + (IF st.k = Unused THEN 0 ELSE 1) = st.k.sum_all
    /\ st.hung => st.failed = "no node"
Spec == Init /\ [][Next]_<<dev, st>>
=============================================================================
