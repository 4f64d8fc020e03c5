-------------------------------- MODULE Avl --------------------------------
(***************************************************************************)
(* The ordered sets of btlib (avl_do_insert.c, avl_remove.c,               *)
(* avl_do_find.c), in which the cache driver looks up its blocks and       *)
(* refcounter.c its counters: trees whose nodes are also in a list.        *)
(*                                                                         *)
(* A node is named by its key; st.tree.node maps the keys to nodes, 0 is   *)
(* the null pointer.  A place a node hangs from, a pointer to it, is      *)
(* what a recursive operator gives back as .t, or, kept in removing_root,  *)
(* the node above and the side.  st.want is the set the calls made so far  *)
(* are to have left, st.ok whether the last one returned what it should.   *)
(***************************************************************************)
EXTENDS Integers, Sequences, FiniteSets

CONSTANT AvlKeys    \* the keys 1..AvlKeys

VARIABLES dev, st

Keys == 1..AvlKeys
Null == 0
NewNode == [left |-> Null, right |-> Null, prev |-> Null, next |-> Null, balance |-> 0]
Put(T, n, field, v) == [T EXCEPT !.node[n][field] = v]

(***************************************************************************)
(* The four rotations around t give the tree and what is in its place.     *)
(***************************************************************************)
RotateLL(T, t) ==
    LET tl == T.node[t].left
    IN  [t |-> tl,
         T |-> [T EXCEPT !.node[t].left = T.node[tl].right, !.node[tl].right = t,
                         !.node[tl].balance = 0, !.node[t].balance = 0]]
RotateRR(T, t) ==
    LET tr == T.node[t].right
    IN  [t |-> tr,
         T |-> [T EXCEPT !.node[t].right = T.node[tr].left, !.node[tr].left = t,
                         !.node[tr].balance = 0, !.node[t].balance = 0]]
RotateLR(T, t) ==
    LET tl  == T.node[t].left
        tlr == T.node[tl].right
        b   == T.node[tlr].balance
    IN  [t |-> tlr,
         T |-> [T EXCEPT !.node[tl].right = T.node[tlr].left, !.node[tlr].left = tl,
                         !.node[t].left = T.node[tlr].right, !.node[tlr].right = t,
                         !.node[tl].balance = IF b = 1 THEN -1 ELSE 0,
                         !.node[t].balance = IF b = -1 THEN 1 ELSE 0,
                         !.node[tlr].balance = 0]]
RotateRL(T, t) ==
    LET tr  == T.node[t].right
        trl == T.node[tr].left
        b   == T.node[trl].balance
    IN  [t |-> trl,
         T |-> [T EXCEPT !.node[tr].left = T.node[trl].right, !.node[trl].right = tr,
                         !.node[t].right = T.node[trl].left, !.node[trl].left = t,
                         !.node[tr].balance = IF b = -1 THEN 1 ELSE 0,
                         !.node[t].balance = IF b = 1 THEN -1 ELSE 0,
                         !.node[trl].balance = 0]]

(***************************************************************************)
(* Insertion.                                                              *)
(***************************************************************************)
\* avl_do_insert_helper: k becomes a child of at, and its neighbour in the list.
LinkLeft(T, k, at) ==
    LET before == T.node[at].prev
        linked == [T EXCEPT !.node[at].left = k, !.node[at].prev = k, !.node[k].next = at, !.node[k].prev = before]
    IN  IF before = Null THEN [linked EXCEPT !.frst = k] ELSE Put(linked, before, "next", k)
LinkRight(T, k, at) ==
    LET after  == T.node[at].next
        linked == [T EXCEPT !.node[at].right = k, !.node[at].next = k, !.node[k].prev = at, !.node[k].next = after]
    IN  IF after = Null THEN [linked EXCEPT !.last = k] ELSE Put(linked, after, "prev", k)

\* A single rotation whatever the child leans to (no case of the code).
GrownLeftSingle(T, t) ==
    LET b == T.node[t].balance - 1
        r == RotateLL(T, t)
    IN  IF b # -2 THEN [T |-> Put(T, t, "balance", b), t |-> t, grew |-> b = -1]
        ELSE [T |-> r.T, t |-> r.t, grew |-> FALSE]

\* One subtree of t has grown.
GrownLeft(T, t) ==
    LET b == T.node[t].balance - 1
    IN  IF b # -2 THEN [T |-> Put(T, t, "balance", b), t |-> t, grew |-> b = -1]
        ELSE LET r == IF T.node[T.node[t].left].balance = -1 THEN RotateLL(T, t) ELSE RotateLR(T, t)
             IN  [T |-> Put(r.T, r.t, "balance", 0), t |-> r.t, grew |-> FALSE]
GrownRight(T, t) ==
    LET b == T.node[t].balance + 1
    IN  IF b # 2 THEN [T |-> Put(T, t, "balance", b), t |-> t, grew |-> b = 1]
        ELSE LET r == IF T.node[T.node[t].right].balance = 1 THEN RotateRR(T, t) ELSE RotateRL(T, t)
             IN  [T |-> Put(r.T, r.t, "balance", 0), t |-> r.t, grew |-> FALSE]

\* avl_do_insert_recursive: the tree, what is in the place of t, and whether
\* it has grown.
RECURSIVE InsertBelow(_, _, _)
InsertBelow(T, t, k) ==
    CASE k = t -> [T |-> T, t |-> t, grew |-> FALSE]
      [] k < t ->
           LET sub == IF T.node[t].left = Null
                      THEN [T |-> LinkLeft(T, k, t), t |-> k, grew |-> TRUE]
                      ELSE InsertBelow(T, T.node[t].left, k)
               now == Put(sub.T, t, "left", sub.t)
           IN  IF sub.grew THEN GrownLeft(now, t) ELSE [T |-> now, t |-> t, grew |-> FALSE]
      [] k > t ->
           LET sub == IF T.node[t].right = Null
                      THEN [T |-> LinkRight(T, k, t), t |-> k, grew |-> TRUE]
                      ELSE InsertBelow(T, T.node[t].right, k)
               now == Put(sub.T, t, "right", sub.t)
           IN  IF sub.grew THEN GrownRight(now, t) ELSE [T |-> now, t |-> t, grew |-> FALSE]

\* avl_node_find_authority and avl_do_find.
RECURSIVE FindAuthority(_, _, _)
FindAuthority(T, t, k) ==
    CASE k = t -> t
      [] k < t -> IF T.node[t].left = Null THEN t ELSE FindAuthority(T, T.node[t].left, k)
      [] k > t -> IF T.node[t].right = Null THEN t ELSE FindAuthority(T, T.node[t].right, k)
Found(T, k) == T.root # Null /\ FindAuthority(T, T.root, k) = k

\* avl_do_insert; the new node of a key that is there already is freed again.
Inserted(T, k) ==
    LET new == [T EXCEPT !.node[k] = NewNode]
        in  == InsertBelow(new, T.root, k)
    IN  CASE T.root = Null -> [new EXCEPT !.root = k, !.frst = k, !.last = k, !.num = @ + 1]
          [] T.root # Null /\ Found(T, k) -> T
          [] OTHER -> [in.T EXCEPT !.root = in.t, !.num = @ + 1]

(***************************************************************************)
(* Removal.                                                                *)
(***************************************************************************)
\* avl_node_rebalanceL and avl_node_rebalanceR: the left, or right, subtree of
\* t has shrunk; shrank says whether t has.
Lower(r) == [T |-> r.T, t |-> r.t, shrank |-> TRUE]
AsHigh(r, side, lean) == [T |-> Put(Put(r.T, r.t, "balance", -lean), r.T.node[r.t][side], "balance", lean),
                          t |-> r.t, shrank |-> FALSE]
ShrunkLeft(T, t) ==
    LET b  == T.node[t].balance + 1
        tb == T.node[T.node[t].right].balance
    IN  CASE b < 2            -> [T |-> Put(T, t, "balance", b), t |-> t, shrank |-> b = 0]
          [] b = 2 /\ tb < 0  -> Lower(RotateRL(T, t))
          [] b = 2 /\ tb = 0  -> AsHigh(RotateRR(T, t), "left", 1)
          [] b = 2 /\ tb > 0  -> Lower(RotateRR(T, t))
ShrunkRight(T, t) ==
    LET b  == T.node[t].balance - 1
        tb == T.node[T.node[t].left].balance
    IN  CASE b > -2            -> [T |-> Put(T, t, "balance", b), t |-> t, shrank |-> b = 0]
          [] b = -2 /\ tb > 0  -> Lower(RotateLR(T, t))
          [] b = -2 /\ tb = 0  -> AsHigh(RotateLL(T, t), "right", -1)
          [] b = -2 /\ tb < 0  -> Lower(RotateLL(T, t))

\* Back in t, after sub in its left, or right, subtree.
Same(T, t) == [T |-> T, t |-> t, shrank |-> FALSE]
Carry(sub, r) == [sub EXCEPT !.T = r.T, !.t = r.t, !.shrank = r.shrank]
BackLeft(sub, t) ==
    LET now == Put(sub.T, t, "left", sub.t)
    IN  Carry(sub, IF sub.shrank THEN ShrunkLeft(now, t) ELSE Same(now, t))
BackRight(sub, t) ==
    LET now == Put(sub.T, t, "right", sub.t)
    IN  Carry(sub, IF sub.shrank THEN ShrunkRight(now, t) ELSE Same(now, t))

\* avl_node_rm_recursiveR takes the first node of a subtree out of it,
\* avl_node_rm_recursiveL the last one.
RECURSIVE TakeFirst(_, _), TakeLast(_, _)
TakeFirst(T, t) ==
    IF T.node[t].left = Null THEN [T |-> T, t |-> T.node[t].right, shrank |-> TRUE, taken |-> t]
    ELSE BackLeft(TakeFirst(T, T.node[t].left), t)
TakeLast(T, t) ==
    IF T.node[t].right = Null THEN [T |-> T, t |-> T.node[t].left, shrank |-> TRUE, taken |-> t]
    ELSE BackRight(TakeLast(T, T.node[t].right), t)

\* The node that is removed, t, stays in its place for now; the one that is to
\* replace it is taken from the higher side.
TakeReplacement(T, t) ==
    IF T.node[t].balance = 1 THEN BackRight(TakeFirst(T, T.node[t].right), t)
    ELSE BackLeft(TakeLast(T, T.node[t].left), t)

\* avl_node_remove_recursive: place is where t hangs, as <<node, side>>.
Leaf(T, t) == T.node[t].left = Null /\ T.node[t].right = Null
At(place, r) == [T |-> r.T, t |-> r.t, shrank |-> r.shrank, taken |-> r.taken, place |-> place]
RECURSIVE RemoveBelow(_, _, _, _)
RemoveBelow(T, t, place, k) ==
    CASE k < t -> BackLeft(RemoveBelow(T, T.node[t].left, <<t, "left">>, k), t)
      [] k > t -> BackRight(RemoveBelow(T, T.node[t].right, <<t, "right">>, k), t)
      [] k = t /\ ~Leaf(T, t) -> At(place, TakeReplacement(T, t))
      [] k = t /\ Leaf(T, t)  -> At(place, [T |-> T, t |-> Null, shrank |-> TRUE, taken |-> Null])

InPlace(T, place) == IF place[1] = Null THEN T.root ELSE T.node[place[1]][place[2]]
SetPlace(T, place, n) == IF place[1] = Null THEN [T EXCEPT !.root = n] ELSE Put(T, place[1], place[2], n)

\* The replacement takes the place, the balance and the children of k.
Replaced(T, place, k, new) ==
    [SetPlace(T, place, new) EXCEPT !.node[new].balance = T.node[k].balance,
        !.node[new].left = T.node[k].left, !.node[new].right = T.node[k].right]
Unlinked(T, k) ==
    LET p == T.node[k].prev
        n == T.node[k].next
        a == IF n = Null THEN [T EXCEPT !.last = p] ELSE Put(T, n, "prev", p)
        b == IF p = Null THEN [a EXCEPT !.frst = n] ELSE Put(a, p, "next", n)
    IN  [b EXCEPT !.num = @ - 1, !.node[k] = NewNode]
\* avl_remove of a key that is there, after what was below its root.
Finished(r, k) ==
    LET now  == [r.T EXCEPT !.root = r.t]
        here == InPlace(now, r.place)
    IN  [T    |-> Unlinked(IF here = Null THEN now ELSE Replaced(now, r.place, k, r.taken), k),
         dies |-> IF here = Null THEN r.taken # Null ELSE here # k]
Removed(T, k) == Finished(RemoveBelow(T, T.root, <<Null, "root">>, k), k)

(***************************************************************************)
(* The calls.                                                              *)
(***************************************************************************)
Empty == [root |-> Null, frst |-> Null, last |-> Null, num |-> 0, node |-> [k \in Keys |-> NewNode]]
Init == /\ dev = [driver |-> "avl"]
        /\ st = [tree |-> Empty, want |-> {}, ok |-> TRUE, died |-> FALSE]
Go(s) == st' = s /\ UNCHANGED dev

Insert(k) ==
    /\ ~st.died
    /\ LET T == Inserted(st.tree, k)
       IN  Go([st EXCEPT !.tree = T, !.want = @ \cup {k}, !.ok = ((T.num = st.tree.num) = (k \in st.want))])
\* avl_node_new has no memory: nothing happens.
InsertFails(k) == ~st.died /\ Go(st)
Remove(k) ==
    /\ ~st.died
    /\ LET r == Removed(st.tree, k)
       IN  IF Found(st.tree, k)
           THEN Go([st EXCEPT !.tree = r.T, !.want = @ \ {k}, !.ok = (k \in st.want), !.died = r.dies])
           ELSE Go([st EXCEPT !.ok = (k \notin st.want)])
Find(k) == ~st.died /\ Go([st EXCEPT !.ok = (Found(st.tree, k) = (k \in st.want))])
Next == \E k \in Keys : Insert(k) \/ InsertFails(k) \/ Remove(k) \/ Find(k)

(***************************************************************************)
(* What a tree is to be.                                                   *)
(***************************************************************************)
RECURSIVE Height(_, _), InOrder(_, _)
Height(T, t) ==
    IF t = Null THEN 0
    ELSE LET l == Height(T, T.node[t].left)
             r == Height(T, T.node[t].right)
         IN  1 + (IF l > r THEN l ELSE r)
InOrder(T, t) == IF t = Null THEN <<>> ELSE InOrder(T, T.node[t].left) \o <<t>> \o InOrder(T, T.node[t].right)

\* Whatever was inserted and removed: the tree holds the keys it should, in
\* order, the list runs through them in the same order, and every balance
\* is the difference of the heights.
Right ==
    LET T == st.tree
        s == InOrder(T, T.root)
    IN  /\ ~st.died /\ st.ok
        /\ {s[i] : i \in DOMAIN s} = st.want /\ Len(s) = Cardinality(st.want) /\ T.num = Len(s)
        /\ \A i, j \in DOMAIN s : i < j => s[i] < s[j]
        /\ T.frst = (IF s = <<>> THEN Null ELSE s[1])
        /\ T.last = (IF s = <<>> THEN Null ELSE s[Len(s)])
        /\ \A i \in DOMAIN s :
             LET n == T.node[s[i]]
             IN  /\ n.prev = (IF i = 1 THEN Null ELSE s[i - 1])
                 /\ n.next = (IF i = Len(s) THEN Null ELSE s[i + 1])
                 /\ n.balance = Height(T, n.right) - Height(T, n.left)
                 /\ n.balance \in -1..1
Spec == Init /\ [][Next]_<<dev, st>>
=============================================================================
