--------------------------- MODULE ComCacheProofs ---------------------------
(***************************************************************************)
(* Proofs about ComCache for any number of clients and groups with the     *)
(* thread, and for the main thread on its own (CacheScope).                *)
(***************************************************************************)
EXTENDS ComCache, Lemmas

(***************************************************************************)
(* The list, as a set of groups that are in it once each.                  *)
(***************************************************************************)

LEMMA ListElements ==
  ASSUME NEW S, NEW s \in Seq(S)
  PROVE  /\ Elements(s) \subseteq S
         /\ Len(s) \in Nat /\ DOMAIN s = 1..Len(s)
         /\ \A i \in 1..Len(s) : s[i] \in S /\ s[i] \in Elements(s)
<1>1. Len(s) \in Nat /\ DOMAIN s = 1..Len(s)
  BY LenProperties
<1>2. \A i \in 1..Len(s) : s[i] \in S
  BY ElementOfSeq
<1>3. QED
  BY <1>1, <1>2 DEF Elements

(* A list of distinct groups is as long as it has groups.                  *)
LEMMA DistinctLength ==
  ASSUME NEW S, NEW s \in Seq(S), Distinct(s)
  PROVE  /\ IsFiniteSet(Elements(s)) /\ Cardinality(Elements(s)) = Len(s)
         /\ Len(s) \in Nat
<1>1. Len(s) \in Nat /\ DOMAIN s = 1..Len(s) /\ s \in [1..Len(s) -> S]
  BY LenProperties
<1> DEFINE E == Elements(s)
           D == 1..Len(s)
<1>2. IsFiniteSet(D) /\ Cardinality(D) = Len(s)
  <2>1. 1 \in Int /\ Len(s) \in Int
    BY <1>1
  <2>2. IsFiniteSet(D) /\ Cardinality(D) = IF 1 > Len(s) THEN 0 ELSE Len(s) - 1 + 1
    BY <2>1, FS_Interval
  <2>3. QED
    BY <1>1, <2>2
<1>3. s \in Bijection(D, E)
  <2>1. s \in [D -> E]
    BY <1>1 DEF Elements
  <2>2. \A e \in E : \E i \in D : s[i] = e
    BY <1>1 DEF Elements
  <2>3. \A i, j \in D : s[i] = s[j] => i = j
    BY <1>1 DEF Distinct
  <2>4. QED
    BY <2>1, <2>2, <2>3 DEF Bijection, Injection, Surjection, IsInjective
<1>4. ExistsBijection(D, E)
  BY <1>3 DEF ExistsBijection
<1>5. QED
  BY <1>1, <1>2, <1>4, FS_Bijection

(* Relink, the first half, and DropOne. *)
LEMMA WithoutFacts ==
  ASSUME NEW S, NEW s \in Seq(S), Distinct(s), NEW g \in Elements(s)
  PROVE  /\ Without(s, g) \in Seq(S)
         /\ Elements(Without(s, g)) = Elements(s) \ {g}
         /\ Distinct(Without(s, g))
<1> DEFINE k == CHOOSE i \in DOMAIN s : s[i] = g
           t == Without(s, g)
           n == Len(s) - 1
<1>1. /\ Len(s) \in Nat /\ DOMAIN s = 1..Len(s)
      /\ \A i \in 1..Len(s) : s[i] \in S
  BY ListElements
<1>2. k \in DOMAIN s /\ s[k] = g
  BY DEF Elements
<1>3. k \in 1..Len(s) /\ n \in Nat
  BY <1>1, <1>2
<1>4. t = [i \in 1..n |-> IF i < k THEN s[i] ELSE s[i + 1]]
  BY DEF Without
<1> HIDE DEF k, t, n
<1>5. /\ DOMAIN t = 1..n
      /\ \A i \in 1..n : t[i] = IF i < k THEN s[i] ELSE s[i + 1]
  BY <1>4
<1>6. \A i \in 1..n : i \in 1..Len(s) /\ i + 1 \in 1..Len(s)
  BY <1>1, <1>3 DEF n
<1>7. t \in Seq(S)
  <2>1. t \in [1..n -> S]
    BY <1>1, <1>4, <1>6
  <2>2. QED
    BY <1>3, <2>1, SeqDef
<1>8. \A i, j \in 1..Len(s) : s[i] = s[j] => i = j
  BY <1>1 DEF Distinct
<1>9. Elements(t) = Elements(s) \ {g}
  <2>1. ASSUME NEW i \in 1..n
        PROVE  t[i] \in Elements(s) \ {g}
    <3>1. CASE i < k
      BY <3>1, <1>1, <1>2, <1>3, <1>5, <1>6, <1>8 DEF Elements
    <3>2. CASE ~(i < k)
      <4>1. i + 1 # k
        BY <3>2, <1>3
      <4>2. QED
        BY <3>2, <4>1, <1>1, <1>2, <1>3, <1>5, <1>6, <1>8 DEF Elements
    <3>3. QED
      BY <3>1, <3>2
  <2>2. ASSUME NEW i \in 1..Len(s), s[i] # g
        PROVE  s[i] \in Elements(t)
    <3>1. i # k
      BY <2>2, <1>2
    <3>2. CASE i < k
      <4>1. i \in 1..n
        BY <3>2, <1>3, <1>1 DEF n
      <4>2. QED
        BY <3>2, <4>1, <1>5 DEF Elements
    <3>3. CASE i > k
      <4>1. i - 1 \in 1..n /\ ~(i - 1 < k) /\ (i - 1) + 1 = i
        BY <3>3, <1>3, <1>1 DEF n
      <4>2. t[i - 1] = s[i]
        BY <4>1, <1>5
      <4>3. QED
        BY <4>1, <4>2, <1>5 DEF Elements
    <3>4. QED
      BY <3>1, <3>2, <3>3, <1>3
  <2>3. QED
    BY <2>1, <2>2, <1>1, <1>5 DEF Elements
<1>10. Distinct(t)
  <2>1. ASSUME NEW i \in 1..n, NEW j \in 1..n, t[i] = t[j]
        PROVE  i = j
    <3>1. i < k /\ j < k => i = j
      BY <2>1, <1>5, <1>6, <1>8
    <3>2. ~(i < k) /\ ~(j < k) => i + 1 = j + 1
      BY <2>1, <1>5, <1>6, <1>8
    <3>3. i < k /\ ~(j < k) => i = j + 1
      BY <2>1, <1>5, <1>6, <1>8
    <3>4. ~(i < k) /\ j < k => i + 1 = j
      BY <2>1, <1>5, <1>6, <1>8
    <3>5. QED
      BY <3>1, <3>2, <3>3, <3>4, <1>3
  <2>2. QED
    BY <2>1, <1>5 DEF Distinct
<1>11. QED
  BY <1>7, <1>9, <1>10 DEF t

(* FrontNew, and the second half of Relink. *)
LEMMA FrontFacts ==
  ASSUME NEW S, NEW s \in Seq(S), Distinct(s), NEW g \in S, g \notin Elements(s)
  PROVE  /\ <<g>> \o s \in Seq(S)
         /\ Elements(<<g>> \o s) = Elements(s) \cup {g}
         /\ Distinct(<<g>> \o s)
<1> DEFINE t == <<g>> \o s
           n == Len(s) + 1
<1>1. /\ Len(s) \in Nat /\ DOMAIN s = 1..Len(s)
      /\ \A i \in 1..Len(s) : s[i] \in Elements(s)
  BY ListElements
<1>2. <<g>> \in Seq(S) /\ Len(<<g>>) = 1 /\ <<g>>[1] = g
  OBVIOUS
<1>3. /\ t \in Seq(S) /\ Len(t) = 1 + Len(s)
      /\ \A i \in 1..(1 + Len(s)) : t[i] = IF i <= 1 THEN <<g>>[i] ELSE s[i - 1]
  BY <1>2, ConcatProperties
<1> HIDE DEF t
<1>4. DOMAIN t = 1..n
  BY <1>1, <1>3, LenProperties
<1>5. /\ t[1] = g
      /\ \A i \in 1..n : i # 1 => t[i] = s[i - 1] /\ i - 1 \in 1..Len(s)
      /\ 1 \in 1..n
  BY <1>1, <1>2, <1>3
<1>6. \A i \in 1..Len(s) : i + 1 \in 1..n /\ t[i + 1] = s[i]
  BY <1>1, <1>5
<1>7. Elements(t) = Elements(s) \cup {g}
  <2>1. Elements(t) \subseteq Elements(s) \cup {g}
    BY <1>1, <1>4, <1>5 DEF Elements
  <2>2. Elements(s) \cup {g} \subseteq Elements(t)
    <3>1. \A i \in 1..Len(s) : s[i] \in Elements(t)
      BY <1>4, <1>6 DEF Elements
    <3>2. g \in Elements(t)
      BY <1>4, <1>5 DEF Elements
    <3>3. QED
      BY <3>1, <3>2, <1>1 DEF Elements
  <2>3. QED
    BY <2>1, <2>2
<1>8. Distinct(t)
  <2>1. \A i \in 1..n : t[i] = g => i = 1
    BY <1>1, <1>5
  <2>2. \A i, j \in 1..Len(s) : s[i] = s[j] => i = j
    BY <1>1 DEF Distinct
  <2>3. ASSUME NEW i \in 1..n, NEW j \in 1..n, t[i] = t[j]
        PROVE  i = j
    <3>1. CASE i = 1 \/ j = 1
      BY <3>1, <2>1, <2>3, <1>5
    <3>2. CASE i # 1 /\ j # 1
      BY <3>2, <2>2, <2>3, <1>1, <1>5
    <3>3. QED
      BY <3>1, <3>2
  <2>4. QED
    BY <2>3, <1>4 DEF Distinct
<1>9. QED
  BY <1>3, <1>7, <1>8 DEF t

(* The last of some entries in the list is one of them. *)
LEMMA LastIsIn ==
  ASSUME NEW Q, Q # {}, NEW s \in Seq(Groups), Q \subseteq DOMAIN s
  PROVE  Last(Q) \in Q /\ \A j \in Q : j <= Last(Q)
<1>1. Len(s) \in Nat /\ DOMAIN s = 1..Len(s)
  BY LenProperties
<1>2. Q \in SUBSET Int
  BY <1>1
<1>3. IsFiniteSet(Q)
  <2>1. IsFiniteSet(1..Len(s))
    BY <1>1, FS_Interval
  <2>2. QED
    BY <1>1, <2>1, FS_Subset
<1>4. \E m \in Q : \A j \in Q : j <= m
  BY <1>2, <1>3, HighestOf
<1>5. QED
  BY <1>4 DEF Last

(***************************************************************************)
(* Who holds an entry.                                                     *)
(***************************************************************************)

LEMMA HoldersFinite ==
  ASSUME NEW g
  PROVE  IsFiniteSet(Holders(g)) /\ Cardinality(Holders(g)) \in Nat
<1> DEFINE C == {c \in Clients : at[c] = g}
<1>1. IsFiniteSet(C \cup {Cct}) /\ IsFiniteSet(C)
  <2>1. IsFiniteSet(C)
    BY CacheAssumption, FS_Subset
  <2>2. QED
    BY <2>1, FS_AddElement
<1>2. Holders(g) = C \/ Holders(g) = C \cup {Cct}
  BY DEF Holders
<1>3. QED
  BY <1>1, <1>2, FS_CardinalityType

LEMMA HoldersStay ==
  ASSUME UNCHANGED <<at, wat>>, NEW g
  PROVE  Holders(g)' = Holders(g)
BY DEF Holders

(* Somebody takes the entry, or gives it up. *)
LEMMA HolderAdded ==
  ASSUME NEW g, NEW x, x \notin Holders(g), Holders(g)' = Holders(g) \cup {x}
  PROVE  Cardinality(Holders(g)') = Cardinality(Holders(g)) + 1
BY HoldersFinite, FS_AddElement

LEMMA HolderGone ==
  ASSUME NEW g, NEW x, x \in Holders(g), Holders(g)' = Holders(g) \ {x}
  PROVE  /\ Cardinality(Holders(g)') = Cardinality(Holders(g)) - 1
         /\ Cardinality(Holders(g)) # 0
<1>1. IsFiniteSet(Holders(g))
  BY HoldersFinite
<1>2. QED
  BY <1>1, FS_RemoveElement, FS_EmptySet

(* An entry that is not used has no holder. *)
LEMMA Unused ==
  ASSUME UsedEntriesStay, NEW g \in Groups, g \in present
  PROVE  num_in_use[g] = 0 <=> Holders(g) = {}
<1>1. IsFiniteSet(Holders(g)) /\ num_in_use[g] = Cardinality(Holders(g))
  BY HoldersFinite DEF UsedEntriesStay
<1>2. QED
  BY <1>1, FS_EmptySet

(***************************************************************************)
(* What follows from the invariant for one client.                         *)
(***************************************************************************)

LEMMA ClientFacts ==
  ASSUME IInv, NEW c \in Clients
  PROVE  /\ pc[c] # "idle" => at[c] \in present /\ at[c] \in Groups
         /\ pc[c] = "idle" => at[c] = Nobody
         /\ pc[c] \in Locking => cce[at[c]] = c
         /\ pc[c] \in Locking /\ ~Loading(c) => at[c] \in Elements(list)
         /\ Loading(c) => pc[c] \in Locking
         /\ Nobody \notin Groups /\ c # Nobody /\ c # Cct
<1>1. Nobody \notin Groups /\ c # Nobody /\ c # Cct
  BY CacheAssumption
<1>2. (pc[c] = "idle" <=> at[c] = Nobody) /\ at[c] \in Groups \cup {Nobody}
  BY DEF IInv, ClientsHold, TypeOK
<1>3. pc[c] # "idle" => at[c] \in present /\ at[c] \in Groups
  BY <1>1, <1>2 DEF IInv, UsedEntriesStay, Holders
<1>4. pc[c] \in Locking => cce[at[c]] = c
  BY DEF IInv, ClientsHold
<1>5. Loading(c) => pc[c] \in Locking
  BY DEF Loading, Locking, ClientLabels
<1>6. ASSUME pc[c] \in Locking, ~Loading(c), at[c] \notin Elements(list)
      PROVE  FALSE
  <2>1. pc[c] # "idle"
    BY <1>6 DEF Locking
  <2>2. PICK d \in Clients : at[d] = at[c] /\ Loading(d)
    BY <2>1, <1>3, <1>6 DEF IInv, ListHolds
  <2>3. cce[at[d]] = d
    BY <2>2 DEF Loading, Locking, ClientLabels, IInv, ClientsHold
  <2>4. QED
    BY <1>4, <1>6, <2>2, <2>3
<1>7. QED
  BY <1>1, <1>2, <1>3, <1>4, <1>5, <1>6

(* What DropOne does. *)
LEMMA DropFacts ==
  ASSUME TypeOK, ListHolds, NEW use, DropOne(use)
  PROVE  \/ UNCHANGED <<list, present, num_in_memory>>
         \/ /\ num_in_memory >= MAX_COMC_IN_MEMORY
            /\ \E g \in Elements(list) :
                  /\ use[g] = 0 /\ g \notin dirty
                  /\ list' \in Seq(Groups) /\ Distinct(list')
                  /\ Elements(list') = Elements(list) \ {g}
                  /\ present' = present \ {g}
                  /\ num_in_memory' = num_in_memory - 1
<1> DEFINE D == {i \in DOMAIN list : use[list[i]] = 0 /\ list[i] \notin dirty}
           drops == num_in_memory >= MAX_COMC_IN_MEMORY /\ D # {}
           h == list[Last(D)]
<1>1. list \in Seq(Groups) /\ Distinct(list)
  BY DEF TypeOK, ListHolds
<1>2. CASE ~drops
  BY <1>2 DEF DropOne, dir
<1>3. CASE drops
  <2>1. D # {} /\ D \subseteq DOMAIN list
    BY <1>3
  <2>2. Last(D) \in D
    <3> HIDE DEF D
    <3> QED
      BY <1>1, <2>1, LastIsIn
  <2>3. h \in Elements(list) /\ use[h] = 0 /\ h \notin dirty
    BY <2>2 DEF Elements
  <2>4. /\ list' = Without(list, h) /\ present' = present \ {h}
        /\ num_in_memory' = num_in_memory - 1
        /\ num_in_memory >= MAX_COMC_IN_MEMORY
    BY <1>3 DEF DropOne
  <2> HIDE DEF h, D
  <2>5. /\ Without(list, h) \in Seq(Groups) /\ Distinct(Without(list, h))
        /\ Elements(Without(list, h)) = Elements(list) \ {h}
    BY <1>1, <2>3, WithoutFacts
  <2>6. QED
    BY <2>3, <2>4, <2>5
<1>4. QED
  BY <1>2, <1>3

(* What ScanFinds finds. *)
LEMMA WritableFacts ==
  ASSUME TypeOK, ListHolds, Writable # {}
  PROVE  LET g == list[Last(Writable)]
         IN  /\ g \in Elements(list) /\ g \in present /\ g \in Groups
             /\ num_in_use[g] = 0 /\ g \in dirty
<1>1. Writable \subseteq DOMAIN list /\ list \in Seq(Groups)
  BY DEF Writable, TypeOK
<1>2. Last(Writable) \in Writable
  BY <1>1, LastIsIn
<1>3. list[Last(Writable)] \in Elements(list)
  BY <1>1, <1>2 DEF Elements
<1>4. QED
  BY <1>2, <1>3 DEF Writable, ListHolds, TypeOK

(* An entry that is not in the list is being loaded by a client of its     *)
(* own, so there are no more of them than clients.                         *)
LEMMA LoadingBounded ==
  ASSUME IInv
  PROVE  /\ IsFiniteSet(present) /\ IsFiniteSet(Elements(list))
         /\ num_in_memory \in Nat /\ Len(list) \in Nat
         /\ num_in_memory <= Len(list) + Cardinality({c \in Clients : Loading(c)})
<1> DEFINE P == present \ Elements(list)
           L == {c \in Clients : Loading(c)}
           f == [g \in P |-> CHOOSE c \in L : at[c] = g]
<1>1. IsFiniteSet(present)
  BY CacheAssumption, FS_Subset DEF IInv, TypeOK
<1>2. \A g \in P : \E c \in L : at[c] = g
  BY DEF IInv, ListHolds
<1>3. \A g \in P : f[g] \in L /\ at[f[g]] = g
  BY <1>2
<1>4. f \in Injection(P, L)
  <2>1. f \in [P -> L]
    BY <1>3
  <2>2. \A g, h \in P : f[g] = f[h] => g = h
    BY <1>3
  <2> HIDE DEF f, P, L
  <2>3. QED
    BY <2>1, <2>2 DEF Injection, IsInjective
<1>5. IsFiniteSet(L) /\ Cardinality(L) \in Nat
  BY CacheAssumption, FS_Subset, FS_CardinalityType
<1>6. IsFiniteSet(P) /\ Cardinality(P) <= Cardinality(L)
  <2> HIDE DEF f, P, L
  <2> QED
    BY <1>4, <1>5, FS_Injection
<1>7. /\ IsFiniteSet(Elements(list)) /\ Cardinality(Elements(list)) = Len(list)
      /\ Len(list) \in Nat
  BY DistinctLength DEF IInv, TypeOK, ListHolds
<1>8. Cardinality(P) \in Nat
  BY <1>6, FS_CardinalityType
<1>9. present \cap Elements(list) = Elements(list)
  BY DEF IInv, ListHolds
<1>10. Cardinality(P) = Cardinality(present) - Len(list)
  <2>1. Cardinality(P) = Cardinality(present)
                         - Cardinality(present \cap Elements(list))
    BY <1>1, FS_Difference
  <2>2. QED
    BY <2>1, <1>7, <1>9
<1>11. num_in_memory = Cardinality(present) /\ num_in_memory \in Nat
  BY DEF IInv, ListHolds, TypeOK
<1>12. QED
  BY <1>1, <1>5, <1>6, <1>7, <1>8, <1>10, <1>11

(* The assertion of com_cache_work holds. *)
LEMMA ScanLongEnough ==
  ASSUME IInv
  PROVE  ~ (Len(list) <= Surplus)
<1> DEFINE L == {c \in Clients : Loading(c)}
<1>1. Cardinality(L) <= Cardinality(Clients) /\ Cardinality(L) \in Nat
      /\ Cardinality(Clients) \in Nat
  BY CacheAssumption, FS_Subset, FS_CardinalityType
<1>2. /\ num_in_memory \in Nat /\ Len(list) \in Nat
      /\ num_in_memory <= Len(list) + Cardinality(L)
  BY LoadingBounded
<1>3. MAX_COMC_DIRTY \in Nat /\ Cardinality(Clients) < MAX_COMC_DIRTY
  BY CacheAssumption
<1>4. QED
  BY <1>1, <1>2, <1>3 DEF Surplus

(* Relink moves an entry, if it does not die. *)
LEMMA RelinkFacts ==
  ASSUME IInv, NEW c \in Clients, Relink(c)
  PROVE  /\ list' \in Seq(Groups)
         /\ Elements(list') = Elements(list)
         /\ Distinct(list')
<1>1. list \in Seq(Groups) /\ Distinct(list)
  BY DEF IInv, TypeOK, ListHolds
<1>2. pc[c] = "relink"
  BY DEF Relink, Goto
<1>3. pc[c] \in Locking /\ ~Loading(c)
  BY <1>2 DEF IInv, ClientsHold, Loading, Locking, ClientLabels
<1>4. at[c] \in Groups /\ at[c] \in Elements(list)
  BY <1>2, <1>3, ClientFacts
<1>5. CASE list[1] = at[c]
  BY <1>1, <1>5 DEF Relink
<1>6. CASE list[1] # at[c]
  <2> DEFINE s == Without(list, at[c])
  <2>1. /\ s \in Seq(Groups) /\ Distinct(s)
        /\ Elements(s) = Elements(list) \ {at[c]}
    BY <1>1, <1>4, WithoutFacts
  <2>2. list' = <<at[c]>> \o s
    BY <1>6 DEF Relink
  <2> HIDE DEF s
  <2>3. /\ <<at[c]>> \o s \in Seq(Groups) /\ Distinct(<<at[c]>> \o s)
        /\ Elements(<<at[c]>> \o s) = Elements(s) \cup {at[c]}
    BY <1>4, <2>1, FrontFacts
  <2>4. QED
    BY <1>4, <2>1, <2>2, <2>3
<1>7. QED
  BY <1>5, <1>6

(***************************************************************************)
(* Every step keeps the types.                                             *)
(***************************************************************************)

LEMMA LockingLabels ==
  /\ Locking \subseteq ClientLabels
  /\ Locking = {"load", "wake", "work", "front", "relink", "use", "release",
                "unlock"}
BY DEF Locking, ClientLabels

LEMMA TypeGet ==
  ASSUME IInv, NEW c \in Clients, NEW g \in Groups,
         GetNew(c, g) \/ GetKnown(c, g)
  PROVE  TypeOK'
<1> TypeOK
  BY DEF IInv
<1> USE DEF TypeOK, other, data, dir, work, Goto
<1>1. pc' \in [Clients -> ClientLabels]
  BY DEF GetNew, GetKnown, ClientLabels
<1>2. at' \in [Clients -> Groups \cup {Nobody}]
  BY DEF GetNew, GetKnown
<1>3. num_in_use' \in [Groups -> Nat]
  <2>1. num_in_use[g] \in Nat /\ num_in_use[g] + 1 \in Nat /\ 1 \in Nat
    OBVIOUS
  <2>2. QED
    BY <2>1 DEF GetNew, GetKnown
<1>4. cce' \in [Groups -> Clients \cup {Cct, Nobody}]
  BY DEF GetNew, GetKnown
<1>5. present' \subseteq Groups /\ num_in_memory' \in Nat
  <2>1. num_in_memory + 1 \in Nat
    OBVIOUS
  <2>2. QED
    BY <2>1 DEF GetNew, GetKnown
<1>6. UNCHANGED <<list, data, work, other>>
  BY DEF GetNew, GetKnown
<1>7. QED
  BY <1>1, <1>2, <1>3, <1>4, <1>5, <1>6

LEMMA TypeClient ==
  ASSUME IInv, NEW c \in Clients, ClientStep(c)
  PROVE  TypeOK'
<1> TypeOK
  BY DEF IInv
<1> USE DEF TypeOK, other, data, dir, work, Goto, MoveFront
<1>0. pc[c] # "idle" => at[c] \in Groups
  BY ClientFacts
<1>1. CASE LockEntry(c) \/ Load(c) \/ WakeCct(c) \/ CheckPrev(c)
           \/ GetOwner(c) \/ SetOwner(c) \/ SetOwnersNone(c) \/ Release(c)
           \/ UnlockEntry(c) \/ WorkReturns(c) \/ CallWork(c) \/ DropUse(c)
  <2>1. pc' \in [Clients -> ClientLabels]
    BY <1>1 DEF LockEntry, Load, WakeCct, CheckPrev, GetOwner, SetOwner,
                SetOwnersNone, Release, UnlockEntry, WorkReturns, CallWork,
                DropUse, ClientLabels, Calls, Return
  <2>2. at' \in [Clients -> Groups \cup {Nobody}] /\ UNCHANGED <<list, dir, wat>>
    BY <1>1 DEF LockEntry, Load, WakeCct, CheckPrev, GetOwner, SetOwner,
                SetOwnersNone, Release, UnlockEntry, WorkReturns, CallWork,
                DropUse
  <2>3. call' \in [Clients -> Calls]
    BY <1>1 DEF LockEntry, Load, WakeCct, CheckPrev, GetOwner, SetOwner,
                SetOwnersNone, Release, UnlockEntry, WorkReturns, CallWork,
                DropUse, Calls
  <2>4. cce' \in [Groups -> Clients \cup {Cct, Nobody}]
    BY <1>1 DEF LockEntry, Load, WakeCct, CheckPrev, GetOwner, SetOwner,
                SetOwnersNone, Release, UnlockEntry, WorkReturns, CallWork,
                DropUse
  <2>5. num_in_use' \in [Groups -> Nat]
    <3>1. CASE DropUse(c)
      <4>1. at[c] \in Groups /\ at[c] \in present /\ Holders(at[c]) # {}
        BY <3>1, ClientFacts DEF DropUse, Holders, IInv
      <4>2. num_in_use[at[c]] # 0
        BY <4>1, Unused DEF IInv
      <4>3. QED
        BY <3>1, <4>1, <4>2 DEF DropUse
    <3>2. QED
      BY <1>1, <3>1 DEF LockEntry, Load, WakeCct, CheckPrev, GetOwner,
         SetOwner, SetOwnersNone, Release, UnlockEntry, WorkReturns, CallWork
  <2>6. dirty' \subseteq Groups /\ behind' \subseteq Groups /\ lost' \subseteq Groups
    BY <1>0, <1>1 DEF LockEntry, Load, WakeCct, CheckPrev, GetOwner, SetOwner,
                SetOwnersNone, Release, UnlockEntry, WorkReturns, CallWork,
                DropUse
  <2>7. wpc' \in WorkLabels /\ woken' \in BOOLEAN /\ UNCHANGED failed
    BY <1>1, CacheAssumption
       DEF LockEntry, Load, WakeCct, CheckPrev, GetOwner, SetOwner,
           SetOwnersNone, Release, UnlockEntry, WorkReturns, CallWork,
           DropUse, WorkLabels, WorkGoto
  <2>8. QED
    BY <2>1, <2>2, <2>3, <2>4, <2>5, <2>6, <2>7
<1>2. CASE FrontNew(c) \/ Relink(c)
  <2>1. pc' \in [Clients -> ClientLabels]
    BY <1>2 DEF FrontNew, Relink, ClientLabels, Calls, Return
  <2>2. failed' \in {"no", "null_prev", "assert"}
    BY <1>2 DEF FrontNew, Relink
  <2>3. list' \in Seq(Groups)
    <3>1. at[c] \in Groups /\ pc[c] # "idle" /\ list \in Seq(Groups) /\ Distinct(list)
      BY <1>2, ClientFacts DEF FrontNew, Relink, ListHolds, IInv
    <3>2. CASE FrontNew(c)
      <4>1. <<at[c]>> \in Seq(Groups) /\ list' = <<at[c]>> \o list
        BY <3>1, <3>2 DEF FrontNew
      <4>2. QED
        BY <3>1, <4>1, ConcatProperties
    <3>3. CASE Relink(c)
      BY <3>3, RelinkFacts
    <3>4. QED
      BY <1>2, <3>1, <3>2, <3>3
  <2>4. /\ UNCHANGED <<dir, num_in_use, cce, data, at, work, woken, call>>
    BY <1>2 DEF FrontNew, Relink
  <2>5. QED
    BY <2>1, <2>2, <2>3, <2>4
<1>3. QED
  BY <1>1, <1>2 DEF ClientStep

LEMMA TypeWork ==
  ASSUME IInv, Work \/ WaitReturns
  PROVE  TypeOK'
<1> TypeOK
  BY DEF IInv
<1> USE DEF TypeOK, other, data, dir, work, WorkGoto
<1>1. CASE ScanFinds
  <2>1. wat' \in Groups
    BY <1>1, WritableFacts DEF ScanFinds, IInv
  <2>2. QED
    BY <1>1, <2>1 DEF ScanFinds, WorkLabels
<1>2. CASE ScanFindsNothing
  <2>1. UNCHANGED <<num_in_use, cce, data, pc, at, wat, woken, call>>
        /\ wpc' \in WorkLabels
    BY <1>2 DEF ScanFindsNothing, WorkLabels
  <2>2. failed' \in {"no", "null_prev", "assert"}
    BY <1>2 DEF ScanFindsNothing
  <2>3. UNCHANGED <<list, present, num_in_memory>> \/ DropOne(num_in_use)
    BY <1>2 DEF ScanFindsNothing
  <2>4. list' \in Seq(Groups) /\ present' \subseteq Groups /\ num_in_memory' \in Nat
    <3>1. ASSUME num_in_memory >= MAX_COMC_IN_MEMORY
          PROVE  num_in_memory - 1 \in Nat
      <4>1. /\ num_in_memory \in Nat /\ MAX_COMC_IN_MEMORY \in Nat
            /\ MAX_COMC_DIRTY \in Nat /\ MAX_COMC_DIRTY < MAX_COMC_IN_MEMORY
        BY CacheAssumption
      <4>2. QED
        BY <3>1, <4>1
    <3>2. QED
      BY <2>3, <3>1, DropFacts DEF IInv
  <2>5. QED
    BY <2>1, <2>2, <2>4
<1>3. CASE Written
  <2>1. wpc' \in WorkLabels /\ wat' = Nobody /\ UNCHANGED <<cce, data, pc, at, other>>
    BY <1>3 DEF Written, WorkLabels
  <2>2. num_in_use' \in [Groups -> Nat]
    <3>1. wat \in Groups /\ wat \in present /\ Holders(wat) # {}
      BY <1>3, CacheAssumption
         DEF Written, WorkHolds, UsedEntriesStay, Holders, IInv
    <3>2. num_in_use[wat] # 0
      BY <3>1, Unused DEF IInv
    <3>3. QED
      BY <1>3, <3>1, <3>2 DEF Written
  <2>3. DropOne(num_in_use')
    BY <1>3 DEF Written
  <2>4. list' \in Seq(Groups) /\ present' \subseteq Groups /\ num_in_memory' \in Nat
    <3>1. ASSUME num_in_memory >= MAX_COMC_IN_MEMORY
          PROVE  num_in_memory - 1 \in Nat
      <4>1. /\ num_in_memory \in Nat /\ MAX_COMC_IN_MEMORY \in Nat
            /\ MAX_COMC_DIRTY \in Nat /\ MAX_COMC_DIRTY < MAX_COMC_IN_MEMORY
        BY CacheAssumption
      <4>2. QED
        BY <3>1, <4>1
    <3>2. QED
      BY <2>3, <3>1, DropFacts DEF IInv
  <2>5. QED
    BY <2>1, <2>2, <2>4
<1>4. CASE Compress \/ StoreCompressed \/ WorkAgain \/ WaitReturns \/ WaitResets
  BY <1>4 DEF Compress, StoreCompressed, WorkAgain, WaitReturns, WaitResets,
              WorkLabels
<1>5. QED
  BY <1>1, <1>2, <1>3, <1>4 DEF Work

(***************************************************************************)
(* What a step that leaves something alone keeps of the invariant.         *)
(***************************************************************************)

(* The holders and the entries stay. *)
LEMMA UsedStays ==
  ASSUME UsedEntriesStay, UNCHANGED <<at, wat, num_in_use, present>>
  PROVE  UsedEntriesStay'
BY HoldersStay DEF UsedEntriesStay

(* A client that has its lock goes on, and keeps it. *)
LEMMA Moves ==
  ASSUME IInv, NEW c \in Clients, pc[c] \in Locking,
         pc' = [pc EXCEPT ![c] = pc'[c]], pc'[c] \in Locking,
         call' = [call EXCEPT ![c] = call'[c]],
         UNCHANGED <<at, cce, list, present, num_in_memory>>,
         Loading(c)' <=> Loading(c),
         pc'[c] = "relink" => call'[c] # "new"
  PROVE  ClientsHold' /\ ListHolds'
<1> TypeOK /\ ClientsHold /\ ListHolds
  BY DEF IInv
<1>1. /\ \A d \in Clients : d # c => pc'[d] = pc[d] /\ call'[d] = call[d]
      /\ \A d \in Clients : Loading(d)' <=> Loading(d)
  BY DEF TypeOK, Loading
<1>2. ClientsHold'
  <2>1. pc'[c] # "idle" /\ pc[c] # "idle"
    BY DEF Locking
  <2>2. Locking' = Locking
    BY DEF Locking, ClientLabels
  <2>3. QED
    BY <1>1, <2>1, <2>2 DEF ClientsHold, Elements
<1>3. ListHolds'
  BY <1>1 DEF ListHolds, Elements, Distinct
<1>4. QED
  BY <1>2, <1>3

(* The clients and the entries stay as they are. *)
LEMMA ClientsStay ==
  ASSUME ClientsHold, UNCHANGED <<pc, at, call, list>>,
         \A g \in Groups, c \in Clients : cce'[g] = c <=> cce[g] = c,
         \A c \in Clients : pc[c] # "idle" => at[c] \in Groups
  PROVE  ClientsHold'
<1>1. \A c \in Clients : pc[c] \in Locking => cce'[at[c]] = c
  BY DEF ClientsHold, Locking
<1>2. QED
  BY <1>1 DEF ClientsHold, Locking, ClientLabels, Loading, Elements

LEMMA ListStays ==
  ASSUME ListHolds, UNCHANGED <<pc, at, call, list, present, num_in_memory>>
  PROVE  ListHolds'
BY DEF ListHolds, Elements, Distinct, Loading

(* com_cache_work stays where it is, and what it has, too. *)
LEMMA WorkStays ==
  ASSUME TypeOK, WorkHolds, UNCHANGED <<wat>>,
         wpc' = wpc \/ (wpc \notin {"lock", "store", "done"}
                        /\ wpc' \notin {"lock", "store", "done"}),
         \A g \in Groups : cce'[g] = Cct <=> cce[g] = Cct,
         wpc = "store" /\ wat \in behind' => wat \in behind
  PROVE  WorkHolds'
BY DEF WorkHolds

(***************************************************************************)
(* Every step of a client keeps the invariant.                             *)
(***************************************************************************)

LEMMA MoveSteps ==
  ASSUME IInv, NEW c \in Clients,
         \/ Load(c) \/ WakeCct(c) \/ CheckPrev(c) \/ GetOwner(c)
         \/ SetOwner(c) \/ SetOwnersNone(c) \/ Release(c) \/ WorkReturns(c)
  PROVE  IInv'
<1> TypeOK /\ ClientsHold /\ WorkHolds /\ UsedEntriesStay /\ ListHolds
    /\ DataHolds /\ ScanStaysInList
  BY DEF IInv
<1>0. TypeOK'
  BY TypeClient DEF ClientStep
<1>1. /\ UNCHANGED <<list, present, num_in_memory, num_in_use, cce, at, wat,
                     failed>>
      /\ wpc' = wpc \/ (wpc \in {"true", "false"} /\ wpc' = "off")
  BY DEF Load, WakeCct, CheckPrev, GetOwner, SetOwner, SetOwnersNone, Release,
         WorkReturns, MoveFront, other, data, dir, work
<1>2. /\ pc[c] \in Locking /\ pc'[c] \in Locking
      /\ pc' = [pc EXCEPT ![c] = pc'[c]]
      /\ call' = [call EXCEPT ![c] = call'[c]]
      /\ pc'[c] = "relink" => call'[c] # "new"
      /\ Loading(c)' <=> Loading(c)
  <2> USE LockingLabels DEF TypeOK, Goto, other, Loading
  <2>1. CASE Load(c)
    BY <2>1 DEF Load, MoveFront
  <2>2. CASE WakeCct(c) \/ Release(c)
    BY <2>2 DEF WakeCct, Release, MoveFront
  <2>3. CASE CheckPrev(c)
    <3>1. Return[call[c]] \in {"use", "unlock"}
      BY <2>3 DEF CheckPrev, Return, Calls
    <3>2. QED
      BY <2>3, <3>1 DEF CheckPrev
  <2>4. CASE GetOwner(c) \/ SetOwner(c) \/ SetOwnersNone(c)
    BY <2>4 DEF GetOwner, SetOwner, SetOwnersNone
  <2>5. CASE WorkReturns(c)
    BY <2>5 DEF WorkReturns
  <2>6. QED
    BY <2>1, <2>2, <2>3, <2>4, <2>5
<1>3. ClientsHold' /\ ListHolds'
  BY <1>1, <1>2, Moves
<1>4. UsedEntriesStay' /\ ScanStaysInList'
  BY <1>1, UsedStays DEF ScanStaysInList
<1>5. DataHolds' /\ behind \subseteq behind' /\ behind' \subseteq behind \cup {at[c]}
  <2>1. CASE Load(c)
    <3>1. at[c] \notin Elements(list)
      BY <2>1 DEF Load, MoveFront, Goto, ClientsHold, Loading
    <3>2. QED
      BY <2>1, <3>1 DEF Load, DataHolds, Elements
  <2>2. CASE SetOwner(c)
    <3>1. pc[c] = "use"
      BY <2>2 DEF SetOwner, Goto
    <3>2. at[c] \in Elements(list)
      BY <3>1, <1>2, ClientFacts DEF Loading
    <3>3. QED
      BY <2>2, <3>2 DEF SetOwner, DataHolds, Elements
  <2>3. CASE SetOwnersNone(c)
    BY <2>3 DEF SetOwnersNone, DataHolds, Elements
  <2>4. CASE WakeCct(c) \/ CheckPrev(c) \/ GetOwner(c) \/ Release(c) \/ WorkReturns(c)
    BY <2>4 DEF WakeCct, CheckPrev, GetOwner, Release, WorkReturns, DataHolds,
                data, Elements
  <2>5. QED
    BY <2>1, <2>2, <2>3, <2>4
<1>6. WorkHolds'
  <2>1. cce[at[c]] = c /\ c # Cct
    BY <1>2, ClientFacts
  <2>2. wpc = "store" => cce[wat] = Cct
    BY DEF WorkHolds, TypeOK
  <2>3. wpc = "store" /\ wat \in behind' => wat \in behind
    BY <1>5, <2>1, <2>2
  <2>4. QED
    BY <1>1, <2>3, WorkStays
<1>7. QED
  BY <1>0, <1>3, <1>4, <1>5, <1>6 DEF IInv

LEMMA CallWorkStep ==
  ASSUME IInv, NEW c \in Clients, CallWork(c)
  PROVE  IInv'
<1> TypeOK /\ ClientsHold /\ WorkHolds /\ UsedEntriesStay /\ ListHolds
    /\ DataHolds /\ ScanStaysInList
  BY DEF IInv
<1>0. TypeOK'
  BY TypeClient DEF ClientStep
<1>1. /\ UNCHANGED <<list, present, num_in_memory, num_in_use, cce, at, wat,
                     failed, pc, call, dirty, behind, lost>>
      /\ wpc = "off" /\ wpc' = "scan"
  BY DEF CallWork, WorkGoto, other, data, dir
<1>2. ClientsHold'
  <2>1. \A d \in Clients : pc[d] # "idle" => at[d] \in Groups
    BY ClientFacts
  <2>2. QED
    BY <1>1, <2>1, ClientsStay
<1>3. ListHolds' /\ UsedEntriesStay' /\ WorkHolds'
  BY <1>1, ListStays, UsedStays, WorkStays
<1>4. DataHolds' /\ ScanStaysInList'
  BY <1>1 DEF DataHolds, ScanStaysInList, Elements
<1>5. QED
  BY <1>0, <1>2, <1>3, <1>4 DEF IInv

LEMMA LockEntryStep ==
  ASSUME IInv, NEW c \in Clients, LockEntry(c)
  PROVE  IInv'
<1> TypeOK /\ ClientsHold /\ WorkHolds /\ UsedEntriesStay /\ ListHolds
    /\ DataHolds /\ ScanStaysInList
  BY DEF IInv
<1>0. TypeOK'
  BY TypeClient DEF ClientStep
<1>1. /\ UNCHANGED <<list, present, num_in_memory, num_in_use, at, wpc, wat,
                     failed, dirty, behind, lost>>
      /\ pc[c] = "lock" /\ cce[at[c]] = Nobody
      /\ pc' = [pc EXCEPT ![c] = pc'[c]] /\ pc'[c] \in {"work", "front"}
      /\ call' = [call EXCEPT ![c] = "get"]
      /\ cce' = [cce EXCEPT ![at[c]] = c]
  BY DEF LockEntry, MoveFront, Goto, other, data, dir, work, TypeOK
<1>2. /\ at[c] \in Groups /\ Nobody \notin Clients /\ Nobody # Cct /\ c # Cct
      /\ pc[c] \notin Locking /\ pc'[c] \in Locking /\ Locking' = Locking
      /\ at[c] # Nobody
  BY <1>1, ClientFacts, CacheAssumption, LockingLabels DEF Locking
<1>3. \A d \in Clients : d # c => pc'[d] = pc[d] /\ call'[d] = call[d]
  BY <1>1 DEF TypeOK
<1>4. \A d \in Clients : Loading(d)' <=> Loading(d)
  BY <1>1, <1>3 DEF Loading, TypeOK
<1>5. ClientsHold'
  <2>1. \A d \in Clients : pc'[d] = "idle" <=> at'[d] = Nobody
    BY <1>1, <1>2, <1>3 DEF ClientsHold
  <2>2. ASSUME NEW d \in Clients, pc'[d] \in Locking
        PROVE  cce'[at[d]] = d
    <3>1. CASE d = c
      BY <1>1, <1>2, <3>1 DEF TypeOK
    <3>2. CASE d # c
      <4>1. cce[at[d]] = d /\ at[d] \in Groups
        BY <1>2, <1>3, <2>2, <3>2, ClientFacts DEF Locking
      <4>2. at[d] # at[c]
        BY <1>1, <1>2, <4>1
      <4>3. QED
        BY <1>1, <4>1, <4>2 DEF TypeOK
    <3>3. QED
      BY <3>1, <3>2
  <2>3. \A d \in Clients : Loading(d)' => at'[d] \notin Elements(list)'
    BY <1>1, <1>4 DEF ClientsHold, Elements
  <2>4. \A d \in Clients : pc'[d] = "relink" => call'[d] # "new"
    BY <1>1, <1>3 DEF ClientsHold
  <2>5. ASSUME NEW g \in Groups, NEW d \in Clients, cce'[g] = d
        PROVE  at[d] = g /\ pc'[d] \in Locking
    <3>1. CASE g = at[c]
      BY <1>1, <1>2, <2>5, <3>1 DEF TypeOK
    <3>2. CASE g # at[c]
      <4>1. cce[g] = d
        BY <1>1, <2>5, <3>2 DEF TypeOK
      <4>2. at[d] = g /\ pc[d] \in Locking
        BY <4>1 DEF ClientsHold
      <4>3. QED
        BY <1>2, <1>3, <4>2
    <3>3. QED
      BY <3>1, <3>2
  <2>6. QED
    BY <1>1, <1>2, <2>1, <2>2, <2>3, <2>4, <2>5 DEF ClientsHold
<1>6. ListHolds'
  BY <1>1, <1>4 DEF ListHolds, Elements, Distinct
<1>7. WorkHolds'
  <2>1. \A g \in Groups : cce'[g] = Cct <=> cce[g] = Cct
    BY <1>1, <1>2 DEF TypeOK
  <2>2. QED
    BY <1>1, <2>1, WorkStays
<1>8. UsedEntriesStay' /\ DataHolds' /\ ScanStaysInList'
  BY <1>1, UsedStays DEF DataHolds, ScanStaysInList, Elements
<1>9. QED
  BY <1>0, <1>5, <1>6, <1>7, <1>8 DEF IInv

LEMMA FrontNewStep ==
  ASSUME IInv, NEW c \in Clients, FrontNew(c)
  PROVE  IInv'
<1> TypeOK /\ ClientsHold /\ WorkHolds /\ UsedEntriesStay /\ ListHolds
    /\ DataHolds /\ ScanStaysInList
  BY DEF IInv
<1>0. TypeOK'
  BY TypeClient DEF ClientStep
<1>1. /\ UNCHANGED <<present, num_in_memory, num_in_use, cce, at, wpc, wat,
                     failed, dirty, behind, lost, call>>
      /\ pc[c] = "front" /\ call[c] = "new"
      /\ pc' = [pc EXCEPT ![c] = "wake"]
      /\ list' = <<at[c]>> \o list
  BY DEF FrontNew, Goto, other, data, dir, work, Return, Calls
<1>2. /\ Loading(c) /\ pc[c] \in Locking /\ at[c] \in Groups
      /\ at[c] \notin Elements(list) /\ at[c] \in present
      /\ Locking' = Locking /\ "wake" \in Locking
      /\ cce[at[c]] = c /\ pc[c] # "idle"
  BY <1>1, ClientFacts, LockingLabels DEF Loading, ClientsHold, Locking
<1>3. /\ Elements(list') = Elements(list) \cup {at[c]}
      /\ Distinct(list')
  BY <1>1, <1>2, FrontFacts DEF TypeOK, ListHolds
<1>4. /\ \A d \in Clients : d # c => pc'[d] = pc[d]
      /\ pc'[c] = "wake"
  BY <1>1 DEF TypeOK
<1>5. \A d \in Clients : Loading(d)' <=> d # c /\ Loading(d)
  BY <1>1, <1>4 DEF Loading
<1>6. \A d \in Clients : d # c /\ Loading(d) => at[d] # at[c]
  BY <1>2, ClientFacts
<1>7. ClientsHold'
  <2>1. \A d \in Clients : Loading(d)' => at'[d] \notin Elements(list')
    BY <1>1, <1>3, <1>5, <1>6 DEF ClientsHold
  <2>2. \A d \in Clients : /\ pc'[d] = "idle" <=> at'[d] = Nobody
                           /\ pc'[d] \in Locking => cce'[at[d]] = d
                           /\ pc'[d] = "relink" => call'[d] # "new"
    BY <1>1, <1>2, <1>4 DEF ClientsHold
  <2>3. \A g \in Groups, d \in Clients :
           cce'[g] = d => at[d] = g /\ pc'[d] \in Locking
    BY <1>1, <1>2, <1>4 DEF ClientsHold
  <2>4. QED
    BY <1>1, <1>2, <2>1, <2>2, <2>3 DEF ClientsHold, Elements
<1>8. ListHolds'
  <2>1. Elements(list') \subseteq present
    BY <1>2, <1>3 DEF ListHolds
  <2>2. \A g \in present \ Elements(list') : \E d \in Clients : at[d] = g /\ Loading(d)'
    BY <1>3, <1>5, <1>6 DEF ListHolds
  <2>3. QED
    BY <1>1, <1>3, <2>1, <2>2 DEF ListHolds, Elements, Distinct
<1>9. WorkHolds' /\ UsedEntriesStay' /\ ScanStaysInList'
  BY <1>1, WorkStays, UsedStays DEF ScanStaysInList
<1>10. DataHolds'
  BY <1>1, <1>3 DEF DataHolds, Elements
<1>11. QED
  BY <1>0, <1>7, <1>8, <1>9, <1>10 DEF IInv

LEMMA RelinkStep ==
  ASSUME IInv, NEW c \in Clients, Relink(c)
  PROVE  IInv'
<1> TypeOK /\ ClientsHold /\ WorkHolds /\ UsedEntriesStay /\ ListHolds
    /\ DataHolds /\ ScanStaysInList
  BY DEF IInv
<1>0. TypeOK'
  BY TypeClient DEF ClientStep
<1>1. /\ UNCHANGED <<present, num_in_memory, num_in_use, cce, at, wpc, wat,
                     dirty, behind, lost, call>>
      /\ pc[c] = "relink" /\ failed' # "assert"
      /\ pc' = [pc EXCEPT ![c] = Return[call[c]]]
  BY DEF Relink, Goto, data, dir, work
<1>2. Elements(list') = Elements(list) /\ Distinct(list')
  BY RelinkFacts
<1>3. /\ Return[call[c]] \in {"use", "unlock"}
      /\ pc[c] \in Locking /\ Return[call[c]] \in Locking
      /\ ~Loading(c) /\ Locking' = Locking
  BY <1>1, LockingLabels DEF ClientsHold, Loading, Return, Calls, TypeOK, Locking
<1>4. /\ \A d \in Clients : d # c => pc'[d] = pc[d]
      /\ pc'[c] = Return[call[c]]
  BY <1>1 DEF TypeOK
<1>5. \A d \in Clients : Loading(d)' <=> Loading(d)
  BY <1>1, <1>3, <1>4 DEF Loading
<1>6. ClientsHold'
  <2>1. \A d \in Clients : Loading(d)' => at'[d] \notin Elements(list')
    BY <1>1, <1>2, <1>5 DEF ClientsHold
  <2>2. \A d \in Clients : /\ pc'[d] = "idle" <=> at'[d] = Nobody
                           /\ pc'[d] \in Locking => cce'[at[d]] = d
                           /\ pc'[d] = "relink" => call'[d] # "new"
    BY <1>1, <1>3, <1>4 DEF ClientsHold
  <2>3. \A g \in Groups, d \in Clients :
           cce'[g] = d => at[d] = g /\ pc'[d] \in Locking
    BY <1>1, <1>3, <1>4 DEF ClientsHold
  <2>4. QED
    BY <1>1, <1>3, <2>1, <2>2, <2>3 DEF ClientsHold, Elements
<1>7. ListHolds'
  BY <1>1, <1>2, <1>5 DEF ListHolds, Elements, Distinct
<1>8. WorkHolds' /\ UsedEntriesStay' /\ ScanStaysInList'
  BY <1>1, WorkStays, UsedStays DEF ScanStaysInList
<1>9. DataHolds'
  BY <1>1, <1>2 DEF DataHolds, Elements
<1>10. QED
  BY <1>0, <1>6, <1>7, <1>8, <1>9 DEF IInv

LEMMA UnlockEntryStep ==
  ASSUME IInv, NEW c \in Clients, UnlockEntry(c)
  PROVE  IInv'
<1> TypeOK /\ ClientsHold /\ WorkHolds /\ UsedEntriesStay /\ ListHolds
    /\ DataHolds /\ ScanStaysInList
  BY DEF IInv
<1>0. TypeOK'
  BY TypeClient DEF ClientStep
<1>1. /\ UNCHANGED <<list, present, num_in_memory, num_in_use, at, wpc, wat,
                     failed, dirty, behind, lost, call>>
      /\ pc[c] = "unlock" /\ pc' = [pc EXCEPT ![c] = "dec"]
      /\ cce' = [cce EXCEPT ![at[c]] = Nobody]
  BY DEF UnlockEntry, Goto, other, data, dir, work
<1>2. /\ at[c] \in Groups /\ cce[at[c]] = c /\ c # Cct /\ Nobody # Cct
      /\ Locking' = Locking /\ "dec" \notin Locking /\ at[c] # Nobody
      /\ Nobody \notin Clients /\ ~Loading(c)
  BY <1>1, ClientFacts, LockingLabels, CacheAssumption DEF Locking, Loading
<1>3. /\ \A d \in Clients : d # c => pc'[d] = pc[d]
      /\ pc'[c] = "dec"
  BY <1>1 DEF TypeOK
<1>4. \A d \in Clients : Loading(d)' <=> Loading(d)
  BY <1>1, <1>2, <1>3 DEF Loading
<1>5. \A g \in Groups : cce'[g] = IF g = at[c] THEN Nobody ELSE cce[g]
  BY <1>1, <1>2 DEF TypeOK
<1>6. ClientsHold'
  <2>1. ASSUME NEW d \in Clients, pc'[d] \in Locking
        PROVE  cce'[at[d]] = d
    <3>1. d # c /\ pc[d] \in Locking /\ pc[d] # "idle"
      BY <2>1, <1>2, <1>3 DEF Locking
    <3>2. cce[at[d]] = d /\ at[d] \in Groups
      BY <3>1, ClientFacts
    <3>3. QED
      BY <3>1, <3>2, <1>2, <1>5
  <2>2. \A d \in Clients : /\ pc'[d] = "idle" <=> at'[d] = Nobody
                           /\ pc'[d] = "relink" => call'[d] # "new"
                           /\ Loading(d)' => at'[d] \notin Elements(list)'
    BY <1>1, <1>2, <1>3, <1>4 DEF ClientsHold, Elements
  <2>3. ASSUME NEW g \in Groups, NEW d \in Clients, cce'[g] = d
        PROVE  at[d] = g /\ pc'[d] \in Locking
    <3>1. g # at[c] /\ cce[g] = d
      BY <2>3, <1>2, <1>5
    <3>2. at[d] = g /\ pc[d] \in Locking
      BY <3>1 DEF ClientsHold
    <3>3. QED
      BY <3>1, <3>2, <1>3
  <2>4. QED
    BY <1>1, <1>2, <2>1, <2>2, <2>3 DEF ClientsHold
<1>7. ListHolds'
  BY <1>1, <1>4 DEF ListHolds, Elements, Distinct
<1>8. WorkHolds'
  <2>1. \A g \in Groups : cce'[g] = Cct <=> cce[g] = Cct
    BY <1>2, <1>5
  <2>2. QED
    BY <1>1, <2>1, WorkStays
<1>9. UsedEntriesStay' /\ ScanStaysInList' /\ DataHolds'
  BY <1>1, UsedStays DEF ScanStaysInList, DataHolds, Elements
<1>10. QED
  BY <1>0, <1>6, <1>7, <1>8, <1>9 DEF IInv

LEMMA DropUseStep ==
  ASSUME IInv, NEW c \in Clients, DropUse(c)
  PROVE  IInv'
<1> TypeOK /\ ClientsHold /\ WorkHolds /\ UsedEntriesStay /\ ListHolds
    /\ DataHolds /\ ScanStaysInList
  BY DEF IInv
<1>0. TypeOK'
  BY TypeClient DEF ClientStep
<1>1. /\ UNCHANGED <<list, present, num_in_memory, cce, wpc, wat,
                     failed, dirty, behind, lost>>
      /\ pc[c] = "dec" /\ pc' = [pc EXCEPT ![c] = "idle"]
      /\ at' = [at EXCEPT ![c] = Nobody]
      /\ call' = [call EXCEPT ![c] = "new"]
      /\ num_in_use' = [num_in_use EXCEPT ![at[c]] = @ - 1]
  BY DEF DropUse, Goto, data, dir, work
<1>2. /\ at[c] \in Groups /\ at[c] \in present /\ c # Cct
      /\ Locking' = Locking /\ "idle" \notin Locking /\ "dec" \notin Locking
      /\ Nobody \notin Groups /\ ~Loading(c)
  BY <1>1, ClientFacts, LockingLabels DEF Locking, Loading
<1>3. /\ \A d \in Clients : d # c => /\ pc'[d] = pc[d] /\ at'[d] = at[d]
                                     /\ call'[d] = call[d]
      /\ pc'[c] = "idle" /\ at'[c] = Nobody
  BY <1>1 DEF TypeOK
<1>4. \A d \in Clients : Loading(d)' <=> Loading(d)
  BY <1>1, <1>2, <1>3 DEF Loading
<1>5. ClientsHold'
  <2>1. \A d \in Clients : /\ pc'[d] = "idle" <=> at'[d] = Nobody
                           /\ pc'[d] = "relink" => call'[d] # "new"
                           /\ Loading(d)' => at'[d] \notin Elements(list)'
    BY <1>1, <1>2, <1>3, <1>4 DEF ClientsHold, Elements
  <2>2. \A d \in Clients : pc'[d] \in Locking => cce'[at'[d]] = d
    BY <1>1, <1>2, <1>3 DEF ClientsHold
  <2>3. \A g \in Groups, d \in Clients :
           cce'[g] = d => at'[d] = g /\ pc'[d] \in Locking
    BY <1>1, <1>2, <1>3 DEF ClientsHold
  <2>4. QED
    BY <1>2, <2>1, <2>2, <2>3 DEF ClientsHold
<1>6. ListHolds'
  <2>1. \A d \in Clients : Loading(d) => at'[d] = at[d]
    BY <1>2, <1>3
  <2>2. QED
    BY <1>1, <1>4, <2>1 DEF ListHolds, Elements, Distinct
<1>7. WorkHolds' /\ ScanStaysInList' /\ DataHolds'
  BY <1>1, WorkStays DEF ScanStaysInList, DataHolds, Elements
<1>8. UsedEntriesStay'
  <2>1. ASSUME NEW g \in Groups
        PROVE  Holders(g)' = IF g = at[c] THEN Holders(g) \ {c} ELSE Holders(g)
    BY <1>1, <1>2, <1>3 DEF Holders
  <2>2. c \in Holders(at[c])
    BY DEF Holders
  <2>3. \A g \in Groups : num_in_use'[g] = IF g = at[c] THEN num_in_use[g] - 1
                                                       ELSE num_in_use[g]
    BY <1>1, <1>2 DEF TypeOK
  <2>4. ASSUME NEW g \in Groups, g \in present
        PROVE  num_in_use'[g] = Cardinality(Holders(g)')
    <3>1. num_in_use[g] = Cardinality(Holders(g))
      BY <2>4 DEF UsedEntriesStay
    <3>2. CASE g = at[c]
      <4>1. Cardinality(Holders(g)') = Cardinality(Holders(g)) - 1
        BY <3>2, <2>1, <2>2, HolderGone
      <4>2. QED
        BY <3>1, <3>2, <4>1, <2>3
    <3>3. CASE g # at[c]
      BY <3>1, <3>3, <2>1, <2>3
    <3>4. QED
      BY <3>2, <3>3
  <2>5. \A g \in Groups : Holders(g)' # {} => g \in present'
    BY <2>1, <1>1 DEF UsedEntriesStay
  <2>6. QED
    BY <1>1, <2>4, <2>5 DEF UsedEntriesStay
<1>9. QED
  BY <1>0, <1>5, <1>6, <1>7, <1>8 DEF IInv

LEMMA GetNewStep ==
  ASSUME IInv, NEW c \in Clients, NEW h \in Groups, GetNew(c, h)
  PROVE  IInv'
<1> TypeOK /\ ClientsHold /\ WorkHolds /\ UsedEntriesStay /\ ListHolds
    /\ DataHolds /\ ScanStaysInList
  BY DEF IInv
<1>0. TypeOK'
  BY TypeGet
<1>1. /\ UNCHANGED <<list, wpc, wat, failed, dirty, behind, lost, call>>
      /\ h \notin present /\ present' = present \cup {h}
      /\ num_in_memory' = num_in_memory + 1
      /\ pc[c] = "idle" /\ pc' = [pc EXCEPT ![c] = "load"]
      /\ at' = [at EXCEPT ![c] = h]
      /\ cce' = [cce EXCEPT ![h] = c]
      /\ num_in_use' = [num_in_use EXCEPT ![h] = 1]
  BY DEF GetNew, Goto, data, work, other
<1>2. /\ at[c] = Nobody /\ Nobody \notin Groups /\ c # Cct /\ h # Nobody
      /\ Locking' = Locking /\ "load" \in Locking
  BY <1>1, ClientFacts, LockingLabels DEF Locking
<1>3. /\ \A d \in Clients : d # c => /\ pc'[d] = pc[d] /\ at'[d] = at[d]
      /\ pc'[c] = "load" /\ at'[c] = h
  BY <1>1 DEF TypeOK
<1>4. \A d \in Clients : Loading(d)' <=> d = c \/ Loading(d)
  BY <1>1, <1>3 DEF Loading
<1>5. h \notin Elements(list) /\ Holders(h) = {}
  BY <1>1 DEF ListHolds, UsedEntriesStay
<1>6. \A g \in Groups : cce'[g] = IF g = h THEN c ELSE cce[g]
  BY <1>1 DEF TypeOK
<1>7. ClientsHold'
  <2>1. \A d \in Clients : /\ pc'[d] = "idle" <=> at'[d] = Nobody
                           /\ pc'[d] = "relink" => call'[d] # "new"
                           /\ Loading(d)' => at'[d] \notin Elements(list)'
    BY <1>1, <1>2, <1>3, <1>4, <1>5 DEF ClientsHold, Elements
  <2>2. ASSUME NEW d \in Clients, pc'[d] \in Locking
        PROVE  cce'[at'[d]] = d
    <3>1. CASE d = c
      BY <3>1, <1>3, <1>6
    <3>2. CASE d # c
      <4>1. pc[d] \in Locking /\ at'[d] = at[d]
        BY <2>2, <3>2, <1>3
      <4>2. at[d] \in Groups /\ cce[at[d]] = d /\ at[d] \in present
        BY <4>1, ClientFacts DEF Locking
      <4>3. QED
        BY <4>1, <4>2, <1>1, <1>6
    <3>3. QED
      BY <3>1, <3>2
  <2>3. ASSUME NEW g \in Groups, NEW d \in Clients, cce'[g] = d
        PROVE  at'[d] = g /\ pc'[d] \in Locking
    <3>1. CASE g = h
      BY <3>1, <2>3, <1>2, <1>3, <1>6
    <3>2. CASE g # h
      <4>1. at[d] = g /\ pc[d] \in Locking
        BY <3>2, <2>3, <1>6 DEF ClientsHold
      <4>2. d # c
        BY <4>1, <1>2
      <4>3. QED
        BY <4>1, <4>2, <1>3
    <3>3. QED
      BY <3>1, <3>2
  <2>4. QED
    BY <1>2, <2>1, <2>2, <2>3 DEF ClientsHold
<1>8. ListHolds'
  <2>1. IsFiniteSet(present)
    BY CacheAssumption, FS_Subset DEF TypeOK
  <2>2. num_in_memory' = Cardinality(present')
    BY <1>1, <2>1, FS_AddElement DEF ListHolds
  <2>3. \A g \in present' \ Elements(list) :
           \E d \in Clients : at'[d] = g /\ Loading(d)'
    <3>1. \A d \in Clients : Loading(d) => d # c
      BY <1>1 DEF Loading
    <3>2. QED
      BY <1>1, <1>3, <1>4, <3>1 DEF ListHolds
  <2>4. QED
    BY <1>1, <2>2, <2>3 DEF ListHolds, Elements, Distinct
<1>9. WorkHolds'
  <2>1. cce[h] # Cct
    BY <1>5 DEF WorkHolds, Holders
  <2>2. \A g \in Groups : cce'[g] = Cct <=> cce[g] = Cct
    BY <2>1, <1>2, <1>6
  <2>3. QED
    BY <1>1, <2>2, WorkStays
<1>10. ScanStaysInList' /\ DataHolds'
  BY <1>1 DEF ScanStaysInList, DataHolds, Elements
<1>11. UsedEntriesStay'
  <2>1. \A g \in Groups :
           Holders(g)' = IF g = h THEN {c} ELSE Holders(g)
    BY <1>1, <1>2, <1>3, <1>5 DEF Holders
  <2>2. \A g \in Groups : num_in_use'[g] = IF g = h THEN 1 ELSE num_in_use[g]
    BY <1>1 DEF TypeOK
  <2>3. Cardinality({c}) = 1
    BY FS_Singleton
  <2>4. \A g \in Groups : g \in present' => num_in_use'[g] = Cardinality(Holders(g)')
    BY <1>1, <2>1, <2>2, <2>3 DEF UsedEntriesStay
  <2>5. \A g \in Groups : Holders(g)' # {} => g \in present'
    BY <2>1, <1>1 DEF UsedEntriesStay
  <2>6. QED
    BY <2>4, <2>5 DEF UsedEntriesStay
<1>12. QED
  BY <1>0, <1>7, <1>8, <1>9, <1>10, <1>11 DEF IInv

LEMMA GetKnownStep ==
  ASSUME IInv, NEW c \in Clients, NEW h \in Groups, GetKnown(c, h)
  PROVE  IInv'
<1> TypeOK /\ ClientsHold /\ WorkHolds /\ UsedEntriesStay /\ ListHolds
    /\ DataHolds /\ ScanStaysInList
  BY DEF IInv
<1>0. TypeOK'
  BY TypeGet
<1>1. /\ UNCHANGED <<list, present, num_in_memory, cce, wpc, wat, failed,
                     dirty, behind, lost, call>>
      /\ h \in present
      /\ pc[c] = "idle" /\ pc' = [pc EXCEPT ![c] = "lock"]
      /\ at' = [at EXCEPT ![c] = h]
      /\ num_in_use' = [num_in_use EXCEPT ![h] = @ + 1]
  BY DEF GetKnown, Goto, data, dir, work, other
<1>2. /\ at[c] = Nobody /\ Nobody \notin Groups /\ c # Cct /\ h # Nobody
      /\ Locking' = Locking /\ "lock" \notin Locking /\ "idle" \notin Locking
  BY <1>1, ClientFacts, LockingLabels DEF Locking
<1>3. /\ \A d \in Clients : d # c => /\ pc'[d] = pc[d] /\ at'[d] = at[d]
      /\ pc'[c] = "lock" /\ at'[c] = h
  BY <1>1 DEF TypeOK
<1>4. \A d \in Clients : Loading(d)' <=> Loading(d)
  BY <1>1, <1>3 DEF Loading
<1>5. \A d \in Clients : Loading(d) => d # c
  BY <1>1 DEF Loading
<1>6. ClientsHold'
  <2>1. \A d \in Clients : /\ pc'[d] = "idle" <=> at'[d] = Nobody
                           /\ pc'[d] = "relink" => call'[d] # "new"
                           /\ Loading(d)' => at'[d] \notin Elements(list)'
    BY <1>1, <1>2, <1>3, <1>4, <1>5 DEF ClientsHold, Elements
  <2>2. \A d \in Clients : pc'[d] \in Locking => cce'[at'[d]] = d
    BY <1>1, <1>2, <1>3 DEF ClientsHold
  <2>3. \A g \in Groups, d \in Clients :
           cce'[g] = d => at'[d] = g /\ pc'[d] \in Locking
    BY <1>1, <1>2, <1>3 DEF ClientsHold
  <2>4. QED
    BY <1>2, <2>1, <2>2, <2>3 DEF ClientsHold
<1>7. ListHolds'
  BY <1>1, <1>3, <1>4, <1>5 DEF ListHolds, Elements, Distinct
<1>8. WorkHolds' /\ ScanStaysInList' /\ DataHolds'
  BY <1>1, WorkStays DEF ScanStaysInList, DataHolds, Elements
<1>9. UsedEntriesStay'
  <2>1. ASSUME NEW g \in Groups
        PROVE  Holders(g)' = IF g = h THEN Holders(g) \cup {c} ELSE Holders(g)
    BY <1>1, <1>2, <1>3 DEF Holders
  <2>2. c \notin Holders(h)
    BY <1>2 DEF Holders
  <2>3. \A g \in Groups : num_in_use'[g] = IF g = h THEN num_in_use[g] + 1
                                                  ELSE num_in_use[g]
    BY <1>1 DEF TypeOK
  <2>4. ASSUME NEW g \in Groups, g \in present
        PROVE  num_in_use'[g] = Cardinality(Holders(g)')
    <3>1. num_in_use[g] = Cardinality(Holders(g))
      BY <2>4 DEF UsedEntriesStay
    <3>2. CASE g = h
      <4>1. Cardinality(Holders(g)') = Cardinality(Holders(g)) + 1
        BY <3>2, <2>1, <2>2, HolderAdded
      <4>2. QED
        BY <3>1, <3>2, <4>1, <2>3
    <3>3. CASE g # h
      BY <3>1, <3>3, <2>1, <2>3
    <3>4. QED
      BY <3>2, <3>3
  <2>5. \A g \in Groups : Holders(g)' # {} => g \in present'
    BY <2>1, <1>1 DEF UsedEntriesStay
  <2>6. QED
    BY <1>1, <2>4, <2>5 DEF UsedEntriesStay
<1>10. QED
  BY <1>0, <1>6, <1>7, <1>8, <1>9 DEF IInv

(***************************************************************************)
(* Every step of com_cache_work keeps the invariant.                       *)
(***************************************************************************)

(* Dropping an entry that no client has. *)
LEMMA DropKeeps ==
  ASSUME IInv, NEW use, DropOne(use),
         UNCHANGED <<pc, at, call, cce, dirty, behind, lost>>,
         \A g \in Groups : g \in present /\ use[g] = 0
                              => \A c \in Clients : at[c] # g
  PROVE  /\ ClientsHold' /\ ListHolds' /\ DataHolds'
         /\ present' \subseteq present
         /\ \A g \in present \ present' : use[g] = 0
<1> TypeOK /\ ClientsHold /\ ListHolds /\ DataHolds
  BY DEF IInv
<1>1. CASE UNCHANGED <<list, present, num_in_memory>>
  <2>1. \A d \in Clients : pc[d] # "idle" => at[d] \in Groups
    BY ClientFacts
  <2>2. ClientsHold'
    BY <1>1, <2>1, ClientsStay
  <2>3. ListHolds' /\ DataHolds'
    BY <1>1, ListStays DEF DataHolds, Elements
  <2>4. QED
    BY <1>1, <2>2, <2>3
<1>2. ASSUME NEW h \in Elements(list),
             use[h] = 0, h \notin dirty, Distinct(list'),
             Elements(list') = Elements(list) \ {h},
             present' = present \ {h}, num_in_memory' = num_in_memory - 1
      PROVE  /\ ClientsHold' /\ ListHolds' /\ DataHolds'
             /\ present' \subseteq present
             /\ \A g \in present \ present' : use[g] = 0
  <2>1. h \in present /\ h \in Groups
    BY DEF ListHolds, TypeOK
  <2>2. \A c \in Clients : Loading(c)' <=> Loading(c)
    BY DEF Loading
  <2>3. ClientsHold'
    BY <1>2, <2>2 DEF ClientsHold, Elements, Locking, ClientLabels
  <2>4. ListHolds'
    <3>1. IsFiniteSet(present)
      BY CacheAssumption, FS_Subset DEF TypeOK
    <3>2. num_in_memory' = Cardinality(present')
      BY <1>2, <2>1, <3>1, FS_RemoveElement DEF ListHolds
    <3>3. \A g \in present' \ Elements(list') :
             \E c \in Clients : at'[c] = g /\ Loading(c)'
      BY <1>2, <2>2 DEF ListHolds
    <3>4. Elements(list') \subseteq present'
      BY <1>2 DEF ListHolds
    <3>5. QED
      BY <1>2, <3>2, <3>3, <3>4 DEF ListHolds, Elements, Distinct
  <2>5. DataHolds'
    BY <1>2 DEF DataHolds, Elements
  <2>6. QED
    BY <1>2, <2>3, <2>4, <2>5
<1>3. QED
  BY <1>1, <1>2, DropFacts

LEMMA ScanFindsStep ==
  ASSUME IInv, ScanFinds
  PROVE  IInv'
<1> TypeOK /\ ClientsHold /\ WorkHolds /\ UsedEntriesStay /\ ListHolds
    /\ DataHolds /\ ScanStaysInList
  BY DEF IInv
<1>0. TypeOK'
  BY TypeWork DEF Work
<1>1. /\ UNCHANGED <<list, present, num_in_memory, cce, failed, pc, at, call,
                     dirty, behind, lost>>
      /\ wpc = "scan" /\ wpc' = "lock" /\ wat = Nobody
      /\ num_in_use' = [num_in_use EXCEPT ![wat'] = @ + 1]
  BY DEF ScanFinds, WorkGoto, data, dir, other, WorkHolds
<1>2. wat' \in Groups /\ wat' \in present
  BY WritableFacts DEF ScanFinds
<1>3. ClientsHold'
  <2>1. \A d \in Clients : pc[d] # "idle" => at[d] \in Groups
    BY ClientFacts
  <2>2. QED
    BY <1>1, <2>1, ClientsStay
<1>4. ListHolds' /\ DataHolds' /\ ScanStaysInList'
  BY <1>1, ListStays DEF DataHolds, ScanStaysInList, Elements
<1>5. WorkHolds'
  BY <1>1, <1>2, CacheAssumption DEF WorkHolds
<1>6. UsedEntriesStay'
  <2>1. Cct \notin Clients /\ Nobody \notin Groups
    BY CacheAssumption
  <2>2. ASSUME NEW g \in Groups
        PROVE  Holders(g)' = IF g = wat' THEN Holders(g) \cup {Cct} ELSE Holders(g)
    BY <1>1, <1>2, <2>1 DEF Holders
  <2>3. \A g \in Groups : Cct \notin Holders(g)
    BY <1>1, <2>1 DEF Holders
  <2>4. \A g \in Groups : num_in_use'[g] = IF g = wat' THEN num_in_use[g] + 1
                                                     ELSE num_in_use[g]
    BY <1>1, <1>2 DEF TypeOK
  <2>5. ASSUME NEW g \in Groups, g \in present
        PROVE  num_in_use'[g] = Cardinality(Holders(g)')
    <3>1. num_in_use[g] = Cardinality(Holders(g))
      BY <2>5 DEF UsedEntriesStay
    <3>2. CASE g = wat'
      <4>1. Cardinality(Holders(g)') = Cardinality(Holders(g)) + 1
        BY <3>2, <2>2, <2>3, HolderAdded
      <4>2. QED
        BY <3>1, <3>2, <4>1, <2>4
    <3>3. CASE g # wat'
      BY <3>1, <3>3, <2>2, <2>4
    <3>4. QED
      BY <3>2, <3>3
  <2>6. \A g \in Groups : Holders(g)' # {} => g \in present'
    BY <2>2, <1>1, <1>2 DEF UsedEntriesStay
  <2>7. QED
    BY <1>1, <2>5, <2>6 DEF UsedEntriesStay
<1>7. QED
  BY <1>0, <1>3, <1>4, <1>5, <1>6 DEF IInv

(* Nobody else has the lock while the entry is stored. *)
LEMMA StoreSteps ==
  ASSUME IInv, Compress \/ StoreCompressed
  PROVE  IInv'
<1> TypeOK /\ ClientsHold /\ WorkHolds /\ UsedEntriesStay /\ ListHolds
    /\ DataHolds /\ ScanStaysInList
  BY DEF IInv
<1>0. TypeOK'
  BY TypeWork DEF Work
<1>1. /\ UNCHANGED <<list, present, num_in_memory, num_in_use, lost, pc, at,
                     wat, failed, call>>
      /\ wpc \in {"lock", "store"} /\ wpc' \in {"store", "done"}
  BY DEF Compress, StoreCompressed, WorkGoto, dir, other
<1>2. wat \in Groups /\ Nobody \notin Clients /\ Cct \notin Clients /\ Nobody # Cct
  BY <1>1, CacheAssumption DEF WorkHolds, TypeOK
<1>3. ClientsHold'
  <2>1. \A d \in Clients : pc[d] # "idle" => at[d] \in Groups
    BY ClientFacts
  <2>2. \A g \in Groups, c \in Clients : cce'[g] = c <=> cce[g] = c
    <3>1. CASE Compress
      BY <1>2, <3>1 DEF Compress
    <3>2. CASE StoreCompressed
      <4>1. cce[wat] = Cct
        BY <1>2, <3>2 DEF StoreCompressed, WorkGoto, WorkHolds
      <4>2. QED
        BY <1>2, <3>2, <4>1 DEF StoreCompressed
    <3>3. QED
      BY <3>1, <3>2
  <2>3. QED
    BY <1>1, <2>1, <2>2, ClientsStay
<1>4. WorkHolds'
  <2>1. CASE Compress
    BY <1>1, <1>2, <2>1 DEF Compress, WorkGoto, WorkHolds, TypeOK
  <2>2. CASE StoreCompressed
    BY <1>1, <1>2, <2>2 DEF StoreCompressed, WorkGoto, WorkHolds, TypeOK
  <2>3. QED
    BY <2>1, <2>2
<1>5. DataHolds'
  <2>1. CASE Compress
    BY <2>1 DEF Compress, DataHolds, Elements
  <2>2. CASE StoreCompressed
    BY <2>2 DEF StoreCompressed, WorkGoto, WorkHolds, DataHolds, Elements, other
  <2>3. QED
    BY <2>1, <2>2
<1>6. ListHolds' /\ UsedEntriesStay' /\ ScanStaysInList'
  BY <1>1, ListStays, UsedStays DEF ScanStaysInList
<1>7. QED
  BY <1>0, <1>3, <1>4, <1>5, <1>6 DEF IInv

LEMMA ThreadSteps ==
  ASSUME IInv, WorkAgain \/ WaitReturns \/ WaitResets
  PROVE  IInv'
<1> TypeOK /\ ClientsHold /\ WorkHolds /\ UsedEntriesStay /\ ListHolds
    /\ DataHolds /\ ScanStaysInList
  BY DEF IInv
<1>0. TypeOK'
  BY TypeWork DEF Work
<1>1. /\ UNCHANGED <<list, present, num_in_memory, num_in_use, cce, pc, at, wat,
                     failed, call, dirty, behind, lost>>
      /\ wpc \notin {"lock", "store", "done"}
      /\ wpc' \notin {"lock", "store", "done"}
  BY DEF WorkAgain, WaitReturns, WaitResets, WorkGoto, data, dir, other
<1>2. ClientsHold'
  <2>1. \A d \in Clients : pc[d] # "idle" => at[d] \in Groups
    BY ClientFacts
  <2>2. QED
    BY <1>1, <2>1, ClientsStay
<1>3. /\ ListHolds' /\ UsedEntriesStay' /\ WorkHolds'
      /\ DataHolds' /\ ScanStaysInList'
  BY <1>1, ListStays, UsedStays, WorkStays
     DEF DataHolds, ScanStaysInList, Elements
<1>4. QED
  BY <1>0, <1>2, <1>3 DEF IInv

LEMMA ScanFindsNothingStep ==
  ASSUME IInv, ScanFindsNothing
  PROVE  IInv'
<1> TypeOK /\ ClientsHold /\ WorkHolds /\ UsedEntriesStay /\ ListHolds
    /\ DataHolds /\ ScanStaysInList
  BY DEF IInv
<1>0. TypeOK'
  BY TypeWork DEF Work
<1>1. /\ UNCHANGED <<num_in_use, cce, dirty, behind, lost, pc, at, wat, call>>
      /\ wpc = "scan" /\ wpc' = "false"
  BY DEF ScanFindsNothing, WorkGoto, data
<1>2. DropOne(num_in_use) /\ UNCHANGED failed
  BY ScanLongEnough DEF ScanFindsNothing
<1>3. \A g \in Groups : g \in present /\ num_in_use[g] = 0 => Holders(g) = {}
  BY Unused
<1>4. \A g \in Groups : g \in present /\ num_in_use[g] = 0
                           => \A c \in Clients : at[c] # g
  BY <1>3 DEF Holders
<1>5. /\ ClientsHold' /\ ListHolds' /\ DataHolds'
      /\ present' \subseteq present
      /\ \A g \in present \ present' : num_in_use[g] = 0
  BY <1>1, <1>2, <1>4, DropKeeps
<1>6. WorkHolds' /\ ScanStaysInList'
  BY <1>1, <1>2, WorkStays DEF ScanStaysInList
<1>7. UsedEntriesStay'
  BY <1>1, <1>3, <1>5, HoldersStay DEF UsedEntriesStay
<1>8. QED
  BY <1>0, <1>5, <1>6, <1>7 DEF IInv

LEMMA WrittenStep ==
  ASSUME IInv, Written
  PROVE  IInv'
<1> TypeOK /\ ClientsHold /\ WorkHolds /\ UsedEntriesStay /\ ListHolds
    /\ DataHolds /\ ScanStaysInList
  BY DEF IInv
<1>0. TypeOK'
  BY TypeWork DEF Work
<1>1. /\ UNCHANGED <<cce, dirty, behind, lost, pc, at, call, failed>>
      /\ wpc = "done" /\ wpc' = "true" /\ wat' = Nobody
      /\ num_in_use' = [num_in_use EXCEPT ![wat] = @ - 1]
      /\ DropOne(num_in_use')
  BY DEF Written, WorkGoto, data, other
<1>2. /\ wat \in Groups /\ wat # Nobody /\ Nobody \notin Groups
      /\ Cct \notin Clients
  BY <1>1, CacheAssumption DEF WorkHolds, TypeOK
<1>3. Cct \in Holders(wat) /\ wat \in present
  BY <1>2 DEF Holders, UsedEntriesStay
<1>4. ASSUME NEW g \in Groups
      PROVE  Holders(g)' = IF g = wat THEN Holders(g) \ {Cct} ELSE Holders(g)
  BY <1>1, <1>2 DEF Holders
<1>5. ASSUME NEW g \in Groups, g \in present
      PROVE  num_in_use'[g] = Cardinality(Holders(g)')
  <2>1. num_in_use[g] = Cardinality(Holders(g))
    BY <1>5 DEF UsedEntriesStay
  <2>2. CASE g = wat
    <3>1. Cardinality(Holders(g)') = Cardinality(Holders(g)) - 1
      BY <2>2, <1>3, <1>4, HolderGone
    <3>2. num_in_use'[g] = num_in_use[g] - 1
      BY <2>2, <1>1, <1>2 DEF TypeOK
    <3>3. QED
      BY <2>1, <3>1, <3>2
  <2>3. CASE g # wat
    <3>1. num_in_use'[g] = num_in_use[g]
      BY <2>3, <1>1 DEF TypeOK
    <3>2. QED
      BY <2>1, <2>3, <3>1, <1>4
  <2>4. QED
    BY <2>2, <2>3
<1>6. \A g \in Groups : g \in present /\ num_in_use'[g] = 0 => Holders(g)' = {}
  <2>1. \A g \in Groups : IsFiniteSet(Holders(g)')
    BY <1>4, HoldersFinite, FS_RemoveElement
  <2>2. QED
    BY <1>5, <2>1, FS_EmptySet
<1>7. \A g \in Groups : g \in present /\ num_in_use'[g] = 0
                           => \A c \in Clients : at[c] # g
  BY <1>1, <1>6 DEF Holders
<1>8. /\ ClientsHold' /\ ListHolds' /\ DataHolds'
      /\ present' \subseteq present
      /\ \A g \in present \ present' : num_in_use'[g] = 0
  BY <1>1, <1>7, DropKeeps
<1>9. WorkHolds' /\ ScanStaysInList'
  BY <1>1, <1>2 DEF WorkHolds, ScanStaysInList
<1>10. UsedEntriesStay'
  <2>1. \A g \in Groups : g \in present' => num_in_use'[g] = Cardinality(Holders(g)')
    BY <1>5, <1>8
  <2>2. ASSUME NEW g \in Groups, Holders(g)' # {}
        PROVE  g \in present'
    <3>1. g \in present
      BY <2>2, <1>4 DEF UsedEntriesStay
    <3>2. num_in_use'[g] # 0
      BY <3>1, <2>2, <1>6
    <3>3. QED
      BY <3>1, <3>2, <1>8
  <2>3. QED
    BY <2>1, <2>2 DEF UsedEntriesStay
<1>11. QED
  BY <1>0, <1>8, <1>9, <1>10 DEF IInv

(***************************************************************************)
(* The invariant and what it says.                                         *)
(***************************************************************************)

LEMMA InitInv == Init => IInv
<1> SUFFICES ASSUME Init PROVE IInv
  OBVIOUS
<1> USE DEF Init
<1>1. TypeOK
  <2>1. <<>> \in Seq(Groups)
    BY EmptySeq
  <2>2. QED
    BY <2>1, CacheAssumption DEF TypeOK, ClientLabels, Calls, WorkLabels
<1>2. Elements(list) = {} /\ \A c \in Clients : ~Loading(c) /\ pc[c] \notin Locking
  BY DEF Elements, Loading, Locking
<1>3. ClientsHold
  BY <1>2, CacheAssumption DEF ClientsHold
<1>4. WorkHolds
  BY CacheAssumption DEF WorkHolds
<1>5. ListHolds
  BY <1>2, FS_EmptySet DEF ListHolds, Distinct
<1>6. UsedEntriesStay
  BY CacheAssumption DEF UsedEntriesStay, Holders
<1>7. DataHolds /\ ScanStaysInList
  BY DEF DataHolds, ScanStaysInList
<1>8. QED
  BY <1>1, <1>3, <1>4, <1>5, <1>6, <1>7 DEF IInv

LEMMA Step == IInv /\ [Next]_vars => IInv'
<1> SUFFICES ASSUME IInv, [Next]_vars PROVE IInv'
  OBVIOUS
<1>1. CASE Work \/ WaitReturns
  BY <1>1, ScanFindsStep, ScanFindsNothingStep, StoreSteps, WrittenStep,
     ThreadSteps DEF Work
<1>2. ASSUME NEW c \in Clients, Get(c)
      PROVE  IInv'
  BY <1>2, GetNewStep, GetKnownStep DEF Get
<1>3. ASSUME NEW c \in Clients, ClientStep(c)
      PROVE  IInv'
  BY <1>3, MoveSteps, CallWorkStep, LockEntryStep, FrontNewStep, RelinkStep,
     UnlockEntryStep, DropUseStep DEF ClientStep
<1>4. CASE UNCHANGED vars
  <2>1. TypeOK'
    BY <1>4 DEF vars, IInv, TypeOK
  <2>2. ClientsHold' /\ WorkHolds'
    <3>1. \A d \in Clients : pc[d] # "idle" => at[d] \in Groups
      BY ClientFacts
    <3>2. QED
      BY <1>4, <3>1, ClientsStay, WorkStays DEF vars, IInv
  <2>3. UsedEntriesStay' /\ ListHolds'
    BY <1>4, UsedStays, ListStays DEF vars, IInv
  <2>4. DataHolds' /\ ScanStaysInList'
    BY <1>4 DEF vars, IInv, DataHolds, ScanStaysInList, Elements
  <2>5. QED
    BY <2>1, <2>2, <2>3, <2>4 DEF IInv
<1>5. QED
  BY <1>1, <1>2, <1>3, <1>4 DEF Next

(* The cache keeps its invariant, whatever the clients ask for.            *)
THEOREM Invariant == Spec => []IInv
<1>1. Init => IInv
  BY InitInv
<1>2. IInv /\ [Next]_vars => IInv'
  BY Step
<1>3. QED
  BY <1>1, <1>2, PTL DEF Spec

(* The variables keep their types. *)
THEOREM TypeCorrect == Spec => []TypeOK
<1>1. IInv => TypeOK
  BY DEF IInv
<1>2. QED
  BY <1>1, Invariant, PTL

(* No store gets lost between memory and the compressed copy. *)
THEOREM StoresKept == Spec => []NothingLost
<1>1. IInv => NothingLost
  BY DEF IInv, DataHolds, NothingLost
<1>2. QED
  BY <1>1, Invariant, PTL

(* An entry that somebody refers to is in memory, and counted as used.     *)
THEOREM EntriesStay == Spec => []UsedEntriesStay
<1>1. IInv => UsedEntriesStay
  BY DEF IInv
<1>2. QED
  BY <1>1, Invariant, PTL

(* The list and the counter agree with what is in memory, and              *)
(* assert(walk) in com_cache_work never fails.                             *)
THEOREM ListConsistent == Spec => []ListIsConsistent
<1>1. IInv => ListIsConsistent
  <2> SUFFICES ASSUME IInv PROVE ListIsConsistent
    OBVIOUS
  <2>1. Cardinality(Elements(list)) = Len(list)
    BY DistinctLength DEF IInv, TypeOK, ListHolds
  <2>2. \A c \in Clients : Loading(c) => cce[at[c]] = c
    BY ClientFacts
  <2>3. QED
    BY <2>1, <2>2 DEF IInv, ListHolds, ListIsConsistent
<1>2. QED
  BY <1>1, Invariant, PTL

(***************************************************************************)
(* The main thread alone uses the cache.                                   *)
(***************************************************************************)

(* There is one client then. *)
LEMMA OneClient ==
  ASSUME OnlyMainThread
  PROVE  \E c \in Clients : Clients = {c}
BY CacheAssumption, FS_Singleton DEF OnlyMainThread

(* DropOne drops something if one entry can be dropped. *)
LEMMA DropsOne ==
  ASSUME TypeOK, NEW use, DropOne(use),
         NEW g \in Elements(list), use[g] = 0, g \notin dirty,
         num_in_memory >= MAX_COMC_IN_MEMORY
  PROVE  num_in_memory' = num_in_memory - 1
<1>1. PICK i \in DOMAIN list : list[i] = g
  BY DEF Elements
<1>2. {j \in DOMAIN list : use[list[j]] = 0 /\ list[j] \notin dirty} # {}
  BY <1>1
<1>3. QED
  BY <1>2 DEF DropOne

(* While an entry is loaded that is one too many, the scan has at least    *)
(* two entries to look at.  Either it writes one of them, or the last one  *)
(* can be dropped.                                                         *)
LEMMA LastDroppable ==
  ASSUME IInv, OnlyMainThread, WorkAlone, NEW c \in Clients,
         wpc = "scan", Writable = {}, Overfull(c)
  PROVE  \E g \in Elements(list) : num_in_use[g] = 0 /\ g \notin dirty
<1> DEFINE n == Len(list)
           g == list[n]
<1> TypeOK
  BY DEF IInv
<1>1. /\ num_in_memory \in Nat /\ n \in Nat /\ DOMAIN list = 1..n
      /\ num_in_memory <= n + Cardinality({d \in Clients : Loading(d)})
  BY LoadingBounded, LenProperties DEF TypeOK
<1>2. Clients = {c}
  BY OneClient
<1>3. Cardinality({d \in Clients : Loading(d)}) = 1
  <2>1. {d \in Clients : Loading(d)} = {c}
    BY <1>2 DEF Overfull
  <2>2. QED
    BY <2>1, FS_Singleton
<1>4. /\ MAX_COMC_IN_MEMORY \in Nat /\ MAX_COMC_DIRTY \in Nat
      /\ MAX_COMC_DIRTY < MAX_COMC_IN_MEMORY
      /\ num_in_memory = MAX_COMC_IN_MEMORY + 1
  BY CacheAssumption DEF Overfull
<1>5. n \in DOMAIN list /\ n > n - Surplus
  BY <1>1, <1>3, <1>4 DEF Surplus
<1>6. g \in Elements(list) /\ g \in present /\ g \in Groups
  BY <1>5 DEF Elements, IInv, ListHolds, TypeOK
<1>7. Holders(g) = {}
  <2>1. at[c] # g
    BY <1>6 DEF Overfull, IInv, ClientsHold
  <2>2. wat # g
    BY <1>6, CacheAssumption DEF IInv, WorkHolds
  <2>3. QED
    BY <1>2, <2>1, <2>2 DEF Holders
<1>8. num_in_use[g] = 0
  BY <1>6, <1>7, Unused DEF IInv
<1>9. g \notin dirty
  BY <1>5, <1>8 DEF Writable
<1>10. QED
  BY <1>6, <1>8, <1>9

(* Dropping brings it down to the limit. *)
LEMMA DropMakesRoom ==
  ASSUME IInv, WorkAlone, NEW c \in Clients, NEW use, DropOne(use),
         Overfull(c) => \E g \in Elements(list) : use[g] = 0 /\ g \notin dirty
  PROVE  num_in_memory' <= MAX_COMC_IN_MEMORY
<1> TypeOK
  BY DEF IInv
<1>1. MAX_COMC_IN_MEMORY \in Nat /\ num_in_memory \in Nat
  BY CacheAssumption DEF TypeOK
<1>2. CASE Overfull(c)
  <2>1. num_in_memory = MAX_COMC_IN_MEMORY + 1
    BY <1>2 DEF Overfull
  <2>2. num_in_memory' = num_in_memory - 1
    BY <1>1, <1>2, <2>1, DropsOne
  <2>3. QED
    BY <1>1, <2>1, <2>2
<1>3. CASE ~Overfull(c)
  <2>1. num_in_memory <= MAX_COMC_IN_MEMORY
    BY <1>3 DEF WorkAlone
  <2>2. num_in_memory' = num_in_memory \/ num_in_memory' = num_in_memory - 1
    BY DropFacts DEF IInv
  <2>3. QED
    BY <1>1, <2>1, <2>2
<1>4. QED
  BY <1>2, <1>3

(* What the client is not in, cannot be overfull for it. *)
LEMMA NotOverfull ==
  ASSUME WorkAlone, NEW c \in Clients, pc[c] \notin {"load", "work"}
  PROVE  num_in_memory <= MAX_COMC_IN_MEMORY /\ wpc = "off"
BY DEF WorkAlone, Overfull

(* A step of the client itself, com_cache_work being off. *)
LEMMA AloneClient ==
  ASSUME IInv, OnlyMainThread, WorkAlone, NEW c \in Clients,
         Get(c) \/ (ClientStep(c) /\ ~CallWork(c) /\ ~WorkReturns(c))
  PROVE  WorkAlone'
<1> TypeOK /\ ClientsHold /\ ListHolds
  BY DEF IInv
<1>0. \A d \in Clients : d = c
  BY OneClient
<1>1. wpc = "off" /\ wpc' = "off" /\ UNCHANGED wat
  <2>1. pc[c] # "work"
    BY DEF Get, GetNew, GetKnown, ClientStep, LockEntry, Load, FrontNew,
           WakeCct, CheckPrev, Relink, GetOwner, SetOwner, SetOwnersNone,
           Release, UnlockEntry, DropUse, MoveFront, Goto
  <2>2. UNCHANGED work
    BY DEF Get, GetNew, GetKnown, ClientStep, LockEntry, Load, FrontNew,
           WakeCct, CheckPrev, Relink, GetOwner, SetOwner, SetOwnersNone,
           Release, UnlockEntry, DropUse, data
  <2>3. QED
    BY <2>1, <2>2 DEF WorkAlone, work
<1>2. wat' \in Elements(list') \cup {Nobody}
  <2>1. CASE FrontNew(c)
    <3>1. pc[c] = "front" /\ Loading(c) /\ list' = <<at[c]>> \o list
      BY <2>1 DEF FrontNew, Goto, Loading
    <3>2. at[c] \in Groups /\ at[c] \notin Elements(list)
      BY <3>1, ClientFacts DEF ClientsHold
    <3>3. Elements(list') = Elements(list) \cup {at[c]}
      BY <3>1, <3>2, FrontFacts DEF TypeOK, ListHolds
    <3>4. QED
      BY <3>3, <1>1 DEF WorkAlone
  <2>2. CASE Relink(c)
    BY <2>2, <1>1, RelinkFacts DEF WorkAlone
  <2>3. CASE ~FrontNew(c) /\ ~Relink(c)
    <3>1. UNCHANGED list
      BY <2>3 DEF Get, GetNew, GetKnown, ClientStep, LockEntry, Load,
         WakeCct, CheckPrev, GetOwner, SetOwner, SetOwnersNone,
         Release, UnlockEntry, DropUse
    <3>2. QED
      BY <3>1, <1>1 DEF WorkAlone, Elements
  <2>4. QED
    BY <2>1, <2>2, <2>3
<1>3. pc'[c] = "relink" => list'[1] # at'[c]
  <2>1. CASE CheckPrev(c)
    <3>1. Return[call[c]] # "relink"
      BY <2>1 DEF CheckPrev, Return, Calls, TypeOK
    <3>2. QED
      BY <2>1, <3>1 DEF CheckPrev, Goto, TypeOK
  <2>2. CASE ~CheckPrev(c)
    <3>1. CASE FrontNew(c) \/ Relink(c)
      BY <3>1 DEF FrontNew, Relink, Goto, TypeOK, Return, Calls
    <3>2. CASE ~FrontNew(c) /\ ~Relink(c)
      BY <2>2, <3>2 DEF Get, GetNew, GetKnown, ClientStep, LockEntry, Load,
         WakeCct, GetOwner, SetOwner, SetOwnersNone,
         Release, UnlockEntry, DropUse, MoveFront, Goto, TypeOK
    <3>3. QED
      BY <3>1, <3>2
  <2>3. QED
    BY <2>1, <2>2
<1>4. PrevIsThere'
  <2>1. CASE Relink(c)
    BY <2>1 DEF Relink, Goto, WorkAlone, PrevIsThere
  <2>2. CASE ~Relink(c)
    BY <2>2 DEF Get, GetNew, GetKnown, ClientStep, LockEntry, Load, FrontNew,
         WakeCct, CheckPrev, GetOwner, SetOwner, SetOwnersNone,
         Release, UnlockEntry, DropUse, other, PrevIsThere, WorkAlone
  <2>3. QED
    BY <2>1, <2>2
<1>5. num_in_memory' <= MAX_COMC_IN_MEMORY \/ Overfull(c)'
  <2>1. MAX_COMC_IN_MEMORY \in Nat /\ num_in_memory \in Nat
    BY CacheAssumption DEF TypeOK
  <2>2. CASE Get(c)
    <3>1. num_in_memory <= MAX_COMC_IN_MEMORY
      BY <2>2, NotOverfull DEF Get, GetNew, GetKnown, Goto
    <3>2. num_in_memory' = num_in_memory
          \/ (num_in_memory' = num_in_memory + 1 /\ pc'[c] = "load")
      BY <2>2 DEF Get, GetNew, GetKnown, Goto, TypeOK, dir
    <3>3. QED
      BY <2>1, <3>1, <3>2 DEF Overfull, Loading
  <2>3. CASE Load(c)
    <3>1. /\ pc[c] = "load" /\ pc'[c] = "work" /\ call'[c] = "new"
          /\ num_in_memory' = num_in_memory
      BY <2>3 DEF Load, MoveFront, Goto, TypeOK, dir, OnlyMainThread
    <3>2. num_in_memory <= MAX_COMC_IN_MEMORY \/ Overfull(c)
      BY DEF WorkAlone
    <3>3. QED
      BY <3>1, <3>2, <1>1 DEF Overfull, Loading
  <2>4. CASE ~Get(c) /\ ~Load(c)
    <3>1. UNCHANGED num_in_memory /\ pc[c] \notin {"load", "work"}
      BY <2>4 DEF ClientStep, LockEntry, FrontNew,
         WakeCct, CheckPrev, Relink, GetOwner, SetOwner, SetOwnersNone,
         Release, UnlockEntry, DropUse, MoveFront, Goto, dir
    <3>2. QED
      BY <3>1, NotOverfull
  <2>5. QED
    BY <2>2, <2>3, <2>4
<1>6. QED
  BY <1>0, <1>1, <1>2, <1>3, <1>4, <1>5 DEF WorkAlone

(* The client calls com_cache_work, and gets back from it. *)
LEMMA AloneCall ==
  ASSUME IInv, OnlyMainThread, WorkAlone, NEW c \in Clients,
         CallWork(c) \/ WorkReturns(c)
  PROVE  WorkAlone'
<1> TypeOK
  BY DEF IInv
<1>0. \A d \in Clients : d = c
  BY OneClient
<1>1. UNCHANGED <<list, num_in_memory, wat, at, call, dirty, failed>>
  BY DEF CallWork, WorkReturns, dir, data, other
<1>2. \/ wpc' = "scan" /\ wpc = "off" /\ pc[c] = "work" /\ UNCHANGED pc
      \/ wpc' = "off" /\ wpc \in {"true", "false"}
         /\ pc[c] = "work" /\ pc'[c] = "front"
  BY DEF CallWork, WorkReturns, WorkGoto, Goto, TypeOK
<1>3. num_in_memory' <= MAX_COMC_IN_MEMORY \/ Overfull(c)'
  BY <1>1, <1>2 DEF WorkAlone, Overfull, Loading
<1>4. QED
  BY <1>0, <1>1, <1>2, <1>3 DEF WorkAlone, Elements, PrevIsThere

(* com_cache_work itself. *)
LEMMA AloneWork ==
  ASSUME IInv, OnlyMainThread, WorkAlone, Work \/ WaitReturns
  PROVE  WorkAlone'
<1> TypeOK
  BY DEF IInv
<1>0. PICK c \in Clients : \A d \in Clients : d = c
  BY OneClient
<1>1. UNCHANGED <<pc, at, call>> /\ wpc # "off"
  BY DEF Work, ScanFinds, ScanFindsNothing, Compress, StoreCompressed, Written,
         WorkAgain, WaitReturns, WaitResets, WorkGoto, other
<1>2. pc[c] = "work"
  BY <1>1 DEF WorkAlone
<1>3. CASE ScanFinds \/ Compress \/ StoreCompressed
  <2>1. UNCHANGED <<list, num_in_memory, failed>>
    BY <1>3 DEF ScanFinds, Compress, StoreCompressed, dir, other
  <2>2. wat' \in Elements(list')
    <3>1. CASE ScanFinds
      BY <3>1, <2>1, WritableFacts DEF ScanFinds, IInv, Elements
    <3>2. CASE Compress \/ StoreCompressed
      <4>1. wat # Nobody /\ UNCHANGED wat
        BY <3>2 DEF Compress, StoreCompressed, WorkGoto, IInv, WorkHolds
      <4>2. QED
        BY <4>1, <2>1 DEF WorkAlone, Elements
    <3>3. QED
      BY <1>3, <3>1, <3>2
  <2>3. /\ wpc' \in {"lock", "store", "done"} /\ wpc \notin {"true", "false"}
        /\ wpc' = "done" => wat' \notin dirty'
    BY <1>3 DEF ScanFinds, Compress, StoreCompressed, WorkGoto
  <2>4. num_in_memory' <= MAX_COMC_IN_MEMORY \/ Overfull(c)'
    BY <1>1, <1>2, <2>1, <2>3 DEF WorkAlone, Overfull, Loading
  <2>5. QED
    BY <1>0, <1>1, <1>2, <2>1, <2>2, <2>3, <2>4 DEF WorkAlone, PrevIsThere
<1>4. CASE ScanFindsNothing
  <2>1. /\ wpc = "scan" /\ wpc' = "false" /\ Writable = {}
        /\ DropOne(num_in_use) /\ UNCHANGED <<failed, wat>>
    BY <1>4, ScanLongEnough DEF ScanFindsNothing, WorkGoto
  <2>2. wat = Nobody
    BY <2>1 DEF IInv, WorkHolds
  <2>3. num_in_memory' <= MAX_COMC_IN_MEMORY
    BY <2>1, LastDroppable, DropMakesRoom
  <2>4. QED
    BY <1>0, <1>1, <1>2, <2>1, <2>2, <2>3 DEF WorkAlone, PrevIsThere
<1>5. CASE Written
  <2>1. /\ wpc = "done" /\ wpc' = "true" /\ wat' = Nobody
        /\ DropOne(num_in_use') /\ UNCHANGED failed
        /\ num_in_use' = [num_in_use EXCEPT ![wat] = @ - 1]
    BY <1>5 DEF Written, WorkGoto, other
  <2>2. wat \in Elements(list) /\ wat \in Groups /\ wat \in present /\ wat \notin dirty
    BY <2>1 DEF WorkAlone, IInv, WorkHolds, ListHolds, TypeOK
  <2>3. ASSUME Overfull(c)
        PROVE  num_in_use'[wat] = 0
    <3>1. at[c] # wat
      BY <2>2, <2>3 DEF Overfull, IInv, ClientsHold
    <3>2. Holders(wat) = {Cct}
      BY <1>0, <3>1 DEF Holders
    <3>3. num_in_use[wat] = 1
      BY <2>2, <3>2, FS_Singleton DEF IInv, UsedEntriesStay
    <3>4. QED
      BY <2>1, <2>2, <3>3 DEF TypeOK
  <2>4. num_in_memory' <= MAX_COMC_IN_MEMORY
    BY <2>1, <2>2, <2>3, DropMakesRoom
  <2>5. QED
    BY <1>0, <1>1, <1>2, <2>1, <2>4 DEF WorkAlone, PrevIsThere
<1>6. CASE WorkAgain \/ WaitReturns \/ WaitResets
  BY <1>6 DEF WorkAgain, WaitReturns, WaitResets, WorkGoto, WorkAlone, OnlyMainThread
<1>7. QED
  BY <1>3, <1>4, <1>5, <1>6 DEF Work

LEMMA AloneInit == Init => AloneInv
<1> SUFFICES ASSUME Init, OnlyMainThread PROVE WorkAlone
  BY InitInv DEF AloneInv
<1>1. 0 <= MAX_COMC_IN_MEMORY
  BY CacheAssumption
<1>2. QED
  BY <1>1 DEF Init, WorkAlone, PrevIsThere, OnlyMainThread

LEMMA AloneStep == AloneInv /\ [Next]_vars => AloneInv'
<1> SUFFICES ASSUME AloneInv, [Next]_vars, OnlyMainThread
             PROVE  WorkAlone'
  BY Step DEF AloneInv
<1>0. IInv /\ WorkAlone
  BY DEF AloneInv
<1>1. CASE Work \/ WaitReturns
  BY <1>0, <1>1, AloneWork
<1>2. ASSUME NEW c \in Clients, Get(c) \/ ClientStep(c)
      PROVE  WorkAlone'
  BY <1>0, <1>2, AloneClient, AloneCall
<1>3. CASE UNCHANGED vars
  BY <1>0, <1>3 DEF vars, WorkAlone, Elements, Overfull, Loading, PrevIsThere
<1>4. QED
  BY <1>1, <1>2, <1>3 DEF Next

(* Where the main thread alone uses the cache, one entry more than         *)
(* MAX_COMC_IN_MEMORY is in memory at the most at any time, and none more  *)
(* when nobody uses the cache.                                             *)
THEOREM LimitIsKept == OnlyMainThread => (Spec => [](LimitKept /\ OneTooMany))
<1> SUFFICES ASSUME OnlyMainThread PROVE Spec => [](LimitKept /\ OneTooMany)
  OBVIOUS
<1>1. AloneInv => LimitKept /\ OneTooMany
  <2> SUFFICES ASSUME AloneInv PROVE LimitKept /\ OneTooMany
    OBVIOUS
  <2>1. PICK c \in Clients : TRUE
    BY OneClient
  <2>2. WorkAlone /\ num_in_memory \in Nat /\ MAX_COMC_IN_MEMORY \in Nat
    BY CacheAssumption DEF AloneInv, IInv, TypeOK
  <2>3. num_in_memory <= MAX_COMC_IN_MEMORY \/ Overfull(c)
    BY <2>2 DEF WorkAlone
  <2>4. OneTooMany
    BY <2>2, <2>3 DEF Overfull, OneTooMany
  <2>5. ASSUME AtRest PROVE num_in_memory <= MAX_COMC_IN_MEMORY
    <3>1. pc[c] = "idle"
      BY <2>5 DEF AtRest
    <3>2. QED
      BY <2>2, <3>1, NotOverfull
  <2>6. QED
    BY <2>4, <2>5 DEF LimitKept
<1>2. QED
  BY <1>1, AloneInit, AloneStep, PTL DEF Spec
=============================================================================
