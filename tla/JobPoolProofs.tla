---------------------------- MODULE JobPoolProofs ----------------------------
(***************************************************************************)
(* Proofs about JobPool for any number of inodes, levels and workers.      *)
(***************************************************************************)
EXTENDS JobPool, Lemmas

(***************************************************************************)
(* Levels, queues and the list of threads.                                 *)
(***************************************************************************)

(* A set of levels that is not empty has a highest level. *)
LEMMA HighestLevel ==
  ASSUME NEW Q \in SUBSET Levels, Q # {}
  PROVE  \E m \in Q : \A k \in Q : k <= m
<1>1. MaxLevel \in Int /\ 1 \in Int
  BY PoolAssumption
<1>2. IsFiniteSet(Levels) /\ Levels \subseteq Int
  BY <1>1, FS_Interval DEF Levels
<1>3. IsFiniteSet(Q) /\ Q \in SUBSET Int
  BY <1>2, FS_Subset
<1>4. QED
  BY <1>3, HighestOf

(* find_next_job finds a level with a job. *)
LEMMA BestLevelQueued ==
  ASSUME Queued # {}
  PROVE  BestLevel \in Levels /\ ind[BestLevel] # <<>>
<1>1. Queued \in SUBSET Levels
  BY DEF Queued
<1>2. \E l \in Queued : \A k \in Queued : k <= l
  BY <1>1, HighestLevel
<1>3. BestLevel \in Queued
  BY <1>2 DEF BestLevel
<1>4. QED
  BY <1>3 DEF Queued

(* Where the main thread goes before it looks at an inode. *)
LEMMA BeforeInodeFacts ==
  ASSUME NEW i \in Nat
  PROVE  /\ BeforeInode(i) \in {"group", "scan", "wait"}
         /\ i > NumInodes => BeforeInode(i) = "wait"
BY DEF BeforeInode

(* In any case it has nothing in its hands then. *)
LEMMA HandsEmpty ==
  ASSUME TypeOK
  PROVE  /\ BeforeInode(inode_num) \in {"group", "scan", "wait"}
         /\ BeforeInode(inode_num + 1) \in {"group", "scan", "wait"}
<1>1. inode_num \in Nat /\ inode_num + 1 \in Nat
  BY PoolAssumption DEF TypeOK
<1>2. QED
  BY <1>1, BeforeInodeFacts

(* Tail moves what is left one place up. *)
LEMMA TailElements ==
  ASSUME NEW S, NEW s \in Seq(S), s # <<>>
  PROVE  /\ Tail(s) \in Seq(S)
         /\ 1 \in DOMAIN s /\ Head(s) = s[1] /\ Head(s) \in S
         /\ DOMAIN Tail(s) = 1..(Len(s) - 1) /\ DOMAIN s = 1..Len(s)
         /\ Len(s) \in Nat
         /\ \A i \in DOMAIN Tail(s) : i + 1 \in DOMAIN s /\ i + 1 # 1
                                       /\ Tail(s)[i] = s[i + 1]
         /\ \A i \in DOMAIN s : i # 1 => i - 1 \in DOMAIN Tail(s)
                                       /\ Tail(s)[i - 1] = s[i]
<1>1. Len(s) \in Nat \ {0} /\ DOMAIN s = 1..Len(s)
  BY LenProperties, EmptySeq
<1>2. Head(s) = s[1] /\ Head(s) \in S
  BY <1>1, HeadTailProperties
<1>3. /\ Tail(s) \in Seq(S) /\ Len(Tail(s)) = Len(s) - 1
      /\ \A i \in 1..Len(Tail(s)) : Tail(s)[i] = s[i + 1]
  BY HeadTailProperties
<1>4. DOMAIN Tail(s) = 1..(Len(s) - 1)
  BY <1>3, LenProperties
<1>5. QED
  BY <1>1, <1>2, <1>3, <1>4

(* Append adds one at the end. *)
LEMMA AppendElements ==
  ASSUME NEW S, NEW s \in Seq(S), NEW e \in S
  PROVE  /\ Append(s, e) \in Seq(S)
         /\ Len(s) \in Nat /\ Len(Append(s, e)) = Len(s) + 1
         /\ DOMAIN s = 1..Len(s) /\ DOMAIN Append(s, e) = 1..(Len(s) + 1)
         /\ \A i \in DOMAIN s : Append(s, e)[i] = s[i]
         /\ Append(s, e)[Len(s) + 1] = e
BY AppendProperties, LenProperties

(* Without its k-th element, a sequence keeps the others. *)
LEMMA WithoutElement ==
  ASSUME NEW S, NEW s \in Seq(S), NEW k \in 1..Len(s)
  PROVE  LET t == SubSeq(s, 1, k - 1) \o SubSeq(s, k + 1, Len(s))
         IN  /\ t \in Seq(S) /\ Len(s) \in Nat /\ Len(t) = Len(s) - 1
             /\ \A i \in 1..Len(t) :
                   t[i] = IF i < k THEN s[i] ELSE s[i + 1]
<1> DEFINE u == SubSeq(s, 1, k - 1)
           v == SubSeq(s, k + 1, Len(s))
           t == u \o v
<1>1. /\ Len(s) \in Nat /\ k \in Int /\ 1 <= k /\ k <= Len(s)
      /\ \A i \in 1..Len(s) : s[i] \in S
  BY LenProperties, ElementOfSeq
<1>2. u \in Seq(S) /\ Len(u) = k - 1 /\ \A i \in 1..(k - 1) : u[i] = s[i]
  <2>1. k - 1 \in Int /\ \A i \in 1..(k - 1) : s[i] \in S
    BY <1>1
  <2>2. /\ u \in Seq(S)
        /\ Len(u) = IF 1 <= k - 1 THEN (k - 1) - 1 + 1 ELSE 0
        /\ \A i \in 1..((k - 1) - 1 + 1) : u[i] = s[1 + i - 1]
    BY <2>1, SubSeqProperties
  <2>3. QED
    <3> HIDE DEF u
    <3> QED
      BY <2>2, <1>1
<1>3. /\ v \in Seq(S) /\ Len(v) = Len(s) - k
      /\ \A i \in 1..(Len(s) - k) : v[i] = s[k + i]
  <2>1. /\ k + 1 \in Int /\ Len(s) \in Int
        /\ \A i \in (k + 1)..Len(s) : s[i] \in S
    BY <1>1
  <2>2. /\ v \in Seq(S)
        /\ Len(v) = IF k + 1 <= Len(s) THEN Len(s) - (k + 1) + 1 ELSE 0
        /\ \A i \in 1..(Len(s) - (k + 1) + 1) : v[i] = s[(k + 1) + i - 1]
    BY <2>1, SubSeqProperties
  <2>3. QED
    <3> HIDE DEF v
    <3> QED
      BY <2>2, <1>1
<1> HIDE DEF u, v
<1>4. /\ t \in Seq(S) /\ Len(t) = Len(u) + Len(v)
      /\ \A i \in 1..Len(u) + Len(v) :
            t[i] = IF i <= Len(u) THEN u[i] ELSE v[i - Len(u)]
  <2>1. u \in Seq(S) /\ v \in Seq(S)
    BY <1>2, <1>3
  <2>2. QED
    BY <2>1, ConcatProperties
<1> HIDE DEF t
<1>5. Len(t) = Len(s) - 1
  BY <1>1, <1>2, <1>3, <1>4
<1>6. ASSUME NEW i \in 1..Len(t)
      PROVE  t[i] = IF i < k THEN s[i] ELSE s[i + 1]
  <2>1. i \in Int /\ 1 <= i /\ i <= Len(s) - 1 /\ i \in 1..Len(u) + Len(v)
    BY <1>1, <1>4, <1>5
  <2>2. CASE i < k
    BY <2>1, <2>2, <1>1, <1>2, <1>4
  <2>3. CASE i >= k
    <3>1. ~(i <= Len(u)) /\ i - Len(u) = i - k + 1
      BY <2>1, <2>3, <1>1, <1>2
    <3>2. t[i] = v[i - k + 1]
      BY <3>1, <2>1, <1>4
    <3>3. i - k + 1 \in 1..(Len(s) - k) /\ k + (i - k + 1) = i + 1 /\ ~(i < k)
      BY <2>1, <2>3, <1>1
    <3>4. v[i - k + 1] = s[k + (i - k + 1)]
      BY <3>3, <1>3
    <3>5. QED
      BY <3>2, <3>3, <3>4
  <2>4. i < k \/ i >= k
    BY <2>1, <1>1
  <2>5. QED
    BY <2>2, <2>3, <2>4
<1>7. QED
  BY <1>1, <1>4, <1>5, <1>6 DEF t, u, v

(* find_next_job takes its job out of the queues, and no other. *)
LEMMA DequeueFacts ==
  ASSUME TypeOK, QueuedOnce, Queued # {}, Dequeue
  PROVE  /\ NextJob \in Inodes /\ NextJob \in Waiting
         /\ Waiting' = Waiting \ {NextJob}
         /\ ind' \in [Levels -> Seq(Inodes)]
         /\ QueuedOnce'
<1> DEFINE b == BestLevel
<1>1. b \in Levels /\ ind[b] \in Seq(Inodes) /\ ind[b] # <<>>
  BY BestLevelQueued DEF TypeOK
<1>2. ind' = [ind EXCEPT ![b] = Tail(@)]
  BY DEF Dequeue
<1> HIDE DEF b
<1>3. /\ Tail(ind[b]) \in Seq(Inodes)
      /\ 1 \in DOMAIN ind[b] /\ Head(ind[b]) = ind[b][1]
      /\ Head(ind[b]) \in Inodes
      /\ DOMAIN Tail(ind[b]) \subseteq Int /\ DOMAIN ind[b] \subseteq Int
      /\ \A i \in DOMAIN Tail(ind[b]) :
            i + 1 \in DOMAIN ind[b] /\ i + 1 # 1
            /\ Tail(ind[b])[i] = ind[b][i + 1]
      /\ \A i \in DOMAIN ind[b] :
            i # 1 => i - 1 \in DOMAIN Tail(ind[b])
                     /\ Tail(ind[b])[i - 1] = ind[b][i]
  BY <1>1, TailElements
<1>4. ind' \in [Levels -> Seq(Inodes)]
  BY <1>1, <1>2, <1>3 DEF TypeOK
<1>5. /\ ind'[b] = Tail(ind[b])
      /\ \A l \in Levels : l # b => ind'[l] = ind[l]
  BY <1>1, <1>2 DEF TypeOK
<1>6. NextJob = ind[b][1]
  BY <1>3 DEF NextJob, b
<1>7. \A l \in Levels : \A i \in DOMAIN ind[l] :
         ind[l][i] = NextJob => l = b /\ i = 1
  BY <1>1, <1>3, <1>6 DEF QueuedOnce
<1>8. \A l \in Levels : \A i \in DOMAIN ind'[l] :
         \E k \in DOMAIN ind[l] :
            /\ ind'[l][i] = ind[l][k]
            /\ k = (IF l = b THEN i + 1 ELSE i)
            /\ ~(l = b /\ k = 1)
  <2> SUFFICES ASSUME NEW l \in Levels, NEW i \in DOMAIN ind'[l]
               PROVE  \E k \in DOMAIN ind[l] :
                         /\ ind'[l][i] = ind[l][k]
                         /\ k = (IF l = b THEN i + 1 ELSE i)
                         /\ ~(l = b /\ k = 1)
    OBVIOUS
  <2>1. CASE l = b
    <3>1. i \in DOMAIN Tail(ind[b]) /\ ind'[l][i] = Tail(ind[b])[i]
      BY <2>1, <1>5
    <3>2. QED
      BY <2>1, <3>1, <1>3
  <2>2. CASE l # b
    BY <2>2, <1>5
  <2>3. QED
    BY <2>1, <2>2
<1>9. \A l \in Levels : \A k \in DOMAIN ind[l] :
         ind[l][k] # NextJob => \E i \in DOMAIN ind'[l] : ind'[l][i] = ind[l][k]
  <2> SUFFICES ASSUME NEW l \in Levels, NEW k \in DOMAIN ind[l],
                      ind[l][k] # NextJob
               PROVE  \E i \in DOMAIN ind'[l] : ind'[l][i] = ind[l][k]
    OBVIOUS
  <2>1. CASE l = b
    <3>1. k \in DOMAIN ind[b] /\ k # 1
      BY <2>1, <1>6
    <3>2. k - 1 \in DOMAIN Tail(ind[b]) /\ Tail(ind[b])[k - 1] = ind[b][k]
      BY <3>1, <1>3
    <3>3. QED
      BY <2>1, <3>2, <1>5
  <2>2. CASE l # b
    BY <2>2, <1>5
  <2>3. QED
    BY <2>1, <2>2
<1>10. Waiting' = Waiting \ {NextJob}
  <2>1. ASSUME NEW j \in Waiting'
        PROVE  j \in Waiting \ {NextJob}
    BY <1>7, <1>8 DEF Waiting, RangeOf
  <2>2. ASSUME NEW j \in Waiting, j # NextJob
        PROVE  j \in Waiting'
    BY <1>9, <2>2 DEF Waiting, RangeOf
  <2>3. QED
    BY <2>1, <2>2
<1>11. NextJob \in Waiting /\ NextJob \in Inodes
  BY <1>1, <1>3, <1>6 DEF Waiting, RangeOf
<1>12. QueuedOnce'
  <2> SUFFICES ASSUME NEW l \in Levels, NEW m \in Levels,
                      NEW i \in DOMAIN ind'[l], NEW k \in DOMAIN ind'[m],
                      ind'[l][i] = ind'[m][k]
               PROVE  l = m /\ i = k
    BY DEF QueuedOnce
  <2>1. PICK x \in DOMAIN ind[l] : /\ ind'[l][i] = ind[l][x]
                                   /\ x = (IF l = b THEN i + 1 ELSE i)
    BY <1>8
  <2>2. PICK y \in DOMAIN ind[m] : /\ ind'[m][k] = ind[m][y]
                                   /\ y = (IF m = b THEN k + 1 ELSE k)
    BY <1>8
  <2>3. l = m /\ x = y
    <3>1. ind[l][x] = ind[m][y]
      BY <2>1, <2>2
    <3>2. QED
      BY <3>1 DEF QueuedOnce
  <2>4. CASE l = b
    <3>1. i \in Int /\ k \in Int
      BY <2>3, <2>4, <1>3, <1>5, <1>1, TailElements
    <3>2. QED
      BY <3>1, <2>1, <2>2, <2>3, <2>4
  <2>5. CASE l # b
    BY <2>5, <2>1, <2>2, <2>3
  <2>6. QED
    BY <2>4, <2>5
<1>13. QED
  BY <1>4, <1>10, <1>11, <1>12

(* A job that is queued waits besides those that waited before. *)
LEMMA QueueFacts ==
  ASSUME TypeOK, QueuedOnce, NEW l \in Levels, NEW j \in Inodes,
         j \notin Waiting, ind' = [ind EXCEPT ![l] = Append(@, j)]
  PROVE  /\ Waiting' = Waiting \cup {j}
         /\ ind' \in [Levels -> Seq(Inodes)]
         /\ QueuedOnce'
<1>1. ind[l] \in Seq(Inodes)
  BY DEF TypeOK
<1>2. /\ Append(ind[l], j) \in Seq(Inodes)
      /\ Len(ind[l]) \in Nat
      /\ DOMAIN ind[l] = 1..Len(ind[l])
      /\ DOMAIN Append(ind[l], j) = 1..(Len(ind[l]) + 1)
      /\ \A i \in DOMAIN ind[l] : Append(ind[l], j)[i] = ind[l][i]
      /\ Append(ind[l], j)[Len(ind[l]) + 1] = j
  BY <1>1, AppendElements
<1>3. /\ ind'[l] = Append(ind[l], j)
      /\ \A m \in Levels : m # l => ind'[m] = ind[m]
  BY DEF TypeOK
<1>4. ind' \in [Levels -> Seq(Inodes)]
  BY <1>2 DEF TypeOK
<1>5. \A m \in Levels : \A i \in DOMAIN ind'[m] :
         \/ m = l /\ i = Len(ind[l]) + 1 /\ ind'[m][i] = j
         \/ i \in DOMAIN ind[m] /\ ind'[m][i] = ind[m][i]
  BY <1>2, <1>3
<1>6. \A m \in Levels : \A i \in DOMAIN ind[m] :
         i \in DOMAIN ind'[m] /\ ind'[m][i] = ind[m][i]
  BY <1>2, <1>3
<1>7. Len(ind[l]) + 1 \in DOMAIN ind'[l] /\ ind'[l][Len(ind[l]) + 1] = j
  BY <1>2, <1>3
<1>8. Waiting' = Waiting \cup {j}
  BY <1>5, <1>6, <1>7 DEF Waiting, RangeOf
<1>9. \A m \in Levels : \A i \in DOMAIN ind[m] : ind[m][i] # j
  BY DEF Waiting, RangeOf
<1>10. QueuedOnce'
  BY <1>5, <1>9 DEF QueuedOnce
<1>11. QED
  BY <1>4, <1>8, <1>10

(* A list that has each thread once. *)
NoRepeats(s) == \A i, k \in DOMAIN s : s[i] = s[k] => i = k

(* Unlinking takes one thread from the list. *)
LEMMA UnlinkFacts ==
  ASSUME NEW s \in Seq(Inodes), NoRepeats(s), NEW k \in 1..Len(s)
  PROVE  LET t == SubSeq(s, 1, k - 1) \o SubSeq(s, k + 1, Len(s))
         IN  /\ t \in Seq(Inodes) /\ NoRepeats(t)
             /\ RangeOf(t) = RangeOf(s) \ {s[k]}
             /\ Len(t) = Len(s) - 1
<1> DEFINE t == SubSeq(s, 1, k - 1) \o SubSeq(s, k + 1, Len(s))
<1>1. /\ t \in Seq(Inodes) /\ Len(s) \in Nat /\ Len(t) = Len(s) - 1
      /\ \A i \in 1..Len(t) : t[i] = IF i < k THEN s[i] ELSE s[i + 1]
  BY WithoutElement
<1> HIDE DEF t
<1>2. /\ DOMAIN s = 1..Len(s) /\ DOMAIN t = 1..(Len(s) - 1)
      /\ k \in Int
  BY <1>1, LenProperties
<1>3. \A i \in DOMAIN t : /\ i \in DOMAIN s /\ i + 1 \in DOMAIN s /\ i \in Int
                          /\ i < k => t[i] = s[i]
                          /\ ~(i < k) => t[i] = s[i + 1]
  BY <1>1, <1>2
<1>4. NoRepeats(t)
  BY <1>2, <1>3 DEF NoRepeats
<1>5. RangeOf(t) = RangeOf(s) \ {s[k]}
  <2>1. ASSUME NEW i \in DOMAIN t
        PROVE  t[i] \in RangeOf(s) \ {s[k]}
    <3>1. t[i] \in RangeOf(s)
      BY <1>3 DEF RangeOf
    <3>2. t[i] # s[k]
      BY <1>2, <1>3 DEF NoRepeats
    <3>3. QED
      BY <3>1, <3>2
  <2>2. ASSUME NEW i \in DOMAIN s, s[i] # s[k]
        PROVE  s[i] \in RangeOf(t)
    <3>1. i \in Int /\ i # k
      BY <2>2, <1>2
    <3>2. CASE i < k
      <4>1. i \in DOMAIN t /\ t[i] = s[i]
        BY <3>1, <3>2, <1>2, <1>3
      <4>2. QED
        BY <4>1 DEF RangeOf
    <3>3. CASE i > k
      <4>1. i - 1 \in DOMAIN t /\ ~(i - 1 < k) /\ (i - 1) + 1 = i
        BY <3>1, <3>3, <1>1, <1>2
      <4>2. t[i - 1] = s[i]
        BY <4>1, <1>3
      <4>3. QED
        BY <4>1, <4>2 DEF RangeOf
    <3>4. QED
      BY <3>1, <3>2, <3>3, <1>2
  <2>3. RangeOf(t) \subseteq RangeOf(s) \ {s[k]}
    BY <2>1 DEF RangeOf
  <2>4. RangeOf(s) \ {s[k]} \subseteq RangeOf(t)
    BY <2>2 DEF RangeOf
  <2>5. QED
    BY <2>3, <2>4
<1>6. QED
  BY <1>1, <1>4, <1>5 DEF t

(* Linking adds one. *)
LEMMA LinkFacts ==
  ASSUME NEW s \in Seq(Inodes), NoRepeats(s), NEW e \in Inodes,
         e \notin RangeOf(s)
  PROVE  /\ Append(s, e) \in Seq(Inodes) /\ NoRepeats(Append(s, e))
         /\ RangeOf(Append(s, e)) = RangeOf(s) \cup {e}
         /\ Len(Append(s, e)) = Len(s) + 1
<1> DEFINE t == Append(s, e)
<1>1. /\ t \in Seq(Inodes)
      /\ Len(s) \in Nat /\ Len(t) = Len(s) + 1
      /\ DOMAIN s = 1..Len(s) /\ DOMAIN t = 1..(Len(s) + 1)
      /\ \A i \in DOMAIN s : t[i] = s[i]
      /\ t[Len(s) + 1] = e
  BY AppendElements
<1> HIDE DEF t
<1>2. \A i \in DOMAIN t : \/ i \in DOMAIN s /\ t[i] = s[i]
                          \/ i = Len(s) + 1 /\ t[i] = e
  BY <1>1
<1>3. \A i \in DOMAIN s : i \in DOMAIN t /\ s[i] # e
  BY <1>1 DEF RangeOf
<1>4. NoRepeats(t)
  BY <1>1, <1>2, <1>3 DEF NoRepeats
<1>5. RangeOf(t) = RangeOf(s) \cup {e}
  BY <1>1, <1>2, <1>3 DEF RangeOf
<1>6. QED
  BY <1>1, <1>4, <1>5 DEF t

(***************************************************************************)
(* What a step leaves alone.                                               *)
(***************************************************************************)

(* The jobs stay where they are when no queue, scan context, scan and      *)
(* worker's state that counts for them changes.                            *)
LEMMA JobsStay ==
  ASSUME IInv, UNCHANGED <<inode_num, ind, isc, scans>>,
         Busy' = Busy,
         \A t \in Inodes : wpc[t] = "none" => wpc'[t] = "none",
         mpc' = "create" => mpc = "create" /\ cur' = cur
  PROVE  JobInv'
<1>1. Waiting' = Waiting
  BY DEF Waiting, RangeOf
<1>2. \A j : Untouched(j) => Untouched(j)'
  BY DEF Untouched
<1>3. AheadUntouched'
  BY <1>2 DEF IInv, JobInv, AheadUntouched
<1>4. QueuedOnce'
  BY DEF IInv, JobInv, QueuedOnce
<1>5. QueuedUntouched'
  BY <1>1, <1>2 DEF IInv, JobInv, QueuedUntouched
<1>6. InHandUntouched'
  BY <1>1, <1>2 DEF IInv, JobInv, InHandUntouched
<1>7. BusyApart'
  BY DEF IInv, JobInv, BusyApart
<1>8. ScannedOnce'
  BY DEF IInv, JobInv, ScannedOnce
<1>9. QED
  BY <1>3, <1>4, <1>5, <1>6, <1>7, <1>8 DEF JobInv

(* The list stays right when it is not changed and no thread comes or goes. *)
LEMMA ListStays ==
  ASSUME IInv, UNCHANGED list, Unlinked' = Unlinked,
         \A t \in Inodes : wpc'[t] \in {"none", "reaped"}
                              <=> wpc[t] \in {"none", "reaped"}
  PROVE  ListedOnce'
<1>1. RangeOf(list)' = RangeOf(list)
  BY DEF RangeOf
<1>2. QED
  BY <1>1 DEF IInv, ThreadInv, ListedOnce

(* The struct the main thread is starting, and those in the queues, stay    *)
(* held back when their locks are left alone.                              *)
LEMMA HeldStays ==
  ASSUME IInv, Waiting' \subseteq Waiting,
         \A j \in Waiting' : lock'[j] = lock[j],
         mpc' \in {"create", "register", "link", "unlock"} =>
            /\ mpc' = mpc /\ cur' = cur
            /\ wpc[cur] = "start" => wpc'[cur] = "start"
            /\ lock'[cur] = lock[cur]
  PROVE  HeldBack'
BY DEF IInv, ThreadInv, HeldBack

(***************************************************************************)
(* The types.                                                              *)
(***************************************************************************)

(* Who can own a lock. *)
LEMMA Owners ==
  /\ NumInodes \in Nat
  /\ None \in 0..(NumInodes + 2) /\ Main \in 0..(NumInodes + 2)
  /\ Gone \in 0..(NumInodes + 2)
  /\ \A t \in Inodes : t \in 0..(NumInodes + 2) /\ t # None /\ t # Main
BY PoolAssumption DEF Inodes, None, Main, Gone

(* The inode the main thread looks at is one of the file system. *)
LEMMA ScannedInode ==
  ASSUME TypeOK, ScanInRange, mpc = "scan"
  PROVE  /\ inode_num \in Inodes
         /\ inode_num + 1 \in 1..(NumInodes + 1)
         /\ inode_num + 1 \in Nat
BY PoolAssumption DEF TypeOK, ScanInRange, Inodes

(* Every action keeps the types and its place in the scan. *)
LEMMA TypeStep ==
  ASSUME IInv, [Next]_vars
  PROVE  TypeOK' /\ ScanInRange'
<1>a. TypeOK /\ ScanInRange /\ NumInodes \in Nat
  BY PoolAssumption DEF IInv
<1>1. ASSUME CloneWhileWaiting
      PROVE  TypeOK' /\ ScanInRange'
  BY <1>a, <1>1
     DEF CloneWhileWaiting, TypeOK, ScanInRange, MainLabels, WorkerLabels
<1>2. ASSUME EnterGroup
      PROVE  TypeOK' /\ ScanInRange'
  BY <1>a, <1>2 DEF EnterGroup, TypeOK, ScanInRange, MainLabels, WorkerLabels
<1>3. ASSUME CheckInline
      PROVE  TypeOK' /\ ScanInRange'
  <2>1. /\ inode_num \in Inodes
        /\ inode_num + 1 \in 1..(NumInodes + 1) /\ inode_num + 1 \in Nat
    BY <1>a, <1>3, ScannedInode DEF CheckInline
  <2>2. /\ BeforeInode(inode_num + 1) \in {"group", "scan", "wait"}
        /\ inode_num + 1 > NumInodes => BeforeInode(inode_num + 1) = "wait"
    BY <2>1, BeforeInodeFacts
  <2>3. scans' \in [Inodes -> Nat]
    BY <1>a, <1>3, <2>1 DEF CheckInline, DoChkBlock, TypeOK
  <2>4. lock' \in [Inodes -> 0..(NumInodes + 2)]
    BY <1>a, <1>3, <2>1, Owners DEF CheckInline, TypeOK
  <2>5. /\ inode_num' = inode_num + 1 /\ mpc' = BeforeInode(inode_num + 1)
        /\ UNCHANGED <<ind, list, live_child, isc, wpc, cur, walk>>
    BY <1>3 DEF CheckInline
  <2>6. /\ mpc' \in MainLabels
        /\ mpc' \in {"group", "reapgroup", "scan"} => inode_num' <= NumInodes
    <3>1. inode_num + 1 \in Nat /\ NumInodes \in Nat
      BY <1>a, <2>1
    <3>2. QED
      BY <2>2, <2>5, <3>1 DEF MainLabels
  <2>7. QED
    BY <1>a, <2>1, <2>3, <2>4, <2>5, <2>6 DEF TypeOK, ScanInRange
<1>4. ASSUME NEW l \in Levels, Queue(l)
      PROVE  TypeOK' /\ ScanInRange'
  <2>1. inode_num \in Inodes /\ inode_num + 1 \in 1..(NumInodes + 1)
    BY <1>a, <1>4, ScannedInode DEF Queue
  <2>2. Append(ind[l], inode_num) \in Seq(Inodes)
    BY <1>a, <2>1, AppendElements DEF TypeOK
  <2>3. ind' \in [Levels -> Seq(Inodes)]
    BY <1>a, <1>4, <2>2 DEF Queue, TypeOK
  <2>4. lock' \in [Inodes -> 0..(NumInodes + 2)]
    BY <1>a, <1>4, <2>1, Owners DEF Queue, TypeOK
  <2>5. /\ inode_num' = inode_num + 1 /\ mpc' = "reap" /\ walk' = 1
        /\ UNCHANGED <<list, live_child, isc, wpc, cur, scans>>
    BY <1>4 DEF Queue
  <2>6. QED
    BY <1>a, <2>1, <2>3, <2>4, <2>5 DEF TypeOK, ScanInRange, MainLabels
<1>5. ASSUME Reap
      PROVE  TypeOK' /\ ScanInRange'
  <2>1. list \in Seq(Inodes) /\ walk \in 1..Len(list)
    BY <1>a, <1>5, LenProperties DEF Reap, TypeOK, ScanInRange
  <2>2. list[walk] \in Inodes /\ list' \in Seq(Inodes)
    BY <1>5, <2>1, ElementOfSeq, WithoutElement DEF Reap
  <2>3. /\ lock' \in [Inodes -> 0..(NumInodes + 2)]
        /\ wpc' \in [Inodes -> WorkerLabels]
    BY <1>a, <1>5, <2>2, Owners DEF Reap, TypeOK, WorkerLabels
  <2>4. /\ UNCHANGED <<inode_num, ind, isc, mpc, cur, walk, scans>>
        /\ live_child' = live_child - 1
    BY <1>5 DEF Reap
  <2>5. ScanInRange' /\ live_child' \in Int
    BY <1>a, <2>4 DEF TypeOK, ScanInRange
  <2>6. TypeOK'
    BY <1>a, <2>2, <2>3, <2>4, <2>5 DEF TypeOK
  <2>7. QED
    BY <2>5, <2>6
<1>6. ASSUME ReapSkip
      PROVE  TypeOK' /\ ScanInRange'
  <2>1. /\ walk' = walk + 1
        /\ UNCHANGED <<inode_num, ind, list, live_child, lock, isc, wpc, mpc,
                       cur, scans>>
    BY <1>6 DEF ReapSkip
  <2>2. walk' \in Nat /\ ScanInRange'
    BY <1>a, <2>1 DEF TypeOK, ScanInRange
  <2>3. TypeOK'
    BY <1>a, <2>1, <2>2 DEF TypeOK
  <2>4. QED
    BY <2>2, <2>3
<1>7. ASSUME ReapEnd
      PROVE  TypeOK' /\ ScanInRange'
  BY <1>a, <1>7
     DEF ReapEnd, TypeOK, ScanInRange, MainLabels, WorkerLabels, Reaping
<1>8. ASSUME CloneNext
      PROVE  TypeOK' /\ ScanInRange'
  <2>1. NextJob \in Inodes /\ ind' \in [Levels -> Seq(Inodes)]
    BY <1>a, <1>8, DequeueFacts DEF CloneNext, IInv, JobInv
  <2>2. /\ cur' = NextJob /\ mpc' = "create"
        /\ UNCHANGED <<inode_num, list, live_child, lock, isc, wpc, walk,
                       scans>>
    BY <1>8 DEF CloneNext
  <2>3. QED
    BY <1>a, <2>1, <2>2 DEF TypeOK, ScanInRange, MainLabels
<1>9. ASSUME CloneEnd
      PROVE  TypeOK' /\ ScanInRange'
  <2>1. inode_num \in Nat /\ NumInodes \in Nat
    BY <1>a DEF TypeOK
  <2>2. /\ BeforeInode(inode_num) \in {"group", "scan", "wait"}
        /\ inode_num > NumInodes => BeforeInode(inode_num) = "wait"
    BY <2>1, BeforeInodeFacts
  <2>3. /\ mpc' = BeforeInode(inode_num)
        /\ UNCHANGED <<inode_num, ind, list, live_child, lock, isc, wpc, cur,
                       walk, scans>>
    BY <1>9 DEF CloneEnd
  <2>4. /\ mpc' \in MainLabels
        /\ mpc' \in {"group", "reapgroup", "scan"} => inode_num <= NumInodes
    BY <2>1, <2>2, <2>3 DEF MainLabels
  <2>5. QED
    BY <1>a, <2>3, <2>4 DEF TypeOK, ScanInRange
<1>10. ASSUME CreateFails
      PROVE  TypeOK' /\ ScanInRange'
  BY <1>a, <1>10, Owners
     DEF CreateFails, TypeOK, ScanInRange, MainLabels, WorkerLabels,
         DoChkBlock, IInv, JobInv, InHandUntouched, Untouched
<1>11. ASSUME CreateSucceeds
      PROVE  TypeOK' /\ ScanInRange'
  BY <1>a, <1>11
     DEF CreateSucceeds, TypeOK, ScanInRange, MainLabels, WorkerLabels, IInv,
         JobInv, InHandUntouched, Untouched
<1>12. ASSUME RegisterLock
      PROVE  TypeOK' /\ ScanInRange'
  BY <1>a, <1>12, Owners
     DEF RegisterLock, TypeOK, ScanInRange, MainLabels, WorkerLabels
<1>13. ASSUME RegisterLink
      PROVE  TypeOK' /\ ScanInRange'
  BY <1>a, <1>13, Owners, AppendElements
     DEF RegisterLink, TypeOK, ScanInRange, MainLabels, WorkerLabels, IInv,
         ThreadInv, HeldBack
<1>14. ASSUME LetStart
      PROVE  TypeOK' /\ ScanInRange'
  BY <1>a, <1>14, Owners
     DEF LetStart, TypeOK, ScanInRange, MainLabels, WorkerLabels
<1>15. ASSUME WaitMore
      PROVE  TypeOK' /\ ScanInRange'
  BY <1>a, <1>15 DEF WaitMore, TypeOK, ScanInRange, MainLabels, WorkerLabels
<1>16. ASSUME WaitEnd
      PROVE  TypeOK' /\ ScanInRange'
  BY <1>a, <1>16 DEF WaitEnd, TypeOK, ScanInRange, MainLabels, WorkerLabels
<1>17. ASSUME NEW t \in Inodes, Start(t)
      PROVE  TypeOK' /\ ScanInRange'
  BY <1>a, <1>17, Owners
     DEF Start, TypeOK, ScanInRange, MainLabels, WorkerLabels, WorkerSame
<1>18. ASSUME NEW t \in Inodes, Started(t)
      PROVE  TypeOK' /\ ScanInRange'
  BY <1>a, <1>18, Owners
     DEF Started, TypeOK, ScanInRange, MainLabels, WorkerLabels, WorkerSame
<1>19. ASSUME NEW t \in Inodes, Work(t)
      PROVE  TypeOK' /\ ScanInRange'
  BY <1>a, <1>19 DEF Work, WorkerSame, DoChkBlock, TypeOK, ScanInRange,
                     WorkerLabels
<1>20. ASSUME NEW t \in Inodes, TakeNext(t)
      PROVE  TypeOK' /\ ScanInRange'
  <2>1. NextJob \in Inodes /\ ind' \in [Levels -> Seq(Inodes)]
    BY <1>a, <1>20, DequeueFacts DEF TakeNext, IInv, JobInv
  <2>2. QED
    BY <1>a, <1>20, <2>1, Owners
       DEF TakeNext, WorkerSame, TypeOK, ScanInRange, WorkerLabels
<1>21. ASSUME NEW t \in Inodes, NoNext(t)
      PROVE  TypeOK' /\ ScanInRange'
  BY <1>a, <1>21
     DEF NoNext, TypeOK, ScanInRange, MainLabels, WorkerLabels, WorkerSame
<1>22. ASSUME NEW t \in Inodes, Terminate(t)
      PROVE  TypeOK' /\ ScanInRange'
  BY <1>a, <1>22
     DEF Terminate, TypeOK, ScanInRange, MainLabels, WorkerLabels, WorkerSame
<1>23. CASE UNCHANGED vars
  BY <1>a, <1>23 DEF vars, TypeOK, ScanInRange
<1>24. QED
  BY <1>1, <1>2, <1>3, <1>4, <1>5, <1>6, <1>7, <1>8, <1>9, <1>10, <1>11, <1>12,
     <1>13, <1>14, <1>15, <1>16, <1>17, <1>18, <1>19, <1>20, <1>21, <1>22,
     <1>23
     DEF Next, MainStep, WorkerStep

(***************************************************************************)
(* The jobs: nobody takes one that somebody else has, or that is done.     *)
(***************************************************************************)

(* The main thread checks an inode itself. *)
LEMMA InlineJobs ==
  ASSUME IInv, CheckInline
  PROVE  JobInv'
<1>1. inode_num \in Inodes /\ inode_num \in Nat /\ NumInodes \in Nat
  BY ScannedInode, PoolAssumption DEF IInv, CheckInline, TypeOK
<1>2. Untouched(inode_num)
  BY <1>1 DEF IInv, JobInv, AheadUntouched, Inodes
<1>3. /\ Waiting' = Waiting /\ Busy' = Busy
      /\ \A j : Untouched(j) /\ j # inode_num => Untouched(j)'
  BY DEF CheckInline, DoChkBlock, Waiting, RangeOf, Busy, Untouched, IInv,
         TypeOK
<1>4. /\ scans' = [scans EXCEPT ![inode_num] = @ + 1]
      /\ inode_num' = inode_num + 1
      /\ UNCHANGED <<ind, isc>>
      /\ mpc' # "create"
  BY <1>1, BeforeInodeFacts DEF CheckInline, DoChkBlock
<1>5. AheadUntouched'
  BY <1>1, <1>3, <1>4 DEF IInv, JobInv, AheadUntouched
<1>6. QueuedOnce'
  BY <1>4 DEF IInv, JobInv, QueuedOnce
<1>7. QueuedUntouched'
  BY <1>1, <1>3, <1>4, PoolAssumption
     DEF IInv, JobInv, QueuedUntouched, Untouched, Inodes
<1>8. InHandUntouched'
  BY <1>4 DEF InHandUntouched
<1>9. BusyApart'
  <2>1. \A t \in Busy : isc[t] \in Inodes /\ isc[t] < inode_num
    BY DEF IInv, TypeOK, JobInv, BusyApart, Busy
  <2>2. \A t \in Busy : isc[t] # inode_num /\ isc[t] < inode_num + 1
    BY <2>1, <1>1 DEF Inodes
  <2>3. QED
    BY <2>1, <2>2, <1>3, <1>4 DEF IInv, TypeOK, JobInv, BusyApart
<1>10. ScannedOnce'
  BY <1>2, <1>4 DEF IInv, TypeOK, JobInv, ScannedOnce, Untouched
<1>11. QED
  BY <1>5, <1>6, <1>7, <1>8, <1>9, <1>10 DEF JobInv

(* The main thread queues an inode. *)
LEMMA QueueJobs ==
  ASSUME IInv, NEW l \in Levels, Queue(l)
  PROVE  JobInv'
<1>1. inode_num \in Inodes /\ inode_num \in Nat /\ NumInodes \in Nat
  BY ScannedInode, PoolAssumption DEF IInv, Queue, TypeOK
<1>2. Untouched(inode_num)
  BY <1>1 DEF IInv, JobInv, AheadUntouched, Inodes
<1>3. inode_num \notin Waiting
  BY <1>1 DEF IInv, JobInv, QueuedUntouched
<1>4. Waiting' = Waiting \cup {inode_num} /\ QueuedOnce'
  BY <1>1, <1>3, QueueFacts DEF IInv, JobInv, Queue
<1>5. /\ Busy' = Busy /\ inode_num' = inode_num + 1
      /\ UNCHANGED <<isc, scans>> /\ mpc' # "create"
      /\ \A j : Untouched(j) => Untouched(j)'
  BY DEF Queue, Busy, Untouched
<1>6. AheadUntouched'
  BY <1>1, <1>5 DEF IInv, JobInv, AheadUntouched
<1>7. QueuedUntouched'
  BY <1>1, <1>2, <1>4, <1>5, PoolAssumption
     DEF IInv, JobInv, QueuedUntouched, Untouched, Inodes
<1>8. InHandUntouched'
  BY <1>5 DEF InHandUntouched
<1>9. BusyApart'
  <2>1. \A t \in Busy : isc[t] \in Inodes /\ isc[t] < inode_num
    BY DEF IInv, TypeOK, JobInv, BusyApart, Busy
  <2>2. \A t \in Busy : isc[t] < inode_num + 1
    BY <2>1, <1>1 DEF Inodes
  <2>3. QED
    BY <2>2, <1>5 DEF IInv, JobInv, BusyApart
<1>10. ScannedOnce'
  BY <1>5 DEF IInv, JobInv, ScannedOnce
<1>11. QED
  BY <1>4, <1>6, <1>7, <1>8, <1>9, <1>10 DEF JobInv

(* The main thread takes a job out of a queue to start a thread for it. *)
LEMMA CloneNextJobs ==
  ASSUME IInv, CloneNext
  PROVE  JobInv'
<1>1. /\ NextJob \in Inodes /\ NextJob \in Waiting
      /\ Waiting' = Waiting \ {NextJob} /\ QueuedOnce'
  BY DequeueFacts DEF IInv, JobInv, CloneNext
<1>2. NextJob < inode_num /\ Untouched(NextJob)
  BY <1>1 DEF IInv, JobInv, QueuedUntouched
<1>3. /\ Busy' = Busy /\ UNCHANGED <<inode_num, isc, scans>> /\ cur' = NextJob
      /\ \A j : Untouched(j) => Untouched(j)'
  BY DEF CloneNext, Busy, Untouched
<1>4. AheadUntouched'
  BY <1>3 DEF IInv, JobInv, AheadUntouched
<1>5. QueuedUntouched'
  BY <1>1, <1>3 DEF IInv, JobInv, QueuedUntouched
<1>6. InHandUntouched'
  BY <1>1, <1>2, <1>3 DEF InHandUntouched
<1>7. BusyApart'
  BY <1>3 DEF IInv, JobInv, BusyApart
<1>8. ScannedOnce'
  BY <1>3 DEF IInv, JobInv, ScannedOnce
<1>9. QED
  BY <1>1, <1>4, <1>5, <1>6, <1>7, <1>8 DEF JobInv

(* No thread can be created: the main thread runs the job in its hands. *)
LEMMA CreateFailsJobs ==
  ASSUME IInv, CreateFails
  PROVE  JobInv'
<1>1. /\ cur \in Inodes /\ cur < inode_num /\ isc[cur] = cur
      /\ scans[cur] = 0 /\ cur \notin Waiting
      /\ \A t \in Busy : isc[t] # cur
  BY DEF IInv, JobInv, InHandUntouched, Untouched, CreateFails
<1>2. /\ scans' = [scans EXCEPT ![cur] = @ + 1]
      /\ Waiting' = Waiting /\ Busy' = Busy
      /\ UNCHANGED <<inode_num, ind, isc>> /\ mpc' # "create"
  BY <1>1 DEF CreateFails, DoChkBlock, Waiting, RangeOf, Busy
<1>3. \A j : Untouched(j) /\ j # cur => Untouched(j)'
  BY <1>2 DEF Untouched, CreateFails, IInv, TypeOK
<1>4. AheadUntouched'
  BY <1>1, <1>2, <1>3, PoolAssumption
     DEF IInv, TypeOK, JobInv, AheadUntouched, Inodes
<1>5. QueuedOnce'
  BY <1>2 DEF IInv, JobInv, QueuedOnce
<1>6. QueuedUntouched'
  BY <1>1, <1>2, <1>3 DEF IInv, JobInv, QueuedUntouched
<1>7. InHandUntouched'
  BY <1>2 DEF InHandUntouched
<1>8. BusyApart'
  BY <1>1, <1>2 DEF IInv, TypeOK, JobInv, BusyApart, Busy
<1>9. ScannedOnce'
  BY <1>1, <1>2 DEF IInv, TypeOK, JobInv, ScannedOnce
<1>10. QED
  BY <1>4, <1>5, <1>6, <1>7, <1>8, <1>9 DEF JobInv

(* A thread is started for the job in the main thread's hands. *)
LEMMA CreateSucceedsJobs ==
  ASSUME IInv, CreateSucceeds
  PROVE  JobInv'
<1>1. /\ cur \in Inodes /\ cur < inode_num /\ isc[cur] = cur
      /\ scans[cur] = 0 /\ cur \notin Waiting /\ wpc[cur] = "none"
      /\ \A t \in Busy : isc[t] # cur
  BY DEF IInv, JobInv, InHandUntouched, Untouched, CreateSucceeds
<1>2. /\ wpc' = [wpc EXCEPT ![cur] = "start"] /\ Waiting' = Waiting
      /\ UNCHANGED <<inode_num, ind, isc, scans>> /\ mpc' # "create"
  BY DEF CreateSucceeds, Waiting, RangeOf
<1>3. Busy' = Busy \cup {cur}
  BY <1>1, <1>2 DEF Busy, IInv, TypeOK
<1>4. \A j : Untouched(j) /\ j # cur => Untouched(j)'
  BY <1>1, <1>2, <1>3 DEF Untouched, IInv, TypeOK
<1>5. AheadUntouched'
  BY <1>1, <1>2, <1>4, PoolAssumption
     DEF IInv, TypeOK, JobInv, AheadUntouched, Inodes
<1>6. QueuedOnce'
  BY <1>2 DEF IInv, JobInv, QueuedOnce
<1>7. QueuedUntouched'
  BY <1>1, <1>2, <1>4 DEF IInv, JobInv, QueuedUntouched
<1>8. InHandUntouched'
  BY <1>2 DEF InHandUntouched
<1>9. BusyApart'
  BY <1>1, <1>2, <1>3 DEF IInv, JobInv, BusyApart
<1>10. ScannedOnce'
  BY <1>2 DEF IInv, JobInv, ScannedOnce
<1>11. QED
  BY <1>5, <1>6, <1>7, <1>8, <1>9, <1>10 DEF JobInv

(* A worker runs its job. *)
LEMMA WorkJobs ==
  ASSUME IInv, NEW t \in Inodes, Work(t)
  PROVE  JobInv'
<1>1. /\ t \in Busy /\ isc[t] \in Inodes /\ isc[t] < inode_num
      /\ scans[isc[t]] = 0
      /\ \A u \in Busy : isc[u] = isc[t] => u = t
  BY DEF IInv, TypeOK, JobInv, BusyApart, Busy, Work
<1>2. /\ scans' = [scans EXCEPT ![isc[t]] = @ + 1]
      /\ wpc' = [wpc EXCEPT ![t] = "next"]
      /\ Waiting' = Waiting
      /\ UNCHANGED <<inode_num, ind, isc, mpc, cur>>
  BY DEF Work, DoChkBlock, WorkerSame, Waiting, RangeOf
<1>3. Busy' = Busy \ {t}
  BY <1>2 DEF Busy, IInv, TypeOK
<1>4. \A j : Untouched(j) => Untouched(j)'
  BY <1>1, <1>2, <1>3 DEF Untouched, Busy, IInv, TypeOK
<1>5. AheadUntouched'
  BY <1>2, <1>4 DEF IInv, JobInv, AheadUntouched
<1>6. QueuedOnce'
  BY <1>2 DEF IInv, JobInv, QueuedOnce
<1>7. QueuedUntouched'
  BY <1>2, <1>4 DEF IInv, JobInv, QueuedUntouched
<1>8. InHandUntouched'
  BY <1>2, <1>4 DEF IInv, JobInv, InHandUntouched
<1>9. BusyApart'
  BY <1>1, <1>2, <1>3 DEF IInv, TypeOK, JobInv, BusyApart, Busy
<1>10. ScannedOnce'
  BY <1>1, <1>2 DEF IInv, TypeOK, JobInv, ScannedOnce
<1>11. QED
  BY <1>5, <1>6, <1>7, <1>8, <1>9, <1>10 DEF JobInv

(* A worker takes the next job. *)
LEMMA TakeNextJobs ==
  ASSUME IInv, NEW t \in Inodes, TakeNext(t)
  PROVE  JobInv'
<1>1. /\ NextJob \in Inodes /\ NextJob \in Waiting
      /\ Waiting' = Waiting \ {NextJob} /\ QueuedOnce'
  BY DequeueFacts DEF IInv, JobInv, TakeNext
<1>2. NextJob < inode_num /\ isc[NextJob] = NextJob /\ scans[NextJob] = 0
      /\ \A u \in Busy : isc[u] # NextJob
  BY <1>1 DEF IInv, JobInv, QueuedUntouched, Untouched
<1>3. /\ isc' = [isc EXCEPT ![t] = NextJob]
      /\ wpc' = [wpc EXCEPT ![t] = "work"] /\ wpc[t] = "next"
      /\ UNCHANGED <<inode_num, scans, mpc, cur>>
  BY <1>2 DEF TakeNext, WorkerSame
<1>4. Busy' = Busy \cup {t} /\ t \notin Busy
  BY <1>3 DEF Busy, IInv, TypeOK
<1>5. \A j : Untouched(j) /\ j # NextJob => Untouched(j)'
  BY <1>3, <1>4 DEF Untouched, Busy, IInv, TypeOK
<1>6. AheadUntouched'
  BY <1>1, <1>2, <1>3, <1>5, PoolAssumption
     DEF IInv, TypeOK, JobInv, AheadUntouched, Inodes
<1>7. QueuedUntouched'
  BY <1>1, <1>3, <1>5 DEF IInv, JobInv, QueuedUntouched
<1>8. InHandUntouched'
  BY <1>1, <1>3, <1>5 DEF IInv, JobInv, InHandUntouched
<1>9. BusyApart'
  BY <1>2, <1>3, <1>4 DEF IInv, TypeOK, JobInv, BusyApart, Busy
<1>10. ScannedOnce'
  BY <1>3 DEF IInv, JobInv, ScannedOnce
<1>11. QED
  BY <1>1, <1>6, <1>7, <1>8, <1>9, <1>10 DEF JobInv

(* Every action keeps the jobs apart. *)
LEMMA JobStep ==
  ASSUME IInv, [Next]_vars
  PROVE  JobInv'
<1>1. ASSUME CloneWhileWaiting PROVE JobInv'
  BY <1>1, JobsStay DEF CloneWhileWaiting, Busy
<1>2. ASSUME EnterGroup PROVE JobInv'
  BY <1>2, JobsStay DEF EnterGroup, Busy
<1>3. ASSUME CheckInline PROVE JobInv'
  BY <1>3, InlineJobs
<1>4. ASSUME NEW l \in Levels, Queue(l) PROVE JobInv'
  BY <1>4, QueueJobs
<1>5. ASSUME Reap PROVE JobInv'
  BY <1>5, JobsStay DEF Reap, Reaping, Busy, IInv, TypeOK
<1>6. ASSUME ReapSkip PROVE JobInv'
  BY <1>6, JobsStay DEF ReapSkip, Busy
<1>7. ASSUME ReapEnd PROVE JobInv'
  BY <1>7, JobsStay DEF ReapEnd, Reaping, Busy
<1>8. ASSUME CloneNext PROVE JobInv'
  BY <1>8, CloneNextJobs
<1>9. ASSUME CloneEnd PROVE JobInv'
  BY <1>9, HandsEmpty, JobsStay DEF CloneEnd, Busy, IInv
<1>10. ASSUME CreateFails PROVE JobInv'
  BY <1>10, CreateFailsJobs
<1>11. ASSUME CreateSucceeds PROVE JobInv'
  BY <1>11, CreateSucceedsJobs
<1>12. ASSUME RegisterLock PROVE JobInv'
  BY <1>12, JobsStay DEF RegisterLock, Busy
<1>13. ASSUME RegisterLink PROVE JobInv'
  BY <1>13, JobsStay DEF RegisterLink, Busy
<1>14. ASSUME LetStart PROVE JobInv'
  BY <1>14, JobsStay DEF LetStart, Busy
<1>15. ASSUME WaitMore PROVE JobInv'
  BY <1>15, JobsStay DEF WaitMore, Busy
<1>16. ASSUME WaitEnd PROVE JobInv'
  BY <1>16, JobsStay DEF WaitEnd, Busy
<1>17. ASSUME NEW t \in Inodes, Start(t) PROVE JobInv'
  BY <1>17, JobsStay DEF Start, WorkerSame, Busy, IInv, TypeOK
<1>18. ASSUME NEW t \in Inodes, Started(t) PROVE JobInv'
  BY <1>18, JobsStay DEF Started, WorkerSame, Busy, IInv, TypeOK
<1>19. ASSUME NEW t \in Inodes, Work(t) PROVE JobInv'
  BY <1>19, WorkJobs
<1>20. ASSUME NEW t \in Inodes, TakeNext(t) PROVE JobInv'
  BY <1>20, TakeNextJobs
<1>21. ASSUME NEW t \in Inodes, NoNext(t) PROVE JobInv'
  BY <1>21, JobsStay DEF NoNext, WorkerSame, Busy, IInv, TypeOK
<1>22. ASSUME NEW t \in Inodes, Terminate(t) PROVE JobInv'
  BY <1>22, JobsStay DEF Terminate, WorkerSame, Busy, IInv, TypeOK
<1>23. CASE UNCHANGED vars
  BY <1>23, JobsStay DEF vars, Busy
<1>24. QED
  BY <1>1, <1>2, <1>3, <1>4, <1>5, <1>6, <1>7, <1>8, <1>9, <1>10, <1>11, <1>12,
     <1>13, <1>14, <1>15, <1>16, <1>17, <1>18, <1>19, <1>20, <1>21, <1>22, <1>23
     DEF Next, MainStep, WorkerStep

(***************************************************************************)
(* The threads: those that run are in the list, or held back.              *)
(***************************************************************************)

(* A struct that is queued has no thread. *)
LEMMA WaitingNone ==
  ASSUME IInv, NEW j \in Waiting
  PROVE  j \in Inodes /\ j < inode_num /\ wpc[j] = "none"
BY DEF IInv, JobInv, QueuedUntouched, Untouched

(* A listed thread has been started and is not reaped. *)
LEMMA ListedRuns ==
  ASSUME IInv, NEW i \in 1..Len(list)
  PROVE  /\ list[i] \in RangeOf(list) /\ list[i] \in Inodes
         /\ list[i] \notin Unlinked /\ list[i] \notin Waiting
         /\ wpc[list[i]] \notin {"none", "reaped"}
<1>1. list[i] \in RangeOf(list)
  BY LenProperties DEF RangeOf, IInv, TypeOK
<1>2. QED
  BY <1>1, WaitingNone DEF IInv, ThreadInv, ListedOnce

(* An ended thread is taken from the list. *)
LEMMA ReapThreads ==
  ASSUME IInv, Reap
  PROVE  ThreadInv'
<1>1. list \in Seq(Inodes) /\ walk \in 1..Len(list)
  BY LenProperties DEF Reap, IInv, TypeOK, ScanInRange
<1>2. NoRepeats(list)
  BY DEF IInv, ThreadInv, ListedOnce, NoRepeats
<1>3. NoRepeats(list') /\ RangeOf(list') = RangeOf(list) \ {list[walk]}
  BY <1>1, <1>2, UnlinkFacts DEF Reap
<1>4. /\ list[walk] \in Inodes /\ list[walk] \notin Waiting
  BY <1>1, ListedRuns
<1>5. /\ wpc' = [wpc EXCEPT ![list[walk]] = "reaped"]
      /\ lock' = [lock EXCEPT ![list[walk]] = Gone]
      /\ UNCHANGED <<ind, mpc, cur>> /\ mpc \in Reaping
      /\ Waiting' = Waiting /\ Unlinked' = Unlinked
  BY DEF Reap, Waiting, RangeOf, Unlinked
<1>6. ListedOnce'
  <2>1. RangeOf(list)' = {t \in Inodes \ Unlinked' :
                             wpc'[t] \notin {"none", "reaped"}}
    BY <1>3, <1>4, <1>5 DEF IInv, TypeOK, ThreadInv, ListedOnce, RangeOf
  <2>2. QED
    BY <2>1, <1>3 DEF ListedOnce, NoRepeats
<1>7. HeldBack'
  BY <1>4, <1>5, WaitingNone, HeldStays DEF IInv, TypeOK, Reaping
<1>8. QED
  BY <1>6, <1>7 DEF ThreadInv

(* A thread is started, but not in the list yet. *)
LEMMA CreateThreads ==
  ASSUME IInv, CreateSucceeds
  PROVE  ThreadInv'
<1>1. cur \in Inodes /\ wpc[cur] = "none" /\ cur \notin Waiting
      /\ mpc = "create"
  BY DEF IInv, JobInv, InHandUntouched, Untouched, CreateSucceeds
<1>2. /\ wpc' = [wpc EXCEPT ![cur] = "start"] /\ mpc' = "register"
      /\ UNCHANGED <<list, lock, cur>>
      /\ Waiting' = Waiting
  BY DEF CreateSucceeds, Waiting, RangeOf
<1>3. Unlinked = {} /\ Unlinked' = {cur}
  BY <1>1, <1>2 DEF Unlinked
<1>4. ListedOnce'
  <2>1. RangeOf(list)' = RangeOf(list)
    BY <1>2 DEF RangeOf
  <2>2. {t \in Inodes \ Unlinked' : wpc'[t] \notin {"none", "reaped"}}
          = {t \in Inodes \ Unlinked : wpc[t] \notin {"none", "reaped"}}
    BY <1>1, <1>2, <1>3 DEF IInv, TypeOK
  <2>3. QED
    BY <2>1, <2>2, <1>2 DEF IInv, ThreadInv, ListedOnce
<1>5. HeldBack'
  BY <1>1, <1>2 DEF IInv, TypeOK, ThreadInv, HeldBack
<1>6. QED
  BY <1>4, <1>5 DEF ThreadInv

(* register_job locks the last struct of the list ... *)
LEMMA RegisterLockThreads ==
  ASSUME IInv, RegisterLock
  PROVE  ThreadInv'
<1>1. ListedOnce'
  BY ListStays DEF RegisterLock, Unlinked
<1>2. \A j \in Inodes : lock[j] = Main => lock'[j] = Main
  BY DEF RegisterLock, IInv, TypeOK
<1>3. Waiting' = Waiting
  BY DEF RegisterLock, Waiting, RangeOf
<1>4. HeldBack'
  BY <1>2, <1>3, WaitingNone DEF RegisterLock, IInv, ThreadInv, HeldBack
<1>5. QED
  BY <1>1, <1>4 DEF ThreadInv

(* ... and appends the new one behind it. *)
LEMMA RegisterLinkThreads ==
  ASSUME IInv, RegisterLink
  PROVE  ThreadInv'
<1>1. /\ mpc = "link" /\ cur \in Inodes /\ wpc[cur] = "start"
      /\ lock[cur] = Main
  BY DEF RegisterLink, IInv, ThreadInv, HeldBack
<1>2. /\ list' = Append(list, cur) /\ mpc' = "unlock"
      /\ UNCHANGED <<ind, wpc, cur>> /\ Waiting' = Waiting
      /\ Unlinked = {cur} /\ Unlinked' = {}
  BY <1>1 DEF RegisterLink, Waiting, RangeOf, Unlinked
<1>3. list \in Seq(Inodes) /\ NoRepeats(list) /\ cur \notin RangeOf(list)
  BY <1>2 DEF IInv, TypeOK, ThreadInv, ListedOnce, NoRepeats
<1>4. NoRepeats(list') /\ RangeOf(list') = RangeOf(list) \cup {cur}
  BY <1>1, <1>2, <1>3, LinkFacts
<1>5. ListedOnce'
  <2>1. RangeOf(list') = {t \in Inodes \ Unlinked' :
                             wpc'[t] \notin {"none", "reaped"}}
    BY <1>1, <1>2, <1>4 DEF IInv, ThreadInv, ListedOnce
  <2>2. RangeOf(list)' = RangeOf(list')
    BY DEF RangeOf
  <2>3. QED
    BY <2>1, <2>2, <1>4 DEF ListedOnce, NoRepeats
<1>6. \A j \in Waiting \cup {cur} : lock'[j] = lock[j]
  <2>1. CASE list = <<>>
    BY <2>1 DEF RegisterLink
  <2>2. CASE list # <<>>
    <3>1. Len(list) \in 1..Len(list)
      BY <2>2, <1>3, EmptySeq
    <3>2. list[Len(list)] \notin Waiting /\ list[Len(list)] # cur
      BY <3>1, <1>2, ListedRuns
    <3>3. lock' = [lock EXCEPT ![list[Len(list)]] = None]
      BY <2>2 DEF RegisterLink
    <3>4. QED
      BY <3>2, <3>3, <1>1, WaitingNone DEF IInv, TypeOK
  <2>3. QED
    BY <2>1, <2>2
<1>7. HeldBack'
  BY <1>1, <1>2, <1>6 DEF IInv, ThreadInv, HeldBack
<1>8. QED
  BY <1>5, <1>7 DEF ThreadInv

(* The main thread queues an inode. *)
LEMMA QueueThreads ==
  ASSUME IInv, NEW l \in Levels, Queue(l)
  PROVE  ThreadInv'
<1>1. inode_num \in Inodes /\ inode_num \in Nat
  BY ScannedInode DEF IInv, Queue, TypeOK, Inodes
<1>2. inode_num \notin Waiting
  BY <1>1, WaitingNone
<1>3. Waiting' = Waiting \cup {inode_num}
  BY <1>1, <1>2, QueueFacts DEF IInv, JobInv, Queue
<1>4. ListedOnce'
  BY ListStays DEF Queue, Unlinked
<1>5. HeldBack'
  BY <1>1, <1>3, WaitingNone DEF Queue, IInv, TypeOK, ThreadInv, HeldBack
<1>6. QED
  BY <1>4, <1>5 DEF ThreadInv

(* The main thread takes a job from a queue. *)
LEMMA CloneNextThreads ==
  ASSUME IInv, CloneNext
  PROVE  ThreadInv'
<1>1. NextJob \in Waiting /\ Waiting' = Waiting \ {NextJob}
  BY DequeueFacts DEF IInv, JobInv, CloneNext
<1>2. ListedOnce'
  BY ListStays DEF CloneNext, Unlinked
<1>3. HeldBack'
  BY <1>1 DEF CloneNext, IInv, ThreadInv, HeldBack
<1>4. QED
  BY <1>2, <1>3 DEF ThreadInv

(* A worker takes a job from a queue. *)
LEMMA TakeNextThreads ==
  ASSUME IInv, NEW t \in Inodes, TakeNext(t)
  PROVE  ThreadInv'
<1>1. NextJob \in Waiting /\ Waiting' = Waiting \ {NextJob}
  BY DequeueFacts DEF IInv, JobInv, TakeNext
<1>2. NextJob \in Inodes /\ wpc[NextJob] = "none"
  BY <1>1, WaitingNone
<1>3. /\ wpc' = [wpc EXCEPT ![t] = "work"] /\ wpc[t] = "next"
      /\ lock' = [lock EXCEPT ![NextJob] = Gone]
      /\ UNCHANGED <<list, mpc, cur>>
  BY DEF TakeNext, WorkerSame
<1>4. ListedOnce'
  BY <1>3, ListStays DEF IInv, TypeOK, Unlinked
<1>5. mpc \in {"create", "register", "link", "unlock"} => NextJob # cur
  BY <1>1, <1>2 DEF IInv, JobInv, InHandUntouched, ThreadInv, HeldBack
<1>6. HeldBack'
  BY <1>1, <1>2, <1>3, <1>5, WaitingNone
     DEF IInv, TypeOK, ThreadInv, HeldBack, JobInv, InHandUntouched, Untouched
<1>7. QED
  BY <1>4, <1>6 DEF ThreadInv

(* Every action keeps the list of threads right. *)
LEMMA ThreadStep ==
  ASSUME IInv, [Next]_vars
  PROVE  ThreadInv'
<1>1. ASSUME CloneWhileWaiting PROVE ThreadInv'
  <2>1. mpc' \notin {"create", "register", "link", "unlock"}
        /\ Unlinked' = Unlinked
    BY <1>1 DEF CloneWhileWaiting, Unlinked
  <2>2. ListedOnce'
    BY <1>1, <2>1, ListStays DEF CloneWhileWaiting
  <2>3. Waiting' = Waiting
    BY <1>1 DEF CloneWhileWaiting, Waiting, RangeOf
  <2>4. HeldBack'
    BY <1>1, <2>1, <2>3, HeldStays DEF CloneWhileWaiting
  <2>5. QED
    BY <2>2, <2>4 DEF ThreadInv
<1>2. ASSUME EnterGroup PROVE ThreadInv'
  <2>1. mpc' \notin {"create", "register", "link", "unlock"}
        /\ Unlinked' = Unlinked
    BY <1>2 DEF EnterGroup, Unlinked
  <2>2. ListedOnce'
    BY <1>2, <2>1, ListStays DEF EnterGroup
  <2>3. Waiting' = Waiting
    BY <1>2 DEF EnterGroup, Waiting, RangeOf
  <2>4. HeldBack'
    BY <1>2, <2>1, <2>3, HeldStays DEF EnterGroup
  <2>5. QED
    BY <2>2, <2>4 DEF ThreadInv
<1>3. ASSUME CheckInline PROVE ThreadInv'
  <2>1. mpc' \notin {"create", "register", "link", "unlock"}
        /\ Unlinked' = Unlinked
    BY <1>3, HandsEmpty DEF CheckInline, Unlinked, IInv
  <2>2. ListedOnce'
    BY <1>3, <2>1, ListStays DEF CheckInline
  <2>3. Waiting' = Waiting
    BY <1>3 DEF CheckInline, Waiting, RangeOf
  <2>4. inode_num \in Inodes /\ inode_num \notin Waiting
    BY <1>3, ScannedInode, WaitingNone DEF CheckInline, IInv, Inodes
  <2>5. HeldBack'
    BY <1>3, <2>1, <2>3, <2>4, HeldStays, WaitingNone
       DEF CheckInline, IInv, TypeOK
  <2>6. QED
    BY <2>2, <2>5 DEF ThreadInv
<1>4. ASSUME NEW l \in Levels, Queue(l) PROVE ThreadInv'
  BY <1>4, QueueThreads
<1>5. ASSUME Reap PROVE ThreadInv'
  BY <1>5, ReapThreads
<1>6. ASSUME ReapSkip PROVE ThreadInv'
  <2>1. mpc' \notin {"create", "register", "link", "unlock"}
        /\ Unlinked' = Unlinked
    BY <1>6 DEF ReapSkip, Unlinked, Reaping
  <2>2. ListedOnce'
    BY <1>6, <2>1, ListStays DEF ReapSkip, Reaping
  <2>3. Waiting' = Waiting
    BY <1>6 DEF ReapSkip, Waiting, RangeOf
  <2>4. HeldBack'
    BY <1>6, <2>1, <2>3, HeldStays DEF ReapSkip
  <2>5. QED
    BY <2>2, <2>4 DEF ThreadInv
<1>7. ASSUME ReapEnd PROVE ThreadInv'
  <2>1. mpc' \notin {"create", "register", "link", "unlock"}
        /\ Unlinked' = Unlinked
    BY <1>7 DEF ReapEnd, Unlinked, Reaping
  <2>2. ListedOnce'
    BY <1>7, <2>1, ListStays DEF ReapEnd, Reaping
  <2>3. Waiting' = Waiting
    BY <1>7 DEF ReapEnd, Waiting, RangeOf
  <2>4. HeldBack'
    BY <1>7, <2>1, <2>3, HeldStays DEF ReapEnd
  <2>5. QED
    BY <2>2, <2>4 DEF ThreadInv
<1>8. ASSUME CloneNext PROVE ThreadInv'
  BY <1>8, CloneNextThreads
<1>9. ASSUME CloneEnd PROVE ThreadInv'
  <2>1. mpc' \notin {"create", "register", "link", "unlock"}
        /\ Unlinked' = Unlinked
    BY <1>9, HandsEmpty DEF CloneEnd, Unlinked, IInv
  <2>2. ListedOnce'
    BY <1>9, <2>1, ListStays DEF CloneEnd
  <2>3. Waiting' = Waiting
    BY <1>9 DEF CloneEnd, Waiting, RangeOf
  <2>4. HeldBack'
    BY <1>9, <2>1, <2>3, HeldStays DEF CloneEnd
  <2>5. QED
    BY <2>2, <2>4 DEF ThreadInv
<1>10. ASSUME CreateFails PROVE ThreadInv'
  <2>1. mpc' \notin {"create", "register", "link", "unlock"}
        /\ Unlinked' = Unlinked
    BY <1>10 DEF CreateFails, Unlinked
  <2>2. ListedOnce'
    BY <1>10, <2>1, ListStays DEF CreateFails
  <2>3. Waiting' = Waiting
    BY <1>10 DEF CreateFails, Waiting, RangeOf
  <2>4. HeldBack'
    BY <1>10, <2>1, <2>3, HeldStays, WaitingNone
       DEF CreateFails, IInv, TypeOK, JobInv, InHandUntouched
  <2>5. QED
    BY <2>2, <2>4 DEF ThreadInv
<1>11. ASSUME CreateSucceeds PROVE ThreadInv'
  BY <1>11, CreateThreads
<1>12. ASSUME RegisterLock PROVE ThreadInv'
  BY <1>12, RegisterLockThreads
<1>13. ASSUME RegisterLink PROVE ThreadInv'
  BY <1>13, RegisterLinkThreads
<1>14. ASSUME LetStart PROVE ThreadInv'
  <2>1. mpc' \notin {"create", "register", "link", "unlock"}
        /\ Unlinked' = Unlinked
    BY <1>14 DEF LetStart, Unlinked
  <2>2. ListedOnce'
    BY <1>14, <2>1, ListStays DEF LetStart
  <2>3. Waiting' = Waiting
    BY <1>14 DEF LetStart, Waiting, RangeOf
  <2>4. HeldBack'
    BY <1>14, <2>1, <2>3, HeldStays, WaitingNone
       DEF LetStart, IInv, TypeOK, ThreadInv, HeldBack
  <2>5. QED
    BY <2>2, <2>4 DEF ThreadInv
<1>15. ASSUME WaitMore PROVE ThreadInv'
  <2>1. mpc' \notin {"create", "register", "link", "unlock"}
        /\ Unlinked' = Unlinked
    BY <1>15 DEF WaitMore, Unlinked
  <2>2. ListedOnce'
    BY <1>15, <2>1, ListStays DEF WaitMore
  <2>3. Waiting' = Waiting
    BY <1>15 DEF WaitMore, Waiting, RangeOf
  <2>4. HeldBack'
    BY <1>15, <2>1, <2>3, HeldStays DEF WaitMore
  <2>5. QED
    BY <2>2, <2>4 DEF ThreadInv
<1>16. ASSUME WaitEnd PROVE ThreadInv'
  <2>1. mpc' \notin {"create", "register", "link", "unlock"}
        /\ Unlinked' = Unlinked
    BY <1>16 DEF WaitEnd, Unlinked
  <2>2. ListedOnce'
    BY <1>16, <2>1, ListStays DEF WaitEnd
  <2>3. Waiting' = Waiting
    BY <1>16 DEF WaitEnd, Waiting, RangeOf
  <2>4. HeldBack'
    BY <1>16, <2>1, <2>3, HeldStays DEF WaitEnd
  <2>5. QED
    BY <2>2, <2>4 DEF ThreadInv
<1>17. ASSUME NEW t \in Inodes, Start(t) PROVE ThreadInv'
  <2>1. ListedOnce'
    BY <1>17, ListStays DEF Start, WorkerSame, Unlinked, IInv, TypeOK
  <2>2. Waiting' = Waiting
    BY <1>17 DEF Start, WorkerSame, Waiting, RangeOf
  <2>3. HeldBack'
    <3>1. /\ lock' = [lock EXCEPT ![t] = t] /\ lock[t] = None
          /\ wpc' = [wpc EXCEPT ![t] = "started"] /\ wpc[t] = "start"
          /\ UNCHANGED <<mpc, cur>>
      BY <1>17 DEF Start, WorkerSame
    <3>2. None # Main
      BY Owners, PoolAssumption DEF None, Main
    <3>3. \A j \in Waiting : j # t
      BY <3>1, WaitingNone
    <3>4. mpc \in {"create", "register", "link", "unlock"} => t # cur
      BY <3>1, <3>2 DEF IInv, ThreadInv, HeldBack
    <3>5. QED
      BY <2>2, <3>1, <3>3, <3>4, HeldStays, WaitingNone
         DEF IInv, TypeOK, ThreadInv, HeldBack, JobInv, InHandUntouched,
             Untouched
  <2>4. QED
    BY <2>1, <2>3 DEF ThreadInv
<1>18. ASSUME NEW t \in Inodes, Started(t) PROVE ThreadInv'
  <2>1. ListedOnce'
    BY <1>18, ListStays DEF Started, WorkerSame, Unlinked, IInv, TypeOK
  <2>2. Waiting' = Waiting
    BY <1>18 DEF Started, WorkerSame, Waiting, RangeOf
  <2>3. HeldBack'
    BY <1>18, <2>2, HeldStays, WaitingNone
       DEF Started, WorkerSame, IInv, TypeOK, ThreadInv, HeldBack,
           JobInv, InHandUntouched, Untouched
  <2>4. QED
    BY <2>1, <2>3 DEF ThreadInv
<1>19. ASSUME NEW t \in Inodes, Work(t) PROVE ThreadInv'
  <2>1. ListedOnce'
    BY <1>19, ListStays DEF Work, WorkerSame, Unlinked, IInv, TypeOK
  <2>2. Waiting' = Waiting
    BY <1>19 DEF Work, WorkerSame, Waiting, RangeOf
  <2>3. HeldBack'
    BY <1>19, <2>2, HeldStays, WaitingNone
       DEF Work, WorkerSame, IInv, TypeOK, ThreadInv, HeldBack,
           JobInv, InHandUntouched, Untouched
  <2>4. QED
    BY <2>1, <2>3 DEF ThreadInv
<1>20. ASSUME NEW t \in Inodes, TakeNext(t) PROVE ThreadInv'
  BY <1>20, TakeNextThreads
<1>21. ASSUME NEW t \in Inodes, NoNext(t) PROVE ThreadInv'
  <2>1. ListedOnce'
    BY <1>21, ListStays DEF NoNext, WorkerSame, Unlinked, IInv, TypeOK
  <2>2. Waiting' = Waiting
    BY <1>21 DEF NoNext, WorkerSame, Waiting, RangeOf
  <2>3. HeldBack'
    BY <1>21, <2>2, HeldStays, WaitingNone
       DEF NoNext, WorkerSame, IInv, TypeOK, ThreadInv, HeldBack,
           JobInv, InHandUntouched, Untouched
  <2>4. QED
    BY <2>1, <2>3 DEF ThreadInv
<1>22. ASSUME NEW t \in Inodes, Terminate(t) PROVE ThreadInv'
  <2>1. ListedOnce'
    BY <1>22, ListStays DEF Terminate, WorkerSame, Unlinked, IInv, TypeOK
  <2>2. Waiting' = Waiting
    BY <1>22 DEF Terminate, WorkerSame, Waiting, RangeOf
  <2>3. HeldBack'
    BY <1>22, <2>2, HeldStays, WaitingNone
       DEF Terminate, WorkerSame, IInv, TypeOK, ThreadInv, HeldBack,
           JobInv, InHandUntouched, Untouched
  <2>4. QED
    BY <2>1, <2>3 DEF ThreadInv
<1>23. CASE UNCHANGED vars
  BY <1>23, ListStays, HeldStays
     DEF vars, Unlinked, Waiting, RangeOf, ThreadInv
<1>24. QED
  BY <1>1, <1>2, <1>3, <1>4, <1>5, <1>6, <1>7, <1>8, <1>9, <1>10, <1>11, <1>12,
     <1>13, <1>14, <1>15, <1>16, <1>17, <1>18, <1>19, <1>20, <1>21, <1>22, <1>23
     DEF Next, MainStep, WorkerStep

(***************************************************************************)
(* The theorems.                                                           *)
(***************************************************************************)

(* The initial states satisfy the inductive invariant. *)
LEMMA InitInv == Init => IInv
<1> SUFFICES ASSUME Init PROVE IInv
  OBVIOUS
<1>1. NumInodes \in Nat /\ 1 \in 1..(NumInodes + 1)
  BY PoolAssumption
<1>2. /\ BeforeInode(1) \in {"group", "scan", "wait"}
      /\ 1 > NumInodes => BeforeInode(1) = "wait"
  BY BeforeInodeFacts
<1>3. <<>> \in Seq(Inodes) /\ DOMAIN <<>> = {}
  BY EmptySeq
<1>4. TypeOK
  BY <1>1, <1>2, <1>3 DEF Init, TypeOK, MainLabels, WorkerLabels, None
<1>5. ScanInRange
  BY <1>1, <1>2 DEF Init, ScanInRange
<1>6. Waiting = {} /\ Busy = {} /\ Unlinked = {} /\ RangeOf(list) = {}
  BY <1>2, <1>3 DEF Init, Waiting, RangeOf, Busy, Unlinked
<1>7. JobInv
  BY <1>1, <1>2, <1>3, <1>6
     DEF Init, JobInv, AheadUntouched, QueuedOnce, QueuedUntouched,
         InHandUntouched, BusyApart, ScannedOnce, Untouched, Inodes
<1>8. ThreadInv
  BY <1>2, <1>3, <1>6 DEF Init, ThreadInv, ListedOnce, HeldBack
<1>9. QED
  BY <1>4, <1>5, <1>7, <1>8 DEF IInv

(* The inductive invariant: no job is in two places, and every thread that *)
(* runs is listed.                                                         *)
THEOREM Invariant == Spec => []IInv
<1>1. IInv /\ [Next]_vars => IInv'
  BY TypeStep, JobStep, ThreadStep DEF IInv
<1>2. QED
  BY <1>1, InitInv, PTL DEF Spec

(* Type correctness of the main thread's and the workers' state. *)
THEOREM TypeCorrect == Spec => []TypeOK
<1>1. IInv => TypeOK
  BY DEF IInv
<1>2. QED
  BY <1>1, Invariant, PTL

(* No inode is checked twice, for any number of inodes, levels of the      *)
(* queues and workers.                                                     *)
THEOREM NoJobTwice == Spec => []ScannedOnce
<1>1. IInv => ScannedOnce
  BY DEF IInv, JobInv
<1>2. QED
  BY <1>1, Invariant, PTL

(* A worker that has started is in the list of threads: the main thread    *)
(* cannot leave the scan without reaping it.                               *)
THEOREM RunningIsListed == Spec => []RunsOnlyRegistered
<1>1. IInv => RunsOnlyRegistered
  <2> SUFFICES ASSUME IInv, NEW t \in Inodes,
                      wpc[t] \in {"started", "work", "next", "exit", "dead"}
               PROVE  \E i \in DOMAIN list : list[i] = t
    BY DEF RunsOnlyRegistered
  <2>1. t \notin Unlinked
    BY DEF IInv, ThreadInv, HeldBack, Unlinked
  <2>2. t \in RangeOf(list)
    BY <2>1 DEF IInv, ThreadInv, ListedOnce
  <2>3. QED
    BY <2>2 DEF RangeOf
<1>2. QED
  BY <1>1, Invariant, PTL

(***************************************************************************)
(* No job is lost.                                                         *)
(***************************************************************************)

(* A job stays in its place when no place is given up. *)
LEMMA PlacedStays ==
  ASSUME UNCHANGED <<inode_num, ind, isc, scans>>, Busy' = Busy,
         mpc = "create" => mpc' = "create" /\ cur' = cur, NoneLost
  PROVE  NoneLost'
<1>1. Waiting' = Waiting
  BY DEF Waiting, RangeOf
<1>2. \A j : Placed(j) => Placed(j)'
  BY <1>1 DEF Placed, InHand
<1>3. QED
  BY <1>2 DEF NoneLost

(* The inode that is handed over gets a place. *)
LEMMA PlacedNew ==
  ASSUME TypeOK, NoneLost, NEW k, Placed(k)',
         inode_num' = inode_num + 1, k = inode_num,
         \A j \in Inodes : Placed(j) /\ j # k => Placed(j)'
  PROVE  NoneLost'
<1>1. inode_num \in Nat /\ NumInodes \in Nat
      /\ inode_num <= NumInodes + 1
  BY PoolAssumption DEF TypeOK
<1>2. ASSUME NEW j \in 1..(inode_num' - 1)
      PROVE  Placed(j)'
  <2>1. j = k \/ j \in 1..(inode_num - 1)
    BY <1>1
  <2>2. j \in 1..(inode_num - 1) => j \in Inodes /\ Placed(j)
    BY <1>1 DEF Inodes, NoneLost
  <2>3. QED
    BY <2>1, <2>2
<1>3. QED
  BY <1>2 DEF NoneLost

(* The main thread checks an inode itself: it is done. *)
LEMMA InlinePlaced ==
  ASSUME IInv, NoneLost, CheckInline
  PROVE  NoneLost'
<1>1. inode_num \in Inodes
  BY ScannedInode DEF IInv, CheckInline
<1>2. PICK k \in Inodes : k = inode_num
  BY <1>1
<1>3. scans[k] = 0
  BY <1>2, PoolAssumption
     DEF IInv, TypeOK, JobInv, AheadUntouched, Untouched, Inodes
<1>4. /\ scans' = [scans EXCEPT ![k] = @ + 1]
      /\ UNCHANGED isc /\ Waiting' = Waiting /\ Busy' = Busy
      /\ mpc = "scan" /\ inode_num' = inode_num + 1
  BY <1>2 DEF CheckInline, DoChkBlock, Waiting, RangeOf, Busy
<1>5. Placed(k)'
  BY <1>3, <1>4 DEF IInv, TypeOK, Placed
<1>6. \A j \in Inodes : Placed(j) /\ j # k => Placed(j)'
  BY <1>4 DEF IInv, TypeOK, Placed, InHand
<1>7. QED
  BY <1>2, <1>4, <1>5, <1>6, PlacedNew DEF IInv

(* The main thread queues an inode: it waits. *)
LEMMA QueuePlaced ==
  ASSUME IInv, NoneLost, NEW l \in Levels, Queue(l)
  PROVE  NoneLost'
<1>1. inode_num \in Inodes
  BY ScannedInode DEF IInv, Queue
<1>2. PICK k \in Inodes : k = inode_num
  BY <1>1
<1>3. inode_num \notin Waiting
  BY <1>1, WaitingNone DEF Inodes
<1>4. Waiting' = Waiting \cup {k}
  BY <1>1, <1>2, <1>3, QueueFacts DEF IInv, JobInv, Queue
<1>5. /\ UNCHANGED <<isc, scans>> /\ Busy' = Busy
      /\ mpc = "scan" /\ inode_num' = inode_num + 1
  BY DEF Queue, Busy
<1>6. Placed(k)'
  BY <1>4 DEF Placed
<1>7. \A j \in Inodes : Placed(j) /\ j # k => Placed(j)'
  BY <1>4, <1>5 DEF Placed, InHand
<1>8. QED
  BY <1>2, <1>5, <1>6, <1>7, PlacedNew DEF IInv

(* The job that is moved gets a new place. *)
LEMMA PlacedMove ==
  ASSUME TypeOK, NoneLost, NEW k, Placed(k)', UNCHANGED inode_num,
         \A j \in Inodes : Placed(j) /\ j # k => Placed(j)'
  PROVE  NoneLost'
<1>1. \A j \in 1..(inode_num - 1) : j \in Inodes /\ Placed(j)
  BY PoolAssumption DEF TypeOK, Inodes, NoneLost
<1>2. \A j \in 1..(inode_num - 1) : Placed(j)'
  BY <1>1
<1>3. QED
  BY <1>2 DEF NoneLost

(* A job leaves the queue for the hands of the main thread. *)
LEMMA CloneNextPlaced ==
  ASSUME IInv, NoneLost, CloneNext
  PROVE  NoneLost'
<1>1. NextJob \in Inodes /\ Waiting' = Waiting \ {NextJob}
  BY DequeueFacts DEF IInv, JobInv, CloneNext
<1>2. PICK k \in Inodes : k = NextJob
  BY <1>1
<1>3. /\ UNCHANGED <<inode_num, isc, scans>> /\ Busy' = Busy
      /\ mpc = "clone" /\ mpc' = "create" /\ cur' = k
  BY <1>2 DEF CloneNext, Busy
<1>4. Placed(k)'
  BY <1>3 DEF Placed, InHand
<1>5. \A j \in Inodes : Placed(j) /\ j # k => Placed(j)'
  BY <1>1, <1>2, <1>3 DEF Placed, InHand
<1>6. QED
  BY <1>3, <1>4, <1>5, PlacedMove DEF IInv

(* No thread for it: the main thread does the job in its hands. *)
LEMMA CreateFailsPlaced ==
  ASSUME IInv, NoneLost, CreateFails
  PROVE  NoneLost'
<1>1. cur \in Inodes /\ isc[cur] = cur /\ scans[cur] = 0 /\ mpc = "create"
  BY DEF IInv, JobInv, InHandUntouched, Untouched, CreateFails
<1>2. PICK k \in Inodes : k = cur
  BY <1>1
<1>3. /\ scans' = [scans EXCEPT ![k] = @ + 1]
      /\ inode_num' = inode_num /\ isc' = isc /\ mpc' = "clone"
      /\ Waiting' = Waiting /\ Busy' = Busy
  <2>1. scans' = [scans EXCEPT ![isc[cur]] = @ + 1]
    BY DEF CreateFails, DoChkBlock
  <2>2. isc[cur] = k
    BY <1>1, <1>2
  <2>3. QED
    BY <2>1, <2>2 DEF CreateFails, Waiting, RangeOf, Busy
<1>4. Placed(k)'
  BY <1>1, <1>2, <1>3 DEF IInv, TypeOK, Placed
<1>5. \A j \in Inodes : Placed(j) /\ j # k => Placed(j)'
  BY <1>1, <1>2, <1>3 DEF IInv, TypeOK, Placed, InHand
<1>6. QED
  BY <1>3, <1>4, <1>5, PlacedMove DEF IInv

(* A thread for it: the worker has the job. *)
LEMMA CreateSucceedsPlaced ==
  ASSUME IInv, NoneLost, CreateSucceeds
  PROVE  NoneLost'
<1>1. /\ cur \in Inodes /\ isc[cur] = cur /\ wpc[cur] = "none"
      /\ mpc = "create"
  BY DEF IInv, JobInv, InHandUntouched, Untouched, CreateSucceeds
<1>2. PICK k \in Inodes : k = cur
  BY <1>1
<1>3. /\ wpc' = [wpc EXCEPT ![k] = "start"] /\ Waiting' = Waiting
      /\ UNCHANGED <<inode_num, isc, scans>>
  BY <1>2 DEF CreateSucceeds, Waiting, RangeOf
<1>4. Busy' = Busy \cup {k}
  BY <1>1, <1>2, <1>3 DEF Busy, IInv, TypeOK
<1>5. Placed(k)'
  BY <1>1, <1>2, <1>3, <1>4 DEF Placed
<1>6. \A j \in Inodes : Placed(j) /\ j # k => Placed(j)'
  BY <1>1, <1>2, <1>3, <1>4 DEF Placed, InHand
<1>7. QED
  BY <1>3, <1>5, <1>6, PlacedMove DEF IInv

(* A worker finishes its job. *)
LEMMA WorkPlaced ==
  ASSUME IInv, NoneLost, NEW t \in Inodes, Work(t)
  PROVE  NoneLost'
<1>1. t \in Busy /\ isc[t] \in Inodes /\ scans[isc[t]] = 0
  BY DEF IInv, TypeOK, JobInv, BusyApart, Busy, Work
<1>2. PICK k \in Inodes : k = isc[t]
  BY <1>1
<1>3. /\ scans' = [scans EXCEPT ![k] = @ + 1]
      /\ wpc' = [wpc EXCEPT ![t] = "next"] /\ Waiting' = Waiting
      /\ UNCHANGED <<inode_num, isc, mpc, cur>>
  BY <1>2 DEF Work, DoChkBlock, WorkerSame, Waiting, RangeOf
<1>4. Busy' = Busy \ {t}
  BY <1>3 DEF Busy, IInv, TypeOK
<1>5. Placed(k)'
  BY <1>1, <1>2, <1>3 DEF IInv, TypeOK, Placed
<1>6. \A j \in Inodes : Placed(j) /\ j # k => Placed(j)'
  BY <1>2, <1>3, <1>4 DEF IInv, TypeOK, Placed, InHand
<1>7. QED
  BY <1>3, <1>5, <1>6, PlacedMove DEF IInv

(* A worker takes the next one. *)
LEMMA TakeNextPlaced ==
  ASSUME IInv, NoneLost, NEW t \in Inodes, TakeNext(t)
  PROVE  NoneLost'
<1>1. /\ NextJob \in Inodes /\ NextJob \in Waiting
      /\ Waiting' = Waiting \ {NextJob}
  BY DequeueFacts DEF IInv, JobInv, TakeNext
<1>2. PICK k \in Inodes : k = NextJob
  BY <1>1
<1>3. /\ isc' = [isc EXCEPT ![t] = k]
      /\ wpc' = [wpc EXCEPT ![t] = "work"] /\ wpc[t] = "next"
      /\ UNCHANGED <<inode_num, scans, mpc, cur>>
  BY <1>1, <1>2
     DEF TakeNext, WorkerSame, IInv, JobInv, QueuedUntouched, Untouched
<1>4. Busy' = Busy \cup {t} /\ t \notin Busy
  BY <1>3 DEF Busy, IInv, TypeOK
<1>5. Placed(k)'
  BY <1>3, <1>4 DEF IInv, TypeOK, Placed
<1>6. \A j \in Inodes : Placed(j) /\ j # k => Placed(j)'
  BY <1>1, <1>2, <1>3, <1>4 DEF IInv, TypeOK, Placed, InHand, Busy
<1>7. QED
  BY <1>3, <1>5, <1>6, PlacedMove DEF IInv

(* No action loses a job. *)
LEMMA PlacedStep ==
  ASSUME IInv, NoneLost, [Next]_vars
  PROVE  NoneLost'
<1>1. ASSUME CloneWhileWaiting PROVE NoneLost'
  BY <1>1, PlacedStays DEF CloneWhileWaiting, Busy
<1>2. ASSUME EnterGroup PROVE NoneLost'
  BY <1>2, PlacedStays DEF EnterGroup, Busy
<1>3. ASSUME CheckInline PROVE NoneLost'
  BY <1>3, InlinePlaced
<1>4. ASSUME NEW l \in Levels, Queue(l) PROVE NoneLost'
  BY <1>4, QueuePlaced
<1>5. ASSUME Reap PROVE NoneLost'
  BY <1>5, PlacedStays DEF Reap, Reaping, Busy, IInv, TypeOK
<1>6. ASSUME ReapSkip PROVE NoneLost'
  BY <1>6, PlacedStays DEF ReapSkip, Reaping, Busy
<1>7. ASSUME ReapEnd PROVE NoneLost'
  BY <1>7, PlacedStays DEF ReapEnd, Reaping, Busy
<1>8. ASSUME CloneNext PROVE NoneLost'
  BY <1>8, CloneNextPlaced
<1>9. ASSUME CloneEnd PROVE NoneLost'
  BY <1>9, PlacedStays DEF CloneEnd, Busy
<1>10. ASSUME CreateFails PROVE NoneLost'
  BY <1>10, CreateFailsPlaced
<1>11. ASSUME CreateSucceeds PROVE NoneLost'
  BY <1>11, CreateSucceedsPlaced
<1>12. ASSUME RegisterLock PROVE NoneLost'
  BY <1>12, PlacedStays DEF RegisterLock, Busy
<1>13. ASSUME RegisterLink PROVE NoneLost'
  BY <1>13, PlacedStays DEF RegisterLink, Busy
<1>14. ASSUME LetStart PROVE NoneLost'
  BY <1>14, PlacedStays DEF LetStart, Busy
<1>15. ASSUME WaitMore PROVE NoneLost'
  BY <1>15, PlacedStays DEF WaitMore, Busy
<1>16. ASSUME WaitEnd PROVE NoneLost'
  BY <1>16, PlacedStays DEF WaitEnd, Busy
<1>17. ASSUME NEW t \in Inodes, Start(t) PROVE NoneLost'
  BY <1>17, PlacedStays DEF Start, WorkerSame, Busy, IInv, TypeOK
<1>18. ASSUME NEW t \in Inodes, Started(t) PROVE NoneLost'
  BY <1>18, PlacedStays DEF Started, WorkerSame, Busy, IInv, TypeOK
<1>19. ASSUME NEW t \in Inodes, Work(t) PROVE NoneLost'
  BY <1>19, WorkPlaced
<1>20. ASSUME NEW t \in Inodes, TakeNext(t) PROVE NoneLost'
  BY <1>20, TakeNextPlaced
<1>21. ASSUME NEW t \in Inodes, NoNext(t) PROVE NoneLost'
  BY <1>21, PlacedStays DEF NoNext, WorkerSame, Busy, IInv, TypeOK
<1>22. ASSUME NEW t \in Inodes, Terminate(t) PROVE NoneLost'
  BY <1>22, PlacedStays DEF Terminate, WorkerSame, Busy, IInv, TypeOK
<1>23. CASE UNCHANGED vars
  BY <1>23, PlacedStays DEF vars, Busy
<1>24. QED
  BY <1>1, <1>2, <1>3, <1>4, <1>5, <1>6, <1>7, <1>8, <1>9, <1>10, <1>11, <1>12,
     <1>13, <1>14, <1>15, <1>16, <1>17, <1>18, <1>19, <1>20, <1>21, <1>22, <1>23
     DEF Next, MainStep, WorkerStep

(* A job that was handed over is in exactly one place. *)
THEOREM EveryJobAccounted == Spec => []JobsAccounted
<1>1. Init => NoneLost
  BY PoolAssumption DEF Init, NoneLost
<1>2. Spec => []NoneLost
  BY <1>1, PlacedStep, Invariant, PTL DEF Spec
<1>3. IInv /\ NoneLost => JobsAccounted
  <2> SUFFICES ASSUME IInv, NoneLost, NEW j \in 1..(inode_num - 1)
               PROVE  LET workers == {t \in Busy : isc[t] = j}
                      IN  scans[j] + Cardinality(workers)
                            + (IF j \in Waiting THEN 1 ELSE 0)
                            + (IF j \in InHand THEN 1 ELSE 0) = 1
    BY DEF JobsAccounted
  <2> DEFINE workers == {t \in Busy : isc[t] = j}
  <2>1. j \in Inodes /\ scans[j] \in {0, 1}
    <3>1. j \in Inodes
      BY PoolAssumption DEF IInv, TypeOK, Inodes
    <3>2. QED
      BY <3>1 DEF IInv, TypeOK, JobInv, ScannedOnce
  <2>2. Placed(j)
    BY DEF NoneLost
  <2>3. j \in Waiting => /\ scans[j] = 0 /\ workers = {} /\ j \notin InHand
    BY DEF IInv, JobInv, QueuedUntouched, InHandUntouched, Untouched, InHand
  <2>4. j \in InHand => scans[j] = 0 /\ workers = {}
    BY DEF IInv, JobInv, InHandUntouched, Untouched, InHand
  <2>5. \A t \in workers : scans[j] = 0 /\ workers = {t}
    BY DEF IInv, JobInv, BusyApart
  <2>6. Cardinality({}) = 0 /\ \A t : Cardinality({t}) = 1
    BY FS_EmptySet, FS_Singleton
  <2>7. \/ workers = {} /\ scans[j] = 1 /\ j \notin Waiting /\ j \notin InHand
        \/ workers = {} /\ scans[j] = 0 /\ j \in Waiting /\ j \notin InHand
        \/ workers = {} /\ scans[j] = 0 /\ j \notin Waiting /\ j \in InHand
        \/ \E t : workers = {t} /\ scans[j] = 0 /\ j \notin Waiting
                  /\ j \notin InHand
    BY <2>1, <2>2, <2>3, <2>4, <2>5 DEF Placed
  <2>8. \/ Cardinality(workers) = 0 /\ scans[j] = 1
           /\ j \notin Waiting /\ j \notin InHand
        \/ Cardinality(workers) = 0 /\ scans[j] = 0
           /\ j \in Waiting /\ j \notin InHand
        \/ Cardinality(workers) = 0 /\ scans[j] = 0
           /\ j \notin Waiting /\ j \in InHand
        \/ Cardinality(workers) = 1 /\ scans[j] = 0
           /\ j \notin Waiting /\ j \notin InHand
    BY <2>6, <2>7
  <2> HIDE DEF workers
  <2>9. QED
    BY <2>8 DEF workers
<1>4. QED
  BY <1>2, <1>3, Invariant, PTL

(***************************************************************************)
(* The threads are counted.                                                *)
(***************************************************************************)

(* The threads that are not reaped, and whether one is not linked yet. *)
Children == {t \in Inodes : wpc[t] \notin {"none", "reaped"}}
Linking == IF mpc \in {"register", "link"} THEN 1 ELSE 0

(* There are finitely many threads. *)
LEMMA ChildrenFinite ==
  IsFiniteSet(Children) /\ Cardinality(Children) \in Nat
<1>1. 1 \in Int /\ NumInodes \in Int
  BY PoolAssumption
<1>2. IsFiniteSet(Inodes)
  BY <1>1, FS_Interval DEF Inodes
<1>3. Children \in SUBSET Inodes
  BY DEF Children
<1>4. QED
  BY <1>2, <1>3, FS_Subset, FS_CardinalityType

(* Steps that create, link and reap none keep the count. *)
LEMMA CountStays ==
  ASSUME CountInv, UNCHANGED live_child, Len(list)' = Len(list),
         Linking' = Linking, Children' = Children,
         mpc' = "create" => live_child < hard_child_limit
  PROVE  CountInv'
BY DEF CountInv, ChildrenCounted, RoomForOne, Linking, Children

(* A thread is created. *)
LEMMA CreateCounted ==
  ASSUME IInv, CountInv, CreateSucceeds
  PROVE  CountInv'
<1>1. /\ cur \in Inodes /\ wpc[cur] = "none" /\ mpc = "create"
      /\ live_child \in Int /\ hard_child_limit \in Int
  BY PoolAssumption
     DEF IInv, TypeOK, JobInv, InHandUntouched, Untouched, CreateSucceeds
<1>2. /\ wpc' = [wpc EXCEPT ![cur] = "start"] /\ mpc' = "register"
      /\ live_child' = live_child + 1 /\ UNCHANGED list
  BY DEF CreateSucceeds
<1>3. Children' = Children \cup {cur} /\ cur \notin Children
  BY <1>1, <1>2 DEF Children, IInv, TypeOK
<1>4. Cardinality(Children') = Cardinality(Children) + 1
  BY <1>3, ChildrenFinite, FS_AddElement
<1>5. /\ live_child = Len(list) /\ live_child = Cardinality(Children)
      /\ live_child < hard_child_limit
  BY <1>1, LenProperties
     DEF CountInv, ChildrenCounted, RoomForOne, Children, IInv, TypeOK
<1>6. /\ live_child' = Len(list') + 1
      /\ live_child' = Cardinality(Children')
      /\ live_child' <= hard_child_limit
  BY <1>1, <1>2, <1>4, <1>5
<1>7. QED
  BY <1>2, <1>6 DEF CountInv, ChildrenCounted, RoomForOne, Children

(* It is linked. *)
LEMMA LinkCounted ==
  ASSUME IInv, CountInv, RegisterLink
  PROVE  CountInv'
<1>1. /\ mpc = "link" /\ mpc' = "unlock" /\ cur \in Inodes
      /\ list' = Append(list, cur) /\ list \in Seq(Inodes)
      /\ UNCHANGED <<live_child, wpc>>
  BY DEF RegisterLink, IInv, TypeOK, ThreadInv, HeldBack
<1>2. Len(list') = Len(list) + 1 /\ Len(list') \in Int
  BY <1>1, AppendElements
<1>3. live_child = Len(list) + 1
  BY <1>1 DEF CountInv, ChildrenCounted
<1>4. live_child' = Len(list') + 0
  BY <1>1, <1>2, <1>3
<1>5. QED
  BY <1>1, <1>4 DEF CountInv, ChildrenCounted, RoomForOne

(* It is reaped. *)
LEMMA ReapCounted ==
  ASSUME IInv, CountInv, Reap
  PROVE  CountInv'
<1>1. list \in Seq(Inodes) /\ walk \in 1..Len(list)
  BY LenProperties DEF Reap, IInv, TypeOK, ScanInRange
<1>2. NoRepeats(list)
  BY DEF IInv, ThreadInv, ListedOnce, NoRepeats
<1>3. Len(list') = Len(list) - 1
  BY <1>1, <1>2, UnlinkFacts DEF Reap
<1>4. /\ wpc' = [wpc EXCEPT ![list[walk]] = "reaped"]
      /\ mpc' = mpc /\ live_child' = live_child - 1
      /\ mpc \notin {"register", "link", "create"}
  BY DEF Reap, Reaping
<1>5. Children' = Children \ {list[walk]} /\ list[walk] \in Children
  BY <1>1, <1>4, ListedRuns DEF Children, IInv, TypeOK
<1>6. Cardinality(Children') = Cardinality(Children) - 1
  BY <1>5, ChildrenFinite, FS_RemoveElement
<1>7. /\ live_child \in Int /\ Len(list) \in Int /\ hard_child_limit \in Int
      /\ live_child = Len(list) + 0 /\ live_child = Cardinality(Children)
      /\ live_child <= hard_child_limit
  BY <1>1, <1>4, LenProperties, PoolAssumption
     DEF CountInv, ChildrenCounted, Children, IInv, TypeOK
<1> DEFINE n == Len(list)
           m == Len(list')
<1>8. /\ live_child' = m + 0 /\ live_child' = Cardinality(Children')
      /\ live_child' <= hard_child_limit
  <2>1. m = n - 1 /\ n \in Int /\ live_child = n
    BY <1>3, <1>7
  <2> HIDE DEF m, n
  <2>2. QED
    BY <2>1, <1>4, <1>6, <1>7
<1>9. QED
  BY <1>4, <1>8 DEF CountInv, ChildrenCounted, RoomForOne, Children

(* Every action keeps the count. *)
LEMMA CountStep ==
  ASSUME IInv, CountInv, [Next]_vars
  PROVE  CountInv'
<1>1. ASSUME CloneWhileWaiting PROVE CountInv'
  BY <1>1, CountStays DEF CloneWhileWaiting, Linking, Children
<1>2. ASSUME EnterGroup PROVE CountInv'
  BY <1>2, CountStays DEF EnterGroup, Linking, Children
<1>3. ASSUME CheckInline PROVE CountInv'
  BY <1>3, CountStays, HandsEmpty DEF CheckInline, Linking, Children, IInv
<1>4. ASSUME NEW l \in Levels, Queue(l) PROVE CountInv'
  BY <1>4, CountStays DEF Queue, Linking, Children
<1>5. ASSUME Reap PROVE CountInv'
  BY <1>5, ReapCounted
<1>6. ASSUME ReapSkip PROVE CountInv'
  BY <1>6, CountStays DEF ReapSkip, Reaping, Linking, Children
<1>7. ASSUME ReapEnd PROVE CountInv'
  BY <1>7, CountStays DEF ReapEnd, Reaping, Linking, Children
<1>8. ASSUME CloneNext PROVE CountInv'
  BY <1>8, CountStays DEF CloneNext, Linking, Children
<1>9. ASSUME CloneEnd PROVE CountInv'
  BY <1>9, CountStays, HandsEmpty DEF CloneEnd, Linking, Children, IInv
<1>10. ASSUME CreateFails PROVE CountInv'
  BY <1>10, CountStays DEF CreateFails, Linking, Children
<1>11. ASSUME CreateSucceeds PROVE CountInv'
  BY <1>11, CreateCounted
<1>12. ASSUME RegisterLock PROVE CountInv'
  BY <1>12, CountStays DEF RegisterLock, Linking, Children
<1>13. ASSUME RegisterLink PROVE CountInv'
  BY <1>13, LinkCounted
<1>14. ASSUME LetStart PROVE CountInv'
  BY <1>14, CountStays DEF LetStart, Linking, Children
<1>15. ASSUME WaitMore PROVE CountInv'
  BY <1>15, CountStays DEF WaitMore, Linking, Children
<1>16. ASSUME WaitEnd PROVE CountInv'
  BY <1>16, CountStays DEF WaitEnd, Linking, Children
<1>17. ASSUME NEW t \in Inodes, Start(t) PROVE CountInv'
  BY <1>17, CountStays DEF Start, WorkerSame, Linking, Children,
     CountInv, RoomForOne, IInv, TypeOK
<1>18. ASSUME NEW t \in Inodes, Started(t) PROVE CountInv'
  BY <1>18, CountStays DEF Started, WorkerSame, Linking, Children,
     CountInv, RoomForOne, IInv, TypeOK
<1>19. ASSUME NEW t \in Inodes, Work(t) PROVE CountInv'
  BY <1>19, CountStays DEF Work, WorkerSame, Linking, Children,
     CountInv, RoomForOne, IInv, TypeOK
<1>20. ASSUME NEW t \in Inodes, TakeNext(t) PROVE CountInv'
  BY <1>20, CountStays DEF TakeNext, WorkerSame, Linking, Children,
     CountInv, RoomForOne, IInv, TypeOK
<1>21. ASSUME NEW t \in Inodes, NoNext(t) PROVE CountInv'
  BY <1>21, CountStays DEF NoNext, WorkerSame, Linking, Children,
     CountInv, RoomForOne, IInv, TypeOK
<1>22. ASSUME NEW t \in Inodes, Terminate(t) PROVE CountInv'
  BY <1>22, CountStays DEF Terminate, WorkerSame, Linking, Children,
     CountInv, RoomForOne, IInv, TypeOK
<1>23. CASE UNCHANGED vars
  BY <1>23, CountStays DEF vars, Linking, Children, CountInv, RoomForOne
<1>24. QED
  BY <1>1, <1>2, <1>3, <1>4, <1>5, <1>6, <1>7, <1>8, <1>9, <1>10, <1>11, <1>12,
     <1>13, <1>14, <1>15, <1>16, <1>17, <1>18, <1>19, <1>20, <1>21, <1>22, <1>23
     DEF Next, MainStep, WorkerStep

(* live_child counts the threads that are not reaped, and there are never  *)
(* more than hard_child_limit of them.                                     *)
THEOREM LimitKept == Spec => []ChildrenCounted
<1>1. Init => CountInv
  <2> SUFFICES ASSUME Init PROVE CountInv
    OBVIOUS
  <2>1. mpc \in {"group", "scan", "wait"}
    BY BeforeInodeFacts DEF Init
  <2>2. {t \in Inodes : wpc[t] \notin {"none", "reaped"}} = {}
    BY DEF Init
  <2>3. live_child = 0 /\ Len(list) = 0 /\ Cardinality({}) = 0
    BY EmptySeq, FS_EmptySet DEF Init
  <2>4. 0 <= hard_child_limit
    BY PoolAssumption
  <2>5. ChildrenCounted
    <3>1. Cardinality({t \in Inodes : wpc[t] \notin {"none", "reaped"}}) = 0
      BY <2>2, <2>3
    <3>2. mpc \notin {"register", "link"} /\ Len(list) + 0 = 0
      BY <2>1, <2>3
    <3>3. QED
      BY <3>1, <3>2, <2>3, <2>4 DEF ChildrenCounted
  <2>6. QED
    BY <2>1, <2>5 DEF CountInv, RoomForOne
<1>2. CountInv => ChildrenCounted
  BY DEF CountInv
<1>3. QED
  BY <1>1, <1>2, CountStep, Invariant, PTL DEF Spec

(* Every thread is accounted for, for any number of inodes and any limit:  *)
(* it is in the list when it runs, and in live_child until it is reaped.   *)
THEOREM WorkersAccounted == Spec => []WorkersCounted
<1>1. ChildrenCounted /\ RunsOnlyRegistered => WorkersCounted
  BY DEF WorkersCounted
<1>2. QED
  BY <1>1, LimitKept, RunningIsListed, PTL
=============================================================================
