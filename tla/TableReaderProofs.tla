-------------------------- MODULE TableReaderProofs --------------------------
(***************************************************************************)
(* Proofs about TableReader for any number of groups, slots and workers.   *)
(***************************************************************************)
EXTENDS TableReader, Lemmas

(***************************************************************************)
(* The labels and the slots.                                               *)
(***************************************************************************)

(* Which lock belongs to which label, and where a thread goes on. *)
LEMMA Tables ==
  /\ DOMAIN WaitsFor = {"tre_wait", "trf_wait", "cct_wait", "reset_wait",
                        "exit_wait"}
  /\ DOMAIN Wakes = {"tre_wake", "trf_wake", "cct_wake", "exit_wake"}
  /\ WaitsFor["tre_wait"] = "empty" /\ WaitsFor["trf_wait"] = "full"
  /\ WaitsFor["cct_wait"] = "cct" /\ WaitsFor["reset_wait"] = "full"
  /\ WaitsFor["exit_wait"] = "full"
  /\ Wakes["tre_wake"] = "empty" /\ Wakes["trf_wake"] = "full"
  /\ Wakes["cct_wake"] = "cct" /\ Wakes["exit_wake"] = "full"
  /\ After["tre_wait"] = "poll" /\ After["trf_wait"] = "check"
  /\ After["cct_wait"] = "again" /\ After["reset_wait"] = "exit"
  /\ After["exit_wait"] = "exited" /\ After["tre_wake"] = "next"
  /\ After["trf_wake"] = "loop" /\ After["cct_wake"] = "handed"
  /\ After["exit_wake"] = "gone"
BY DEF WaitsFor, Wakes, After

(* A group has a slot. *)
LEMMA SlotIn ==
  ASSUME NEW g \in Nat
  PROVE  SlotOf(g) \in 0..(INODE_TABLE_ROUNDROUBIN - 1)
BY ReaderAssumption DEF SlotOf

(* Groups less than a lap apart have different slots. *)
LEMMA SlotsDiffer ==
  ASSUME NEW g \in Nat, NEW h \in Nat, g < h, h < g + INODE_TABLE_ROUNDROUBIN
  PROVE  SlotOf(g) # SlotOf(h)
<1> DEFINE n == INODE_TABLE_ROUNDROUBIN
<1>1. n \in Int /\ n > 0 /\ g \in Int /\ h \in Int /\ 0 < h - g /\ h - g < n
  BY ReaderAssumption
<1>2. SUFFICES ASSUME g % n = h % n PROVE FALSE
  BY DEF SlotOf
<1> HIDE DEF n
<1>3. /\ g \div n \in Int /\ h \div n \in Int
      /\ g = n * (g \div n) + (g % n) /\ h = n * (h \div n) + (h % n)
      /\ n * (g \div n) \in Int /\ n * (h \div n) \in Int
      /\ g % n \in Int
  BY <1>1, DivMod
<1>4. n * (h \div n) - n * (g \div n) = h - g
  BY <1>1, <1>2, <1>3
<1>5. h - g <= 0 \/ h - g >= n
  BY <1>1, <1>3, <1>4, MultipleOutside
<1>6. QED
  BY <1>1, <1>5

(* Who waits, and where. *)
LEMMA Waiting ==
  ASSUME Places, NEW p \in Threads, pc[p] \in DOMAIN WaitsFor
  PROVE  \/ p = "reader" /\ pc[p] = "trf_wait"
         \/ p = "main" /\ pc[p] \in {"tre_wait", "reset_wait", "exit_wait"}
         \/ p = "cct" /\ pc[p] = "cct_wait"
BY Tables DEF Places, Threads, MainLabels, ReaderLabels, CctLabels, Filling,
              Ending

(* Who wakes, and where. *)
LEMMA Waking ==
  ASSUME Places, NEW p \in Threads, pc[p] \in DOMAIN Wakes
  PROVE  \/ p = "reader" /\ pc[p] = "tre_wake"
         \/ p = "main" /\ pc[p] \in {"trf_wake", "cct_wake"}
         \/ p = "cct" /\ pc[p] = "exit_wake"
BY Tables DEF Places, Threads, MainLabels, ReaderLabels, CctLabels, Filling,
              Ending

(* Once all inodes are done, the reader has read all the tables. *)
LEMMA AllRead ==
  ASSUME IInv, allow_concurrent_table_reader, inodes_done = num_groups
  PROVE  pc["reader"] \notin Filling
<1> TypeOK /\ Counts
  BY DEF IInv
<1>1. num_groups <= table_reader_group
  <2>1. CASE pc["main"] = "done"
    BY <2>1, ReaderAssumption DEF TypeOK, Counts, At
  <2>2. CASE pc["main"] # "done"
    BY <2>2, ReaderAssumption DEF TypeOK, Counts, At
  <2>3. QED
    BY <2>1, <2>2
<1>2. QED
  BY <1>1, ReaderAssumption DEF TypeOK, Counts

(***************************************************************************)
(* The steps of the threads keep the invariant.                            *)
(***************************************************************************)

(* The table reader. *)
LEMMA ReaderSteps ==
  ASSUME IInv, Reader
  PROVE  IInv'
<1> TypeOK /\ Places /\ Counts /\ NothingMissed /\ Handshake
  BY DEF IInv
<1> USE Tables, ReaderAssumption
        DEF TypeOK, Threads, Goto, flags, reader, scan, child, sync
<1>1. CASE CheckFull
  <2>1. TypeOK'
    BY <1>1 DEF CheckFull, Labels
  <2>2. Places'
    BY <1>1
       DEF CheckFull, Places, MainLabels, ReaderLabels, CctLabels, Filling,
           Ending
  <2>3. Counts'
    BY <1>1 DEF CheckFull, Counts, At, Places, Filling, Ending
  <2>4. NothingMissed'
    BY <1>1 DEF CheckFull, NothingMissed, Missed, Places
  <2>5. Handshake'
    BY <1>1 DEF CheckFull, Handshake, Leaving, Places, Counts, At, Ending
  <2>6. QED
    BY <2>1, <2>2, <2>3, <2>4, <2>5 DEF IInv
<1>2. CASE ReadTable
  <2>1. TypeOK'
    BY <1>2 DEF ReadTable, Labels
  <2>2. Places'
    BY <1>2
       DEF ReadTable, Places, MainLabels, ReaderLabels, CctLabels, Filling,
           Ending
  <2>3. Counts'
    BY <1>2 DEF ReadTable, Counts, At, Places, Filling, Ending
  <2>4. NothingMissed'
    BY <1>2 DEF ReadTable, NothingMissed, Missed, Places
  <2>5. Handshake'
    BY <1>2 DEF ReadTable, Handshake, Leaving, Places, Counts, At, Ending
  <2>6. QED
    BY <2>1, <2>2, <2>3, <2>4, <2>5 DEF IInv
<1>3. CASE TableRead
  <2>1. TypeOK'
    BY <1>3 DEF TableRead, Labels
  <2>2. Places'
    BY <1>3
       DEF TableRead, Places, MainLabels, ReaderLabels, CctLabels, Filling,
           Ending
  <2>3. Counts'
    BY <1>3 DEF TableRead, Counts, At, Places, Filling, Ending
  <2>4. NothingMissed'
    BY <1>3 DEF TableRead, NothingMissed, Missed, Places
  <2>5. Handshake'
    BY <1>3 DEF TableRead, Handshake, Leaving, Places, Counts, At, Ending
  <2>6. QED
    BY <2>1, <2>2, <2>3, <2>4, <2>5 DEF IInv
<1>4. CASE CountTable
  <2>1. TypeOK'
    BY <1>4 DEF CountTable, Labels
  <2>2. Places'
    BY <1>4
       DEF CountTable, Places, MainLabels, ReaderLabels, CctLabels, Filling,
           Ending
  <2>3. Counts'
    BY <1>4 DEF CountTable, Counts, At, Places, Filling, Ending
  <2>4. NothingMissed'
    BY <1>4 DEF CountTable, NothingMissed, Missed, Places
  <2>5. Handshake'
    BY <1>4 DEF CountTable, Handshake, Leaving, Places, Counts, At, Ending
  <2>6. QED
    BY <2>1, <2>2, <2>3, <2>4, <2>5 DEF IInv
<1>5. CASE Publish
  <2>1. TypeOK'
    BY <1>5 DEF Publish, Labels
  <2>2. Places'
    BY <1>5
       DEF Publish, Places, MainLabels, ReaderLabels, CctLabels, Filling,
           Ending
  <2>3. Counts'
    BY <1>5 DEF Publish, Counts, At, Places, Filling, Ending
  <2>4. NothingMissed'
    BY <1>5 DEF Publish, NothingMissed, Missed, Places
  <2>5. Handshake'
    BY <1>5 DEF Publish, Handshake, Leaving, Places, Counts, At, Ending
  <2>6. QED
    BY <2>1, <2>2, <2>3, <2>4, <2>5 DEF IInv
<1>6. CASE NextTable
  <2>1. TypeOK'
    BY <1>6 DEF NextTable, Labels
  <2>2. Places'
    BY <1>6
       DEF NextTable, Places, MainLabels, ReaderLabels, CctLabels, Filling,
           Ending
  <2>3. Counts'
    BY <1>6 DEF NextTable, Counts, At, Places, Filling, Ending
  <2>4. NothingMissed'
    BY <1>6 DEF NextTable, NothingMissed, Missed, Places
  <2>5. Handshake'
    BY <1>6 DEF NextTable, Handshake, Leaving, Places, Counts, At, Ending
  <2>6. QED
    BY <2>1, <2>2, <2>3, <2>4, <2>5 DEF IInv
<1>7. CASE Quit
  <2>1. TypeOK'
    BY <1>7 DEF Quit, LoadChild, Labels
  <2>2. Places'
    BY <1>7
       DEF Quit, LoadChild, Places, MainLabels, ReaderLabels, CctLabels,
           Filling, Ending
  <2>3. Counts'
    BY <1>7 DEF Quit, LoadChild, Counts, At, Places, Filling, Ending
  <2>4. NothingMissed'
    BY <1>7 DEF Quit, LoadChild, NothingMissed, Missed, Places
  <2>5. Handshake'
    BY <1>7 DEF Quit, LoadChild, Handshake, Leaving, Places, Counts, At, Ending
  <2>6. QED
    BY <2>1, <2>2, <2>3, <2>4, <2>5 DEF IInv
<1>8. CASE Quitting
  <2>1. TypeOK'
    BY <1>8 DEF Quitting, StoreChild, Labels
  <2>2. Places'
    BY <1>8
       DEF Quitting, StoreChild, Places, MainLabels, ReaderLabels,
           CctLabels, Filling, Ending
  <2>3. Counts'
    BY <1>8 DEF Quitting, StoreChild, Counts, At, Places, Filling, Ending
  <2>4. NothingMissed'
    BY <1>8 DEF Quitting, StoreChild, NothingMissed, Missed, Places
  <2>5. Handshake'
    BY <1>8
       DEF Quitting, StoreChild, Handshake, Leaving, Places, Counts, At,
           Ending
  <2>6. QED
    BY <2>1, <2>2, <2>3, <2>4, <2>5 DEF IInv
<1>9. QED
  BY <1>1, <1>2, <1>3, <1>4, <1>5, <1>6, <1>7, <1>8 DEF Reader

(* In the main thread, one slot is filled and emptied again. *)
LEMMA ReadNowCounts ==
  ASSUME IInv, ReadNow
  PROVE  Counts'
<1> TypeOK /\ Places /\ Counts
  BY DEF IInv
<1>1. /\ pc["main"] = "readnow" /\ pc'["main"] = "inodes"
      /\ pc'["reader"] = pc["reader"]
      /\ prereaded' = prereaded + 1
      /\ table_reader_group' = table_reader_group + 1
      /\ UNCHANGED <<flags, scan, child>>
  BY DEF ReadNow, Goto, TypeOK, Threads
<1>2. ~allow_concurrent_table_reader /\ pc["reader"] = "off"
  BY <1>1 DEF Places
<1>3. table_reader_group = group
  BY <1>1, <1>2 DEF Counts
<1>4. QED
  BY <1>1, <1>2, <1>3 DEF Counts, TypeOK, flags, scan, child, Ending, At

(* The main thread. *)
LEMMA MainSteps ==
  ASSUME IInv, Main
  PROVE  IInv'
<1> TypeOK /\ Places /\ Counts /\ NothingMissed /\ Handshake
  BY DEF IInv
<1> USE Tables, ReaderAssumption
        DEF TypeOK, Threads, Goto, flags, reader, scan, child, sync
<1>1. CASE CreateReader
  <2>1. TypeOK'
    BY <1>1 DEF CreateReader, Labels
  <2>2. Places'
    BY <1>1
       DEF CreateReader, Places, MainLabels, ReaderLabels, CctLabels,
           Filling, Ending
  <2>3. Counts'
    BY <1>1 DEF CreateReader, Counts, At, Places, Filling, Ending
  <2>4. NothingMissed'
    BY <1>1 DEF CreateReader, NothingMissed, Missed, Places
  <2>5. Handshake'
    BY <1>1 DEF CreateReader, Handshake, Leaving, Places, Counts, At, Ending
  <2>6. QED
    BY <2>1, <2>2, <2>3, <2>4, <2>5 DEF IInv
<1>2. CASE CreateFails
  <2>1. TypeOK'
    BY <1>2 DEF CreateFails, Labels
  <2>2. Places'
    BY <1>2
       DEF CreateFails, Places, MainLabels, ReaderLabels, CctLabels,
           Filling, Ending, Handshake, Leaving
  <2>3. Counts'
    BY <1>2 DEF CreateFails, Counts, At, Places, Filling, Ending
  <2>4. NothingMissed'
    BY <1>2 DEF CreateFails, NothingMissed, Missed, Places
  <2>5. Handshake'
    BY <1>2 DEF CreateFails, Handshake, Leaving, Places, Counts, At, Ending
  <2>6. QED
    BY <2>1, <2>2, <2>3, <2>4, <2>5 DEF IInv
<1>3. CASE CountReader
  <2>1. TypeOK'
    BY <1>3 DEF CountReader, LoadChild, Labels
  <2>2. Places'
    BY <1>3
       DEF CountReader, LoadChild, Places, MainLabels, ReaderLabels,
           CctLabels, Filling, Ending
  <2>3. Counts'
    BY <1>3 DEF CountReader, LoadChild, Counts, At, Places, Filling, Ending
  <2>4. NothingMissed'
    BY <1>3 DEF CountReader, LoadChild, NothingMissed, Missed, Places
  <2>5. Handshake'
    BY <1>3
       DEF CountReader, LoadChild, Handshake, Leaving, Places, Counts, At,
           Ending
  <2>6. QED
    BY <2>1, <2>2, <2>3, <2>4, <2>5 DEF IInv
<1>4. CASE ReaderCounted
  <2>1. TypeOK'
    BY <1>4 DEF ReaderCounted, StoreChild, Labels
  <2>2. Places'
    BY <1>4
       DEF ReaderCounted, StoreChild, Places, MainLabels, ReaderLabels,
           CctLabels, Filling, Ending
  <2>3. Counts'
    BY <1>4 DEF ReaderCounted, StoreChild, Counts, At, Places, Filling, Ending
  <2>4. NothingMissed'
    BY <1>4 DEF ReaderCounted, StoreChild, NothingMissed, Missed, Places
  <2>5. Handshake'
    BY <1>4
       DEF ReaderCounted, StoreChild, Handshake, Leaving, Places, Counts,
           At, Ending
  <2>6. QED
    BY <2>1, <2>2, <2>3, <2>4, <2>5 DEF IInv
<1>5. CASE Loop
  <2>1. TypeOK'
    BY <1>5 DEF Loop, Labels
  <2>2. Places'
    BY <1>5
       DEF Loop, Places, MainLabels, ReaderLabels, CctLabels, Filling,
           Ending
  <2>3. Counts'
    BY <1>5 DEF Loop, Counts, At, Places, Filling, Ending
  <2>4. NothingMissed'
    BY <1>5 DEF Loop, NothingMissed, Missed, Places
  <2>5. Handshake'
    BY <1>5 DEF Loop, Handshake, Leaving, Places, Counts, At, Ending
  <2>6. QED
    BY <2>1, <2>2, <2>3, <2>4, <2>5 DEF IInv
<1>6. CASE Poll
  <2>1. TypeOK'
    BY <1>6 DEF Poll, Labels
  <2>2. Places'
    BY <1>6
       DEF Poll, Places, MainLabels, ReaderLabels, CctLabels, Filling,
           Ending, Counts
  <2>3. Counts'
    BY <1>6 DEF Poll, Counts, At, Places, Filling, Ending
  <2>4. NothingMissed'
    BY <1>6 DEF Poll, NothingMissed, Missed, Places
  <2>5. Handshake'
    BY <1>6 DEF Poll, Handshake, Leaving, Places, Counts, At, Ending
  <2>6. QED
    BY <2>1, <2>2, <2>3, <2>4, <2>5 DEF IInv
<1>7. CASE ReadNow
  <2>1. TypeOK'
    BY <1>7 DEF ReadNow, Labels
  <2>2. Places'
    BY <1>7
       DEF ReadNow, Places, MainLabels, ReaderLabels, CctLabels, Filling,
           Ending
  <2>3. Counts'
    BY <1>7, ReadNowCounts
  <2>4. NothingMissed'
    BY <1>7 DEF ReadNow, NothingMissed, Missed, Places
  <2>5. Handshake'
    BY <1>7 DEF ReadNow, Handshake, Leaving, Places, Counts, At, Ending
  <2>6. QED
    BY <2>1, <2>2, <2>3, <2>4, <2>5 DEF IInv
<1>8. CASE CheckInodes
  <2>1. TypeOK'
    BY <1>8 DEF CheckInodes, Labels, Counts
  <2>2. Places'
    BY <1>8
       DEF CheckInodes, Places, MainLabels, ReaderLabels, CctLabels,
           Filling, Ending
  <2>3. Counts'
    BY <1>8 DEF CheckInodes, Counts, At, Places, Filling, Ending
  <2>4. NothingMissed'
    BY <1>8 DEF CheckInodes, NothingMissed, Missed, Places
  <2>5. Handshake'
    BY <1>8 DEF CheckInodes, Handshake, Leaving, Places, Counts, At, Ending
  <2>6. QED
    BY <2>1, <2>2, <2>3, <2>4, <2>5 DEF IInv
<1>9. CASE GroupDone
  <2>1. TypeOK'
    BY <1>9 DEF GroupDone, IfReader, Labels, Counts, At
  <2>2. Places'
    BY <1>9
       DEF GroupDone, IfReader, Places, MainLabels, ReaderLabels, CctLabels,
           Filling, Ending
  <2>3. Counts'
    BY <1>9 DEF GroupDone, IfReader, Counts, At, Places, Filling, Ending
  <2>4. NothingMissed'
    BY <1>9 DEF GroupDone, IfReader, NothingMissed, Missed, Places
  <2>5. Handshake'
    BY <1>9
       DEF GroupDone, IfReader, Handshake, Leaving, Places, Counts, At,
           Ending
  <2>6. QED
    BY <2>1, <2>2, <2>3, <2>4, <2>5 DEF IInv
<1>10. CASE StartWorker
  <2>1. TypeOK'
    BY <1>10 DEF StartWorker, LoadChild, Labels
  <2>2. Places'
    BY <1>10
       DEF StartWorker, LoadChild, Places, MainLabels, ReaderLabels,
           CctLabels, Filling, Ending
  <2>3. Counts'
    BY <1>10 DEF StartWorker, LoadChild, Counts, At, Places, Filling, Ending
  <2>4. NothingMissed'
    BY <1>10 DEF StartWorker, LoadChild, NothingMissed, Missed, Places
  <2>5. Handshake'
    BY <1>10
       DEF StartWorker, LoadChild, Handshake, Leaving, Places, Counts, At,
           Ending
  <2>6. QED
    BY <2>1, <2>2, <2>3, <2>4, <2>5 DEF IInv
<1>11. CASE WorkerStarted
  <2>1. TypeOK'
    BY <1>11 DEF WorkerStarted, StoreChild, Labels, Counts
  <2>2. Places'
    BY <1>11
       DEF WorkerStarted, StoreChild, Places, MainLabels, ReaderLabels,
           CctLabels, Filling, Ending
  <2>3. Counts'
    BY <1>11 DEF WorkerStarted, StoreChild, Counts, At, Places, Filling, Ending
  <2>4. NothingMissed'
    BY <1>11 DEF WorkerStarted, StoreChild, NothingMissed, Missed, Places
  <2>5. Handshake'
    BY <1>11
       DEF WorkerStarted, StoreChild, Handshake, Leaving, Places, Counts,
           At, Ending
  <2>6. QED
    BY <2>1, <2>2, <2>3, <2>4, <2>5 DEF IInv
<1>12. CASE ReapWorker
  <2>1. TypeOK'
    BY <1>12 DEF ReapWorker, LoadChild, Labels
  <2>2. Places'
    BY <1>12
       DEF ReapWorker, LoadChild, Places, MainLabels, ReaderLabels,
           CctLabels, Filling, Ending
  <2>3. Counts'
    BY <1>12 DEF ReapWorker, LoadChild, Counts, At, Places, Filling, Ending
  <2>4. NothingMissed'
    BY <1>12 DEF ReapWorker, LoadChild, NothingMissed, Missed, Places
  <2>5. Handshake'
    BY <1>12
       DEF ReapWorker, LoadChild, Handshake, Leaving, Places, Counts, At,
           Ending
  <2>6. QED
    BY <2>1, <2>2, <2>3, <2>4, <2>5 DEF IInv
<1>13. CASE WorkerReaped
  <2>1. TypeOK'
    BY <1>13 DEF WorkerReaped, StoreChild, Labels, Counts
  <2>2. Places'
    BY <1>13
       DEF WorkerReaped, StoreChild, Places, MainLabels, ReaderLabels,
           CctLabels, Filling, Ending
  <2>3. Counts'
    BY <1>13 DEF WorkerReaped, StoreChild, Counts, At, Places, Filling, Ending
  <2>4. NothingMissed'
    BY <1>13 DEF WorkerReaped, StoreChild, NothingMissed, Missed, Places
  <2>5. Handshake'
    BY <1>13
       DEF WorkerReaped, StoreChild, Handshake, Leaving, Places, Counts, At,
           Ending
  <2>6. QED
    BY <2>1, <2>2, <2>3, <2>4, <2>5 DEF IInv
<1>14. CASE Finish
  <2>1. TypeOK'
    BY <1>14 DEF Finish, Labels
  <2>2. Places'
    BY <1>14
       DEF Finish, Places, MainLabels, ReaderLabels, CctLabels, Filling,
           Ending
  <2>3. Counts'
    BY <1>14 DEF Finish, Counts, At, Places, Filling, Ending
  <2>4. NothingMissed'
    BY <1>14 DEF Finish, NothingMissed, Missed, Places
  <2>5. Handshake'
    BY <1>14 DEF Finish, Handshake, Leaving, Places, Counts, At, Ending
  <2>6. QED
    BY <2>1, <2>2, <2>3, <2>4, <2>5 DEF IInv
<1>15. CASE Shutdown
  <2>1. TypeOK'
    BY <1>15 DEF Shutdown, IfReader, Labels
  <2>2. Places'
    BY <1>15
       DEF Shutdown, IfReader, Places, MainLabels, ReaderLabels, CctLabels,
           Filling, Ending
  <2>3. Counts'
    BY <1>15 DEF Shutdown, IfReader, Counts, At, Places, Filling, Ending
  <2>4. NothingMissed'
    BY <1>15 DEF Shutdown, IfReader, NothingMissed, Missed, Places
  <2>5. Handshake'
    BY <1>15
       DEF Shutdown, IfReader, Handshake, Leaving, Places, Counts, At,
           Ending
  <2>6. QED
    BY <2>1, <2>2, <2>3, <2>4, <2>5 DEF IInv
<1>16. CASE RequestExit
  <2>1. TypeOK'
    BY <1>16 DEF RequestExit, Labels
  <2>2. Places'
    BY <1>16
       DEF RequestExit, Places, MainLabels, ReaderLabels, CctLabels,
           Filling, Ending
  <2>3. Counts'
    BY <1>16 DEF RequestExit, Counts, At, Places, Filling, Ending
  <2>4. NothingMissed'
    BY <1>16 DEF RequestExit, NothingMissed, Missed, Places
  <2>5. Handshake'
    BY <1>16 DEF RequestExit, Handshake, Leaving, Places, Counts, At, Ending
  <2>6. QED
    BY <2>1, <2>2, <2>3, <2>4, <2>5 DEF IInv
<1>17. CASE AwaitExit
  <2>1. TypeOK'
    BY <1>17 DEF AwaitExit, IfReader, Labels
  <2>2. Places'
    BY <1>17
       DEF AwaitExit, IfReader, Places, MainLabels, ReaderLabels, CctLabels,
           Filling, Ending
  <2>3. Counts'
    BY <1>17 DEF AwaitExit, IfReader, Counts, At, Places, Filling, Ending
  <2>4. NothingMissed'
    BY <1>17
       DEF AwaitExit, IfReader, NothingMissed, Missed, Places, Handshake,
           Leaving
  <2>5. Handshake'
    BY <1>17
       DEF AwaitExit, IfReader, Handshake, Leaving, Places, Counts, At,
           Ending
  <2>6. QED
    BY <2>1, <2>2, <2>3, <2>4, <2>5 DEF IInv
<1>18. CASE Exited
  <2>1. TypeOK'
    BY <1>18 DEF Exited, Labels
  <2>2. Places'
    BY <1>18
       DEF Exited, Places, MainLabels, ReaderLabels, CctLabels, Filling,
           Ending
  <2>3. Counts'
    BY <1>18 DEF Exited, Counts, At, Places, Filling, Ending
  <2>4. NothingMissed'
    BY <1>18 DEF Exited, NothingMissed, Missed, Places
  <2>5. Handshake'
    BY <1>18 DEF Exited, Handshake, Leaving, Places, Counts, At, Ending
  <2>6. QED
    BY <2>1, <2>2, <2>3, <2>4, <2>5 DEF IInv
<1>19. QED
  BY <1>1, <1>2, <1>3, <1>4, <1>5, <1>6, <1>7, <1>8, <1>9, <1>10, <1>11, <1>12,
     <1>13, <1>14, <1>15, <1>16, <1>17, <1>18
     DEF Main

(* The com cache thread. *)
LEMMA CacheThreadSteps ==
  ASSUME IInv, CacheThread
  PROVE  IInv'
<1> TypeOK /\ Places /\ Counts /\ NothingMissed /\ Handshake
  BY DEF IInv
<1> USE Tables, ReaderAssumption
        DEF TypeOK, Threads, Goto, flags, reader, scan, child, sync
<1>1. CASE CctWork
  <2>1. TypeOK'
    BY <1>1 DEF CctWork, Labels
  <2>2. Places'
    BY <1>1
       DEF CctWork, Places, MainLabels, ReaderLabels, CctLabels, Filling,
           Ending
  <2>3. Counts'
    BY <1>1 DEF CctWork, Counts, At, Places, Filling, Ending
  <2>4. NothingMissed'
    BY <1>1 DEF CctWork, NothingMissed, Missed, Places
  <2>5. Handshake'
    BY <1>1 DEF CctWork, Handshake, Leaving, Places, Counts, At, Ending
  <2>6. QED
    BY <2>1, <2>2, <2>3, <2>4, <2>5 DEF IInv
<1>2. CASE CctAgain
  <2>1. TypeOK'
    BY <1>2 DEF CctAgain, Labels
  <2>2. Places'
    BY <1>2
       DEF CctAgain, Places, MainLabels, ReaderLabels, CctLabels, Filling,
           Ending
  <2>3. Counts'
    BY <1>2 DEF CctAgain, Counts, At, Places, Filling, Ending
  <2>4. NothingMissed'
    BY <1>2 DEF CctAgain, NothingMissed, Missed, Places
  <2>5. Handshake'
    BY <1>2 DEF CctAgain, Handshake, Leaving, Places, Counts, At, Ending
  <2>6. QED
    BY <2>1, <2>2, <2>3, <2>4, <2>5 DEF IInv
<1>3. CASE CctExit
  <2>1. TypeOK'
    BY <1>3 DEF CctExit, IfReader, Labels
  <2>2. Places'
    BY <1>3
       DEF CctExit, IfReader, Places, MainLabels, ReaderLabels, CctLabels,
           Filling, Ending
  <2>3. Counts'
    BY <1>3 DEF CctExit, IfReader, Counts, At, Places, Filling, Ending
  <2>4. NothingMissed'
    BY <1>3 DEF CctExit, IfReader, NothingMissed, Missed, Places
  <2>5. Handshake'
    BY <1>3
       DEF CctExit, IfReader, Handshake, Leaving, Places, Counts, At, Ending
  <2>6. QED
    BY <2>1, <2>2, <2>3, <2>4, <2>5 DEF IInv
<1>4. QED
  BY <1>1, <1>2, <1>3 DEF CacheThread

(***************************************************************************)
(* btlock_wait and btlock_wake keep it.                                    *)
(***************************************************************************)

(* What the steps of btlock_wait and btlock_wake change. *)
Others(p) == \A q \in Threads : q # p => pc'[q] = pc[q] /\ wait'[q] = wait[q]
OtherLocks(l) == \A k \in Locks : k # l => locked'[k] = locked[k]
Rest == UNCHANGED <<flags, reader, scan, child>>

(* Sleep: either asleep at once, or the lock was woken before. *)
LEMMA SleepDoes ==
  ASSUME IInv, NEW p \in Threads, NEW l \in Locks, l = WaitsFor[pc[p]],
         Sleep(p)
  PROVE  /\ wait[p] = "no" /\ pc'[p] = pc[p] /\ locked' = locked
         /\ Others(p) /\ Rest
         /\ \/ locked[l] = -1 /\ wait'[p] = "asleep"
            \/ locked[l] = 0 /\ wait'[p] = "reset"
BY DEF IInv, TypeOK, Sleep, Others, Rest

(* Reset: the lock waits for its next wake. *)
LEMMA ResetDoes ==
  ASSUME IInv, NEW p \in Threads, NEW l \in Locks, l = WaitsFor[pc[p]],
         Reset(p)
  PROVE  /\ wait[p] = "reset" /\ wait'[p] = "no" /\ Others(p) /\ Rest
         /\ pc'[p] = After[pc[p]]
         /\ locked'[l] = -1 /\ OtherLocks(l)
BY DEF IInv, TypeOK, Reset, Others, OtherLocks, Rest

(* Wake: the first one after a reset goes on to the futex. *)
LEMMA WakeDoes ==
  ASSUME IInv, NEW p \in Threads, NEW l \in Locks, l = Wakes[pc[p]], Wake(p)
  PROVE  /\ wait[p] = "no" /\ locked'[l] = 0
         /\ Others(p) /\ OtherLocks(l) /\ Rest
         /\ \/ locked[l] = -1 /\ wait'[p] = "futex" /\ pc'[p] = pc[p]
            \/ locked[l] = 0 /\ wait'[p] = "no" /\ pc'[p] = After[pc[p]]
BY DEF IInv, TypeOK, Wake, Others, OtherLocks, Rest, sync

(* FutexWake: one sleeper, if there is any, is woken. *)
LEMMA FutexDoes ==
  ASSUME IInv, NEW p \in Threads, NEW l \in Locks, l = Wakes[pc[p]],
         FutexWake(p)
  PROVE  /\ wait[p] = "futex" /\ wait'[p] = "no" /\ pc'[p] = After[pc[p]]
         /\ locked' = locked /\ Rest
         /\ \A q \in Threads : q # p => pc'[q] = pc[q]
         /\ \/ /\ Others(p)
               /\ \A q \in Threads :
                     ~(wait[q] = "asleep" /\ WaitsFor[pc[q]] = l)
            \/ \E q \in Threads \ {p} :
                  /\ wait[q] = "asleep" /\ WaitsFor[pc[q]] = l
                  /\ wait'[q] = "reset"
                  /\ \A r \in Threads : r # p /\ r # q => wait'[r] = wait[r]
<1> TypeOK
  BY DEF IInv
<1> DEFINE S == {q \in Threads : /\ wait[q] = "asleep"
                                 /\ WaitsFor[pc[q]] = Wakes[pc[p]]}
           others == [wait EXCEPT ![p] = "no"]
<1>1. /\ wait[p] = "futex" /\ pc' = [pc EXCEPT ![p] = After[pc[p]]]
      /\ UNCHANGED locked /\ Rest
      /\ \/ S = {} /\ wait' = others
         \/ \E q \in S : wait' = [others EXCEPT ![q] = "reset"]
  BY DEF FutexWake, Rest
<1>2. p \notin S
  BY <1>1
<1>3. CASE S = {} /\ wait' = others
  BY <1>1, <1>3 DEF TypeOK, Others
<1>4. ASSUME NEW q \in S, wait' = [others EXCEPT ![q] = "reset"]
      PROVE  /\ q \in Threads \ {p}
             /\ wait[q] = "asleep" /\ WaitsFor[pc[q]] = l
             /\ wait'[q] = "reset" /\ wait'[p] = "no"
             /\ \A r \in Threads : r # p /\ r # q => wait'[r] = wait[r]
  BY <1>2, <1>4 DEF TypeOK
<1>5. CASE \E q \in S : wait' = [others EXCEPT ![q] = "reset"]
  BY <1>1, <1>4, <1>5 DEF TypeOK
<1>6. QED
  BY <1>1, <1>3, <1>5

(* The numbers of the scan do not care about waiting and waking. *)
LEMMA CountsKept ==
  ASSUME IInv, Rest, NEW p \in Threads,
         \A q \in Threads : q # p => pc'[q] = pc[q],
         \/ pc'[p] = pc[p]
         \/ /\ pc[p] \in DOMAIN WaitsFor \cup DOMAIN Wakes
            /\ pc'[p] = After[pc[p]]
  PROVE  Counts'
<1> TypeOK /\ Places /\ Counts
  BY DEF IInv
<1> USE Tables DEF Rest, flags, reader, scan, child, TypeOK, Threads, At
<1>1. CASE p = "main"
  BY <1>1 DEF Counts, Places, MainLabels, Ending
<1>2. CASE p = "reader"
  BY <1>2 DEF Counts, Places, ReaderLabels, Filling
<1>3. CASE p = "cct"
  BY <1>3 DEF Counts
<1>4. QED
  BY <1>1, <1>2, <1>3

(* The first half of btlock_wait. *)
LEMMA SleepStep ==
  ASSUME IInv, NEW p \in Threads, Sleep(p)
  PROVE  IInv'
<1> TypeOK /\ Places /\ Counts /\ NothingMissed /\ Handshake
  BY DEF IInv
<1> USE Tables DEF flags, reader, scan, child, TypeOK, Threads, Locks
<1>1. TypeOK'
  BY Waiting DEF Sleep, Labels, Places
<1>2. Counts'
  BY CountsKept DEF Sleep, Rest, Places, sync
<1>3. CASE p = "reader" /\ pc[p] = "trf_wait"
  <2>1. "full" = WaitsFor[pc[p]] /\ "full" \in Locks
    BY <1>3
  <2> USE <1>3, <2>1, SleepDoes DEF Others, OtherLocks, Rest
  <2>2. Places'
    BY DEF Places, MainLabels, ReaderLabels, CctLabels, Filling, Ending
  <2>3. NothingMissed'
    BY AllRead
       DEF NothingMissed, Counts, Leaving, Handshake, Missed, Places,
           MainLabels, ReaderLabels, CctLabels, Filling, Ending
  <2>4. Handshake'
    BY AllRead
       DEF Handshake, Leaving, Places, Counts, At, MainLabels, ReaderLabels,
           CctLabels, Filling, Ending, NothingMissed, Missed
  <2>5. QED
    BY <1>1, <1>2, <2>2, <2>3, <2>4 DEF IInv
<1>4. CASE p = "main" /\ pc[p] = "tre_wait"
  <2>1. "empty" = WaitsFor[pc[p]] /\ "empty" \in Locks
    BY <1>4
  <2> USE <1>4, <2>1, SleepDoes DEF Others, OtherLocks, Rest
  <2>2. Places'
    BY DEF Places, MainLabels, ReaderLabels, CctLabels, Filling, Ending
  <2>3. NothingMissed'
    BY AllRead
       DEF NothingMissed, Counts, Leaving, Handshake, Missed, Places,
           MainLabels, ReaderLabels, CctLabels, Filling, Ending
  <2>4. Handshake'
    BY AllRead
       DEF Handshake, Leaving, Places, Counts, At, MainLabels, ReaderLabels,
           CctLabels, Filling, Ending, NothingMissed, Missed
  <2>5. QED
    BY <1>1, <1>2, <2>2, <2>3, <2>4 DEF IInv
<1>5. CASE p = "main" /\ pc[p] = "reset_wait"
  <2>1. "full" = WaitsFor[pc[p]] /\ "full" \in Locks
    BY <1>5
  <2> USE <1>5, <2>1, SleepDoes DEF Others, OtherLocks, Rest
  <2>2. Places'
    BY DEF Places, MainLabels, ReaderLabels, CctLabels, Filling, Ending
  <2>3. NothingMissed'
    BY AllRead
       DEF NothingMissed, Counts, Leaving, Handshake, Missed, Places,
           MainLabels, ReaderLabels, CctLabels, Filling, Ending
  <2>4. Handshake'
    BY AllRead
       DEF Handshake, Leaving, Places, Counts, At, MainLabels, ReaderLabels,
           CctLabels, Filling, Ending, NothingMissed, Missed
  <2>5. QED
    BY <1>1, <1>2, <2>2, <2>3, <2>4 DEF IInv
<1>6. CASE p = "main" /\ pc[p] = "exit_wait"
  <2>1. "full" = WaitsFor[pc[p]] /\ "full" \in Locks
    BY <1>6
  <2> USE <1>6, <2>1, SleepDoes DEF Others, OtherLocks, Rest
  <2>2. Places'
    BY DEF Places, MainLabels, ReaderLabels, CctLabels, Filling, Ending
  <2>3. NothingMissed'
    BY AllRead
       DEF NothingMissed, Counts, Leaving, Handshake, Missed, Places,
           MainLabels, ReaderLabels, CctLabels, Filling, Ending
  <2>4. Handshake'
    BY AllRead
       DEF Handshake, Leaving, Places, Counts, At, MainLabels, ReaderLabels,
           CctLabels, Filling, Ending, NothingMissed, Missed
  <2>5. QED
    BY <1>1, <1>2, <2>2, <2>3, <2>4 DEF IInv
<1>7. CASE p = "cct" /\ pc[p] = "cct_wait"
  <2>1. "cct" = WaitsFor[pc[p]] /\ "cct" \in Locks
    BY <1>7
  <2> USE <1>7, <2>1, SleepDoes DEF Others, OtherLocks, Rest
  <2>2. Places'
    BY DEF Places, MainLabels, ReaderLabels, CctLabels, Filling, Ending
  <2>3. NothingMissed'
    BY AllRead
       DEF NothingMissed, Counts, Leaving, Handshake, Missed, Places,
           MainLabels, ReaderLabels, CctLabels, Filling, Ending
  <2>4. Handshake'
    BY AllRead
       DEF Handshake, Leaving, Places, Counts, At, MainLabels, ReaderLabels,
           CctLabels, Filling, Ending, NothingMissed, Missed
  <2>5. QED
    BY <1>1, <1>2, <2>2, <2>3, <2>4 DEF IInv
<1>8. QED
  BY <1>3, <1>4, <1>5, <1>6, <1>7, Waiting DEF Sleep, Places

(* The second half of btlock_wait. *)
LEMMA ResetStep ==
  ASSUME IInv, NEW p \in Threads, Reset(p)
  PROVE  IInv'
<1> TypeOK /\ Places /\ Counts /\ NothingMissed /\ Handshake
  BY DEF IInv
<1> USE Tables DEF flags, reader, scan, child, TypeOK, Threads, Locks
<1>1. TypeOK'
  BY Waiting DEF Reset, Labels, Places
<1>2. Counts'
  BY CountsKept DEF Reset, Rest, Places, sync
<1>3. CASE p = "reader" /\ pc[p] = "trf_wait"
  <2>1. "full" = WaitsFor[pc[p]] /\ "full" \in Locks
    BY <1>3
  <2> USE <1>3, <2>1, ResetDoes DEF Others, OtherLocks, Rest
  <2>2. Places'
    BY DEF Places, MainLabels, ReaderLabels, CctLabels, Filling, Ending
  <2>3. NothingMissed'
    BY AllRead
       DEF NothingMissed, Counts, Leaving, Handshake, Missed, Places,
           MainLabels, ReaderLabels, CctLabels, Filling, Ending
  <2>4. Handshake'
    BY AllRead
       DEF Handshake, Leaving, Places, Counts, At, MainLabels, ReaderLabels,
           CctLabels, Filling, Ending, NothingMissed, Missed
  <2>5. QED
    BY <1>1, <1>2, <2>2, <2>3, <2>4 DEF IInv
<1>4. CASE p = "main" /\ pc[p] = "tre_wait"
  <2>1. "empty" = WaitsFor[pc[p]] /\ "empty" \in Locks
    BY <1>4
  <2> USE <1>4, <2>1, ResetDoes DEF Others, OtherLocks, Rest
  <2>2. Places'
    BY DEF Places, MainLabels, ReaderLabels, CctLabels, Filling, Ending
  <2>3. NothingMissed'
    BY AllRead
       DEF NothingMissed, Counts, Leaving, Handshake, Missed, Places,
           MainLabels, ReaderLabels, CctLabels, Filling, Ending
  <2>4. Handshake'
    BY AllRead
       DEF Handshake, Leaving, Places, Counts, At, MainLabels, ReaderLabels,
           CctLabels, Filling, Ending, NothingMissed, Missed
  <2>5. QED
    BY <1>1, <1>2, <2>2, <2>3, <2>4 DEF IInv
<1>5. CASE p = "main" /\ pc[p] = "reset_wait"
  <2>1. "full" = WaitsFor[pc[p]] /\ "full" \in Locks
    BY <1>5
  <2> USE <1>5, <2>1, ResetDoes DEF Others, OtherLocks, Rest
  <2>2. Places'
    BY DEF Places, MainLabels, ReaderLabels, CctLabels, Filling, Ending
  <2>3. NothingMissed'
    BY AllRead
       DEF NothingMissed, Counts, Leaving, Handshake, Missed, Places,
           MainLabels, ReaderLabels, CctLabels, Filling, Ending
  <2>4. Handshake'
    BY AllRead
       DEF Handshake, Leaving, Places, Counts, At, MainLabels, ReaderLabels,
           CctLabels, Filling, Ending, NothingMissed, Missed
  <2>5. QED
    BY <1>1, <1>2, <2>2, <2>3, <2>4 DEF IInv
<1>6. CASE p = "main" /\ pc[p] = "exit_wait"
  <2>1. "full" = WaitsFor[pc[p]] /\ "full" \in Locks
    BY <1>6
  <2> USE <1>6, <2>1, ResetDoes DEF Others, OtherLocks, Rest
  <2>2. Places'
    BY DEF Places, MainLabels, ReaderLabels, CctLabels, Filling, Ending
  <2>3. NothingMissed'
    BY AllRead
       DEF NothingMissed, Counts, Leaving, Handshake, Missed, Places,
           MainLabels, ReaderLabels, CctLabels, Filling, Ending
  <2>4. Handshake'
    BY AllRead
       DEF Handshake, Leaving, Places, Counts, At, MainLabels, ReaderLabels,
           CctLabels, Filling, Ending, NothingMissed, Missed
  <2>5. QED
    BY <1>1, <1>2, <2>2, <2>3, <2>4 DEF IInv
<1>7. CASE p = "cct" /\ pc[p] = "cct_wait"
  <2>1. "cct" = WaitsFor[pc[p]] /\ "cct" \in Locks
    BY <1>7
  <2> USE <1>7, <2>1, ResetDoes DEF Others, OtherLocks, Rest
  <2>2. Places'
    BY DEF Places, MainLabels, ReaderLabels, CctLabels, Filling, Ending
  <2>3. NothingMissed'
    BY AllRead
       DEF NothingMissed, Counts, Leaving, Handshake, Missed, Places,
           MainLabels, ReaderLabels, CctLabels, Filling, Ending
  <2>4. Handshake'
    BY AllRead
       DEF Handshake, Leaving, Places, Counts, At, MainLabels, ReaderLabels,
           CctLabels, Filling, Ending, NothingMissed, Missed
  <2>5. QED
    BY <1>1, <1>2, <2>2, <2>3, <2>4 DEF IInv
<1>8. QED
  BY <1>3, <1>4, <1>5, <1>6, <1>7, Waiting DEF Places, Reset

(* The first half of btlock_wake. *)
LEMMA WakeStep ==
  ASSUME IInv, NEW p \in Threads, Wake(p)
  PROVE  IInv'
<1> TypeOK /\ Places /\ Counts /\ NothingMissed /\ Handshake
  BY DEF IInv
<1> USE Tables DEF flags, reader, scan, child, TypeOK, Threads, Locks
<1>1. TypeOK'
  BY Waking DEF Wake, Labels, Places, sync
<1>2. Counts'
  BY CountsKept DEF Wake, Rest, Places, sync
<1>3. CASE p = "reader" /\ pc[p] = "tre_wake"
  <2>1. "empty" = Wakes[pc[p]] /\ "empty" \in Locks
    BY <1>3
  <2> USE <1>3, <2>1, WakeDoes DEF Others, OtherLocks, Rest
  <2>2. Places'
    BY DEF Places, MainLabels, ReaderLabels, CctLabels, Filling, Ending
  <2>3. NothingMissed'
    BY AllRead
       DEF NothingMissed, Counts, Leaving, Handshake, Missed, Places,
           MainLabels, ReaderLabels, CctLabels, Filling, Ending
  <2>4. Handshake'
    BY AllRead
       DEF Handshake, Leaving, Places, Counts, At, MainLabels, ReaderLabels,
           CctLabels, Filling, Ending, NothingMissed, Missed
  <2>5. QED
    BY <1>1, <1>2, <2>2, <2>3, <2>4 DEF IInv
<1>4. CASE p = "main" /\ pc[p] = "trf_wake"
  <2>1. "full" = Wakes[pc[p]] /\ "full" \in Locks
    BY <1>4
  <2> USE <1>4, <2>1, WakeDoes DEF Others, OtherLocks, Rest
  <2>2. Places'
    BY DEF Places, MainLabels, ReaderLabels, CctLabels, Filling, Ending
  <2>3. NothingMissed'
    BY AllRead
       DEF NothingMissed, Counts, Leaving, Handshake, Missed, Places,
           MainLabels, ReaderLabels, CctLabels, Filling, Ending
  <2>4. Handshake'
    BY AllRead
       DEF Handshake, Leaving, Places, Counts, At, MainLabels, ReaderLabels,
           CctLabels, Filling, Ending, NothingMissed, Missed
  <2>5. QED
    BY <1>1, <1>2, <2>2, <2>3, <2>4 DEF IInv
<1>5. CASE p = "main" /\ pc[p] = "cct_wake"
  <2>1. "cct" = Wakes[pc[p]] /\ "cct" \in Locks
    BY <1>5
  <2> USE <1>5, <2>1, WakeDoes DEF Others, OtherLocks, Rest
  <2>2. Places'
    BY DEF Places, MainLabels, ReaderLabels, CctLabels, Filling, Ending
  <2>3. NothingMissed'
    BY AllRead
       DEF NothingMissed, Counts, Leaving, Handshake, Missed, Places,
           MainLabels, ReaderLabels, CctLabels, Filling, Ending
  <2>4. Handshake'
    BY AllRead
       DEF Handshake, Leaving, Places, Counts, At, MainLabels, ReaderLabels,
           CctLabels, Filling, Ending, NothingMissed, Missed
  <2>5. QED
    BY <1>1, <1>2, <2>2, <2>3, <2>4 DEF IInv
<1>6. CASE p = "cct" /\ pc[p] = "exit_wake"
  <2>1. "full" = Wakes[pc[p]] /\ "full" \in Locks
    BY <1>6
  <2> USE <1>6, <2>1, WakeDoes DEF Others, OtherLocks, Rest
  <2>2. Places'
    BY DEF Places, MainLabels, ReaderLabels, CctLabels, Filling, Ending
  <2>3. NothingMissed'
    BY AllRead
       DEF NothingMissed, Counts, Leaving, Handshake, Missed, Places,
           MainLabels, ReaderLabels, CctLabels, Filling, Ending
  <2>4. Handshake'
    BY AllRead
       DEF Handshake, Leaving, Places, Counts, At, MainLabels, ReaderLabels,
           CctLabels, Filling, Ending, NothingMissed, Missed
  <2>5. QED
    BY <1>1, <1>2, <2>2, <2>3, <2>4 DEF IInv
<1>7. QED
  BY <1>3, <1>4, <1>5, <1>6, Waking DEF Wake

(* The second half of btlock_wake. *)
LEMMA FutexWakeStep ==
  ASSUME IInv, NEW p \in Threads, FutexWake(p)
  PROVE  IInv'
<1> TypeOK /\ Places /\ Counts /\ NothingMissed /\ Handshake
  BY DEF IInv
<1> USE Tables DEF flags, reader, scan, child, TypeOK, Threads, Locks
<1>1. TypeOK'
  BY Waking DEF FutexWake, Labels, Places
<1>2. Counts'
  BY CountsKept DEF FutexWake, Rest, Places, sync
<1>3. CASE p = "reader" /\ pc[p] = "tre_wake"
  <2>1. "empty" = Wakes[pc[p]] /\ "empty" \in Locks
    BY <1>3
  <2> USE <1>3, <2>1, FutexDoes DEF Others, OtherLocks, Rest
  <2>2. Places'
    BY DEF Places, MainLabels, ReaderLabels, CctLabels, Filling, Ending
  <2>3. NothingMissed'
    BY AllRead
       DEF NothingMissed, Counts, Leaving, Handshake, Missed, Places,
           MainLabels, ReaderLabels, CctLabels, Filling, Ending
  <2>4. Handshake'
    BY AllRead
       DEF Handshake, Leaving, Places, Counts, At, MainLabels, ReaderLabels,
           CctLabels, Filling, Ending, NothingMissed, Missed
  <2>5. QED
    BY <1>1, <1>2, <2>2, <2>3, <2>4 DEF IInv
<1>4. CASE p = "main" /\ pc[p] = "trf_wake"
  <2>1. "full" = Wakes[pc[p]] /\ "full" \in Locks
    BY <1>4
  <2> USE <1>4, <2>1, FutexDoes DEF Others, OtherLocks, Rest
  <2>2. Places'
    BY DEF Places, MainLabels, ReaderLabels, CctLabels, Filling, Ending
  <2>3. NothingMissed'
    BY AllRead
       DEF NothingMissed, Counts, Leaving, Handshake, Missed, Places,
           MainLabels, ReaderLabels, CctLabels, Filling, Ending
  <2>4. Handshake'
    BY AllRead
       DEF Handshake, Leaving, Places, Counts, At, MainLabels, ReaderLabels,
           CctLabels, Filling, Ending, NothingMissed, Missed
  <2>5. QED
    BY <1>1, <1>2, <2>2, <2>3, <2>4 DEF IInv
<1>5. CASE p = "main" /\ pc[p] = "cct_wake"
  <2>1. "cct" = Wakes[pc[p]] /\ "cct" \in Locks
    BY <1>5
  <2> USE <1>5, <2>1, FutexDoes DEF Others, OtherLocks, Rest
  <2>2. Places'
    BY DEF Places, MainLabels, ReaderLabels, CctLabels, Filling, Ending
  <2>3. NothingMissed'
    BY AllRead
       DEF NothingMissed, Counts, Leaving, Handshake, Missed, Places,
           MainLabels, ReaderLabels, CctLabels, Filling, Ending
  <2>4. Handshake'
    BY AllRead
       DEF Handshake, Leaving, Places, Counts, At, MainLabels, ReaderLabels,
           CctLabels, Filling, Ending, NothingMissed, Missed
  <2>5. QED
    BY <1>1, <1>2, <2>2, <2>3, <2>4 DEF IInv
<1>6. CASE p = "cct" /\ pc[p] = "exit_wake"
  <2>1. "full" = Wakes[pc[p]] /\ "full" \in Locks
    BY <1>6
  <2> USE <1>6, <2>1, FutexDoes DEF Others, OtherLocks, Rest
  <2>2. Places'
    BY DEF Places, MainLabels, ReaderLabels, CctLabels, Filling, Ending
  <2>3. NothingMissed'
    BY AllRead
       DEF NothingMissed, Counts, Leaving, Handshake, Missed, Places,
           MainLabels, ReaderLabels, CctLabels, Filling, Ending
  <2>4. Handshake'
    BY AllRead
       DEF Handshake, Leaving, Places, Counts, At, MainLabels, ReaderLabels,
           CctLabels, Filling, Ending, NothingMissed, Missed
  <2>5. QED
    BY <1>1, <1>2, <2>2, <2>3, <2>4 DEF IInv
<1>7. QED
  BY <1>3, <1>4, <1>5, <1>6, Waking DEF FutexWake, Places

(***************************************************************************)
(* The invariant.                                                          *)
(***************************************************************************)

(* The state fsck.c starts the threads in. *)
LEMMA InitInv ==
  ASSUME Init
  PROVE  IInv
<1> USE ReaderAssumption DEF Init, Threads
<1>1. TypeOK
  <2>1. pc \in [Threads -> Labels]
    BY DEF Labels
  <2>2. slot \in [0..(INODE_TABLE_ROUNDROUBIN - 1) -> Nat \cup {Torn}]
    OBVIOUS
  <2>3. locked \in [Locks -> {-1, 0}] /\ tmp \in [Threads -> Int]
    OBVIOUS
  <2>4. wait \in [Threads -> {"no", "asleep", "reset", "futex"}]
    OBVIOUS
  <2>5. /\ inodes_done \in 0..num_groups
        /\ started \in 0..MaxWorkers /\ ended \in 0..started
    OBVIOUS
  <2>6. QED
    BY <2>1, <2>2, <2>3, <2>4, <2>5 DEF TypeOK
<1>2. Places
  BY DEF Places, MainLabels, ReaderLabels, CctLabels, Filling, Ending
<1>3. Counts
  BY DEF Counts, At, Ending, Filling
<1>4. NothingMissed
  BY DEF NothingMissed, Missed, Locks
<1>5. Handshake
  BY DEF Handshake, Leaving
<1>6. QED
  BY <1>1, <1>2, <1>3, <1>4, <1>5 DEF IInv

(* Every step of every thread. *)
LEMMA Step ==
  ASSUME IInv, [Next]_vars
  PROVE  IInv'
<1>1. CASE Main
  BY <1>1, MainSteps
<1>2. CASE Reader
  BY <1>2, ReaderSteps
<1>3. CASE CacheThread
  BY <1>3, CacheThreadSteps
<1>4. ASSUME NEW p \in Threads, Btlock(p) PROVE IInv'
  BY <1>4, SleepStep, ResetStep, WakeStep, FutexWakeStep DEF Btlock
<1>5. CASE UNCHANGED vars
  BY <1>5 DEF vars, IInv, TypeOK, Places, Counts, NothingMissed, Handshake,
              Missed, At
<1>6. QED
  BY <1>1, <1>2, <1>3, <1>4, <1>5 DEF Next

(* The two threads and the main thread stay where the protocol has them,   *)
(* the counters of fsck.c agree with each other, and no wake is lost.      *)
THEOREM Invariant == Spec => []IInv
<1>1. Init => IInv
  BY InitInv
<1>2. IInv /\ [Next]_vars => IInv'
  BY Step
<1>3. QED
  BY <1>1, <1>2, PTL DEF Spec

(* The variables have their types; in particular prereaded, that fsck.c    *)
(* decrements without a look at it, never gets below 0.                    *)
THEOREM TypeCorrect == Spec => []TypeOK
<1>1. IInv => TypeOK
  BY DEF IInv
<1>2. QED
  BY <1>1, Invariant, PTL

(* btlock_wait of the three threads: nobody sleeps for what is there,      *)
(* unless the one that made it be there is about to wake the sleeper.      *)
THEOREM NoSleeperForgotten == Spec => []NoLostWake
<1>1. IInv => NoLostWake
  BY DEF IInv, NothingMissed, Missed, NoLostWake, Asleep
<1>2. QED
  BY <1>1, Invariant, PTL

(* shutdown_com_cache_thread, that takes the lock of the table reader for  *)
(* its own handshake, neither blocks when it resets that lock nor returns  *)
(* before the com cache thread has left.                                   *)
THEOREM ShutdownHandshake == Spec => []HandshakeWorks
<1>1. IInv => HandshakeWorks
  BY DEF IInv, Handshake, HandshakeWorks, Leaving
<1>2. QED
  BY <1>1, Invariant, PTL

-----------------------------------------------------------------------------
(***************************************************************************)
(* The ring of inode tables, if every table is initialized.                *)
(***************************************************************************)

(* Nothing is read, and nothing is asked for. *)
LEMMA InitRing ==
  ASSUME Init
  PROVE  Ring
BY DEF Init, Ring, At, Threads

(* The slot that is filled is the slot of no group that is still in use.   *)
LEMMA FreeSlot ==
  ASSUME IInv, allow_concurrent_table_reader,
         pc["reader"] \in {"read", "fill"},
         NEW g \in group..table_reader_group, g # table_reader_group
  PROVE  SlotOf(g) # SlotOf(table_reader_group)
<1>1. /\ group \in Nat /\ table_reader_group \in Nat
      /\ table_reader_group - group < MAX_INODE_TABLE_PREREADED
  BY ReaderAssumption DEF IInv, TypeOK, Counts, At
<1>2. g \in Nat /\ g < table_reader_group
      /\ table_reader_group < g + INODE_TABLE_ROUNDROUBIN
  BY <1>1, ReaderAssumption
<1>3. QED
  BY <1>1, <1>2, SlotsDiffer

(* Steps that touch neither the ring nor its two ends. *)
LEMMA RingKept ==
  ASSUME Ring, UNCHANGED <<allow_concurrent_table_reader, reader, scan>>,
         pc'["main"] = "done" <=> pc["main"] = "done",
         pc'["reader"] \in {"inc", "publish"}
            => pc["reader"] \in {"inc", "publish"}
  PROVE  Ring'
BY DEF Ring, At, reader, scan, SlotOf

(* The reader fills a free slot, the main thread frees the oldest one. *)
LEMMA RingStep ==
  ASSUME Uninitialized = {}, IInv, Ring, [Next]_vars
  PROVE  Ring'
<1> TypeOK /\ Places /\ Counts
  BY DEF IInv
<1> USE ReaderAssumption DEF Threads, Goto, flags, reader, scan, child, sync
<1>1. CASE ReadTable
  <2>1. allow_concurrent_table_reader
    BY <1>1 DEF ReadTable, Places
  <2>2. \A g \in group..table_reader_group :
           g # table_reader_group => slot'[SlotOf(g)] = slot[SlotOf(g)]
    BY <1>1, <2>1, FreeSlot DEF ReadTable, TypeOK
  <2>3. QED
    BY <1>1, <2>1, <2>2 DEF ReadTable, Ring, TypeOK, At
<1>2. CASE TableRead
  <2>1. allow_concurrent_table_reader
    BY <1>2 DEF TableRead, Places
  <2>2. /\ \A g \in group..table_reader_group :
              g # table_reader_group => slot'[SlotOf(g)] = slot[SlotOf(g)]
        /\ slot'[SlotOf(table_reader_group)] = table_reader_group
    BY <1>2, <2>1, FreeSlot, SlotIn DEF TableRead, TypeOK
  <2>3. QED
    BY <1>2, <2>1, <2>2 DEF TableRead, Ring, TypeOK, At
<1>3. CASE CountTable
  BY <1>3 DEF CountTable, Ring, TypeOK, At
<1>4. CASE Publish
  BY <1>4 DEF Publish, Ring, TypeOK, At
<1>5. CASE ReadNow
  BY <1>5 DEF ReadNow, Ring, TypeOK, At, Places, Counts
<1>6. CASE CheckInodes
  BY <1>6 DEF CheckInodes, Ring, TypeOK, At
<1>7. CASE GroupDone
  BY <1>7 DEF GroupDone, IfReader, Ring, TypeOK, At, After
<1>8. CASE CreateFails
  BY <1>8 DEF CreateFails, Ring, TypeOK, At, Places, Counts
<1>9. CASE \/ CheckFull \/ NextTable \/ Quit \/ Quitting
           \/ CreateReader \/ CountReader \/ ReaderCounted \/ Loop \/ Poll
           \/ StartWorker \/ WorkerStarted \/ ReapWorker \/ WorkerReaped
           \/ Finish \/ Shutdown \/ RequestExit \/ AwaitExit \/ Exited
           \/ CacheThread
  <2>1. CASE CheckFull \/ NextTable \/ Quit \/ Quitting \/ CacheThread
    BY <2>1, Tables, RingKept
       DEF CheckFull, NextTable, Quit, Quitting, CacheThread, CctWork,
           CctAgain, CctExit, LoadChild, IfReader, TypeOK
  <2>2. CASE CreateReader \/ CountReader \/ ReaderCounted \/ Loop \/ Poll
    BY <2>2, RingKept
       DEF CreateReader, CountReader, ReaderCounted, Loop, Poll, LoadChild,
           TypeOK
  <2>3. CASE StartWorker \/ WorkerStarted \/ ReapWorker \/ WorkerReaped
    BY <2>3, RingKept
       DEF StartWorker, WorkerStarted, ReapWorker, WorkerReaped, LoadChild,
           TypeOK
  <2>4. CASE Finish \/ Shutdown \/ RequestExit \/ AwaitExit \/ Exited
    BY <2>4, Tables, RingKept
       DEF Finish, Shutdown, RequestExit, AwaitExit, Exited, IfReader, TypeOK
  <2>5. QED
    BY <1>9, <2>1, <2>2, <2>3, <2>4
<1>10. ASSUME NEW p \in Threads, Btlock(p) PROVE Ring'
  <2>1. UNCHANGED <<allow_concurrent_table_reader, reader, scan>>
    BY <1>10 DEF Btlock, Sleep, Reset, Wake, FutexWake
  <2>2. \A q \in Threads : \/ pc'[q] = pc[q]
                           \/ q = p /\ pc[p] \in DOMAIN WaitsFor
                              /\ pc'[p] = After[pc[p]]
                           \/ q = p /\ pc[p] \in DOMAIN Wakes
                              /\ pc'[p] = After[pc[p]]
    BY <1>10 DEF Btlock, Sleep, Reset, Wake, FutexWake, TypeOK, Places
  <2>3. /\ pc'["main"] = "done" <=> pc["main"] = "done"
        /\ pc'["reader"] \in {"inc", "publish"}
              => pc["reader"] \in {"inc", "publish"}
    BY <2>2, Tables
  <2>4. QED
    BY <2>1, <2>3, RingKept
<1>11. CASE UNCHANGED vars
  BY <1>11, RingKept DEF vars
<1>12. QED
  BY <1>1, <1>2, <1>3, <1>4, <1>5, <1>6, <1>7, <1>8, <1>9, <1>10, <1>11
     DEF Next, Main, Reader

(* The ring holds what was read ahead. *)
LEMMA RingInvariant == Uninitialized = {} => (Spec => []Ring)
<1>1. SUFFICES ASSUME Uninitialized = {} PROVE Spec => []Ring
  OBVIOUS
<1>2. Init => Ring
  BY InitRing
<1>3. IInv /\ Ring /\ [Next]_vars => Ring'
  BY <1>1, RingStep
<1>4. QED
  BY <1>2, <1>3, Invariant, PTL DEF Spec

(* check_inode finds the table of its group in the ring, in the slot it    *)
(* computes from the number of the inode: the reader, however far ahead,   *)
(* has not overwritten it.  Uninitialized is empty, as it is in a file     *)
(* system without BG_INODE_TABLE_INITIALIZED left to set; otherwise the    *)
(* inodes fall behind the groups.                                          *)
THEOREM TablesStay == Uninitialized = {} => (Spec => []TableIsThere)
<1>1. SUFFICES ASSUME Uninitialized = {} PROVE Spec => []TableIsThere
  OBVIOUS
<1>2. Spec => []Ring
  BY <1>1, RingInvariant
<1>3. IInv /\ Ring => TableIsThere
  <2>1. SUFFICES ASSUME IInv, Ring, group < table_reader_group,
                        pc["main"] \in {"inodes", "starting", "ending"}
                 PROVE  slot[IF allow_concurrent_table_reader
                             THEN SlotOf(inodes_done) ELSE 0] = group
    BY DEF TableIsThere
  <2>2. group \in group..table_reader_group /\ inodes_done = group
    BY <2>1 DEF IInv, TypeOK, Ring, At
  <2>3. QED
    BY <2>1, <2>2 DEF Ring
<1>4. QED
  BY <1>2, <1>3, Invariant, PTL

(* Then the groups end with the inodes, as fsck.c assumes.                 *)
THEOREM GroupsEnd == Uninitialized = {} => (Spec => []GroupsEndWithInodes)
<1>1. SUFFICES ASSUME Uninitialized = {} PROVE Spec => []GroupsEndWithInodes
  OBVIOUS
<1>2. Spec => []Ring
  BY <1>1, RingInvariant
<1>3. IInv /\ Ring => GroupsEndWithInodes
  BY ReaderAssumption
     DEF IInv, TypeOK, Counts, Ring, At, GroupsEndWithInodes
<1>4. QED
  BY <1>2, <1>3, Invariant, PTL

=============================================================================
