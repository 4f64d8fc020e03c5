---------------------------- MODULE MCSuperBlock ----------------------------
(* File systems of few groups: copies and tables in every state, and whole *)
(* ones with one group of numbers, or the feature flags, out of the        *)
(* ordinary.                                                               *)
EXTENDS InodeCheck

NumDamaged == 4

Whole(cs, groups) ==
    [cs |-> cs, cpg |-> 4096 * cs, groups |-> groups, first |-> IF cs = 2 THEN 1 ELSE 0,
     size |-> cs * 4096 * cs * groups + cs, now |-> 2,
     copy |-> [g \in 0..groups - 1 |-> "same"], table |-> [g \in 0..groups - 1 |-> "same"],
     init |-> {0, 2}, bogus |-> {},
     sb |-> [cpg |-> 4096 * cs, clusters |-> 4096 * cs * groups, first |-> IF cs = 2 THEN 1 ELSE 0,
             entry |-> 32, rev |-> 1, inode_size |-> 128, first_inode |-> 11, ipg |-> 16,
             inodes |-> 16 * groups, in |-> {}, ro |-> {SPARSE_SUPER}, rw |-> {},
             wtime |-> 1, mtime |-> 1]]

Copies == {[g \in 0..NumDamaged - 1 |-> IF g = h THEN k ELSE "same"] :
             h \in 1..NumDamaged - 1, k \in {"same", "differs", "foreign", "lost"}}
Damaged ==
    {[Whole(cs, NumDamaged) EXCEPT !.sb.ro = ro, !.table = table, !.copy = copy,
                                  !.init = init, !.bogus = bogus] :
        cs \in {2, 4, 32}, ro \in {{}, {SPARSE_SUPER}}, init, bogus \in {{0, 2}, {1, 3}},
        table \in {t \in [0..NumDamaged - 1 -> {"same", "differs", "lost"}] : t[0] # "differs"},
        copy \in Copies}
           \cup {[Whole(2, NumDamaged) EXCEPT !.copy[0] = k] : k \in {"foreign", "lost"}}

Odd == LET w(groups) == Whole(2, groups)
       IN  {[w(n) EXCEPT !.sb.first = f, !.sb.clusters = k] : n \in {1, 3}, f \in {1, 8192, 8193}, k \in {0, 1, 8193}}
           \cup UNION {{[w(n) EXCEPT !.sb.cpg = c, !.sb.clusters = k] :
                      c \in {0, 4096, 4100, 8192, 16384}, k \in {4000, 8192 * n, 8192 * n + 2}} : n \in {1, 3}}
           \cup {[w(n) EXCEPT !.sb.inode_size = z, !.sb.first_inode = i, !.sb.ipg = p, !.sb.inodes = k, !.sb.rev = r] :
                  n \in {1, 3}, z \in {0, 64, 128, 256, 2048}, i \in {11, 48, 49}, p \in {12, 16, 65528},
                  k \in {48, 16, 36}, r \in {0, 1, 2}}
           \cup {[w(3) EXCEPT !.sb.in = in, !.sb.rw = rw, !.sb.ro = ro, !.sb.entry = e,
                              !.sb.wtime = wt, !.sb.mtime = mt] :
                  in \in SUBSET {RECOVER, JOURNAL_DEV, IN_64BIT}, rw \in SUBSET {HAS_JOURNAL},
                  ro \in SUBSET {BTREE_DIR, SPARSE_SUPER}, e \in {0, 32, 48, 64},
                  wt, mt \in {1, 3}}

\* Two groups of one cluster of inodes each, for pass 3.
Plain == {[Whole(2, 2) EXCEPT !.sb.ipg = 8, !.sb.inodes = 16, !.sb.first_inode = 4, !.init = init,
                              !.sb.ro = ro, !.table[0] = t, !.sb.wtime = wt, !.sb.mtime = mt] :
            init \in {{0, 1}, {0}}, ro \in SUBSET {GDT_CSUM}, t \in {"same", "lost"},
            wt, mt \in 1..3}
\* One with the features that allow flags of inodes.
Featured == [Whole(2, 2) EXCEPT !.sb.ipg = 8, !.sb.inodes = 16, !.sb.first_inode = 4, !.init = {0, 1},
                                !.sb.rw = {HAS_JOURNAL, IMAGIC_INODES}, !.sb.in = {COMPRESSION}]
\* Two groups that share a cluster of inodes, and a single group.
Shared == [Whole(4, 2) EXCEPT !.sb.ipg = 8, !.sb.inodes = 16, !.sb.first_inode = 4, !.init = {0, 1}]
Single == [Whole(4, 1) EXCEPT !.sb.first_inode = 4, !.init = {0}]
MCFileSystems == Damaged \cup Odd \cup Plain \cup {Featured, Shared, Single}

-----------------------------------------------------------------------------
File == [Zero EXCEPT !.type = "FILE", !.links = 1, !.ctime = 1, !.mtime = 1, !.atime = 1, !.size = 1]
Dele == [Zero EXCEPT !.dtime = 1]
Usual == [inode |-> [i \in 1..16 |-> IF i \in {6, 7, 8, 14, 15, 16} THEN Zero ELSE File],
          lost |-> {}, virgin |-> <<0, 0>>, map |-> TRUE, uninit |-> {}]
Virgins(n) == [g \in 0..1 |-> IF g = 0 THEN n ELSE 0]
Default == [Usual EXCEPT !.virgin = Virgins(0)]

\* Which inodes of the second group are in use, with an unreadable block.
Patterns == {[Default EXCEPT !.inode = [i \in 1..16 |-> IF i > 8 THEN p[i - 8] ELSE Usual.inode[i]],
                             !.lost = lost, !.virgin = [g \in 0..1 |-> g * n]] :
               p \in [1..8 -> {File, Zero}], lost \in {{}, {<<0, 1>>}, {<<1, 0>>}, {<<1, 1>>}}, n \in {0, 2}}
\* One inode out of the ordinary.
OddInodes == {[Default EXCEPT !.inode[i] =
                 [File EXCEPT !.type = type, !.ctime = c, !.mtime = c, !.atime = a, !.dtime = d,
                              !.size = size, !.high = d, !.flags = {f \in {"TOPDIR"} : d = 1}]] :
                i \in {2, 5}, type \in Types \cup {"ILLT"}, c, a \in {1, 3}, d \in {0, 1},
                size \in {0, 10, 70}}
             \cup
             {[Default EXCEPT !.inode[i] = [File EXCEPT !.type = type, !.flags = flags]] :
                i \in {2, 5}, type \in Types,
                flags \in {{"SYNC", "INDEX", "IMMUTABLE"}, {"COMPR", "DIRTY", "IMAGIC", "JOURNAL_DATA"}}}
OddMaps == {[Default EXCEPT !.map = m, !.uninit = u, !.inode[4] = x, !.virgin = Virgins(n)] :
              m \in BOOLEAN, x \in {Dele, File}, n \in {0, 3},
              u \in SUBSET {<<0, "cluster_map">>, <<0, "inode_map">>}}
MCTables == Patterns \cup OddInodes \cup OddMaps

\* The inodes are looked at, and vary, in the file systems of Plain only.
Whole2 == [Whole(2, 2) EXCEPT !.sb.ipg = 8, !.sb.inodes = 16, !.sb.first_inode = 4,
                              !.init = {0, 1}, !.sb.ro = {}]
Timely(f) == f.sb.wtime = 1 /\ f.sb.mtime = 1
Stale(f)  == 1 \notin f.init /\ GDT_CSUM \notin f.sb.ro    \* a table is not read, but checked
MCInit ==
    /\ \/ fs \in Damaged \cup Odd /\ disk = Default
       \/ fs \in {f \in Plain : Timely(f) /\ ~Stale(f)} /\ disk \in OddMaps
       \/ /\ fs \in {f \in Plain : f.init = {0, 1} /\ f.sb.ro = {} /\ f.table[0] = "same"} \cup {Featured}
          /\ disk \in OddInodes
       \/ fs \in {f \in Plain : Timely(f) /\ Stale(f)} /\ disk = Default
       \/ fs \in {Shared, Single} /\ disk \in {[Default EXCEPT !.lost = l] : l \in SUBSET {<<0, 2>>, <<1, 1>>}}
       \/ fs = Whole2 /\ disk \in Patterns
    /\ st = Start /\ scan = CheckStart
MCNext == (Next /\ UNCHANGED <<disk, scan>>) \/ (fs.sb.inodes = 16 /\ CheckNext)
MCSpec == MCInit /\ [][MCNext]_<<fs, st, disk, scan>>
=============================================================================
