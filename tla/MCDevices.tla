----------------------------- MODULE MCDevices -----------------------------
(***************************************************************************)
(* Every driver on its own, and what they stand on: dev.driver says which. *)
(* Aes is extended, and not an instance, for its tables to be made once.   *)
(***************************************************************************)
EXTENDS Aes, FiniteSets
CONSTANTS NumMirrors, MirrorSize, MaxDecay, MaxDrift, BlindSize, BlindChunk,
          DumpSize, DumpChunk, NumCompared, CompareSize, CompareChunk, Contents, MayFail,
          LoopSize, LoopThreads, MaxArgs, NumParts,
          PeSize, PeCount, LvAccess, CryptSize, CipherLen,
          AvlKeys, RcTypes, MaxTrees, RcChunk, MaxLoads

Mirror    == INSTANCE Mirror
Blindread == INSTANCE Blindread
Dump      == INSTANCE Dump
Compare   == INSTANCE DeviceCompare
LoopDev   == INSTANCE Loop
Registry  == INSTANCE Registry
Lvm       == INSTANCE Lvm
DmCrypt   == INSTANCE DmCrypt
AvlTree   == INSTANCE Avl
Counters  == INSTANCE RefCounter
Loader    == INSTANCE Plugins

AnyInit == Mirror!Init \/ Blindread!Init \/ Dump!Init \/ Compare!Init \/ LoopDev!Init \/ Registry!Init \/ Lvm!Init \/ DmCrypt!Init
        \/ Init \/ AvlTree!Init \/ Counters!Init \/ Loader!Init
DriverStep ==
        \/ dev.driver = "mirror"    /\ Mirror!Step
        \/ dev.driver = "blindread" /\ Blindread!Next
        \/ dev.driver = "dump"      /\ Dump!Next
        \/ dev.driver = "dc"        /\ Compare!Next
        \/ dev.driver = "loop"      /\ LoopDev!Next
        \/ dev.driver = "main"      /\ Registry!Next
        \/ dev.driver = "lvm"       /\ Lvm!Next
        \/ dev.driver = "dmcrypt"   /\ DmCrypt!Next
LibraryStep ==
        \/ dev.driver = "aes"       /\ Next
        \/ dev.driver = "avl"       /\ AvlTree!Next
        \/ dev.driver = "rc"        /\ Counters!Next
        \/ dev.driver = "plugins"   /\ Loader!Next
AnyNext == DriverStep \/ LibraryStep \/ (dev.driver = "mirror" /\ Mirror!Decay)
vars == <<dev, st>>
AnySpec == AnyInit /\ [][AnyNext]_vars /\ WF_vars(DriverStep)

\* An access to a device that is made of others or shared by threads (mirror,
\* lvm, dmcrypt, loop) delivers the blocks that were asked for, and ends early
\* only where the next one cannot be had: mirror_read, lv_disaster_read,
\* lv_write, dmcrypt_read, dmcrypt_write, loop_read and loop_write.  Not so,
\* and left out, is a read in which a mirror answers -1 (mirror.c:198), and an
\* access to a volume after a segment that ended early (lvm.c:1295).
AccessesRight ==
    /\ dev.driver = "mirror"  => Mirror!Right
    /\ dev.driver = "loop"    => LoopDev!Right
    /\ dev.driver = "lvm"     => Lvm!Right
    /\ dev.driver = "dmcrypt" => DmCrypt!Right

\* What the tools that scan a device in chunks (blindread, dump, dc) count,
\* copy and report is right for every pattern of bad blocks: the skipping,
\* halving and cutting of the chunks leaves no block out and takes none twice.
ScansRight ==
    /\ dev.driver = "blindread" => Blindread!Right
    /\ dev.driver = "dump"      => Dump!Right
    /\ dev.driver = "dc"        => Compare!Right

\* However the drivers register, rename, stack and destroy devices (bdev.c,
\* dos_init, cache init, mirror_init), two devices never have one name, no
\* device keeps a name that was freed, or stands on one that is gone.
RegistryRight == dev.driver = "main" => Registry!Right

\* What the drivers stand on does what they take for granted: decrypting gives
\* back what was encrypted, a tree of blocks or devices stays a balanced search
\* tree with its list in order under any inserting and removing, an object type
\* goes with its last reference and not before, and what is registered by the
\* constructors of the plugins is all of an object or nothing and stays as long
\* as it is used (aes.c, avl_do_insert.c, avl_remove.c, refcounter.c, object.c,
\* crypt.c, iv.c).
LibrariesRight ==
    /\ dev.driver = "aes" => Right
    /\ dev.driver = "avl" => AvlTree!Right
    /\ dev.driver = "rc"  => Counters!Right
    /\ dev.driver = "plugins" => Loader!Right

AnyHalted ==
    CASE dev.driver = "mirror"    -> Mirror!Halted
      [] dev.driver = "blindread" -> Blindread!Halted
      [] dev.driver = "dump"      -> Dump!Halted
      [] dev.driver = "dc"        -> Compare!Halted
      [] dev.driver = "loop"      -> LoopDev!Halted
      [] dev.driver = "main"      -> Registry!Halted
      [] dev.driver = "lvm"       -> Lvm!Halted
      [] dev.driver = "dmcrypt"   -> DmCrypt!Halted
      [] dev.driver \in {"aes", "avl", "rc", "plugins"} -> TRUE

\* Every access and every scan of a driver ends, whatever blocks are bad: the
\* loops that ask the first mirror again, halve a run or skip a block always
\* get on.  The mirror's does so unless a mirror answers -1 (mirror.c:198).
EveryCallReturns ==
    <>(AnyHalted \/ (dev.driver = "mirror" /\ st.pc = "ask" /\ st.minus))
=============================================================================
