----------------------------- MODULE MCRawArchive -----------------------------
(***************************************************************************)
(* RawArchive for TLC: one archive id of one shard, and a restore, with    *)
(* two archivers of one segment or one archiver of two; the constants are  *)
(* in ledgers.cfg.                                                         *)
(***************************************************************************)
EXTENDS RawArchive

VARIABLE alone      \* whether one archiver runs, with every segment

First == CHOOSE p \in Archivers : TRUE
Within ==
    /\ alone' = alone
    /\ IF alone THEN \A p \in Archivers \ {First} : archiver'[p] = Idle
                ELSE \A s \in Shards : Len(wal'[s]) <= 1
SmallInit == ArchiveInit /\ alone \in BOOLEAN
SmallNext == ArchiveNext /\ Within

SmallSpec ==
    /\ SmallInit /\ [][SmallNext]_<<archiveVars, alone>>
    /\ \A p \in Archivers : WF_<<archiveVars, alone>>(Archiving(p) /\ Within)
    /\ \A p \in Archivers, i \in Archives : SF_<<archiveVars, alone>>(Repeat(p, i) /\ Within)
=============================================================================
