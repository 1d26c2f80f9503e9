------------------------------- MODULE LSMDB -------------------------------
(***************************************************************************)
(* The LSM database of lab3 (lab3/memdb.cc over sstable.cc, compaction.cc):*)
(* one process that writes to a memtable, turns a full memtable into an    *)
(* immutable one, flushes immutables to SSTable files and compacts the     *)
(* files, and a directory of files that outlives the process.              *)
(*                                                                         *)
(* Put and Delete are sequential code, but each file they create, fill or  *)
(* remove is a step here, because the process may die between any two of   *)
(* them and every file operation may throw.  pc is the place of the code:  *)
(*   closed        no LSMDB object exists                                  *)
(*   idle          between two calls of the client                         *)
(*   flush         at the test of the loop of FlushAllImmutables           *)
(*   flushWrite    in WriteSSTable of a flush, the file open               *)
(*   compact       at the start of CompactAllSSTables                      *)
(*   compactWrite  in WriteSSTable of a compaction, the file open          *)
(*   compactRemove in the loop that removes the files compacted            *)
(***************************************************************************)
EXTENDS SSTable

CONSTANTS
    ClientValues,       \* the values the client puts
    KeyBytes,           \* sizeof(int)
    ValueBytes(_),      \* value.size()
    MaxMemtableBytes,   \* options.max_memtable_bytes
    EnableCompaction,   \* options.enable_compaction
    Threshold,          \* options.compaction_file_threshold
    BloomModes,         \* the settings of enable_sstable_bloom_filter in use
    Faults,             \* the file operations that may fail
    TornLines,          \* whether a line may be cut in a number or a value
    MaxSeq,             \* bound: the client stops writing after this number
    MaxFileId           \* bound: the client leaves file ids up to this one

ASSUME LSMDBAssumption ==
    /\ ClientValues \subseteq Values
    /\ KeyBytes \in Nat \ {0}
    /\ \A v \in Values \cup {Tombstone} : ValueBytes(v) \in Nat
    /\ ValueBytes(Tombstone) = 0
    /\ MaxMemtableBytes \in Nat
    /\ EnableCompaction \in BOOLEAN
    /\ Threshold \in Nat
    /\ BloomModes \subseteq BOOLEAN
    /\ Faults \subseteq {"create", "read", "remove", "write"}
    /\ TornLines \in BOOLEAN
    /\ MaxSeq \in Nat
    /\ MaxFileId \in Nat

VARIABLES
    pc,             \* the place in the code
    bloomOn,        \* options_.enable_sstable_bloom_filter of this object
    mut,            \* mutable_->list
    mutSize,        \* mutable_->size_bytes
    imms,           \* immutables_, oldest first
    flushed,        \* flushed_files_, oldest first
    nextFileId,     \* next_file_id_
    nextSeq,        \* next_seq_
    op,             \* the entry Put or Delete inserts after making room
    out,            \* the entries given to the WriteSSTable in progress
    removed,        \* how many compacted files have been removed
    disk            \* the files of sst_dir

memory == <<bloomOn, mut, mutSize, imms, flushed, nextFileId, nextSeq>>
scratch == <<op, out, removed>>
vars == <<pc, memory, scratch, disk>>

FileIds == 1 .. MaxFileId

NoOp == [key |-> MinKey, val |-> Tombstone]

\* One type per variable; the reads below add what the parts mean together.
TypeOK ==
    /\ pc \in {"closed", "idle", "flush", "flushWrite",
               "compact", "compactWrite", "compactRemove"}
    /\ bloomOn \in BOOLEAN
    /\ mut \in Table
    /\ mutSize \in Nat
    /\ imms \in Seq(Table)
    /\ flushed \in Seq(Descriptor(FileIds))
    /\ nextFileId \in Nat \ {0}
    /\ nextSeq \in Nat \ {0}
    /\ op \in [key : Keys, val : Values \cup {Tombstone}]
    /\ out \in Table
    /\ removed \in Nat
    /\ disk \in [FileIds -> File]

\* The members of an LSMDB object that has just been built, or is gone.
NoMemory ==
    /\ bloomOn' = FALSE
    /\ mut' = EmptyTable
    /\ mutSize' = 0
    /\ imms' = <<>>
    /\ flushed' = <<>>
    /\ nextFileId' = 1
    /\ nextSeq' = 1

NoScratch ==
    /\ op' = NoOp
    /\ out' = EmptyTable
    /\ removed' = 0

Init ==
    /\ pc = "closed"
    /\ bloomOn = FALSE
    /\ mut = EmptyTable
    /\ mutSize = 0
    /\ imms = <<>>
    /\ flushed = <<>>
    /\ nextFileId = 1
    /\ nextSeq = 1
    /\ op = NoOp
    /\ out = EmptyTable
    /\ removed = 0
    /\ disk = [id \in FileIds |-> NoFile]
----------------------------------------------------------------------------
(* Opening, closing, crashing *)

\* Plausible bug: the ids continue after the number of files, not the last id.
FileIdAfterCount(files) == Len(files) + 1

\* Plausible bug: the last id listed is taken for the next free one.
FileIdIsLast(files) == IF files = <<>> THEN 0 ELSE files[Len(files)].id

\* One more than the id of the last file listed.
FileIdAfter(files) == IF files = <<>> THEN 1 ELSE files[Len(files)].id + 1

\* Plausible bug: the sequence numbers of a new object start at 1.
SeqRestarts(files) == 1

\* One more than the largest newest_seq of the files listed.
SeqAfter(files) == Max({0} \cup {files[j].newest : j \in DOMAIN files}) + 1

\* The constructor.  Without use_existing_db it throws unless the directory is
\* empty, and then there is nothing to list either.
Open(useExisting, bloom) ==
    /\ pc = "closed"
    /\ useExisting \/ IsSSTDirEmpty(disk)
    /\ \E skipped \in SUBSET SSTables(disk) :
        /\ skipped = {} \/ "read" \in Faults
        /\ flushed' \in ListSSTables(disk, SSTables(disk) \ skipped, bloom)
    /\ nextFileId' = FileIdAfter(flushed')
    /\ nextSeq' = SeqAfter(flushed')
    /\ bloomOn' = bloom
    /\ pc' = "idle"
    /\ UNCHANGED <<mut, mutSize, imms, scratch, disk>>

\* The destructor, which flushes nothing.
Close ==
    /\ pc = "idle"
    /\ pc' = "closed"
    /\ NoMemory
    /\ NoScratch
    /\ UNCHANGED disk

\* The file being written is sst_<nextFileId - 1>.
FileWritten == WriteSSTable(out, bloomOn)

\* The process dies in the middle of a call.
Crash ==
    /\ pc \notin {"closed", "idle"}
    /\ pc' = "closed"
    /\ NoMemory
    /\ NoScratch
    /\ IF pc \in {"flushWrite", "compactWrite"}
       THEN \E left \in PartialFiles(FileWritten, TornLines) :
                disk' = [disk EXCEPT ![nextFileId - 1] = left]
       ELSE UNCHANGED disk

\* An exception leaves Put or Delete; the entry is not inserted.
Throw ==
    /\ pc' = "idle"
    /\ NoScratch
----------------------------------------------------------------------------
(* Put and Delete *)

EntryBytes(val) == KeyBytes + ValueBytes(val)

\* list.PutWithSequence or list.DeleteWithSequence on a memtable of t.
Insert(t, k, v) ==
    /\ mut' = [t EXCEPT ![k] = [seq |-> nextSeq, val |-> v]]
    /\ nextSeq' = nextSeq + 1

\* Bounds on the client: sequence numbers, and the ids a call may take, one
\* for each immutable there would be and one for the compaction after each.
Bounds(rotates) ==
    /\ nextSeq <= MaxSeq
    /\ rotates => nextFileId + 2 * Len(imms) + 1 <= MaxFileId

\* Put and Delete up to the flush loop (EnsureMutableCapacity).
Write(k, v) ==
    /\ pc = "idle"
    /\ IF mutSize + EntryBytes(v) <= MaxMemtableBytes
       THEN /\ Bounds(FALSE)
            /\ Insert(mut, k, v)
            /\ mutSize' = mutSize + EntryBytes(v)
            /\ UNCHANGED <<pc, bloomOn, imms, flushed, nextFileId, scratch>>
       ELSE /\ Bounds(TRUE)
            /\ imms' = Append(imms, mut)
            /\ mut' = EmptyTable
            /\ mutSize' = 0
            /\ op' = [key |-> k, val |-> v]
            /\ pc' = "flush"
            /\ UNCHANGED <<bloomOn, flushed, nextFileId, nextSeq, out, removed>>
    /\ UNCHANGED disk

Put(k, v) == v \in ClientValues /\ Write(k, v)

Delete(k) == Write(k, Tombstone)

\* Plausible bug: the call does not wait for the list to be empty.
FinishWriteUnflushed ==
    /\ pc = "flush"
    /\ Insert(mut, op.key, op.val)
    /\ mutSize' = mutSize + EntryBytes(op.val)
    /\ pc' = "idle"
    /\ NoScratch
    /\ UNCHANGED <<bloomOn, imms, flushed, nextFileId, disk>>

\* FlushAllImmutables has emptied the list: the call inserts and returns.
FinishWrite ==
    /\ pc = "flush"
    /\ imms = <<>>
    /\ Insert(mut, op.key, op.val)
    /\ mutSize' = mutSize + EntryBytes(op.val)
    /\ pc' = "idle"
    /\ NoScratch
    /\ UNCHANGED <<bloomOn, imms, flushed, nextFileId, disk>>
----------------------------------------------------------------------------
(* FlushOneImmutable *)

\* Plausible bug: the loop flushes the front and never erases it.
EraseForgotten ==
    /\ pc' = "flush"
    /\ out' = EmptyTable
    /\ removed' = 0
    /\ UNCHANGED <<imms, op>>

\* immutables_.erase(begin) and back to the loop.
EraseFlushed ==
    /\ imms' = Tail(imms)
    /\ pc' = "flush"
    /\ out' = EmptyTable
    /\ removed' = 0
    /\ UNCHANGED op

\* WriteSSTable up to the open file: it refuses an empty table, and the open
\* may fail; the id is taken in every case.
FlushCreate ==
    /\ pc = "flush"
    /\ imms # <<>>
    /\ nextFileId \in FileIds
    /\ nextFileId' = nextFileId + 1
    /\ \/ /\ KeysOf(Head(imms)) = {} \/ "create" \in Faults
          /\ Throw
          /\ UNCHANGED disk
       \/ /\ KeysOf(Head(imms)) # {}
          /\ out' = Head(imms)
          /\ disk' = [disk EXCEPT ![nextFileId] = BadFile]
          /\ pc' = "flushWrite"
          /\ UNCHANGED <<op, removed>>
    /\ UNCHANGED <<bloomOn, mut, mutSize, imms, flushed, nextSeq>>

\* Plausible bug: compaction starts one file late.
NeedsCompactionLate(n) == EnableCompaction /\ Threshold # 0 /\ n > Threshold + 1

\* The test of MaybeCompactSSTables.
NeedsCompaction(n) == EnableCompaction /\ Threshold # 0 /\ n > Threshold

\* The lines of WriteSSTable.  Nothing looks at the stream afterwards, so when
\* they cannot be written (the disk is full) the call goes on all the same.
WriteLines ==
    \E left \in {FileWritten} \cup
                IF "write" \in Faults THEN PartialFiles(FileWritten, TornLines) ELSE {} :
        disk' = [disk EXCEPT ![nextFileId - 1] = left]

\* The rest of WriteSSTable, flushed_files_.push_back, MaybeCompactSSTables.
FlushWrite ==
    /\ pc = "flushWrite"
    /\ WriteLines
    /\ flushed' = Append(flushed, Describe(nextFileId - 1, FileWritten, bloomOn))
    /\ IF NeedsCompaction(Len(flushed'))
       THEN pc' = "compact" /\ UNCHANGED <<imms, op, out, removed>>
       ELSE EraseFlushed
    /\ UNCHANGED <<bloomOn, mut, mutSize, nextFileId, nextSeq>>
----------------------------------------------------------------------------
(* CompactAllSSTables *)

\* The merge, and then WriteSSTable up to the open file.  With no live entry
\* nothing is written.
CompactCreate ==
    /\ pc = "compact"
    /\ nextFileId \in FileIds
    /\ nextFileId' = nextFileId + 1
    /\ \E skipped \in SUBSET Ids(flushed) :
        LET live == CompactEntries(disk, flushed, skipped)
        IN  /\ skipped = {} \/ "read" \in Faults
            /\ \/ /\ KeysOf(live) = {}
                  /\ out' = live
                  /\ pc' = "compactRemove"
                  /\ UNCHANGED <<op, removed, disk>>
               \/ /\ KeysOf(live) # {} /\ "create" \in Faults
                  /\ Throw
                  /\ UNCHANGED disk
               \/ /\ KeysOf(live) # {}
                  /\ out' = live
                  /\ disk' = [disk EXCEPT ![nextFileId] = BadFile]
                  /\ pc' = "compactWrite"
                  /\ UNCHANGED <<op, removed>>
    /\ UNCHANGED <<bloomOn, mut, mutSize, imms, flushed, nextSeq>>

CompactWrite ==
    /\ pc = "compactWrite"
    /\ WriteLines
    /\ pc' = "compactRemove"
    /\ UNCHANGED <<memory, scratch>>

\* Plausible bug: the files are removed newest first.
NextRemovedNewestFirst == flushed[Len(flushed) - removed].id

\* The files go in the order of flushed_files_.
NextRemoved == flushed[removed + 1].id

\* std::filesystem::remove of one file, which may throw.
CompactRemove ==
    /\ pc = "compactRemove"
    /\ removed < Len(flushed)
    /\ \/ /\ disk' = [disk EXCEPT ![NextRemoved] = NoFile]
          /\ removed' = removed + 1
          /\ UNCHANGED <<pc, op, out>>
       \/ /\ "remove" \in Faults
          /\ Throw
          /\ UNCHANGED disk
    /\ UNCHANGED memory

\* Plausible bug: the result is added to the list, which is not cleared.
CompactedAppended ==
    IF KeysOf(out) = {} THEN flushed
    ELSE Append(flushed, Describe(nextFileId - 1, FileWritten, bloomOn))

\* Plausible bug: the list is cleared and the result is not added to it.
CompactedForgotten == <<>>

\* The list MaybeCompactSSTables makes of the result.
Compacted ==
    IF KeysOf(out) = {} THEN <<>>
    ELSE <<Describe(nextFileId - 1, FileWritten, bloomOn)>>

\* The return into MaybeCompactSSTables: the result replaces the list.
CompactDone ==
    /\ pc = "compactRemove"
    /\ removed = Len(flushed)
    /\ flushed' = Compacted
    /\ EraseFlushed
    /\ UNCHANGED <<bloomOn, mut, mutSize, nextFileId, nextSeq, disk>>
----------------------------------------------------------------------------
(* What the code goes on to do once a call is in progress *)
Internal ==
    \/ FinishWrite
    \/ FlushCreate
    \/ FlushWrite
    \/ CompactCreate
    \/ CompactWrite
    \/ CompactRemove
    \/ CompactDone

Next ==
    \/ \E useExisting \in BOOLEAN, bloom \in BloomModes : Open(useExisting, bloom)
    \/ \E k \in Keys, v \in Values : Put(k, v)
    \/ \E k \in Keys : Delete(k)
    \/ Internal
    \/ Close
    \/ Crash

Spec == Init /\ [][Next]_vars

\* The code runs: a call in progress is never suspended for ever.
FairSpec == Spec /\ WF_vars(Internal)
----------------------------------------------------------------------------
(* Reads.  They change nothing, so they are operators on the state. *)

\* The layers a read searches, oldest first, given what it sees of each file.
Layers(fileTables) == fileTables \o imms \o <<mut>>

\* Plausible bug: the immutables are searched after the files.
GetFilesFirst(k) ==
    FirstHit(imms
             \o [j \in DOMAIN flushed |->
                    [x \in Keys |-> GetFromSSTable(disk, flushed[j], x)]]
             \o <<mut>>, k).val

\* Get: the value of the first hit, Tombstone when Get returns false.
Get(k) ==
    FirstHit(Layers([j \in DOMAIN flushed |->
                       [x \in Keys |-> GetFromSSTable(disk, flushed[j], x)]]),
             k).val

\* RangeScan over [a, b]: keys that are not returned map to Tombstone.
RangeScan(a, b) ==
    LET ts == [j \in DOMAIN flushed |-> RangeScanSSTable(disk, flushed[j], a, b)]
    IN  [k \in Keys |-> IF k \in a .. b
                        THEN MergeFromNewest(Layers(ts), k).val
                        ELSE Tombstone]
----------------------------------------------------------------------------
(* What the database holds, for the properties *)

\* The entry of k that the next Open would find, from the files alone.
Recovered(k) ==
    LET holding == {id \in FileIds : disk[id].ents[k].seq > 0}
    IN  IF holding = {} THEN NoEntry ELSE disk[Max(holding)].ents[k]

\* The values the files say the keys have.
Contents == [k \in Keys |-> Recovered(k).val]

\* The memtables whose entries are not all in files yet, oldest first.
Unflushed == (IF pc = "compactRemove" THEN Tail(imms) ELSE imms) \o <<mut>>

\* The versions of k in memory that are newer than what the files have.
Pending(k) == {e \in {Unflushed[p][k] : p \in DOMAIN Unflushed} :
                  e.seq > Recovered(k).seq}

KV == INSTANCE KVStore WITH
        Absent <- Tombstone,
        dur    <- Contents,
        pend   <- [k \in Keys |-> Pending(k)]
----------------------------------------------------------------------------
(* Properties *)

\* The database implements the abstract store: flush and compaction change no
\* value, only what is durable; a crash or close at any step loses no durable
\* value, invents none and brings no older or deleted one back.
ImplementsKVStore == KV!Spec

\* Between calls Get returns what the abstract store holds, whichever layer the
\* value is in: header ranges and Bloom filters never hide an entry, and the
\* order of the search never prefers an older one.
GetReturnsCurrent ==
    pc = "idle" => \A k \in Keys : Get(k) = KV!Current(k)

\* The two read paths agree.  Get takes the first hit and trusts the order of
\* the layers and the filters; RangeScan compares sequence numbers and uses
\* neither.
GetAgreesWithRangeScan ==
    pc = "idle" =>
        \A a, b \in Keys : \A k \in a .. b : RangeScan(a, b)[k] = Get(k)

\* The order by file id is the order by age: a file with a larger id has no
\* older entry of any key, also between the steps of a compaction and after
\* any crash.  Get and ListSSTables rely on it.
FilesInSeqOrder ==
    \A i, j \in SSTables(disk) : i < j =>
        \A k \in KeysOf(disk[i].ents) \cap KeysOf(disk[j].ents) :
            disk[i].ents[k].seq <= disk[j].ents[k].seq

\* The number the next write gets is larger than any in memory or in a file,
\* after every reopening too: otherwise a merge would keep the older value.
NextSeqIsFresh ==
    pc # "closed" =>
        \A k \in Keys :
            /\ mut[k].seq < nextSeq
            /\ \A p \in DOMAIN imms : imms[p][k].seq < nextSeq
            /\ \A id \in FileIds : disk[id].ents[k].seq < nextSeq

\* Between calls memory lists exactly the readable files of the directory: no
\* file listed is missing (Get would skip it), none unlisted would turn up at
\* the next Open with entries that were deleted since.
ListMatchesDirectory == pc = "idle" => Ids(flushed) = SSTables(disk)

\* Creating a file never truncates one that can be read.
NoFileIsOverwritten ==
    [][\A id \in FileIds :
        disk[id].status = "ok" /\ disk'[id].status # "ok" =>
            /\ pc = "compactRemove"
            /\ disk'[id].status = "none"]_vars

\* A call that flushed and returned normally leaves at most Threshold files,
\* also after crashes left more of them in the directory.
FlushLeavesFewFiles ==
    [][FinishWrite /\ EnableCompaction /\ Threshold # 0
        => Len(flushed') <= Threshold]_vars

\* Every call returns: the flush loop and the compactions inside it end.
CallsReturn == pc \in {"flush", "flushWrite", "compact", "compactWrite",
                       "compactRemove"} ~> pc \in {"idle", "closed"}

\* No step of a compaction changes what the files say of any key.
\* compaction.h: every entry of every file is read before any is removed.
CompactionKeepsContents ==
    [][pc' # "closed" /\ pc \in {"compact", "compactWrite", "compactRemove"}
        => UNCHANGED Contents]_vars

\* memdb.h: FlushAllImmutables repeats until the list of immutables is empty.
ImmutablesDrained == pc = "idle" => imms = <<>>
============================================================================
