---------------------------- MODULE LSMDB_proofs ----------------------------
(***************************************************************************)
(* Theorems about the database of lab3 for every key range, value set,     *)
(* memtable size, compaction threshold, filter size and hash function, and *)
(* for every set of faults the statement does not exclude.                 *)
(***************************************************************************)
EXTENDS LSMDBCalls, SSTable_proofs

USE SSTableAssumption, LSMDBAssumption

(***************************************************************************)
(* What the members of the database compute when it is opened.             *)
(***************************************************************************)

LEMMA DescriptorType ==
    ASSUME NEW files \in Seq(Descriptor(FileIds)), NEW j \in DOMAIN files
    PROVE  /\ files[j] \in Descriptor(FileIds)
           /\ files[j].id \in FileIds
           /\ files[j].newest \in Nat
<1>1. files[j] \in Descriptor(FileIds)
  OBVIOUS
<1> QED  BY <1>1 DEF Descriptor

LEMMA ListingOK ==
    ASSUME TypeOK, NEW opened \in SUBSET SSTables(disk), NEW b \in BOOLEAN,
           NEW files \in ListSSTables(disk, opened, b)
    PROVE  /\ files \in Seq(Descriptor(FileIds))
           /\ Ids(files) = opened
           /\ \A i, j \in DOMAIN files : i < j => files[i].id < files[j].id
           /\ \A j \in DOMAIN files :
                files[j] = Describe(files[j].id, disk[files[j].id], b)
<1>1. disk \in [1 .. MaxFileId -> File] /\ MaxFileId \in Nat
  BY DEF TypeOK, FileIds
<1>2. opened \in SUBSET (1 .. MaxFileId)
  BY <1>1 DEF SSTables
<1>3. FileIds = 1 .. MaxFileId
  BY DEF FileIds
<1>4. files \in ListSSTables(disk, opened, b) /\ b \in BOOLEAN
  OBVIOUS
<1>5. /\ files \in Seq(Descriptor(1 .. MaxFileId))
      /\ Ids(files) = opened
      /\ \A i, j \in DOMAIN files : i < j => files[i].id < files[j].id
  BY <1>1, <1>2, <1>4, ListSSTablesOK
<1>6. \A j \in DOMAIN files :
         files[j] = Describe(files[j].id, disk[files[j].id], b)
  BY <1>1, <1>2, <1>4, ListSSTablesOK
<1> QED  BY <1>3, <1>5, <1>6

\* The id of the next file follows every id listed.
LEMMA FileIdAfterOK ==
    ASSUME NEW files \in Seq(Descriptor(FileIds)),
           \A i, j \in DOMAIN files : i < j => files[i].id < files[j].id
    PROVE  /\ FileIdAfter(files) \in Nat \ {0}
           /\ \A j \in DOMAIN files : files[j].id < FileIdAfter(files)
<1>1. \A j \in DOMAIN files : files[j].id \in FileIds
  BY DescriptorType
<1>2. CASE files = <<>>
  BY <1>2 DEF FileIdAfter
<1>3. CASE files # <<>>
  <2>1. DOMAIN files = 1 .. Len(files) /\ Len(files) \in Nat \ {0}
    BY <1>3
  <2>2. FileIdAfter(files) = files[Len(files)].id + 1
    BY <1>3 DEF FileIdAfter
  <2>3. \A j \in DOMAIN files : files[j].id <= files[Len(files)].id
    BY <1>1, <2>1 DEF FileIds
  <2> QED  BY <1>1, <2>1, <2>2, <2>3 DEF FileIds
<1> QED  BY <1>2, <1>3

\* The next sequence number is larger than newest_seq of every file listed.
LEMMA SeqAfterOK ==
    ASSUME NEW files \in Seq(Descriptor(FileIds))
    PROVE  /\ SeqAfter(files) \in Nat \ {0}
           /\ \A j \in DOMAIN files : files[j].newest < SeqAfter(files)
<1> DEFINE f == [j \in DOMAIN files |-> files[j].newest]
           N == {files[j].newest : j \in DOMAIN files}
           S == {0} \cup N
<1>1. \A j \in DOMAIN files : files[j].newest \in Nat
  BY DescriptorType
<1>2. IsFiniteSet(N)
  <2>1. IsFiniteSet(DOMAIN files)
    <3>1. DOMAIN files = 1 .. Len(files) /\ Len(files) \in Nat
      OBVIOUS
    <3> QED  BY <3>1, FS_Interval
  <2>2. f \in Surjection(DOMAIN files, N)
    BY DEF Surjection
  <2> HIDE DEF f, N
  <2> QED  BY <2>1, <2>2, FS_Surjection
<1>3. N \in SUBSET Nat
  BY <1>1
<1>4. IsFiniteSet(S)
  <2> HIDE DEF N
  <2>1. S = N \cup {0}
    OBVIOUS
  <2> QED  BY <1>2, <2>1, FS_AddElement
<1>5. Max(S) \in S /\ \A y \in S : y <= Max(S)
  <2>1. S \in SUBSET Int /\ S # {}
    BY <1>3
  <2> HIDE DEF S
  <2> QED  BY <1>4, <2>1, MaxProperties
<1>6. SeqAfter(files) = Max(S) + 1
  BY DEF SeqAfter
<1>7. Max(S) \in Nat
  BY <1>3, <1>5
<1>8. \A j \in DOMAIN files : files[j].newest \in S
  OBVIOUS
<1> HIDE DEF S, N
<1> QED  BY <1>1, <1>5, <1>6, <1>7, <1>8

\* A file and its description have the types of the variables they go to.
LEMMA FileWrittenOK ==
    ASSUME TypeOK, KeysOf(out) # {}
    PROVE  /\ FileWritten \in File
           /\ FileWritten.status = "ok"
           /\ FileOK(FileWritten)
           /\ \A k \in Keys : FileWritten.ents[k].seq = out[k].seq
           /\ nextFileId - 1 \in FileIds =>
                Describe(nextFileId - 1, FileWritten, bloomOn)
                    \in Descriptor(FileIds)
<1>1. out \in Table /\ bloomOn \in BOOLEAN
  BY DEF TypeOK
<1>2. /\ FileWritten \in File
      /\ FileWritten.status = "ok"
      /\ FileOK(FileWritten)
      /\ \A k \in Keys : FileWritten.ents[k].seq = out[k].seq
  BY <1>1, WriteSSTableOK DEF FileWritten
<1>3. EmptyFilter \in BloomFilters
  BY DEF EmptyFilter, BloomFilters
<1> QED  BY <1>2, <1>3 DEF Describe, Descriptor, File

\* What WriteSSTable leaves, whether or not all its lines could be written: the
\* complete file is among the partial ones.
LEMMA LinesWritten ==
    ASSUME TypeOK, KeysOf(out) # {}, WriteLines
    PROVE  \E left \in File :
              /\ disk' = [disk EXCEPT ![nextFileId - 1] = left]
              /\ left \in PartialFiles(FileWritten, TornLines)
              /\ left.status \in {"bad", "ok"}
              /\ left.status # "ok" => left.ents = EmptyTable
              /\ \A k \in Keys : left.ents[k].seq <= out[k].seq
              /\ FileOK(left)
<1>1. PICK left \in {FileWritten} \cup PartialFiles(FileWritten, TornLines) :
          disk' = [disk EXCEPT ![nextFileId - 1] = left]
  BY DEF WriteLines
<1>2. left \in PartialFiles(FileWritten, TornLines)
  BY <1>1 DEF PartialFiles
<1>3. /\ left \in File
      /\ left.status \in {"bad", "ok"}
      /\ left.status # "ok" => left.ents = EmptyTable
      /\ \A k \in Keys : left.ents[k].seq <= FileWritten.ents[k].seq
      /\ FileOK(left)
  BY <1>2, FileWrittenOK, PartialFilesOK
<1> QED  BY <1>1, <1>2, <1>3, FileWrittenOK
-----------------------------------------------------------------------------
(***************************************************************************)
(* Type correctness.  It is not inductive alone: erasing the front of      *)
(* immutables_ needs one to be there, and the file being written needs an  *)
(* id and an entry.                                                        *)
(***************************************************************************)
Control ==
    /\ pc \in {"flushWrite", "compact", "compactWrite", "compactRemove"}
         => imms # <<>>
    /\ pc \in {"flushWrite", "compactWrite"} => KeysOf(out) # {}
    /\ pc \in {"flushWrite", "compactWrite", "compactRemove"}
         => nextFileId - 1 \in FileIds
    /\ pc \in {"compact", "compactWrite", "compactRemove"} => flushed # <<>>

TypeInv == TypeOK /\ Control

LEMMA InitTypeInv == Init => TypeInv
<1> SUFFICES ASSUME Init PROVE TypeInv
  OBVIOUS
<1>1. NoOp \in [key : Keys, val : Values \cup {Tombstone}]
  BY DEF NoOp, Keys
<1>2. disk \in [FileIds -> File]
  BY NoFileType DEF Init
<1>3. mut \in Table /\ out \in Table
  BY EmptyTableType DEF Init
<1>4. imms \in Seq(Table) /\ flushed \in Seq(Descriptor(FileIds))
  BY DEF Init
<1>5. TypeOK
  <2>1. pc = "closed" /\ op = NoOp
    BY DEF Init
  <2>2. bloomOn \in BOOLEAN
    BY DEF Init
  <2>3. /\ mutSize = 0 /\ removed = 0 /\ nextFileId = 1 /\ nextSeq = 1
    BY DEF Init
  <2> QED  BY <1>1, <1>2, <1>3, <1>4, <2>1, <2>2, <2>3 DEF TypeOK
<1>6. Control
  BY DEF Init, Control
<1> QED  BY <1>5, <1>6 DEF TypeInv

\* Back to the state of no object.
LEMMA NoMemoryType ==
    ASSUME NoMemory, NoScratch
    PROVE  /\ bloomOn' \in BOOLEAN
           /\ mut' \in Table
           /\ mutSize' \in Nat
           /\ imms' \in Seq(Table)
           /\ flushed' \in Seq(Descriptor(FileIds))
           /\ nextFileId' \in Nat \ {0}
           /\ nextSeq' \in Nat \ {0}
           /\ op' \in [key : Keys, val : Values \cup {Tombstone}]
           /\ out' \in Table
           /\ removed' \in Nat
<1>1. op' \in [key : Keys, val : Values \cup {Tombstone}]
  BY DEF NoScratch, NoOp, Keys
<1>2. bloomOn' \in BOOLEAN /\ mut' = EmptyTable /\ out' = EmptyTable
  BY DEF NoMemory, NoScratch
<1>3. imms' \in Seq(Table) /\ flushed' \in Seq(Descriptor(FileIds))
  BY DEF NoMemory
<1>4. mutSize' = 0 /\ removed' = 0 /\ nextFileId' = 1 /\ nextSeq' = 1
  BY DEF NoMemory, NoScratch
<1> QED  BY <1>1, <1>2, <1>3, <1>4, EmptyTableType

LEMMA NoScratchType ==
    ASSUME NoScratch
    PROVE  /\ op' \in [key : Keys, val : Values \cup {Tombstone}]
           /\ out' \in Table
           /\ removed' \in Nat
<1>1. op' \in [key : Keys, val : Values \cup {Tombstone}]
  BY DEF NoScratch, NoOp, Keys
<1> QED  BY <1>1, EmptyTableType DEF NoScratch

\* A new version of a key: the table stays a table, and only this key changes.
LEMMA InsertType ==
    ASSUME NEW t \in Table, NEW k \in Keys, NEW v \in Values \cup {Tombstone},
           nextSeq \in Nat \ {0}, Insert(t, k, v)
    PROVE  /\ mut' \in Table
           /\ nextSeq' \in Nat \ {0} /\ nextSeq' = nextSeq + 1
           /\ mut'[k].seq = nextSeq
           /\ \A x \in Keys \ {k} : mut'[x] = t[x]
<1> DEFINE e == [seq |-> nextSeq, val |-> v]
<1>1. e \in Entry /\ e.seq = nextSeq
  BY DEF Entry
<1>2. mut' = [t EXCEPT ![k] = e] /\ nextSeq' = nextSeq + 1
  BY DEF Insert
<1> HIDE DEF e
<1> QED  BY <1>1, <1>2 DEF Table

LEMMA EntryBytesType ==
    ASSUME NEW v \in Values \cup {Tombstone}
    PROVE  EntryBytes(v) \in Nat
  BY DEF EntryBytes

LEMMA OpenType ==
    ASSUME TypeInv, NEW u \in BOOLEAN, NEW b \in BloomModes, Open(u, b)
    PROVE  TypeInv'
<1>1. TypeOK /\ b \in BOOLEAN
  BY DEF TypeInv
<1>2. PICK skipped \in SUBSET SSTables(disk) :
          flushed' \in ListSSTables(disk, SSTables(disk) \ skipped, b)
  BY DEF Open
<1>3. flushed' \in Seq(Descriptor(FileIds))
      /\ \A i, j \in DOMAIN flushed' : i < j => flushed'[i].id < flushed'[j].id
  BY <1>1, <1>2, ListingOK
<1>4. nextFileId' \in Nat \ {0} /\ nextSeq' \in Nat \ {0}
  BY <1>3, FileIdAfterOK, SeqAfterOK DEF Open
<1>5. /\ pc' = "idle" /\ bloomOn' = b
      /\ UNCHANGED <<mut, mutSize, imms, op, out, removed, disk>>
  BY DEF Open, scratch
<1>6. TypeOK'
  BY <1>1, <1>3, <1>4, <1>5 DEF TypeOK
<1>7. Control'
  BY <1>5 DEF Control
<1> QED  BY <1>6, <1>7 DEF TypeInv

LEMMA CloseType ==
    ASSUME TypeInv, Close
    PROVE  TypeInv'
<1>1. pc' = "closed" /\ disk' = disk
  BY DEF Close
<1>2. TypeOK'
  BY <1>1, NoMemoryType DEF Close, TypeInv, TypeOK
<1>3. Control'
  BY <1>1 DEF Control
<1> QED  BY <1>2, <1>3 DEF TypeInv

LEMMA CrashType ==
    ASSUME TypeInv, Crash
    PROVE  TypeInv'
<1>1. TypeOK /\ Control
  BY DEF TypeInv
<1>2. disk' \in [FileIds -> File]
  <2>1. CASE pc \in {"flushWrite", "compactWrite"}
    <3>1. PICK left \in PartialFiles(FileWritten, TornLines) :
              disk' = [disk EXCEPT ![nextFileId - 1] = left]
      BY <2>1 DEF Crash
    <3>2. left \in File
      BY <1>1, <2>1, FileWrittenOK, PartialFilesOK DEF Control
    <3> QED  BY <1>1, <3>1, <3>2 DEF TypeOK
  <2>2. CASE pc \notin {"flushWrite", "compactWrite"}
    BY <1>1, <2>2 DEF Crash, TypeOK
  <2> QED  BY <2>1, <2>2
<1>3. pc' = "closed"
  BY DEF Crash
<1>4. TypeOK'
  BY <1>2, <1>3, NoMemoryType DEF Crash, TypeOK
<1>5. Control'
  BY <1>3 DEF Control
<1> QED  BY <1>4, <1>5 DEF TypeInv

LEMMA WriteType ==
    ASSUME TypeInv, NEW k \in Keys, NEW v \in Values \cup {Tombstone}, Write(k, v)
    PROVE  TypeInv'
<1>1. TypeOK /\ pc = "idle" /\ disk' = disk
  BY DEF TypeInv, Write
<1>2. EntryBytes(v) \in Nat
  BY EntryBytesType
<1>3. CASE mutSize + EntryBytes(v) <= MaxMemtableBytes
  <2>1. /\ Insert(mut, k, v)
        /\ mutSize' = mutSize + EntryBytes(v)
        /\ UNCHANGED <<pc, bloomOn, imms, flushed, nextFileId, op, out, removed>>
    BY <1>3 DEF Write, scratch
  <2>2. mut' \in Table /\ nextSeq' \in Nat \ {0}
    BY <1>1, <2>1, InsertType DEF TypeOK
  <2>3. TypeOK'
    BY <1>1, <1>2, <2>1, <2>2 DEF TypeOK
  <2>4. Control'
    BY <1>1, <2>1 DEF Control
  <2> QED  BY <2>3, <2>4 DEF TypeInv
<1>4. CASE ~(mutSize + EntryBytes(v) <= MaxMemtableBytes)
  <2>1. /\ imms' = Append(imms, mut) /\ mut' = EmptyTable /\ mutSize' = 0
        /\ op' = [key |-> k, val |-> v] /\ pc' = "flush"
        /\ UNCHANGED <<bloomOn, flushed, nextFileId, nextSeq, out, removed>>
    BY <1>4 DEF Write
  <2>2. imms' \in Seq(Table)
    BY <1>1, <2>1 DEF TypeOK
  <2>3. TypeOK'
    BY <1>1, <2>1, <2>2, EmptyTableType DEF TypeOK
  <2>4. Control'
    BY <2>1 DEF Control
  <2> QED  BY <2>3, <2>4 DEF TypeInv
<1> QED  BY <1>3, <1>4

LEMMA FinishWriteType ==
    ASSUME TypeInv, FinishWrite
    PROVE  TypeInv'
<1>1. TypeOK /\ op.key \in Keys /\ op.val \in Values \cup {Tombstone}
  BY DEF TypeInv, TypeOK
<1>2. /\ Insert(mut, op.key, op.val) /\ mutSize' = mutSize + EntryBytes(op.val)
      /\ pc' = "idle" /\ NoScratch
      /\ UNCHANGED <<bloomOn, imms, flushed, nextFileId, disk>>
  BY DEF FinishWrite
<1>3. mut' \in Table /\ nextSeq' \in Nat \ {0}
  BY <1>1, <1>2, InsertType DEF TypeOK
<1>4. mutSize' \in Nat
  BY <1>1, <1>2, EntryBytesType DEF TypeOK
<1>5. TypeOK'
  BY <1>1, <1>2, <1>3, <1>4, NoScratchType DEF TypeOK
<1>6. Control'
  BY <1>2 DEF Control
<1> QED  BY <1>5, <1>6 DEF TypeInv

\* The front of immutables_ goes, and the loop is tested again.
LEMMA EraseFlushedType ==
    ASSUME TypeOK, imms # <<>>, EraseFlushed
    PROVE  /\ pc' = "flush"
           /\ imms' \in Seq(Table)
           /\ op' \in [key : Keys, val : Values \cup {Tombstone}]
           /\ out' \in Table
           /\ removed' \in Nat
<1>1. imms' = Tail(imms) /\ op' = op /\ pc' = "flush" /\ removed' = 0
      /\ out' = EmptyTable
  BY DEF EraseFlushed
<1>2. imms' \in Seq(Table)
  BY <1>1 DEF TypeOK
<1> QED  BY <1>1, <1>2, EmptyTableType DEF TypeOK

\* The creation of a file under the next id.
LEMMA CreatedType ==
    ASSUME TypeOK, nextFileId \in FileIds,
           disk' = [disk EXCEPT ![nextFileId] = BadFile]
    PROVE  disk' \in [FileIds -> File]
  BY NoFileType DEF TypeOK

LEMMA FlushCreateType ==
    ASSUME TypeInv, FlushCreate
    PROVE  TypeInv'
<1>1. TypeOK /\ pc = "flush" /\ imms # <<>> /\ nextFileId \in FileIds
  BY DEF TypeInv, FlushCreate
<1>2. /\ nextFileId' = nextFileId + 1
      /\ UNCHANGED <<bloomOn, mut, mutSize, imms, flushed, nextSeq>>
  BY DEF FlushCreate
<1>3. nextFileId' \in Nat \ {0} /\ nextFileId' - 1 = nextFileId
  BY <1>1, <1>2 DEF FileIds
<1>4. CASE Throw /\ UNCHANGED disk
  <2>1. TypeOK'
    BY <1>1, <1>2, <1>3, <1>4, NoScratchType DEF Throw, TypeOK
  <2>2. Control'
    BY <1>4 DEF Throw, Control
  <2> QED  BY <2>1, <2>2 DEF TypeInv
<1>5. CASE /\ KeysOf(Head(imms)) # {}
           /\ out' = Head(imms)
           /\ disk' = [disk EXCEPT ![nextFileId] = BadFile]
           /\ pc' = "flushWrite"
           /\ UNCHANGED <<op, removed>>
  <2>1. out' \in Table
    BY <1>1, <1>5 DEF TypeOK
  <2>2. TypeOK'
    BY <1>1, <1>2, <1>3, <1>5, <2>1, CreatedType DEF TypeOK
  <2>3. Control'
    BY <1>1, <1>2, <1>3, <1>5 DEF Control
  <2> QED  BY <2>2, <2>3 DEF TypeInv
<1> QED  BY <1>4, <1>5 DEF FlushCreate

LEMMA FlushWriteType ==
    ASSUME TypeInv, FlushWrite
    PROVE  TypeInv'
<1>1. TypeOK /\ pc = "flushWrite" /\ imms # <<>> /\ KeysOf(out) # {}
      /\ nextFileId - 1 \in FileIds
  BY DEF TypeInv, Control, FlushWrite
<1>2. /\ WriteLines
      /\ flushed' =
           Append(flushed, Describe(nextFileId - 1, FileWritten, bloomOn))
      /\ UNCHANGED <<bloomOn, mut, mutSize, nextFileId, nextSeq>>
  BY DEF FlushWrite
<1>3. disk' \in [FileIds -> File]
  BY <1>1, <1>2, LinesWritten DEF TypeOK
<1>4. flushed' \in Seq(Descriptor(FileIds)) /\ flushed' # <<>>
  BY <1>1, <1>2, FileWrittenOK DEF TypeOK
<1>5. CASE NeedsCompaction(Len(flushed'))
  <2>1. pc' = "compact" /\ UNCHANGED <<imms, op, out, removed>>
    BY <1>5 DEF FlushWrite
  <2>2. TypeOK'
    BY <1>1, <1>2, <1>3, <1>4, <2>1 DEF TypeOK
  <2>3. Control'
    BY <1>1, <1>4, <2>1 DEF Control
  <2> QED  BY <2>2, <2>3 DEF TypeInv
<1>6. CASE ~NeedsCompaction(Len(flushed'))
  <2>1. EraseFlushed
    BY <1>6 DEF FlushWrite
  <2>2. TypeOK'
    BY <1>1, <1>2, <1>3, <1>4, <2>1, EraseFlushedType DEF TypeOK
  <2>3. Control'
    BY <1>1, <2>1, EraseFlushedType DEF Control
  <2> QED  BY <2>2, <2>3 DEF TypeInv
<1> QED  BY <1>5, <1>6

LEMMA CompactCreateType ==
    ASSUME TypeInv, CompactCreate
    PROVE  TypeInv'
<1>1. TypeOK /\ pc = "compact" /\ imms # <<>> /\ flushed # <<>>
      /\ nextFileId \in FileIds
  BY DEF TypeInv, Control, CompactCreate
<1>2. /\ nextFileId' = nextFileId + 1
      /\ UNCHANGED <<bloomOn, mut, mutSize, imms, flushed, nextSeq>>
  BY DEF CompactCreate
<1>3. nextFileId' \in Nat \ {0} /\ nextFileId' - 1 = nextFileId
  BY <1>1, <1>2 DEF FileIds
<1>4. PICK skipped \in SUBSET Ids(flushed) :
        LET live == CompactEntries(disk, flushed, skipped)
        IN  \/ /\ out' = live
               /\ pc' = "compactRemove"
               /\ UNCHANGED <<op, removed, disk>>
            \/ Throw /\ UNCHANGED disk
            \/ /\ KeysOf(live) # {}
               /\ out' = live
               /\ disk' = [disk EXCEPT ![nextFileId] = BadFile]
               /\ pc' = "compactWrite"
               /\ UNCHANGED <<op, removed>>
  BY DEF CompactCreate
<1> DEFINE live == CompactEntries(disk, flushed, skipped)
<1>5. live \in Table
  BY <1>1, CompactEntriesOK DEF TypeOK
<1> HIDE DEF live
<1>6. CASE out' = live /\ pc' = "compactRemove" /\ UNCHANGED <<op, removed, disk>>
  <2>1. TypeOK'
    BY <1>1, <1>2, <1>3, <1>5, <1>6 DEF TypeOK
  <2>2. Control'
    BY <1>1, <1>2, <1>3, <1>6 DEF Control
  <2> QED  BY <2>1, <2>2 DEF TypeInv
<1>7. CASE Throw /\ UNCHANGED disk
  <2>1. TypeOK'
    BY <1>1, <1>2, <1>3, <1>7, NoScratchType DEF Throw, TypeOK
  <2>2. Control'
    BY <1>7 DEF Throw, Control
  <2> QED  BY <2>1, <2>2 DEF TypeInv
<1>8. CASE /\ KeysOf(live) # {}
           /\ out' = live
           /\ disk' = [disk EXCEPT ![nextFileId] = BadFile]
           /\ pc' = "compactWrite"
           /\ UNCHANGED <<op, removed>>
  <2>1. TypeOK'
    BY <1>1, <1>2, <1>3, <1>5, <1>8, CreatedType DEF TypeOK
  <2>2. Control'
    BY <1>1, <1>2, <1>3, <1>8 DEF Control
  <2> QED  BY <2>1, <2>2 DEF TypeInv
<1> QED  BY <1>4, <1>6, <1>7, <1>8 DEF live

LEMMA CompactWriteType ==
    ASSUME TypeInv, CompactWrite
    PROVE  TypeInv'
<1>1. TypeOK /\ Control /\ pc = "compactWrite" /\ KeysOf(out) # {}
      /\ nextFileId - 1 \in FileIds
  BY DEF TypeInv, Control, CompactWrite
<1>2. /\ WriteLines
      /\ pc' = "compactRemove"
      /\ UNCHANGED <<bloomOn, mut, mutSize, imms, flushed, nextFileId, nextSeq,
                     op, out, removed>>
  BY DEF CompactWrite, memory, scratch
<1>3. disk' \in [FileIds -> File]
  BY <1>1, <1>2, LinesWritten DEF TypeOK
<1>4. TypeOK'
  BY <1>1, <1>2, <1>3 DEF TypeOK
<1>5. Control'
  BY <1>1, <1>2 DEF Control
<1> QED  BY <1>4, <1>5 DEF TypeInv

LEMMA CompactRemoveType ==
    ASSUME TypeInv, CompactRemove
    PROVE  TypeInv'
<1>1. TypeOK /\ Control /\ pc = "compactRemove" /\ removed < Len(flushed)
  BY DEF TypeInv, CompactRemove
<1>2. UNCHANGED <<bloomOn, mut, mutSize, imms, flushed, nextFileId, nextSeq>>
  BY DEF CompactRemove, memory
<1>3. CASE /\ disk' = [disk EXCEPT ![NextRemoved] = NoFile]
           /\ removed' = removed + 1
           /\ UNCHANGED <<pc, op, out>>
  <2>1. disk' \in [FileIds -> File]
    BY <1>1, <1>3, NoFileType DEF TypeOK
  <2>2. TypeOK'
    BY <1>1, <1>2, <1>3, <2>1 DEF TypeOK
  <2>3. Control'
    BY <1>1, <1>2, <1>3 DEF Control
  <2> QED  BY <2>2, <2>3 DEF TypeInv
<1>4. CASE Throw /\ UNCHANGED disk
  <2>1. TypeOK'
    BY <1>1, <1>2, <1>4, NoScratchType DEF Throw, TypeOK
  <2>2. Control'
    BY <1>4 DEF Throw, Control
  <2> QED  BY <2>1, <2>2 DEF TypeInv
<1> QED  BY <1>3, <1>4 DEF CompactRemove

LEMMA CompactDoneType ==
    ASSUME TypeInv, CompactDone
    PROVE  TypeInv'
<1>1. TypeOK /\ pc = "compactRemove" /\ imms # <<>> /\ nextFileId - 1 \in FileIds
  BY DEF TypeInv, Control, CompactDone
<1>2. /\ flushed' = Compacted /\ EraseFlushed
      /\ UNCHANGED <<bloomOn, mut, mutSize, nextFileId, nextSeq, disk>>
  BY DEF CompactDone
<1>3. flushed' \in Seq(Descriptor(FileIds))
  <2>1. CASE KeysOf(out) = {}
    BY <1>2, <2>1 DEF Compacted
  <2>2. CASE KeysOf(out) # {}
    BY <1>1, <1>2, <2>2, FileWrittenOK DEF Compacted
  <2> QED  BY <2>1, <2>2
<1>4. TypeOK'
  BY <1>1, <1>2, <1>3, EraseFlushedType DEF TypeOK
<1>5. Control'
  BY <1>1, <1>2, EraseFlushedType DEF Control
<1> QED  BY <1>4, <1>5 DEF TypeInv

\* The step lemma: one step of the database per case.
LEMMA NextTypeInv ==
    ASSUME TypeInv, [Next]_vars
    PROVE  TypeInv'
<1>1. ASSUME NEW u \in BOOLEAN, NEW b \in BloomModes, Open(u, b)
      PROVE  TypeInv'
  BY <1>1, OpenType
<1>2. ASSUME NEW k \in Keys, NEW v \in Values, Put(k, v)
      PROVE  TypeInv'
  BY <1>2, WriteType DEF Put
<1>3. ASSUME NEW k \in Keys, Delete(k)
      PROVE  TypeInv'
  BY <1>3, WriteType DEF Delete
<1>4. CASE Internal
  BY <1>4, FinishWriteType, FlushCreateType, FlushWriteType, CompactCreateType,
     CompactWriteType, CompactRemoveType, CompactDoneType DEF Internal
<1>5. CASE Close
  BY <1>5, CloseType
<1>6. CASE Crash
  BY <1>6, CrashType
<1>7. CASE UNCHANGED vars
  BY <1>7 DEF TypeInv, TypeOK, Control, vars, memory, scratch
<1> QED  BY <1>1, <1>2, <1>3, <1>4, <1>5, <1>6, <1>7 DEF Next

LEMMA SpecTypeInv == Spec => []TypeInv
  BY InitTypeInv, NextTypeInv, PTL DEF Spec

\* Every variable keeps its type, whatever fails and whenever the process dies:
\* in particular no step uses a file id outside the directory, erases from an
\* empty list of immutables or writes a file with no entry.
THEOREM TypeCorrect == Spec => []TypeOK
<1>1. TypeInv => TypeOK
  BY DEF TypeInv
<1> QED  BY <1>1, SpecTypeInv, PTL
-----------------------------------------------------------------------------
(***************************************************************************)
(* Fresh numbers.  The sequence number of the next write and the id of the *)
(* next file are larger than any in use.  After a reopening this rests on  *)
(* the headers: a file that was written whole or cut short by a crash has  *)
(* no entry newer than its newest_seq (FilesOK), one without a header has  *)
(* no entry at all, and every file with a header is listed, which needs    *)
(* files to be readable when the database is opened.                       *)
(***************************************************************************)
FilesOK ==
    \A id \in FileIds : /\ FileOK(disk[id])
                        /\ disk[id].status # "ok" => disk[id].ents = EmptyTable

\* Without an object there is no memory of one.
Gone == pc = "closed" => mut = EmptyTable /\ imms = <<>> /\ out = EmptyTable

Below(t, n) == \A k \in Keys : t[k].seq < n

SeqsBelow ==
    pc # "closed" =>
        /\ Below(mut, nextSeq)
        /\ Below(out, nextSeq)
        /\ \A p \in DOMAIN imms : Below(imms[p], nextSeq)
        /\ \A id \in FileIds : Below(disk[id].ents, nextSeq)

\* A file being written has an id of its own, and no header yet.
IdsBelow ==
    /\ pc # "closed" =>
         \A id \in FileIds : disk[id].status = "ok" => id < nextFileId
    /\ pc \in {"flushWrite", "compactWrite"} => disk[nextFileId - 1].status = "bad"

FreshInv == TypeInv /\ FilesOK /\ Gone /\ SeqsBelow /\ IdsBelow

LEMMA EmptyBelow ==
    ASSUME NEW n \in Nat \ {0}
    PROVE  Below(EmptyTable, n)
  BY DEF Below, EmptyTable, NoEntry

LEMMA NoFileOK ==
    /\ FileOK(NoFile) /\ NoFile.status = "none" /\ NoFile.ents = EmptyTable
    /\ FileOK(BadFile) /\ BadFile.status = "bad" /\ BadFile.ents = EmptyTable
<1>1. NoFile.ents = EmptyTable /\ BadFile.ents = EmptyTable
      /\ NoFile.status = "none" /\ BadFile.status = "bad"
  BY DEF NoFile, BadFile
<1>2. \A k \in Keys : ~(EmptyTable[k].seq > 0)
  BY DEF EmptyTable, NoEntry
<1> QED  BY <1>1, <1>2 DEF FileOK

\* One file changes.
LEMMA DiskUpdate ==
    ASSUME TypeOK, FilesOK, NEW i \in FileIds, NEW f \in File, FileOK(f),
           f.status # "ok" => f.ents = EmptyTable,
           disk' = [disk EXCEPT ![i] = f]
    PROVE  /\ FilesOK'
           /\ disk'[i] = f
           /\ \A id \in FileIds \ {i} : disk'[id] = disk[id]
<1>1. disk'[i] = f /\ \A id \in FileIds \ {i} : disk'[id] = disk[id]
  BY DEF TypeOK
<1> QED  BY <1>1 DEF FilesOK

LEMMA InitFreshInv == Init => FreshInv
<1> SUFFICES ASSUME Init PROVE FreshInv
  OBVIOUS
<1>1. TypeInv
  BY InitTypeInv
<1>2. FilesOK
  BY NoFileOK DEF Init, FilesOK
<1>3. Gone /\ SeqsBelow /\ IdsBelow
  BY DEF Init, Gone, SeqsBelow, IdsBelow
<1> QED  BY <1>1, <1>2, <1>3 DEF FreshInv

LEMMA OpenFresh ==
    ASSUME FreshInv, "read" \notin Faults,
           NEW u \in BOOLEAN, NEW b \in BloomModes, Open(u, b)
    PROVE  FreshInv'
<1>1. TypeInv /\ TypeOK /\ FilesOK /\ TypeInv' /\ b \in BOOLEAN
  BY OpenType DEF FreshInv, TypeInv
<1>2. /\ pc = "closed" /\ pc' = "idle"
      /\ UNCHANGED <<mut, imms, out, disk>>
      /\ nextFileId' = FileIdAfter(flushed')
      /\ nextSeq' = SeqAfter(flushed')
      /\ flushed' \in ListSSTables(disk, SSTables(disk), b)
  <2>1. PICK skipped \in SUBSET SSTables(disk) :
            /\ skipped = {} \/ "read" \in Faults
            /\ flushed' \in ListSSTables(disk, SSTables(disk) \ skipped, b)
    BY DEF Open
  <2>2. SSTables(disk) \ skipped = SSTables(disk)
    BY <2>1
  <2> QED  BY <2>1, <2>2 DEF Open, scratch
<1>3. /\ flushed' \in Seq(Descriptor(FileIds))
      /\ Ids(flushed') = SSTables(disk)
      /\ \A i, j \in DOMAIN flushed' : i < j => flushed'[i].id < flushed'[j].id
      /\ \A j \in DOMAIN flushed' :
           flushed'[j] = Describe(flushed'[j].id, disk[flushed'[j].id], b)
  BY <1>1, <1>2, ListingOK
<1>4. /\ nextSeq' \in Nat \ {0}
      /\ \A j \in DOMAIN flushed' : flushed'[j].newest < nextSeq'
      /\ \A j \in DOMAIN flushed' : flushed'[j].id < nextFileId'
  BY <1>2, <1>3, SeqAfterOK, FileIdAfterOK
<1>5. \A id \in FileIds : disk[id].status = "ok" =>
          \E j \in DOMAIN flushed' : flushed'[j].id = id
  BY <1>1, <1>3 DEF SSTables, Ids, TypeOK
<1>6. ASSUME NEW id \in FileIds, NEW k \in Keys
      PROVE  disk[id].ents[k].seq < nextSeq'
  <2>1. disk[id] \in File /\ disk[id].ents \in Table
    BY <1>1 DEF TypeOK, File
  <2>2. disk[id].ents[k].seq \in Nat
    BY <2>1, TableType
  <2>3. CASE disk[id].status # "ok"
    BY <1>1, <1>4, <2>3, EmptyBelow DEF FilesOK, Below
  <2>4. CASE disk[id].status = "ok" /\ disk[id].ents[k].seq > 0
    <3>1. disk[id].ents[k].seq <= disk[id].newest /\ disk[id].newest \in Nat
      BY <1>1, <2>1, <2>4 DEF FilesOK, FileOK, File
    <3>2. PICK j \in DOMAIN flushed' : flushed'[j].id = id
      BY <1>5, <2>4
    <3>3. flushed'[j].newest = disk[id].newest
      BY <1>3, <3>2 DEF Describe
    <3> QED  BY <1>4, <2>2, <3>1, <3>3
  <2>5. CASE ~(disk[id].ents[k].seq > 0)
    BY <1>4, <2>2, <2>5
  <2> QED  BY <2>3, <2>4, <2>5
<1>7. FilesOK'
  BY <1>1, <1>2 DEF FilesOK
<1>8. SeqsBelow'
  BY <1>2, <1>4, <1>6, EmptyBelow DEF FreshInv, Gone, SeqsBelow, Below
<1>9. IdsBelow'
  BY <1>2, <1>4, <1>5 DEF IdsBelow
<1>10. Gone'
  BY <1>2 DEF Gone
<1> QED  BY <1>1, <1>7, <1>8, <1>9, <1>10 DEF FreshInv

\* What becomes of the file being written when the process dies.
LEMMA CrashDisk ==
    ASSUME TypeInv, Crash, pc \in {"flushWrite", "compactWrite"}
    PROVE  \E left \in File :
              /\ disk' = [disk EXCEPT ![nextFileId - 1] = left]
              /\ left \in PartialFiles(FileWritten, TornLines)
              /\ left.status \in {"bad", "ok"}
              /\ left.status # "ok" => left.ents = EmptyTable
              /\ FileOK(left)
<1>1. PICK left \in PartialFiles(FileWritten, TornLines) :
          disk' = [disk EXCEPT ![nextFileId - 1] = left]
  BY DEF Crash
<1>2. TypeOK /\ KeysOf(out) # {}
  BY DEF TypeInv, Control
<1> QED  BY <1>1, <1>2, FileWrittenOK, PartialFilesOK

LEMMA StopFresh ==
    ASSUME FreshInv, Close \/ Crash
    PROVE  FreshInv'
<1>1. TypeInv /\ TypeOK /\ FilesOK
  BY DEF FreshInv, TypeInv
<1>2. TypeInv'
  BY <1>1, CloseType, CrashType
<1>3. pc' = "closed" /\ mut' = EmptyTable /\ imms' = <<>> /\ out' = EmptyTable
  BY DEF Close, Crash, NoMemory, NoScratch
<1>4. FilesOK'
  <2>1. CASE Crash /\ pc \in {"flushWrite", "compactWrite"}
    <3>1. PICK left \in File :
              /\ disk' = [disk EXCEPT ![nextFileId - 1] = left]
              /\ left.status # "ok" => left.ents = EmptyTable
              /\ FileOK(left)
      BY <1>1, <2>1, CrashDisk
    <3>2. nextFileId - 1 \in FileIds
      BY <1>1, <2>1 DEF TypeInv, Control
    <3> QED  BY <1>1, <3>1, <3>2, DiskUpdate
  <2>2. CASE ~(Crash /\ pc \in {"flushWrite", "compactWrite"})
    <3>1. disk' = disk
      BY <2>2 DEF Close, Crash
    <3> QED  BY <1>1, <3>1 DEF FilesOK
  <2> QED  BY <2>1, <2>2
<1>5. Gone' /\ SeqsBelow' /\ IdsBelow'
  BY <1>3 DEF Gone, SeqsBelow, IdsBelow
<1> QED  BY <1>2, <1>4, <1>5 DEF FreshInv

\* An insertion takes the next number, and moves it on.
LEMMA InsertBelow ==
    ASSUME TypeOK, NEW t \in Table, Below(t, nextSeq),
           NEW k \in Keys, NEW v \in Values \cup {Tombstone}, Insert(t, k, v)
    PROVE  /\ Below(mut', nextSeq')
           /\ \A s \in Table : Below(s, nextSeq) => Below(s, nextSeq')
<1>1. nextSeq \in Nat \ {0}
  BY DEF TypeOK
<1>2. /\ nextSeq' = nextSeq + 1
      /\ mut'[k].seq = nextSeq
      /\ \A x \in Keys \ {k} : mut'[x] = t[x]
  BY <1>1, InsertType
<1>3. ASSUME NEW s \in Table, Below(s, nextSeq)
      PROVE  \A x \in Keys : s[x].seq < nextSeq'
  BY <1>1, <1>2, <1>3, TableType DEF Below
<1>4. \A x \in Keys : mut'[x].seq < nextSeq'
  BY <1>1, <1>2, <1>3
<1> QED  BY <1>3, <1>4 DEF Below

\* The tables in memory and in files, as tables.
LEMMA AllTables ==
    ASSUME TypeOK
    PROVE  /\ mut \in Table /\ out \in Table
           /\ \A p \in DOMAIN imms : imms[p] \in Table
           /\ \A id \in FileIds : disk[id] \in File /\ disk[id].ents \in Table
  BY DEF TypeOK, File

LEMMA WriteFresh ==
    ASSUME FreshInv, NEW k \in Keys, NEW v \in Values \cup {Tombstone}, Write(k, v)
    PROVE  FreshInv'
<1>1. TypeInv /\ TypeOK /\ FilesOK /\ SeqsBelow /\ IdsBelow /\ TypeInv'
  BY WriteType DEF FreshInv, TypeInv
<1>2. pc = "idle" /\ UNCHANGED <<disk, out, nextFileId>>
  BY DEF Write, scratch
<1>3. FilesOK'
  BY <1>1, <1>2 DEF FilesOK
<1>4. pc' \in {"idle", "flush"}
  BY <1>2 DEF Write
<1>5. IdsBelow' /\ Gone'
  BY <1>1, <1>2, <1>4 DEF IdsBelow, Gone
<1>6. SeqsBelow'
  <2>1. CASE mutSize + EntryBytes(v) <= MaxMemtableBytes
    <3>1. Insert(mut, k, v) /\ imms' = imms
      BY <2>1 DEF Write
    <3> QED  BY <1>1, <1>2, <3>1, AllTables, InsertBelow DEF SeqsBelow
  <2>2. CASE ~(mutSize + EntryBytes(v) <= MaxMemtableBytes)
    <3>1. imms' = Append(imms, mut) /\ mut' = EmptyTable /\ nextSeq' = nextSeq
      BY <2>2 DEF Write
    <3>2. \A p \in DOMAIN imms' : \/ p \in DOMAIN imms /\ imms'[p] = imms[p]
                                  \/ imms'[p] = mut
      BY <1>1, <3>1 DEF TypeOK
    <3>3. nextSeq \in Nat \ {0}
      BY <1>1 DEF TypeOK
    <3> QED  BY <1>1, <1>2, <3>1, <3>2, <3>3, EmptyBelow DEF SeqsBelow
  <2> QED  BY <2>1, <2>2
<1> QED  BY <1>1, <1>3, <1>5, <1>6 DEF FreshInv

LEMMA FinishWriteFresh ==
    ASSUME FreshInv, FinishWrite
    PROVE  FreshInv'
<1>1. TypeInv /\ TypeOK /\ FilesOK /\ SeqsBelow /\ IdsBelow /\ TypeInv'
  BY FinishWriteType DEF FreshInv, TypeInv
<1>2. /\ pc = "flush" /\ pc' = "idle" /\ out' = EmptyTable
      /\ Insert(mut, op.key, op.val)
      /\ UNCHANGED <<imms, nextFileId, disk>>
  BY DEF FinishWrite, NoScratch
<1>3. FilesOK' /\ IdsBelow' /\ Gone'
  BY <1>1, <1>2 DEF FilesOK, IdsBelow, Gone
<1>4. op.key \in Keys /\ op.val \in Values \cup {Tombstone}
  BY <1>1 DEF TypeOK
<1>5. nextSeq' \in Nat \ {0}
  BY <1>1 DEF TypeInv, TypeOK
<1>6. SeqsBelow'
  BY <1>1, <1>2, <1>4, <1>5, AllTables, InsertBelow, EmptyBelow DEF SeqsBelow
<1> QED  BY <1>1, <1>3, <1>6 DEF FreshInv

\* A step that only changes disk, out and imms, the latter by erasing.
LEMMA SeqsBelowStep ==
    ASSUME TypeOK, SeqsBelow, pc # "closed", UNCHANGED <<mut, nextSeq>>,
           imms' = imms \/ (imms # <<>> /\ imms' = Tail(imms)),
           Below(out', nextSeq),
           \A id \in FileIds : Below(disk'[id].ents, nextSeq)
    PROVE  SeqsBelow'
<1>1. \A p \in DOMAIN imms' : \E q \in DOMAIN imms : imms'[p] = imms[q]
  <2>1. CASE imms' = imms
    BY <2>1
  <2>2. CASE imms # <<>> /\ imms' = Tail(imms)
    <3>1. imms \in Seq(Table)
      BY DEF TypeOK
    <3>2. \A p \in DOMAIN imms' : p + 1 \in DOMAIN imms /\ imms'[p] = imms[p + 1]
      BY <2>2, <3>1
    <3> QED  BY <3>2
  <2> QED  BY <2>1, <2>2
<1> QED  BY <1>1 DEF SeqsBelow

LEMMA FlushCreateFresh ==
    ASSUME FreshInv, FlushCreate
    PROVE  FreshInv'
<1>1. TypeInv /\ TypeOK /\ FilesOK /\ SeqsBelow /\ IdsBelow /\ TypeInv'
  BY FlushCreateType DEF FreshInv, TypeInv
<1>2. /\ pc = "flush" /\ imms # <<>> /\ nextFileId \in FileIds
      /\ nextFileId' = nextFileId + 1
      /\ UNCHANGED <<mut, imms, nextSeq>>
  BY DEF FlushCreate
<1>3. nextSeq \in Nat \ {0} /\ nextFileId' - 1 = nextFileId
  BY <1>1, <1>2 DEF TypeOK, FileIds
<1>4. CASE Throw /\ UNCHANGED disk
  <2>1. pc' = "idle" /\ out' = EmptyTable
    BY <1>4 DEF Throw, NoScratch
  <2>2. FilesOK' /\ Gone'
    BY <1>1, <1>4, <2>1 DEF FilesOK, Gone
  <2>3. IdsBelow'
    BY <1>1, <1>2, <1>4, <2>1 DEF IdsBelow, FileIds
  <2>4. SeqsBelow'
    BY <1>1, <1>2, <1>3, <1>4, <2>1, EmptyBelow DEF SeqsBelow
  <2> QED  BY <1>1, <2>2, <2>3, <2>4 DEF FreshInv
<1>5. CASE /\ out' = Head(imms)
           /\ disk' = [disk EXCEPT ![nextFileId] = BadFile]
           /\ pc' = "flushWrite"
  <2>1. /\ FilesOK'
        /\ disk'[nextFileId] = BadFile
        /\ \A id \in FileIds \ {nextFileId} : disk'[id] = disk[id]
    BY <1>1, <1>2, <1>5, NoFileType, NoFileOK, DiskUpdate
  <2>2. IdsBelow' /\ Gone'
    BY <1>1, <1>2, <1>3, <1>5, <2>1, NoFileOK DEF IdsBelow, Gone, FileIds
  <2>3. Below(out', nextSeq)
    BY <1>1, <1>2, <1>5 DEF SeqsBelow, TypeOK
  <2>4. \A id \in FileIds : Below(disk'[id].ents, nextSeq)
    BY <1>1, <1>2, <1>3, <2>1, NoFileOK, EmptyBelow DEF SeqsBelow
  <2>5. SeqsBelow'
    <3>1. UNCHANGED <<mut, nextSeq>> /\ imms' = imms /\ pc # "closed"
      BY <1>2
    <3> QED  BY <1>1, <2>3, <2>4, <3>1, SeqsBelowStep
  <2> QED  BY <1>1, <2>1, <2>2, <2>5 DEF FreshInv
<1> QED  BY <1>4, <1>5 DEF FlushCreate

\* The file is written, perhaps not to its end: its entries are no newer than
\* those of out.
LEMMA WrittenBelow ==
    ASSUME FreshInv, pc \in {"flushWrite", "compactWrite"}, WriteLines
    PROVE  /\ FilesOK'
           /\ disk'[nextFileId - 1].status # "none"
           /\ \A id \in FileIds \ {nextFileId - 1} : disk'[id] = disk[id]
           /\ \A id \in FileIds : Below(disk'[id].ents, nextSeq)
           /\ \A id \in FileIds : disk'[id].status = "ok" => id < nextFileId
<1>1. /\ TypeOK /\ FilesOK /\ SeqsBelow /\ IdsBelow
      /\ KeysOf(out) # {} /\ nextFileId - 1 \in FileIds /\ nextFileId \in Nat
  BY DEF FreshInv, TypeInv, Control, TypeOK
<1>2. PICK left \in File :
        /\ disk' = [disk EXCEPT ![nextFileId - 1] = left]
        /\ left.status \in {"bad", "ok"}
        /\ left.status # "ok" => left.ents = EmptyTable
        /\ \A k \in Keys : left.ents[k].seq <= out[k].seq
        /\ FileOK(left)
  BY <1>1, LinesWritten
<1>3. /\ FilesOK'
      /\ disk'[nextFileId - 1] = left
      /\ \A id \in FileIds \ {nextFileId - 1} : disk'[id] = disk[id]
  BY <1>1, <1>2, DiskUpdate
<1>4. Below(left.ents, nextSeq)
  <2>1. \A k \in Keys : left.ents[k].seq \in Nat /\ out[k].seq \in Nat
    BY <1>1, TableType DEF File, TypeOK
  <2>2. nextSeq \in Nat /\ \A k \in Keys : out[k].seq < nextSeq
    BY <1>1 DEF SeqsBelow, Below, TypeOK
  <2> QED  BY <1>2, <2>1, <2>2 DEF Below
<1>5. \A id \in FileIds : Below(disk'[id].ents, nextSeq)
  BY <1>1, <1>3, <1>4 DEF SeqsBelow
<1>6. \A id \in FileIds : disk'[id].status = "ok" => id < nextFileId
  BY <1>1, <1>3 DEF IdsBelow, FileIds
<1> QED  BY <1>2, <1>3, <1>5, <1>6

LEMMA FlushWriteFresh ==
    ASSUME FreshInv, FlushWrite
    PROVE  FreshInv'
<1>1. TypeInv /\ TypeOK /\ SeqsBelow /\ TypeInv'
  BY FlushWriteType DEF FreshInv, TypeInv
<1>2. /\ pc = "flushWrite" /\ imms # <<>>
      /\ WriteLines
      /\ UNCHANGED <<mut, nextFileId, nextSeq>>
  BY <1>1 DEF FlushWrite, TypeInv, Control
<1>3. /\ pc' \in {"flush", "compact"}
      /\ imms' = imms \/ imms' = Tail(imms)
      /\ out' = out \/ out' = EmptyTable
  BY DEF FlushWrite, EraseFlushed
<1>4. Below(out', nextSeq)
  BY <1>1, <1>2, <1>3, EmptyBelow DEF SeqsBelow, TypeOK
<1>5. FilesOK' /\ \A id \in FileIds : Below(disk'[id].ents, nextSeq)
  BY <1>2, WrittenBelow
<1>6. SeqsBelow'
  <2>1. /\ UNCHANGED <<mut, nextSeq>> /\ pc # "closed"
        /\ imms' = imms \/ (imms # <<>> /\ imms' = Tail(imms))
    BY <1>2, <1>3
  <2> QED  BY <1>1, <1>4, <1>5, <2>1, SeqsBelowStep
<1>7. IdsBelow' /\ Gone'
  BY <1>2, <1>3, WrittenBelow DEF IdsBelow, Gone
<1> QED  BY <1>1, <1>5, <1>6, <1>7 DEF FreshInv

LEMMA CompactCreateFresh ==
    ASSUME FreshInv, CompactCreate
    PROVE  FreshInv'
<1>1. TypeInv /\ TypeOK /\ FilesOK /\ SeqsBelow /\ IdsBelow /\ TypeInv'
  BY CompactCreateType DEF FreshInv, TypeInv
<1>2. /\ pc = "compact" /\ flushed # <<>> /\ nextFileId \in FileIds
      /\ nextFileId' = nextFileId + 1
      /\ UNCHANGED <<mut, imms, nextSeq>>
  BY <1>1 DEF CompactCreate, TypeInv, Control
<1>3. nextSeq \in Nat \ {0} /\ nextFileId' - 1 = nextFileId
  BY <1>1, <1>2 DEF TypeOK, FileIds
<1>4. PICK skipped \in SUBSET Ids(flushed) :
        LET live == CompactEntries(disk, flushed, skipped)
        IN  \/ /\ out' = live
               /\ pc' = "compactRemove"
               /\ UNCHANGED disk
            \/ Throw /\ UNCHANGED disk
            \/ /\ out' = live
               /\ disk' = [disk EXCEPT ![nextFileId] = BadFile]
               /\ pc' = "compactWrite"
  BY DEF CompactCreate
<1> DEFINE live == CompactEntries(disk, flushed, skipped)
<1>5. Below(live, nextSeq)
  <2>1. /\ live \in Table
        /\ \A k \in Keys : live[k].seq > 0 =>
             \E j \in DOMAIN flushed : live[k] = disk[flushed[j].id].ents[k]
    <3>1. /\ disk \in [FileIds -> File] /\ flushed \in Seq(Descriptor(FileIds))
          /\ flushed # <<>>
      BY <1>1, <1>2 DEF TypeOK
    <3> QED  BY <3>1, CompactEntriesOK
  <2>2. \A j \in DOMAIN flushed : flushed[j].id \in FileIds
    BY <1>1, DescriptorType DEF TypeOK
  <2> HIDE DEF live
  <2>3. \A k \in Keys : live[k].seq \in Nat
    BY <2>1, TableType
  <2> QED  BY <1>1, <1>2, <1>3, <2>1, <2>2, <2>3 DEF SeqsBelow, Below
<1> HIDE DEF live
<1>6. CASE /\ out' = live \/ Throw
           /\ pc' \in {"compactRemove", "idle"}
           /\ UNCHANGED disk
  <2>1. Below(out', nextSeq)
    BY <1>3, <1>5, <1>6, EmptyBelow DEF Throw, NoScratch
  <2>2. FilesOK' /\ Gone'
    BY <1>1, <1>6 DEF FilesOK, Gone
  <2>3. IdsBelow'
    BY <1>1, <1>2, <1>6 DEF IdsBelow, FileIds
  <2>4. SeqsBelow'
    BY <1>1, <1>2, <1>6, <2>1 DEF SeqsBelow
  <2> QED  BY <1>1, <2>2, <2>3, <2>4 DEF FreshInv
<1>7. CASE /\ out' = live
           /\ disk' = [disk EXCEPT ![nextFileId] = BadFile]
           /\ pc' = "compactWrite"
  <2>1. /\ FilesOK'
        /\ disk'[nextFileId] = BadFile
        /\ \A id \in FileIds \ {nextFileId} : disk'[id] = disk[id]
    BY <1>1, <1>2, <1>7, NoFileType, NoFileOK, DiskUpdate
  <2>2. IdsBelow' /\ Gone'
    BY <1>1, <1>2, <1>3, <1>7, <2>1, NoFileOK DEF IdsBelow, Gone, FileIds
  <2>3. \A id \in FileIds : Below(disk'[id].ents, nextSeq)
    BY <1>1, <1>2, <1>3, <2>1, NoFileOK, EmptyBelow DEF SeqsBelow
  <2>4. SeqsBelow'
    <3>1. UNCHANGED <<mut, nextSeq>> /\ imms' = imms /\ pc # "closed"
          /\ Below(out', nextSeq)
      BY <1>2, <1>5, <1>7
    <3> QED  BY <1>1, <2>3, <3>1, SeqsBelowStep
  <2> QED  BY <1>1, <2>1, <2>2, <2>4 DEF FreshInv
<1> QED  BY <1>4, <1>6, <1>7 DEF live, Throw

LEMMA CompactWriteFresh ==
    ASSUME FreshInv, CompactWrite
    PROVE  FreshInv'
<1>1. TypeInv /\ TypeOK /\ SeqsBelow /\ TypeInv'
  BY CompactWriteType DEF FreshInv, TypeInv
<1>2. /\ pc = "compactWrite" /\ pc' = "compactRemove"
      /\ WriteLines
      /\ UNCHANGED <<mut, imms, out, nextFileId, nextSeq>>
  BY DEF CompactWrite, memory, scratch
<1>3. Below(out', nextSeq)
  BY <1>1, <1>2 DEF SeqsBelow
<1>4. FilesOK' /\ \A id \in FileIds : Below(disk'[id].ents, nextSeq)
  BY <1>2, WrittenBelow
<1>5. SeqsBelow'
  <2>1. UNCHANGED <<mut, nextSeq>> /\ imms' = imms /\ pc # "closed"
    BY <1>2
  <2> QED  BY <1>1, <1>3, <1>4, <2>1, SeqsBelowStep
<1>6. IdsBelow' /\ Gone'
  BY <1>2, WrittenBelow DEF IdsBelow, Gone
<1> QED  BY <1>1, <1>4, <1>5, <1>6 DEF FreshInv

LEMMA CompactRemoveFresh ==
    ASSUME FreshInv, CompactRemove
    PROVE  FreshInv'
<1>1. TypeInv /\ TypeOK /\ FilesOK /\ SeqsBelow /\ IdsBelow /\ TypeInv'
  BY CompactRemoveType DEF FreshInv, TypeInv
<1>2. /\ pc = "compactRemove" /\ pc' \in {"compactRemove", "idle"}
      /\ UNCHANGED <<mut, imms, nextFileId, nextSeq>>
      /\ nextSeq \in Nat \ {0}
      /\ out' = out \/ out' = EmptyTable
  BY <1>1 DEF CompactRemove, Throw, NoScratch, memory, TypeOK
<1>3. Below(out', nextSeq)
  BY <1>1, <1>2, EmptyBelow DEF SeqsBelow
<1>4. CASE disk' = disk
  <2>1. FilesOK' /\ IdsBelow' /\ Gone' /\ SeqsBelow'
    BY <1>1, <1>2, <1>3, <1>4 DEF FilesOK, IdsBelow, Gone, SeqsBelow
  <2> QED  BY <1>1, <2>1 DEF FreshInv
<1>5. CASE removed < Len(flushed) /\ disk' = [disk EXCEPT ![NextRemoved] = NoFile]
  <2>1. NextRemoved \in FileIds
    <3>1. removed + 1 \in DOMAIN flushed
      BY <1>1, <1>5 DEF TypeOK
    <3> QED  BY <1>1, <3>1, DescriptorType DEF TypeOK, NextRemoved
  <2>2. /\ FilesOK'
        /\ disk'[NextRemoved] = NoFile
        /\ \A id \in FileIds \ {NextRemoved} : disk'[id] = disk[id]
    BY <1>1, <1>5, <2>1, NoFileType, NoFileOK, DiskUpdate
  <2>3. IdsBelow' /\ Gone'
    BY <1>1, <1>2, <2>2, NoFileOK DEF IdsBelow, Gone
  <2>4. \A id \in FileIds : Below(disk'[id].ents, nextSeq)
    BY <1>1, <1>2, <2>2, NoFileOK, EmptyBelow DEF SeqsBelow
  <2>5. SeqsBelow'
    <3>1. UNCHANGED <<mut, nextSeq>> /\ imms' = imms /\ pc # "closed"
      BY <1>2
    <3> QED  BY <1>1, <1>3, <2>4, <3>1, SeqsBelowStep
  <2> QED  BY <1>1, <2>2, <2>3, <2>5 DEF FreshInv
<1> QED  BY <1>4, <1>5 DEF CompactRemove

LEMMA CompactDoneFresh ==
    ASSUME FreshInv, CompactDone
    PROVE  FreshInv'
<1>1. TypeInv /\ TypeOK /\ FilesOK /\ SeqsBelow /\ IdsBelow /\ TypeInv'
  BY CompactDoneType DEF FreshInv, TypeInv
<1>2. /\ pc = "compactRemove" /\ pc' = "flush" /\ imms # <<>>
      /\ imms' = Tail(imms) /\ out' = EmptyTable
      /\ UNCHANGED <<mut, nextFileId, nextSeq, disk>>
      /\ nextSeq \in Nat \ {0}
  BY <1>1 DEF CompactDone, EraseFlushed, TypeInv, Control, TypeOK
<1>3. FilesOK' /\ IdsBelow' /\ Gone'
  BY <1>1, <1>2 DEF FilesOK, IdsBelow, Gone
<1>4. Below(out', nextSeq) /\ \A id \in FileIds : Below(disk'[id].ents, nextSeq)
  BY <1>1, <1>2, EmptyBelow DEF SeqsBelow
<1>5. SeqsBelow'
  BY <1>1, <1>2, <1>4, SeqsBelowStep
<1> QED  BY <1>1, <1>3, <1>5 DEF FreshInv

LEMMA NextFreshInv ==
    ASSUME FreshInv, "read" \notin Faults, [Next]_vars
    PROVE  FreshInv'
<1>1. ASSUME NEW u \in BOOLEAN, NEW b \in BloomModes, Open(u, b)
      PROVE  FreshInv'
  BY <1>1, OpenFresh
<1>2. ASSUME NEW k \in Keys, NEW v \in Values, Put(k, v)
      PROVE  FreshInv'
  BY <1>2, WriteFresh DEF Put
<1>3. ASSUME NEW k \in Keys, Delete(k)
      PROVE  FreshInv'
  BY <1>3, WriteFresh DEF Delete
<1>4. CASE Internal
  BY <1>4, FinishWriteFresh, FlushCreateFresh, FlushWriteFresh,
     CompactCreateFresh, CompactWriteFresh, CompactRemoveFresh,
     CompactDoneFresh DEF Internal
<1>5. CASE Close \/ Crash
  BY <1>5, StopFresh
<1>6. CASE UNCHANGED vars
  <2>1. TypeInv'
    BY <1>6, NextTypeInv DEF FreshInv
  <2> QED  BY <1>6, <2>1 DEF FreshInv, FilesOK, Gone, SeqsBelow, IdsBelow,
                             vars, memory, scratch
<1> QED  BY <1>1, <1>2, <1>3, <1>4, <1>5, <1>6 DEF Next

LEMMA SpecFreshInv ==
    ASSUME "read" \notin Faults
    PROVE  Spec => []FreshInv
<1>1. FreshInv /\ [Next]_vars => FreshInv'
  BY NextFreshInv
<1> QED  BY <1>1, InitFreshInv, PTL DEF Spec

\* With files that can be opened, the number of the next write is larger than
\* any in memory or in a file: after any crash, also one that cuts a data line,
\* and after any failure to create or remove a file.
THEOREM SequenceNumbersAreFresh ==
    ASSUME "read" \notin Faults
    PROVE  Spec => []NextSeqIsFresh
<1>1. FreshInv => NextSeqIsFresh
  BY DEF FreshInv, SeqsBelow, Below, NextSeqIsFresh
<1> QED  BY <1>1, SpecFreshInv, PTL

\* One step: the id under which a file is created has no header yet, and so has
\* the file a crash leaves unfinished.
LEMMA NextOverwritesNothing ==
    ASSUME FreshInv, [Next]_vars, NEW id \in FileIds,
           disk[id].status = "ok", disk'[id].status # "ok"
    PROVE  pc = "compactRemove" /\ disk'[id].status = "none"
<1>1. TypeInv /\ TypeOK /\ IdsBelow
  BY DEF FreshInv, TypeInv
<1>2. CASE disk' = disk
  BY <1>2
<1>3. CASE /\ nextFileId \in FileIds /\ pc # "closed"
           /\ disk' = [disk EXCEPT ![nextFileId] = BadFile]
  <2>1. id < nextFileId
    BY <1>1, <1>3 DEF IdsBelow
  <2>2. disk'[id] = disk[id]
    BY <1>1, <1>3, <2>1 DEF TypeOK, FileIds
  <2> QED  BY <2>2
<1>4. CASE /\ pc \in {"flushWrite", "compactWrite"}
           /\ \E f \in File : disk' = [disk EXCEPT ![nextFileId - 1] = f]
  <2>1. PICK f \in File : disk' = [disk EXCEPT ![nextFileId - 1] = f]
    BY <1>4
  <2>2. disk[nextFileId - 1].status = "bad"
    BY <1>1, <1>4 DEF IdsBelow
  <2> QED  BY <1>1, <2>1, <2>2 DEF TypeOK
<1>5. CASE pc = "compactRemove" /\ disk' = [disk EXCEPT ![NextRemoved] = NoFile]
  BY <1>1, <1>5, NoFileOK DEF TypeOK
<1>6. ASSUME FlushWrite \/ CompactWrite
      PROVE  /\ pc \in {"flushWrite", "compactWrite"}
             /\ \E f \in File : disk' = [disk EXCEPT ![nextFileId - 1] = f]
  <2>1. pc \in {"flushWrite", "compactWrite"} /\ KeysOf(out) # {}
    BY <1>1, <1>6 DEF FlushWrite, CompactWrite, TypeInv, Control
  <2> QED  BY <1>1, <1>6, <2>1, LinesWritten DEF FlushWrite, CompactWrite
<1>7. CASE Internal
  <2>1. CASE FinishWrite \/ CompactDone
    BY <1>2, <2>1 DEF FinishWrite, CompactDone
  <2>2. CASE FlushCreate
    BY <1>2, <1>3, <2>2 DEF FlushCreate
  <2>3. CASE CompactCreate
    BY <1>2, <1>3, <2>3 DEF CompactCreate
  <2>4. CASE FlushWrite \/ CompactWrite
    BY <1>4, <1>6, <2>4
  <2>5. CASE CompactRemove
    BY <1>2, <1>5, <2>5 DEF CompactRemove
  <2> QED  BY <1>7, <2>1, <2>2, <2>3, <2>4, <2>5 DEF Internal
<1>8. CASE Crash
  <2>1. CASE pc \in {"flushWrite", "compactWrite"}
    BY <1>1, <1>4, <1>8, <2>1, CrashDisk
  <2> QED  BY <1>2, <1>8, <2>1 DEF Crash
<1> QED  BY <1>2, <1>7, <1>8
         DEF Next, Open, Put, Delete, Write, Close, vars

\* With files that can be opened, no step truncates a file that can be read or
\* takes it away, but the removal of a file that was compacted: after any crash,
\* also one that cuts a data line, and after any failure to create or remove.
THEOREM FilesAreNotOverwritten ==
    ASSUME "read" \notin Faults
    PROVE  Spec => NoFileIsOverwritten
<1>1. FreshInv /\ [Next]_vars =>
        [\A id \in FileIds :
            disk[id].status = "ok" /\ disk'[id].status # "ok" =>
                /\ pc = "compactRemove"
                /\ disk'[id].status = "none"]_vars
  BY NextOverwritesNothing
<1>2. Spec => []FreshInv
  BY SpecFreshInv
<1>3. Spec => [][Next]_vars
  BY PTL DEF Spec
<1> QED  BY <1>1, <1>2, <1>3, PTL DEF NoFileIsOverwritten
-----------------------------------------------------------------------------
(***************************************************************************)
(* What a call that flushed leaves behind.                                 *)
(***************************************************************************)

\* When the flush loop finds the list of immutables empty, the last turn of it
\* has left few files: it compacted, or it had no need to.
FewFiles ==
    EnableCompaction /\ Threshold # 0 /\ pc = "flush" /\ imms = <<>>
        => Len(flushed) <= Threshold

LEMMA NextFewFiles ==
    ASSUME TypeInv, FewFiles, [Next]_vars
    PROVE  FewFiles'
<1>1. TypeOK
  BY DEF TypeInv
<1>2. ASSUME NEW u \in BOOLEAN, NEW b \in BloomModes, Open(u, b)
      PROVE  FewFiles'
  BY <1>2 DEF Open, FewFiles
<1>3. ASSUME NEW k \in Keys, NEW v \in Values \cup {Tombstone}, Write(k, v)
      PROVE  FewFiles'
  <2>1. pc = "idle" /\ (pc' = pc \/ imms' = Append(imms, mut))
    BY <1>3 DEF Write
  <2>2. Append(imms, mut) # <<>>
    BY <1>1 DEF TypeOK
  <2> QED  BY <2>1, <2>2 DEF FewFiles
<1>4. CASE FinishWrite
  BY <1>4 DEF FinishWrite, FewFiles
<1>5. CASE FlushCreate
  BY <1>5 DEF FlushCreate, Throw, FewFiles
<1>6. CASE FlushWrite
  <2>1. CASE NeedsCompaction(Len(flushed'))
    BY <1>6, <2>1 DEF FlushWrite, FewFiles
  <2>2. CASE ~NeedsCompaction(Len(flushed'))
    <3>1. \/ ~(EnableCompaction /\ Threshold # 0)
          \/ ~(Len(flushed') > Threshold)
      BY <2>2 DEF NeedsCompaction
    <3>2. flushed' \in Seq(Descriptor(FileIds))
      BY <1>6, NextTypeInv DEF TypeInv, TypeOK, Next, Internal
    <3>3. Len(flushed') \in Nat
      BY <3>2
    <3> QED  BY <3>1, <3>3 DEF FewFiles
  <2> QED  BY <2>1, <2>2
<1>7. CASE CompactCreate \/ CompactWrite \/ CompactRemove
  <2>1. pc' # "flush"
    BY <1>7 DEF CompactCreate, CompactWrite, CompactRemove, Throw
  <2> QED  BY <2>1 DEF FewFiles
<1>8. CASE CompactDone
  <2>1. flushed' = Compacted
    BY <1>8 DEF CompactDone
  <2>2. Len(flushed') \in {0, 1}
    BY <2>1 DEF Compacted
  <2>3. Threshold # 0 => 0 <= Threshold /\ 1 <= Threshold
    OBVIOUS
  <2>4. Threshold # 0 => Len(flushed') <= Threshold
    BY <2>2, <2>3, Zenon
  <2> QED  BY <2>4 DEF FewFiles
<1>9. CASE Close \/ Crash
  BY <1>9 DEF Close, Crash, FewFiles
<1>10. CASE UNCHANGED vars
  BY <1>10 DEF vars, memory, FewFiles
<1> QED  BY <1>2, <1>3, <1>4, <1>5, <1>6, <1>7, <1>8, <1>9, <1>10
         DEF Next, Internal, Put, Delete

\* A call that flushed and returned normally leaves at most Threshold files,
\* whatever faults, crashes and torn files came before it.
THEOREM FewFilesStay == Spec => FlushLeavesFewFiles
<1>1. Init => FewFiles
  BY DEF Init, FewFiles
<1>2. TypeInv /\ FewFiles /\ [Next]_vars => FewFiles'
  BY NextFewFiles
<1>3. FewFiles /\ [Next]_vars =>
        [FinishWrite /\ EnableCompaction /\ Threshold # 0
            => Len(flushed') <= Threshold]_vars
  BY DEF FewFiles, FinishWrite
<1> QED  BY <1>1, <1>2, <1>3, SpecTypeInv, PTL DEF Spec, FlushLeavesFewFiles

\* The documentation's case: no entry is larger than a memtable.
EntriesFit ==
    \A v \in ClientValues \cup {Tombstone} : EntryBytes(v) <= MaxMemtableBytes

\* Nothing that WriteSSTable would refuse is ever in the list of immutables: a
\* memtable with bytes has keys, and an entry that fits into an empty memtable
\* finds bytes in one it does not fit into.
Drained ==
    /\ pc \in {"closed", "idle"} => imms = <<>>
    /\ mutSize > 0 => KeysOf(mut) # {}
    /\ \A p \in DOMAIN imms : KeysOf(imms[p]) # {}

\* A memtable with a new entry is not empty.
LEMMA InsertedKey ==
    ASSUME NEW t \in Table, NEW k \in Keys, NEW v \in Values \cup {Tombstone},
           nextSeq \in Nat \ {0}, Insert(t, k, v)
    PROVE  KeysOf(mut') # {}
<1>1. mut'[k].seq = nextSeq
  BY InsertType
<1>2. k \in KeysOf(mut')
  BY <1>1 DEF KeysOf
<1> QED  BY <1>2

LEMMA EraseDrains ==
    ASSUME TypeOK, imms # <<>>, EraseFlushed,
           \A p \in DOMAIN imms : KeysOf(imms[p]) # {}
    PROVE  pc' = "flush" /\ \A p \in DOMAIN imms' : KeysOf(imms'[p]) # {}
<1>1. pc' = "flush" /\ imms' = Tail(imms) /\ imms \in Seq(Table)
  BY DEF EraseFlushed, TypeOK
<1>2. \A p \in DOMAIN Tail(imms) : /\ p + 1 \in DOMAIN imms
                                   /\ Tail(imms)[p] = imms[p + 1]
  BY <1>1
<1> QED  BY <1>1, <1>2

LEMMA NextDrained ==
    ASSUME TypeInv, Drained, EntriesFit, Faults \cap {"create", "remove"} = {},
           [Next]_vars
    PROVE  Drained'
<1>1. TypeOK /\ Control
  BY DEF TypeInv
<1>2. ASSUME NEW u \in BOOLEAN, NEW b \in BloomModes, Open(u, b)
      PROVE  Drained'
  BY <1>2 DEF Open, Drained
<1>3. ASSUME NEW k \in Keys, NEW v \in ClientValues \cup {Tombstone}, Write(k, v)
      PROVE  Drained'
  <2>1. EntryBytes(v) \in Nat /\ EntryBytes(v) <= MaxMemtableBytes /\ mutSize \in Nat
        /\ v \in Values \cup {Tombstone}
    BY <1>1, EntryBytesType DEF EntriesFit, TypeOK
  <2>2. CASE mutSize + EntryBytes(v) <= MaxMemtableBytes
    <3>1. Insert(mut, k, v) /\ UNCHANGED <<pc, imms>>
      BY <1>3, <2>2 DEF Write
    <3>2. KeysOf(mut') # {}
      BY <1>1, <2>1, <3>1, InsertedKey DEF TypeOK
    <3> QED  BY <3>1, <3>2 DEF Drained
  <2>3. CASE ~(mutSize + EntryBytes(v) <= MaxMemtableBytes)
    <3>1. /\ imms' = Append(imms, mut) /\ mutSize' = 0 /\ pc' = "flush"
          /\ pc = "idle"
      BY <1>3, <2>3 DEF Write
    <3>2. imms = <<>> /\ KeysOf(mut) # {}
      BY <2>1, <2>3, <3>1 DEF Drained
    <3>3. imms' = <<mut>>
      BY <3>1, <3>2
    <3> QED  BY <3>1, <3>2, <3>3 DEF Drained
  <2> QED  BY <2>2, <2>3
<1>4. CASE FinishWrite
  <2>1. imms = <<>> /\ imms' = imms /\ Insert(mut, op.key, op.val)
    BY <1>4 DEF FinishWrite
  <2>2. KeysOf(mut') # {}
    BY <1>1, <2>1, InsertedKey DEF TypeOK
  <2> QED  BY <2>1, <2>2 DEF Drained
<1>5. CASE FlushCreate
  <2>1. imms # <<>> /\ imms \in Seq(Table)
    BY <1>1, <1>5 DEF FlushCreate, TypeOK
  <2>2. KeysOf(Head(imms)) # {}
    BY <2>1 DEF Drained
  <2>3. pc' = "flushWrite" /\ UNCHANGED <<mut, mutSize, imms>>
    BY <1>5, <2>2 DEF FlushCreate
  <2> QED  BY <2>3 DEF Drained
<1>6. CASE FlushWrite \/ CompactDone
  <2>1. imms # <<>>
    BY <1>1, <1>6 DEF FlushWrite, CompactDone, Control
  <2>2. UNCHANGED <<mut, mutSize>>
    BY <1>6 DEF FlushWrite, CompactDone
  <2>3. (pc' = "compact" /\ imms' = imms) \/ EraseFlushed
    BY <1>6 DEF FlushWrite, CompactDone
  <2>4. CASE EraseFlushed
    BY <1>1, <2>1, <2>2, <2>4, EraseDrains DEF Drained
  <2> QED  BY <2>2, <2>3, <2>4 DEF Drained
<1>7. CASE CompactCreate \/ CompactWrite \/ CompactRemove
  <2>1. pc' \in {"compactWrite", "compactRemove"} /\ UNCHANGED <<mut, mutSize, imms>>
    BY <1>7 DEF CompactCreate, CompactWrite, CompactRemove, memory
  <2> QED  BY <2>1 DEF Drained
<1>8. CASE Close \/ Crash
  <2>1. NoMemory
    BY <1>8 DEF Close, Crash
  <2> QED  BY <2>1 DEF NoMemory, Drained
<1>9. CASE UNCHANGED vars
  BY <1>9 DEF vars, memory, Drained
<1> QED  BY <1>2, <1>3, <1>4, <1>5, <1>6, <1>7, <1>8, <1>9
         DEF Next, Internal, Put, Delete

\* When no entry is larger than a memtable and files can be created and removed,
\* a call that returns has emptied the list of immutables, as memdb.h says of
\* FlushAllImmutables.  A larger entry leaves an immutable without entries there.
THEOREM ImmutablesAreDrained ==
    ASSUME EntriesFit, Faults \cap {"create", "remove"} = {}
    PROVE  Spec => []ImmutablesDrained
<1>1. Init => Drained
  BY DEF Init, Drained
<1>2. TypeInv /\ Drained /\ [Next]_vars => Drained'
  BY NextDrained
<1>3. Drained => ImmutablesDrained
  BY DEF Drained, ImmutablesDrained
<1> QED  BY <1>1, <1>2, <1>3, SpecTypeInv, PTL DEF Spec

-----------------------------------------------------------------------------
(***************************************************************************)
(* The order of age, for every value of the constants: memory lists what   *)
(* the directory holds, and the order of the layers a read searches (files *)
(* by id, immutables, the mutable memtable) is the order of their sequence *)
(* numbers.                                                                *)
(*                                                                         *)
(* Both fail when a file cannot be read, written to its end or removed, or *)
(* when a crash leaves a cut line that is read as an entry: the theorems   *)
(* assume that none of this happens, and the runs `unreadable`,            *)
(* `unremovable` and `torn_read` show what becomes of the database         *)
(* otherwise.                                                              *)
(***************************************************************************)

Reliable ==
    /\ "read" \notin Faults /\ "write" \notin Faults /\ "remove" \notin Faults
    /\ TornLines = FALSE

\* Then what a WriteSSTable that returns leaves is the complete file.
LEMMA WholeLines ==
    ASSUME Reliable, WriteLines
    PROVE  disk' = [disk EXCEPT ![nextFileId - 1] = FileWritten]
  BY DEF Reliable, WriteLines

\* No entry of t is newer than the entry of its key in u.
Ordered(t, u) ==
    \A k \in Keys : t[k].seq > 0 /\ u[k].seq > 0 => t[k].seq <= u[k].seq

DiskOrder ==
    \A i, j \in FileIds : i < j => Ordered(disk[i].ents, disk[j].ents)

MemOrder ==
    pc # "closed" =>
        /\ \A p, q \in DOMAIN imms : p < q => Ordered(imms[p], imms[q])
        /\ \A p \in DOMAIN imms : Ordered(imms[p], mut)
        /\ \A id \in FileIds :
             /\ Ordered(disk[id].ents, mut)
             /\ \A p \in DOMAIN imms : Ordered(disk[id].ents, imms[p])

\* What is being written comes after the files and before the memtables.
OutOrder ==
    pc \in {"flushWrite", "compactWrite"} =>
        /\ \A id \in FileIds : Ordered(disk[id].ents, out)
        /\ \A p \in DOMAIN imms : Ordered(out, imms[p])
        /\ Ordered(out, mut)

\* The list is in the order of ids, all of them before the id in use.
ListOrder ==
    pc # "closed" =>
        /\ \A i, j \in DOMAIN flushed : i < j => flushed[i].id < flushed[j].id
        /\ \A j \in DOMAIN flushed : flushed[j].id < nextFileId
        /\ pc \in {"flushWrite", "compactWrite", "compactRemove"} =>
             \A j \in DOMAIN flushed : flushed[j].id # nextFileId - 1

\* The list is the directory, less what a compaction has removed so far, and
\* plus what it has written.
Listed ==
    /\ pc # "compactRemove" => removed = 0
    /\ pc \in {"idle", "flush", "flushWrite", "compact", "compactWrite"} =>
         Ids(flushed) = SSTables(disk)
    /\ pc = "compactRemove" =>
         /\ removed \in 0 .. Len(flushed)
         /\ SSTables(disk) =
              {flushed[j].id : j \in removed + 1 .. Len(flushed)}
              \cup (IF KeysOf(out) = {} THEN {} ELSE {nextFileId - 1})

OrderInv == FreshInv /\ DiskOrder /\ MemOrder /\ OutOrder /\ ListOrder /\ Listed
-----------------------------------------------------------------------------
LEMMA EmptyOrdered ==
    ASSUME NEW t
    PROVE  Ordered(EmptyTable, t) /\ Ordered(t, EmptyTable)
  BY DEF Ordered, EmptyTable, NoEntry

\* Tables with the same sequence numbers are ordered alike.
LEMMA SameSeqs ==
    ASSUME NEW t, NEW u, \A k \in Keys : t[k].seq = u[k].seq
    PROVE  \A s : (Ordered(s, t) <=> Ordered(s, u)) /\ (Ordered(t, s) <=> Ordered(u, s))
  BY DEF Ordered

\* A file without a header has no entry to be ordered.
LEMMA NoHeaderOrdered ==
    ASSUME FilesOK, NEW id \in FileIds, disk[id].status # "ok", NEW t
    PROVE  Ordered(disk[id].ents, t) /\ Ordered(t, disk[id].ents)
<1>1. disk[id].ents = EmptyTable
  BY DEF FilesOK
<1> QED  BY <1>1, EmptyOrdered

\* A file that becomes empty or goes disturbs no order.
LEMMA EmptiedFileOrder ==
    ASSUME TypeOK, DiskOrder, NEW n \in FileIds, NEW f \in {NoFile, BadFile},
           disk' = [disk EXCEPT ![n] = f]
    PROVE  /\ DiskOrder'
           /\ \A t : \A id \in FileIds :
                Ordered(disk[id].ents, t) => Ordered(disk'[id].ents, t)
           /\ SSTables(disk') = SSTables(disk) \ {n}
<1>1. /\ disk'[n] = f /\ f.ents = EmptyTable /\ f.status # "ok"
      /\ \A id \in FileIds \ {n} : disk'[id] = disk[id]
      /\ DOMAIN disk = FileIds /\ DOMAIN disk' = FileIds
  BY NoFileOK DEF TypeOK
<1>2. DiskOrder'
  <2> SUFFICES ASSUME NEW i \in FileIds, NEW j \in FileIds, i < j
               PROVE  Ordered(disk'[i].ents, disk'[j].ents)
    BY DEF DiskOrder
  <2>1. CASE i = n \/ j = n
    BY <1>1, <2>1, EmptyOrdered
  <2>2. CASE i # n /\ j # n
    BY <1>1, <2>2 DEF DiskOrder
  <2> QED  BY <2>1, <2>2
<1>3. \A t : \A id \in FileIds :
         Ordered(disk[id].ents, t) => Ordered(disk'[id].ents, t)
  <2> TAKE t
  <2> TAKE id \in FileIds
  <2>1. CASE id = n
    BY <1>1, <2>1, EmptyOrdered
  <2>2. CASE id # n
    BY <1>1, <2>2
  <2> QED  BY <2>1, <2>2
<1>4. SSTables(disk') = SSTables(disk) \ {n}
  BY <1>1 DEF SSTables
<1> QED  BY <1>2, <1>3, <1>4

\* The file with the largest id in use is filled.
LEMMA NewestFileOrder ==
    ASSUME TypeOK, FilesOK, DiskOrder, NEW n \in FileIds, NEW f \in File,
           disk' = [disk EXCEPT ![n] = f],
           \A id \in FileIds \ {n} : disk[id].status = "ok" => id < n,
           \A id \in FileIds : Ordered(disk[id].ents, f.ents)
    PROVE  DiskOrder'
<1>1. disk'[n] = f /\ \A id \in FileIds \ {n} : disk'[id] = disk[id]
  BY DEF TypeOK
<1> SUFFICES ASSUME NEW i \in FileIds, NEW j \in FileIds, i < j
             PROVE  Ordered(disk'[i].ents, disk'[j].ents)
  BY DEF DiskOrder
<1>2. CASE i = n
  <2>1. j \in FileIds \ {n} /\ ~(j < n)
    BY <1>2 DEF FileIds
  <2>2. disk'[j] = disk[j] /\ disk[j].status # "ok"
    BY <1>1, <2>1
  <2> QED  BY <2>2, NoHeaderOrdered
<1>3. CASE i # n /\ j = n
  BY <1>1, <1>3
<1>4. CASE i # n /\ j # n
  BY <1>1, <1>4 DEF DiskOrder
<1> QED  BY <1>2, <1>3, <1>4

LEMMA InitOrderInv == Init => OrderInv
<1> SUFFICES ASSUME Init PROVE OrderInv
  OBVIOUS
<1>1. FreshInv
  BY InitFreshInv
<1>2. \A id \in FileIds : disk[id].ents = EmptyTable
  BY NoFileOK DEF Init
<1>3. DiskOrder
  BY <1>2, EmptyOrdered DEF DiskOrder
<1>4. MemOrder /\ OutOrder /\ ListOrder /\ Listed
  BY DEF Init, MemOrder, OutOrder, ListOrder, Listed
<1> QED  BY <1>1, <1>3, <1>4 DEF OrderInv

LEMMA OpenOrder ==
    ASSUME OrderInv, Reliable, NEW u \in BOOLEAN, NEW b \in BloomModes, Open(u, b)
    PROVE  OrderInv'
<1>1. FreshInv' /\ FreshInv /\ DiskOrder /\ TypeOK /\ b \in BOOLEAN
  BY OpenFresh DEF OrderInv, FreshInv, TypeInv, Reliable
<1>2. /\ pc = "closed" /\ pc' = "idle"
      /\ UNCHANGED <<mut, imms, removed, disk>>
      /\ nextFileId' = FileIdAfter(flushed')
      /\ flushed' \in ListSSTables(disk, SSTables(disk), b)
  <2>1. PICK skipped \in SUBSET SSTables(disk) :
            /\ skipped = {} \/ "read" \in Faults
            /\ flushed' \in ListSSTables(disk, SSTables(disk) \ skipped, b)
    BY DEF Open
  <2>2. SSTables(disk) \ skipped = SSTables(disk)
    BY <2>1 DEF Reliable
  <2> QED  BY <2>1, <2>2 DEF Open, scratch
<1>3. /\ flushed' \in Seq(Descriptor(FileIds))
      /\ Ids(flushed') = SSTables(disk)
      /\ \A i, j \in DOMAIN flushed' : i < j => flushed'[i].id < flushed'[j].id
  BY <1>1, <1>2, ListingOK
<1>4. \A j \in DOMAIN flushed' : flushed'[j].id < nextFileId'
  BY <1>2, <1>3, FileIdAfterOK
<1>5. DiskOrder' /\ OutOrder'
  BY <1>1, <1>2 DEF DiskOrder, OutOrder
<1>6. MemOrder'
  <2>1. mut' = EmptyTable /\ imms' = <<>>
    BY <1>1, <1>2 DEF FreshInv, Gone
  <2> QED  BY <2>1, EmptyOrdered DEF MemOrder
<1>7. ListOrder' /\ Listed'
  BY <1>2, <1>3, <1>4 DEF ListOrder, Listed, OrderInv
<1> QED  BY <1>1, <1>5, <1>6, <1>7 DEF OrderInv

LEMMA StopOrder ==
    ASSUME OrderInv, Reliable, Close \/ Crash
    PROVE  OrderInv'
<1>1. FreshInv' /\ FreshInv /\ DiskOrder /\ TypeInv /\ TypeOK /\ FilesOK
  BY StopFresh DEF OrderInv, FreshInv, TypeInv
<1>2. pc' = "closed" /\ removed' = 0
  BY DEF Close, Crash, NoScratch
<1>3. DiskOrder'
  <2>1. CASE Crash /\ pc \in {"flushWrite", "compactWrite"}
    <3>1. PICK left \in File :
              /\ disk' = [disk EXCEPT ![nextFileId - 1] = left]
              /\ left \in PartialFiles(FileWritten, FALSE)
      BY <1>1, <2>1, CrashDisk DEF Reliable
    <3>2. /\ nextFileId - 1 \in FileIds /\ nextFileId \in Nat
          /\ KeysOf(out) # {} /\ FileWritten \in File
          /\ \A k \in Keys : FileWritten.ents[k].seq = out[k].seq
      BY <1>1, <2>1, FileWrittenOK DEF TypeInv, TypeOK, Control
    <3>3. \A id \in FileIds \ {nextFileId - 1} :
              disk[id].status = "ok" => id < nextFileId - 1
      BY <1>1, <2>1, <3>2 DEF FreshInv, IdsBelow, FileIds
    <3>4. \A id \in FileIds : Ordered(disk[id].ents, left.ents)
      <4>1. \A k \in Keys : left.ents[k].seq \in {0, out[k].seq}
        BY <3>1, <3>2, WholePartialFiles
      <4>2. \A id \in FileIds : Ordered(disk[id].ents, out)
        BY <2>1 DEF OrderInv, OutOrder
      <4> QED  BY <4>1, <4>2 DEF Ordered
    <3> QED  BY <1>1, <3>1, <3>2, <3>3, <3>4, NewestFileOrder
  <2>2. CASE ~(Crash /\ pc \in {"flushWrite", "compactWrite"})
    <3>1. disk' = disk
      BY <2>2 DEF Close, Crash
    <3> QED  BY <1>1, <3>1 DEF DiskOrder
  <2> QED  BY <2>1, <2>2
<1>4. MemOrder' /\ OutOrder' /\ ListOrder' /\ Listed'
  BY <1>2 DEF MemOrder, OutOrder, ListOrder, Listed
<1> QED  BY <1>1, <1>3, <1>4 DEF OrderInv

\* An entry just inserted has the largest number of all.
LEMMA InsertedIsNewest ==
    ASSUME TypeOK, NEW k \in Keys, NEW v \in Values \cup {Tombstone},
           Insert(mut, k, v),
           NEW t \in Table, Below(t, nextSeq), Ordered(t, mut)
    PROVE  Ordered(t, mut')
<1>1. /\ mut \in Table /\ nextSeq \in Nat \ {0}
      /\ mut'[k].seq = nextSeq
      /\ \A x \in Keys \ {k} : mut'[x] = mut[x]
  BY InsertType DEF TypeOK
<1>2. \A x \in Keys : t[x].seq \in Nat
  BY TableType
<1> QED  BY <1>1, <1>2 DEF Ordered, Below

LEMMA WriteOrder ==
    ASSUME OrderInv, NEW k \in Keys, NEW v \in Values \cup {Tombstone}, Write(k, v)
    PROVE  OrderInv'
<1>1. FreshInv' /\ FreshInv /\ TypeOK /\ SeqsBelow /\ DiskOrder /\ MemOrder
  BY WriteFresh DEF OrderInv, FreshInv, TypeInv
<1>2. pc = "idle" /\ pc' \in {"idle", "flush"}
      /\ UNCHANGED <<flushed, nextFileId, removed, disk>>
  BY DEF Write, scratch
<1>3. DiskOrder' /\ OutOrder' /\ ListOrder' /\ Listed'
  BY <1>1, <1>2 DEF DiskOrder, OutOrder, ListOrder, Listed, OrderInv
<1>4. CASE mutSize + EntryBytes(v) <= MaxMemtableBytes
  <2>1. Insert(mut, k, v) /\ imms' = imms
    BY <1>4 DEF Write
  <2>2. ASSUME NEW t \in Table, Below(t, nextSeq), Ordered(t, mut)
        PROVE  Ordered(t, mut')
    BY <1>1, <2>1, <2>2, InsertedIsNewest
  <2>3. MemOrder'
    BY <1>1, <1>2, <2>1, <2>2, AllTables DEF MemOrder, SeqsBelow
  <2> QED  BY <1>1, <1>3, <2>3 DEF OrderInv
<1>5. CASE ~(mutSize + EntryBytes(v) <= MaxMemtableBytes)
  <2>1. imms' = Append(imms, mut) /\ mut' = EmptyTable
    BY <1>5 DEF Write
  <2>2. /\ DOMAIN imms = 1 .. Len(imms) /\ Len(imms) \in Nat
        /\ DOMAIN imms' = 1 .. Len(imms) + 1
        /\ imms'[Len(imms) + 1] = mut
        /\ \A p \in DOMAIN imms : imms'[p] = imms[p]
    BY <1>1, <2>1 DEF TypeOK
  <2>3. ASSUME NEW p \in DOMAIN imms', NEW q \in DOMAIN imms', p < q
        PROVE  Ordered(imms'[p], imms'[q])
    <3>1. p \in DOMAIN imms
      BY <2>2, <2>3
    <3>2. CASE q \in DOMAIN imms
      BY <1>1, <1>2, <2>2, <2>3, <3>1, <3>2 DEF MemOrder
    <3>3. CASE q = Len(imms) + 1
      BY <1>1, <1>2, <2>2, <3>1, <3>3 DEF MemOrder
    <3> QED  BY <2>2, <3>2, <3>3
  <2>4. ASSUME NEW id \in FileIds, NEW p \in DOMAIN imms'
        PROVE  Ordered(disk[id].ents, imms'[p])
    <3>1. CASE p \in DOMAIN imms
      BY <1>1, <1>2, <2>2, <3>1 DEF MemOrder
    <3>2. CASE p = Len(imms) + 1
      BY <1>1, <1>2, <2>2, <3>2 DEF MemOrder
    <3> QED  BY <2>2, <3>1, <3>2
  <2>5. MemOrder'
    BY <1>2, <2>1, <2>3, <2>4, EmptyOrdered DEF MemOrder
  <2> QED  BY <1>1, <1>3, <2>5 DEF OrderInv
<1> QED  BY <1>4, <1>5

LEMMA FinishWriteOrder ==
    ASSUME OrderInv, FinishWrite
    PROVE  OrderInv'
<1>1. FreshInv' /\ FreshInv /\ TypeOK /\ SeqsBelow /\ DiskOrder /\ MemOrder
  BY FinishWriteFresh DEF OrderInv, FreshInv, TypeInv
<1>2. /\ pc = "flush" /\ pc' = "idle" /\ imms = <<>> /\ removed' = 0
      /\ Insert(mut, op.key, op.val)
      /\ UNCHANGED <<imms, flushed, nextFileId, disk>>
  BY DEF FinishWrite, NoScratch
<1>3. DiskOrder' /\ OutOrder' /\ ListOrder' /\ Listed'
  BY <1>1, <1>2 DEF DiskOrder, OutOrder, ListOrder, Listed, OrderInv
<1>4. op.key \in Keys /\ op.val \in Values \cup {Tombstone}
  BY <1>1 DEF TypeOK
<1>5. \A id \in FileIds : Ordered(disk[id].ents, mut')
  BY <1>1, <1>2, <1>4, AllTables, InsertedIsNewest DEF MemOrder, SeqsBelow
<1>6. MemOrder'
  BY <1>2, <1>5 DEF MemOrder
<1> QED  BY <1>1, <1>3, <1>6 DEF OrderInv

\* The creation of the file of a flush or a compaction.
LEMMA CreatedOrder ==
    ASSUME OrderInv, pc \in {"flush", "compact"}, nextFileId \in FileIds,
           disk' = [disk EXCEPT ![nextFileId] = BadFile],
           nextFileId' = nextFileId + 1,
           UNCHANGED <<mut, imms, flushed, removed>>,
           pc' \in {"flushWrite", "compactWrite"},
           \A id \in FileIds : Ordered(disk[id].ents, out'),
           \A p \in DOMAIN imms : Ordered(out', imms[p]),
           Ordered(out', mut)
    PROVE  DiskOrder' /\ MemOrder' /\ OutOrder' /\ ListOrder' /\ Listed'
<1>1. FreshInv /\ TypeOK /\ DiskOrder /\ MemOrder /\ IdsBelow
  BY DEF OrderInv, FreshInv, TypeInv
<1>2. /\ DiskOrder'
      /\ \A t : \A id \in FileIds :
           Ordered(disk[id].ents, t) => Ordered(disk'[id].ents, t)
      /\ SSTables(disk') = SSTables(disk) \ {nextFileId}
  BY <1>1, EmptiedFileOrder
<1>3. SSTables(disk') = SSTables(disk)
  <2>1. nextFileId \in Nat /\ ~(nextFileId < nextFileId)
    BY <1>1 DEF TypeOK
  <2>2. disk[nextFileId].status # "ok"
    BY <1>1, <2>1 DEF IdsBelow
  <2>3. nextFileId \notin SSTables(disk)
    BY <2>2 DEF SSTables
  <2>4. \A S : nextFileId \notin S => S \ {nextFileId} = S
    OBVIOUS
  <2> QED  BY <1>2, <2>3, <2>4
<1>4. MemOrder'
  BY <1>1, <1>2 DEF MemOrder
<1>5. OutOrder'
  BY <1>2 DEF OutOrder
<1>6. ListOrder'
  <2>1. nextFileId \in Nat /\ \A j \in DOMAIN flushed : flushed[j].id \in Nat
    BY <1>1, DescriptorType DEF TypeOK, FileIds
  <2> QED  BY <2>1 DEF ListOrder, OrderInv
<1>7. Listed'
  BY <1>3 DEF Listed, OrderInv
<1> QED  BY <1>2, <1>4, <1>5, <1>6, <1>7

\* An exception after the id was taken, with no change to any file.
LEMMA ThrowOrder ==
    ASSUME OrderInv, pc \in {"flush", "compact"}, nextFileId \in Nat,
           Throw, nextFileId' = nextFileId + 1,
           UNCHANGED <<mut, imms, flushed, disk>>
    PROVE  DiskOrder' /\ MemOrder' /\ OutOrder' /\ ListOrder' /\ Listed'
<1>1. pc' = "idle" /\ removed' = 0
  BY DEF Throw, NoScratch
<1>2. DiskOrder' /\ MemOrder' /\ OutOrder'
  BY <1>1 DEF OrderInv, DiskOrder, MemOrder, OutOrder
<1>3. ListOrder'
  <2>1. \A j \in DOMAIN flushed : flushed[j].id \in Nat
    BY DescriptorType DEF OrderInv, FreshInv, TypeInv, TypeOK, FileIds
  <2> QED  BY <1>1, <2>1 DEF OrderInv, ListOrder
<1>4. Listed'
  BY <1>1 DEF OrderInv, Listed
<1> QED  BY <1>2, <1>3, <1>4

LEMMA FlushCreateOrder ==
    ASSUME OrderInv, FlushCreate
    PROVE  OrderInv'
<1>1. FreshInv' /\ FreshInv /\ TypeOK /\ MemOrder
  BY FlushCreateFresh DEF OrderInv, FreshInv, TypeInv
<1>2. /\ pc = "flush" /\ imms # <<>> /\ nextFileId \in FileIds
      /\ nextFileId' = nextFileId + 1
      /\ UNCHANGED <<mut, imms, flushed>>
  BY DEF FlushCreate
<1>3. CASE Throw /\ UNCHANGED disk
  <2>1. nextFileId \in Nat
    BY <1>2 DEF FileIds
  <2> QED  BY <1>1, <1>2, <1>3, <2>1, ThrowOrder DEF OrderInv
<1>4. CASE /\ out' = Head(imms)
           /\ disk' = [disk EXCEPT ![nextFileId] = BadFile]
           /\ pc' = "flushWrite"
           /\ UNCHANGED removed
  <2>1. out' = imms[1] /\ 1 \in DOMAIN imms /\ DOMAIN imms \subseteq Nat
        /\ \A p \in DOMAIN imms : p = 1 \/ 1 < p
    BY <1>1, <1>2, <1>4 DEF TypeOK
  <2>2. /\ \A id \in FileIds : Ordered(disk[id].ents, out')
        /\ Ordered(out', mut)
        /\ \A p \in DOMAIN imms : 1 < p => Ordered(out', imms[p])
    BY <1>1, <1>2, <2>1 DEF MemOrder
  <2>3. Ordered(imms[1], imms[1])
    <3>1. \A k \in Keys : imms[1][k].seq \in Nat
      BY <1>1, <2>1, AllTables, TableType
    <3> QED  BY <3>1 DEF Ordered
  <2>4. \A p \in DOMAIN imms : Ordered(out', imms[p])
    BY <2>1, <2>2, <2>3
  <2> QED  BY <1>1, <1>2, <1>4, <2>2, <2>4, CreatedOrder DEF OrderInv
<1> QED  BY <1>3, <1>4 DEF FlushCreate

LEMMA CompactCreateOrder ==
    ASSUME OrderInv, Reliable, CompactCreate
    PROVE  OrderInv'
<1>1. FreshInv' /\ FreshInv /\ TypeOK /\ FilesOK /\ MemOrder /\ Listed /\ ListOrder
  BY CompactCreateFresh DEF OrderInv, FreshInv, TypeInv, Reliable
<1>2. /\ pc = "compact" /\ flushed # <<>> /\ nextFileId \in FileIds
      /\ nextFileId' = nextFileId + 1
      /\ UNCHANGED <<mut, imms, flushed>>
  BY DEF CompactCreate, OrderInv, FreshInv, TypeInv, Control
<1> DEFINE live == CompactEntries(disk, flushed, {})
<1>3. \/ /\ KeysOf(live) = {}
         /\ out' = live
         /\ pc' = "compactRemove"
         /\ UNCHANGED <<removed, disk>>
      \/ Throw /\ UNCHANGED disk
      \/ /\ out' = live
         /\ disk' = [disk EXCEPT ![nextFileId] = BadFile]
         /\ pc' = "compactWrite"
         /\ UNCHANGED removed
  BY DEF CompactCreate, Reliable
<1>4. /\ live \in Table
      /\ \A k \in Keys : live[k].seq > 0 =>
           /\ \E j \in DOMAIN flushed : live[k] = disk[flushed[j].id].ents[k]
           /\ \A j \in DOMAIN flushed :
                disk[flushed[j].id].ents[k].seq <= live[k].seq
  <2>1. /\ disk \in [FileIds -> File] /\ flushed \in Seq(Descriptor(FileIds))
        /\ flushed # <<>>
    BY <1>1, <1>2 DEF TypeOK
  <2> QED  BY <2>1, CompactEntriesOK
<1>5. \A j \in DOMAIN flushed : flushed[j].id \in FileIds
  BY <1>1, DescriptorType DEF TypeOK
<1> HIDE DEF live
\* Every file is listed, so none has an entry newer than the merge kept.
<1>6. \A id \in FileIds : Ordered(disk[id].ents, live)
  <2> TAKE id \in FileIds
  <2>1. CASE disk[id].status # "ok"
    BY <1>1, <2>1, NoHeaderOrdered
  <2>2. CASE disk[id].status = "ok"
    <3>1. id \in Ids(flushed)
      BY <1>1, <1>2, <2>2 DEF Listed, SSTables, TypeOK
    <3>2. PICK j \in DOMAIN flushed : flushed[j].id = id
      BY <3>1 DEF Ids
    <3> QED  BY <1>4, <3>2 DEF Ordered
  <2> QED  BY <2>1, <2>2
\* What the merge kept is in some file, and so before the memtables.
<1>7. ASSUME NEW t, \A id \in FileIds : Ordered(disk[id].ents, t)
      PROVE  Ordered(live, t)
  BY <1>4, <1>5, <1>7 DEF Ordered
<1>8. (\A p \in DOMAIN imms : Ordered(live, imms[p])) /\ Ordered(live, mut)
  BY <1>1, <1>2, <1>7 DEF MemOrder
<1>9. CASE /\ KeysOf(live) = {}
           /\ out' = live
           /\ pc' = "compactRemove"
           /\ UNCHANGED <<removed, disk>>
  <2>1. DiskOrder' /\ MemOrder' /\ OutOrder'
    BY <1>1, <1>2, <1>9 DEF OrderInv, DiskOrder, MemOrder, OutOrder
  <2>2. ListOrder'
    BY <1>1, <1>2, <1>5, <1>9 DEF ListOrder, FileIds
  <2>3. Listed'
    <3>1. removed = 0 /\ DOMAIN flushed = 1 .. Len(flushed) /\ Len(flushed) \in Nat
          /\ Ids(flushed) = SSTables(disk)
      BY <1>1, <1>2 DEF Listed, TypeOK
    <3> QED  BY <1>2, <1>9, <3>1 DEF Listed, Ids
  <2> QED  BY <1>1, <2>1, <2>2, <2>3 DEF OrderInv
<1>10. CASE Throw /\ UNCHANGED disk
  <2>1. nextFileId \in Nat
    BY <1>2 DEF FileIds
  <2> QED  BY <1>1, <1>2, <1>10, <2>1, ThrowOrder DEF OrderInv
<1>11. CASE /\ out' = live
            /\ disk' = [disk EXCEPT ![nextFileId] = BadFile]
            /\ pc' = "compactWrite"
            /\ UNCHANGED removed
  BY <1>1, <1>2, <1>6, <1>8, <1>11, CreatedOrder DEF OrderInv
<1> QED  BY <1>3, <1>9, <1>10, <1>11

\* The completion of the file of a flush or a compaction.
LEMMA WrittenOrder ==
    ASSUME OrderInv, pc \in {"flushWrite", "compactWrite"},
           disk' = [disk EXCEPT ![nextFileId - 1] = FileWritten]
    PROVE  /\ DiskOrder'
           /\ SSTables(disk') = SSTables(disk) \cup {nextFileId - 1}
           /\ \A t : /\ \A id \in FileIds : Ordered(disk[id].ents, t)
                     /\ Ordered(out, t)
                     => \A id \in FileIds : Ordered(disk'[id].ents, t)
<1>1. /\ FreshInv /\ TypeOK /\ FilesOK /\ DiskOrder /\ OutOrder
      /\ KeysOf(out) # {} /\ nextFileId - 1 \in FileIds /\ nextFileId \in Nat
  BY DEF OrderInv, FreshInv, TypeInv, Control, TypeOK
<1>2. /\ FileWritten \in File /\ FileWritten.status = "ok"
      /\ \A k \in Keys : FileWritten.ents[k].seq = out[k].seq
  BY <1>1, FileWrittenOK
<1>3. /\ disk'[nextFileId - 1] = FileWritten
      /\ \A id \in FileIds \ {nextFileId - 1} : disk'[id] = disk[id]
      /\ DOMAIN disk = FileIds /\ DOMAIN disk' = FileIds
  BY <1>1 DEF TypeOK
<1>4. \A id \in FileIds \ {nextFileId - 1} :
          disk[id].status = "ok" => id < nextFileId - 1
  BY <1>1 DEF FreshInv, IdsBelow, FileIds
<1>5. \A t : (Ordered(t, FileWritten.ents) <=> Ordered(t, out))
             /\ (Ordered(FileWritten.ents, t) <=> Ordered(out, t))
  BY <1>2, SameSeqs
<1>6. \A id \in FileIds : Ordered(disk[id].ents, FileWritten.ents)
  BY <1>1, <1>5 DEF OutOrder
<1>7. DiskOrder'
  BY <1>1, <1>2, <1>4, <1>6, NewestFileOrder
<1>8. SSTables(disk') = SSTables(disk) \cup {nextFileId - 1}
  BY <1>1, <1>2, <1>3 DEF SSTables
<1>9. ASSUME NEW t, \A id \in FileIds : Ordered(disk[id].ents, t), Ordered(out, t)
      PROVE  \A id \in FileIds : Ordered(disk'[id].ents, t)
  BY <1>3, <1>5, <1>9
<1> QED  BY <1>7, <1>8, <1>9

\* The memtables stay in order when the front goes.
LEMMA ErasedOrder ==
    ASSUME TypeOK, MemOrder, pc # "closed", UNCHANGED mut,
           imms' = imms \/ (imms # <<>> /\ imms' = Tail(imms)),
           \A id \in FileIds : Ordered(disk'[id].ents, mut),
           \A p \in DOMAIN imms : \A id \in FileIds :
               Ordered(disk'[id].ents, imms[p])
    PROVE  MemOrder'
<1>1. CASE imms' = imms
  BY <1>1 DEF MemOrder
<1>2. CASE imms # <<>> /\ imms' = Tail(imms)
  <2>1. imms \in Seq(Table)
    BY DEF TypeOK
  <2>2. \A p \in DOMAIN imms' : /\ p \in Nat
                                /\ p + 1 \in DOMAIN imms
                                /\ imms'[p] = imms[p + 1]
    BY <1>2, <2>1
  <2>3. \A p, q \in DOMAIN imms' : p < q => Ordered(imms'[p], imms'[q])
    <3> TAKE p, q \in DOMAIN imms'
    <3>1. p < q => p + 1 < q + 1
      BY <2>2
    <3> QED  BY <2>2, <3>1 DEF MemOrder
  <2>4. \A p \in DOMAIN imms' : Ordered(imms'[p], mut)
    BY <2>2 DEF MemOrder
  <2>5. \A p \in DOMAIN imms' : \A id \in FileIds :
            Ordered(disk'[id].ents, imms'[p])
    BY <2>2
  <2> QED  BY <2>3, <2>4, <2>5 DEF MemOrder
<1> QED  BY <1>1, <1>2

LEMMA FlushWriteOrder ==
    ASSUME OrderInv, Reliable, FlushWrite
    PROVE  OrderInv'
<1>1. /\ FreshInv' /\ FreshInv /\ TypeInv /\ TypeOK /\ MemOrder /\ OutOrder
      /\ ListOrder /\ Listed
  BY FlushWriteFresh DEF OrderInv, FreshInv, TypeInv
<1>2. /\ pc = "flushWrite" /\ imms # <<>> /\ nextFileId - 1 \in FileIds
      /\ disk' = [disk EXCEPT ![nextFileId - 1] = FileWritten]
      /\ flushed' =
           Append(flushed, Describe(nextFileId - 1, FileWritten, bloomOn))
      /\ UNCHANGED <<mut, nextFileId>>
  BY <1>1, WholeLines DEF FlushWrite, TypeInv, Control
<1>3. /\ pc' \in {"flush", "compact"} /\ removed' = 0
      /\ imms' = imms \/ (imms # <<>> /\ imms' = Tail(imms))
  BY <1>1, <1>2 DEF FlushWrite, EraseFlushed, Listed
<1>4. /\ DiskOrder'
      /\ SSTables(disk') = SSTables(disk) \cup {nextFileId - 1}
      /\ \A t : /\ \A id \in FileIds : Ordered(disk[id].ents, t)
                /\ Ordered(out, t)
                => \A id \in FileIds : Ordered(disk'[id].ents, t)
  BY <1>2, WrittenOrder
<1>5. MemOrder'
  <2>1. /\ \A id \in FileIds : Ordered(disk'[id].ents, mut)
        /\ \A p \in DOMAIN imms : \A id \in FileIds :
              Ordered(disk'[id].ents, imms[p])
    BY <1>1, <1>2, <1>4 DEF MemOrder, OutOrder
  <2> QED  BY <1>1, <1>2, <1>3, <2>1, ErasedOrder
<1>6. /\ DOMAIN flushed = 1 .. Len(flushed) /\ Len(flushed) \in Nat
      /\ DOMAIN flushed' = 1 .. Len(flushed) + 1
      /\ flushed'[Len(flushed) + 1].id = nextFileId - 1
      /\ \A j \in DOMAIN flushed : flushed'[j] = flushed[j]
  BY <1>1, <1>2 DEF TypeOK, Describe
<1>7. \A j \in DOMAIN flushed : flushed[j].id < nextFileId - 1
  <2>1. nextFileId \in Nat /\ \A j \in DOMAIN flushed : flushed[j].id \in Nat
    BY <1>1, DescriptorType DEF TypeOK, FileIds
  <2> QED  BY <1>1, <1>2, <2>1 DEF ListOrder
<1>8. ListOrder'
  <2>1. \A j \in DOMAIN flushed' : flushed'[j].id < nextFileId
    <3>1. nextFileId \in Nat /\ \A j \in DOMAIN flushed : flushed[j].id \in Nat
      BY <1>1, DescriptorType DEF TypeOK, FileIds
    <3> QED  BY <1>6, <1>7, <3>1
  <2>2. \A i, j \in DOMAIN flushed' : i < j => flushed'[i].id < flushed'[j].id
    BY <1>1, <1>2, <1>6, <1>7 DEF ListOrder
  <2> QED  BY <1>2, <1>3, <2>1, <2>2 DEF ListOrder
<1>9. Listed'
  <2>1. Ids(flushed') = Ids(flushed) \cup {nextFileId - 1}
    BY <1>6 DEF Ids
  <2> QED  BY <1>1, <1>2, <1>3, <1>4, <2>1 DEF Listed
<1>10. OutOrder'
  BY <1>3 DEF OutOrder
<1> QED  BY <1>1, <1>4, <1>5, <1>8, <1>9, <1>10 DEF OrderInv

LEMMA CompactWriteOrder ==
    ASSUME OrderInv, Reliable, CompactWrite
    PROVE  OrderInv'
<1>1. /\ FreshInv' /\ FreshInv /\ TypeInv /\ TypeOK /\ MemOrder /\ OutOrder
      /\ ListOrder /\ Listed
  BY CompactWriteFresh DEF OrderInv, FreshInv, TypeInv
<1>2. /\ pc = "compactWrite" /\ pc' = "compactRemove" /\ KeysOf(out) # {}
      /\ disk' = [disk EXCEPT ![nextFileId - 1] = FileWritten]
      /\ UNCHANGED <<mut, imms, flushed, out, removed, nextFileId>>
  BY <1>1, WholeLines DEF CompactWrite, memory, scratch, TypeInv, Control
<1>3. /\ DiskOrder'
      /\ SSTables(disk') = SSTables(disk) \cup {nextFileId - 1}
      /\ \A t : /\ \A id \in FileIds : Ordered(disk[id].ents, t)
                /\ Ordered(out, t)
                => \A id \in FileIds : Ordered(disk'[id].ents, t)
  BY <1>2, WrittenOrder
<1>4. MemOrder'
  BY <1>1, <1>2, <1>3 DEF MemOrder, OutOrder
<1>5. OutOrder' /\ ListOrder'
  BY <1>1, <1>2 DEF OutOrder, ListOrder
<1>6. Listed'
  <2>1. removed = 0 /\ DOMAIN flushed = 1 .. Len(flushed) /\ Len(flushed) \in Nat
        /\ Ids(flushed) = SSTables(disk)
    BY <1>1, <1>2 DEF Listed, TypeOK
  <2>2. {flushed[j].id : j \in removed + 1 .. Len(flushed)} = SSTables(disk)
    <3>1. removed + 1 .. Len(flushed) = DOMAIN flushed
      BY <2>1
    <3> QED  BY <2>1, <3>1 DEF Ids
  <2>3. SSTables(disk') = {flushed'[j].id : j \in removed' + 1 .. Len(flushed')}
                          \cup {nextFileId' - 1}
    <3>1. removed' = removed /\ flushed' = flushed /\ nextFileId' = nextFileId
      BY <1>2
    <3>2. SSTables(disk') = SSTables(disk) \cup {nextFileId - 1}
      BY <1>3
    <3> QED  BY <2>2, <3>1, <3>2
  <2>4. (IF KeysOf(out') = {} THEN {} ELSE {nextFileId' - 1}) = {nextFileId' - 1}
    BY <1>2
  <2>5. removed' \in 0 .. Len(flushed')
    BY <1>2, <2>1
  <2> QED  BY <1>2, <2>3, <2>4, <2>5 DEF Listed
<1> QED  BY <1>1, <1>3, <1>4, <1>5, <1>6 DEF OrderInv

LEMMA CompactRemoveOrder ==
    ASSUME OrderInv, Reliable, CompactRemove
    PROVE  OrderInv'
<1>1. /\ FreshInv' /\ FreshInv /\ TypeOK /\ MemOrder /\ DiskOrder
      /\ ListOrder /\ Listed
  BY CompactRemoveFresh DEF OrderInv, FreshInv, TypeInv, Reliable
<1>2. /\ pc = "compactRemove" /\ removed < Len(flushed)
      /\ disk' = [disk EXCEPT ![NextRemoved] = NoFile]
      /\ removed' = removed + 1
      /\ UNCHANGED <<pc, mut, imms, flushed, out, nextFileId>>
  BY DEF CompactRemove, Reliable, memory
<1>3. /\ removed \in Nat /\ Len(flushed) \in Nat
      /\ DOMAIN flushed = 1 .. Len(flushed)
      /\ removed + 1 \in DOMAIN flushed
      /\ NextRemoved = flushed[removed + 1].id
  BY <1>1, <1>2 DEF TypeOK, NextRemoved
<1>4. NextRemoved \in FileIds /\ nextFileId \in Nat
      /\ \A j \in DOMAIN flushed : flushed[j].id \in Nat
  BY <1>1, <1>3, DescriptorType DEF TypeOK, FileIds
<1>5. /\ DiskOrder'
      /\ \A t : \A id \in FileIds :
           Ordered(disk[id].ents, t) => Ordered(disk'[id].ents, t)
      /\ SSTables(disk') = SSTables(disk) \ {NextRemoved}
  BY <1>1, <1>2, <1>4, EmptiedFileOrder
<1>6. MemOrder'
  BY <1>1, <1>2, <1>5 DEF MemOrder
<1>7. OutOrder' /\ ListOrder'
  BY <1>1, <1>2 DEF OutOrder, ListOrder
<1>8. Listed'
  <2> DEFINE Left == {flushed[j].id : j \in removed + 1 .. Len(flushed)}
             Later == {flushed[j].id : j \in removed + 2 .. Len(flushed)}
             New == IF KeysOf(out) = {} THEN {} ELSE {nextFileId - 1}
  <2>1. SSTables(disk) = Left \cup New
    BY <1>1, <1>2 DEF Listed
  <2>2. NextRemoved \notin Later
    <3>1. \A j \in removed + 2 .. Len(flushed) :
              j \in DOMAIN flushed /\ removed + 1 < j
      BY <1>3
    <3>2. \A j \in removed + 2 .. Len(flushed) :
              flushed[removed + 1].id < flushed[j].id
      BY <1>1, <1>2, <1>3, <3>1 DEF ListOrder
    <3> QED  BY <1>3, <1>4, <3>1, <3>2
  <2>3. NextRemoved \notin New
    BY <1>1, <1>2, <1>3 DEF ListOrder
  <2>4. Left = Later \cup {NextRemoved}
    <3>1. removed + 1 .. Len(flushed)
            = (removed + 2 .. Len(flushed)) \cup {removed + 1}
      BY <1>2, <1>3
    <3> QED  BY <1>3, <3>1
  <2>5. removed' + 1 = removed + 2 /\ removed' \in 0 .. Len(flushed')
    BY <1>2, <1>3
  <2>6. Later = {flushed'[j].id : j \in removed' + 1 .. Len(flushed')}
    BY <1>2, <2>5
  <2>7. New = IF KeysOf(out') = {} THEN {} ELSE {nextFileId' - 1}
    BY <1>2
  <2> HIDE DEF Left, New, Later
  <2>8. SSTables(disk') = Later \cup New
    BY <1>5, <2>1, <2>2, <2>3, <2>4
  <2> QED  BY <1>2, <2>5, <2>6, <2>7, <2>8 DEF Listed
<1> QED  BY <1>1, <1>5, <1>6, <1>7, <1>8 DEF OrderInv

LEMMA CompactDoneOrder ==
    ASSUME OrderInv, CompactDone
    PROVE  OrderInv'
<1>1. /\ FreshInv' /\ FreshInv /\ TypeInv /\ TypeOK /\ MemOrder /\ DiskOrder
      /\ Listed
  BY CompactDoneFresh DEF OrderInv, FreshInv, TypeInv
<1>2. /\ pc = "compactRemove" /\ pc' = "flush" /\ removed = Len(flushed)
      /\ flushed' = Compacted /\ removed' = 0
      /\ imms # <<>> /\ imms' = Tail(imms)
      /\ UNCHANGED <<mut, nextFileId, disk>>
      /\ nextFileId \in Nat
  BY <1>1 DEF CompactDone, EraseFlushed, TypeInv, TypeOK, Control
<1>3. MemOrder'
  BY <1>1, <1>2, ErasedOrder DEF MemOrder
<1>4. DiskOrder' /\ OutOrder'
  BY <1>1, <1>2 DEF DiskOrder, OutOrder
<1>5. SSTables(disk) = IF KeysOf(out) = {} THEN {} ELSE {nextFileId - 1}
  <2>1. removed + 1 .. Len(flushed) = {}
    BY <1>1, <1>2 DEF TypeOK
  <2> QED  BY <1>1, <1>2, <2>1 DEF Listed
<1>6. CASE KeysOf(out) = {}
  <2>1. flushed' = <<>> /\ Ids(flushed') = {}
    BY <1>2, <1>6 DEF Compacted, Ids
  <2>2. ListOrder' /\ Listed'
    BY <1>2, <1>5, <1>6, <2>1 DEF ListOrder, Listed
  <2> QED  BY <1>1, <1>3, <1>4, <2>2 DEF OrderInv
<1>7. CASE KeysOf(out) # {}
  <2>1. /\ DOMAIN flushed' = {1}
        /\ flushed'[1].id = nextFileId - 1
    BY <1>2, <1>7 DEF Compacted, Describe
  <2>2. Ids(flushed') = {nextFileId - 1}
    BY <2>1 DEF Ids
  <2>3. ListOrder' /\ Listed'
    BY <1>2, <1>5, <1>7, <2>1, <2>2 DEF ListOrder, Listed
  <2> QED  BY <1>1, <1>3, <1>4, <2>3 DEF OrderInv
<1> QED  BY <1>6, <1>7

LEMMA NextOrderInv ==
    ASSUME OrderInv, Reliable, [Next]_vars
    PROVE  OrderInv'
<1>1. ASSUME NEW u \in BOOLEAN, NEW b \in BloomModes, Open(u, b)
      PROVE  OrderInv'
  BY <1>1, OpenOrder
<1>2. ASSUME NEW k \in Keys, NEW v \in Values, Put(k, v)
      PROVE  OrderInv'
  BY <1>2, WriteOrder DEF Put
<1>3. ASSUME NEW k \in Keys, Delete(k)
      PROVE  OrderInv'
  BY <1>3, WriteOrder DEF Delete
<1>4. CASE Internal
  BY <1>4, FinishWriteOrder, FlushCreateOrder, FlushWriteOrder,
     CompactCreateOrder, CompactWriteOrder, CompactRemoveOrder,
     CompactDoneOrder DEF Internal
<1>5. CASE Close \/ Crash
  BY <1>5, StopOrder
<1>6. CASE UNCHANGED vars
  <2>1. FreshInv'
    BY <1>6, NextFreshInv DEF OrderInv, Reliable
  <2> QED  BY <1>6, <2>1 DEF OrderInv, DiskOrder, MemOrder, OutOrder, ListOrder,
                             Listed, vars, memory, scratch
<1> QED  BY <1>1, <1>2, <1>3, <1>4, <1>5, <1>6 DEF Next

LEMMA SpecOrderInv ==
    ASSUME Reliable
    PROVE  Spec => []OrderInv
<1>1. OrderInv /\ [Next]_vars => OrderInv'
  BY NextOrderInv
<1> QED  BY <1>1, InitOrderInv, PTL DEF Spec

\* The order of the file ids is the order of age, at every step and after every
\* crash: Get and the next Open may trust it.
THEOREM FilesStayInSeqOrder ==
    ASSUME Reliable
    PROVE  Spec => []FilesInSeqOrder
<1>1. ASSUME OrderInv
      PROVE  FilesInSeqOrder
  <2>1. SSTables(disk) \subseteq FileIds
    BY <1>1 DEF OrderInv, FreshInv, TypeInv, TypeOK, SSTables
  <2> QED  BY <1>1, <2>1 DEF OrderInv, DiskOrder, Ordered, FilesInSeqOrder, KeysOf
<1> QED  BY <1>1, SpecOrderInv, PTL

\* Between calls memory lists exactly the readable files of the directory,
\* whatever flushes and compactions ran, failed to create their file or died.
THEOREM ListStaysTheDirectory ==
    ASSUME Reliable
    PROVE  Spec => []ListMatchesDirectory
<1>1. OrderInv => ListMatchesDirectory
  BY DEF OrderInv, Listed, ListMatchesDirectory
<1> QED  BY <1>1, SpecOrderInv, PTL
-----------------------------------------------------------------------------
(***************************************************************************)
(* What the reads return.  The order of age is the order in which Get      *)
(* searches, so its first hit is the entry with the largest sequence       *)
(* number, which RangeScan takes; and header ranges and Bloom filters hide *)
(* no entry, because the descriptors in memory say what the files say.     *)
(***************************************************************************)

\* A descriptor says of a file what is in it, while it is there.
Describing(files, d) ==
    \A j \in DOMAIN files : d[files[j].id].status = "ok" =>
        \E b \in BOOLEAN : files[j] = Describe(files[j].id, d[files[j].id], b)

Described ==
    /\ pc # "closed" => Describing(flushed, disk)
    /\ pc = "compactRemove" /\ KeysOf(out) # {} =>
         disk[nextFileId - 1] = FileWritten

LEMMA FileEntries ==
    ASSUME NEW d \in [FileIds -> File], NEW id \in FileIds, NEW k \in Keys
    PROVE  /\ d[id].ents \in Table
           /\ d[id].ents[k] \in Entry
           /\ d[id].ents[k].seq \in Nat
           /\ d[id].ents[k].seq = 0 => d[id].ents[k] = NoEntry
<1>1. d[id].ents \in Table
  BY DEF File
<1> QED  BY <1>1, TableType, EntryType
-----------------------------------------------------------------------------
(* Descriptors *)

LEMMA StillDescribing ==
    ASSUME NEW files, NEW d, NEW e, Describing(files, d),
           \A j \in DOMAIN files : \/ e[files[j].id] = d[files[j].id]
                                   \/ e[files[j].id].status # "ok"
    PROVE  Describing(files, e)
  BY DEF Describing

\* The ids of the list and the file in use.
LEMMA ListedIds ==
    ASSUME OrderInv, pc # "closed"
    PROVE  /\ nextFileId \in Nat
           /\ \A j \in DOMAIN flushed : /\ flushed[j].id \in FileIds
                                        /\ flushed[j].id \in Nat
                                        /\ flushed[j].id < nextFileId
           /\ pc \in {"flushWrite", "compactWrite", "compactRemove"} =>
                \A j \in DOMAIN flushed : flushed[j].id < nextFileId - 1
<1>1. TypeOK /\ ListOrder
  BY DEF OrderInv, FreshInv, TypeInv
<1>2. \A j \in DOMAIN flushed : flushed[j].id \in FileIds /\ flushed[j].id \in Nat
  BY <1>1, DescriptorType DEF TypeOK, FileIds
<1>3. nextFileId \in Nat
  BY <1>1 DEF TypeOK
<1>4. \A j \in DOMAIN flushed : flushed[j].id < nextFileId
  BY <1>1 DEF ListOrder
<1>5. pc \in {"flushWrite", "compactWrite", "compactRemove"} =>
        \A j \in DOMAIN flushed : flushed[j].id # nextFileId - 1
  BY <1>1 DEF ListOrder
<1>6. \A m, id \in Nat : id < m /\ id # m - 1 => id < m - 1
  OBVIOUS
<1> QED  BY <1>2, <1>3, <1>4, <1>5, <1>6

LEMMA InitDescribed == Init => Described
  BY DEF Init, Described

LEMMA NextDescribed ==
    ASSUME OrderInv, Reliable, Described, [Next]_vars
    PROVE  Described'
<1>1. TypeOK /\ TypeInv
  BY DEF OrderInv, FreshInv, TypeInv
<1>2. ASSUME NEW u \in BOOLEAN, NEW b \in BloomModes, Open(u, b)
      PROVE  Described'
  <2>1. PICK skipped \in SUBSET SSTables(disk) :
            flushed' \in ListSSTables(disk, SSTables(disk) \ skipped, b)
    BY <1>2 DEF Open
  <2>2. \A j \in DOMAIN flushed' :
            flushed'[j] = Describe(flushed'[j].id, disk[flushed'[j].id], b)
    BY <1>1, <2>1, ListingOK
  <2>3. pc' = "idle" /\ disk' = disk
    BY <1>2 DEF Open
  <2>4. b \in BOOLEAN
    OBVIOUS
  <2> QED  BY <2>2, <2>3, <2>4 DEF Described, Describing
<1>3. ASSUME NEW k \in Keys, NEW v \in Values \cup {Tombstone}, Write(k, v)
      PROVE  Described'
  <2>1. pc = "idle" /\ pc' \in {"idle", "flush"} /\ UNCHANGED <<flushed, disk>>
    BY <1>3 DEF Write
  <2> QED  BY <2>1 DEF Described
<1>4. CASE FinishWrite
  <2>1. pc = "flush" /\ pc' = "idle" /\ UNCHANGED <<flushed, disk>>
    BY <1>4 DEF FinishWrite
  <2> QED  BY <2>1 DEF Described
<1>5. CASE FlushCreate \/ CompactCreate
  <2>1. /\ pc \in {"flush", "compact"} /\ flushed' = flushed
        /\ nextFileId \in FileIds
        /\ disk' = disk \/ disk' = [disk EXCEPT ![nextFileId] = BadFile]
        /\ pc' = "compactRemove" => KeysOf(out') = {}
    BY <1>5 DEF FlushCreate, CompactCreate, Throw
  <2>2. \A j \in DOMAIN flushed : disk'[flushed[j].id] = disk[flushed[j].id]
    BY <1>1, <2>1, ListedIds DEF TypeOK
  <2>3. Describing(flushed, disk')
    BY <2>1, <2>2, StillDescribing DEF Described
  <2> QED  BY <2>1, <2>3 DEF Described
<1>6. CASE FlushWrite
  <2>1. /\ pc = "flushWrite" /\ pc' \in {"flush", "compact"}
        /\ disk' = [disk EXCEPT ![nextFileId - 1] = FileWritten]
        /\ flushed' =
             Append(flushed, Describe(nextFileId - 1, FileWritten, bloomOn))
        /\ nextFileId - 1 \in FileIds
    BY <1>1, <1>6, WholeLines DEF FlushWrite, EraseFlushed, TypeInv, Control
  <2>2. /\ DOMAIN flushed = 1 .. Len(flushed) /\ Len(flushed) \in Nat
        /\ DOMAIN flushed' = 1 .. Len(flushed) + 1
        /\ flushed'[Len(flushed) + 1]
             = Describe(nextFileId - 1, FileWritten, bloomOn)
        /\ \A j \in DOMAIN flushed : flushed'[j] = flushed[j]
    BY <1>1, <2>1 DEF TypeOK
  <2>3. disk'[nextFileId - 1] = FileWritten
    BY <1>1, <2>1 DEF TypeOK
  <2>4. \A j \in DOMAIN flushed : disk'[flushed[j].id] = disk[flushed[j].id]
    BY <1>1, <2>1, ListedIds DEF TypeOK
  <2>5. Describing(flushed, disk')
    BY <2>1, <2>4, StillDescribing DEF Described
  <2>6. Describe(nextFileId - 1, FileWritten, bloomOn).id = nextFileId - 1
        /\ bloomOn \in BOOLEAN
    BY <1>1 DEF Describe, TypeOK
  <2>7. Describing(flushed', disk')
    BY <2>2, <2>3, <2>5, <2>6 DEF Describing
  <2> QED  BY <2>1, <2>7 DEF Described
<1>7. CASE CompactWrite
  <2>1. /\ pc = "compactWrite" /\ pc' = "compactRemove"
        /\ disk' = [disk EXCEPT ![nextFileId - 1] = FileWritten]
        /\ UNCHANGED <<flushed, nextFileId, out, bloomOn>>
        /\ nextFileId - 1 \in FileIds
    BY <1>1, <1>7, WholeLines DEF CompactWrite, memory, scratch, TypeInv, Control
  <2>2. disk'[nextFileId' - 1] = FileWritten'
    BY <1>1, <2>1 DEF TypeOK, FileWritten
  <2>3. \A j \in DOMAIN flushed : disk'[flushed[j].id] = disk[flushed[j].id]
    BY <1>1, <2>1, ListedIds DEF TypeOK
  <2>4. Describing(flushed, disk')
    BY <2>1, <2>3, StillDescribing DEF Described
  <2> QED  BY <2>1, <2>2, <2>4 DEF Described
<1>8. CASE CompactRemove
  <2>1. /\ pc = "compactRemove" /\ removed < Len(flushed)
        /\ disk' = [disk EXCEPT ![NextRemoved] = NoFile]
        /\ UNCHANGED <<flushed, nextFileId, out, bloomOn>>
        /\ nextFileId - 1 \in FileIds
    BY <1>1, <1>8 DEF CompactRemove, Reliable, memory, TypeInv, Control
  <2>2. removed + 1 \in DOMAIN flushed
    BY <1>1, <2>1 DEF TypeOK
  <2>3. NextRemoved \in FileIds /\ NextRemoved # nextFileId - 1
    BY <2>1, <2>2, ListedIds DEF NextRemoved
  <2>4. /\ disk'[nextFileId - 1] = disk[nextFileId - 1]
        /\ disk'[NextRemoved].status # "ok"
        /\ \A id \in FileIds \ {NextRemoved} : disk'[id] = disk[id]
    BY <1>1, <2>1, <2>3, NoFileOK DEF TypeOK
  <2>5. Describing(flushed, disk')
    <3>1. \A j \in DOMAIN flushed : flushed[j].id \in FileIds
      BY <2>1, ListedIds
    <3>2. \A j \in DOMAIN flushed : \/ disk'[flushed[j].id] = disk[flushed[j].id]
                                   \/ disk'[flushed[j].id].status # "ok"
      BY <2>4, <3>1
    <3> QED  BY <2>1, <3>2, StillDescribing DEF Described
  <2>6. FileWritten' = FileWritten /\ KeysOf(out') = KeysOf(out)
    BY <2>1 DEF FileWritten
  <2> QED  BY <2>1, <2>4, <2>5, <2>6 DEF Described
<1>9. CASE CompactDone
  <2>1. /\ pc = "compactRemove" /\ pc' = "flush" /\ disk' = disk
        /\ flushed' = Compacted
    BY <1>9 DEF CompactDone, EraseFlushed
  <2>2. Describing(Compacted, disk)
    <3>1. CASE KeysOf(out) = {}
      BY <3>1 DEF Compacted, Describing
    <3>2. CASE KeysOf(out) # {}
      <4>1. DOMAIN Compacted = {1} /\ bloomOn \in BOOLEAN
            /\ Compacted[1] = Describe(nextFileId - 1, disk[nextFileId - 1], bloomOn)
        BY <1>1, <2>1, <3>2 DEF Compacted, Described, TypeOK
      <4>2. Compacted[1].id = nextFileId - 1
        BY <4>1 DEF Describe
      <4> QED  BY <4>1, <4>2 DEF Describing
    <3> QED  BY <3>1, <3>2
  <2> QED  BY <2>1, <2>2 DEF Described
<1>10. CASE Close \/ Crash
  <2>1. pc' = "closed"
    BY <1>10 DEF Close, Crash
  <2> QED  BY <2>1 DEF Described
<1>11. CASE UNCHANGED vars
  BY <1>11 DEF vars, memory, scratch, Described, FileWritten
<1> QED  BY <1>2, <1>3, <1>4, <1>5, <1>6, <1>7, <1>8, <1>9, <1>10, <1>11
         DEF Next, Put, Delete, Internal
-----------------------------------------------------------------------------
(* Reads *)

\* Both readers of a file give the entry the file has of a key asked for.
LEMMA FileReads ==
    ASSUME OrderInv, Described, pc \in {"idle", "flush"}, NEW j \in DOMAIN flushed,
           NEW k \in Keys, NEW a \in Int, NEW b \in Int
    PROVE  /\ flushed[j].id \in FileIds
           /\ GetFromSSTable(disk, flushed[j], k) = disk[flushed[j].id].ents[k]
           /\ k \in a .. b =>
                RangeScanSSTable(disk, flushed[j], a, b)[k]
                  = disk[flushed[j].id].ents[k]
<1> DEFINE id == flushed[j].id
           f  == disk[id]
<1>1. TypeOK /\ FilesOK
  BY DEF OrderInv, FreshInv, TypeInv
<1>2. id \in FileIds /\ id \in Ids(flushed)
  BY ListedIds DEF Ids
<1>3. f.status = "ok"
  BY <1>2 DEF OrderInv, Listed, SSTables
<1>4. PICK wb \in BOOLEAN : flushed[j] = Describe(id, f, wb)
  BY <1>3 DEF Described, Describing
<1>5. /\ f \in File /\ FileOK(f)
      /\ f.ents[k] \in Entry /\ f.ents[k].seq \in Nat
      /\ f.ents[k].seq = 0 => f.ents[k] = NoEntry
  BY <1>1, <1>2, FileEntries DEF TypeOK, FilesOK
<1>6. /\ flushed[j].lo = f.lo /\ flushed[j].hi = f.hi
      /\ flushed[j].bloom \in {f.bloom, EmptyFilter}
  BY <1>4 DEF Describe
<1>7. k \in Int /\ f.lo \in Int /\ f.hi \in Int
  BY <1>5 DEF Keys, File
<1> HIDE DEF id, f
<1>8. /\ GetFromSSTable(disk, flushed[j], k)
           = IF \/ k < f.lo \/ k > f.hi
                \/ ~Empty(flushed[j].bloom) /\ ~MayContain(flushed[j].bloom, k)
             THEN NoEntry
             ELSE f.ents[k]
      /\ RangeScanSSTable(disk, flushed[j], a, b)
           = IF b < f.lo \/ a > f.hi THEN EmptyTable ELSE Only(f.ents, a .. b)
  BY <1>3, <1>6 DEF GetFromSSTable, RangeScanSSTable, id, f
<1>9. Empty(EmptyFilter)
  BY DEF Empty, EmptyFilter
<1>10. GetFromSSTable(disk, flushed[j], k) = f.ents[k]
  <2>1. CASE f.ents[k].seq = 0
    BY <1>5, <1>8, <2>1
  <2>2. CASE f.ents[k].seq > 0
    <3>1. /\ f.lo <= k /\ k <= f.hi
          /\ Empty(flushed[j].bloom) \/ MayContain(flushed[j].bloom, k)
      BY <1>5, <1>6, <1>9, <2>2 DEF FileOK
    <3> QED  BY <1>7, <1>8, <3>1
  <2> QED  BY <1>5, <2>1, <2>2
<1>11. ASSUME k \in a .. b
       PROVE  RangeScanSSTable(disk, flushed[j], a, b)[k] = f.ents[k]
  <2>1. CASE b < f.lo \/ a > f.hi
    <3>1. ~(f.lo <= k /\ k <= f.hi)
      BY <1>7, <1>11, <2>1
    <3>2. f.ents[k] = NoEntry
      BY <1>5, <3>1 DEF FileOK
    <3> QED  BY <1>8, <2>1, <3>2 DEF EmptyTable
  <2>2. CASE ~(b < f.lo \/ a > f.hi)
    BY <1>8, <1>11, <2>2 DEF Only
  <2> QED  BY <2>1, <2>2
<1> QED  BY <1>2, <1>10, <1>11 DEF id, f

LEMMA ThenLast ==
    ASSUME NEW S, NEW s \in Seq(S), NEW e \in S
    PROVE  /\ DOMAIN (s \o <<e>>) = 1 .. Len(s) + 1
           /\ \A p \in 1 .. Len(s) : (s \o <<e>>)[p] = s[p]
           /\ (s \o <<e>>)[Len(s) + 1] = e
<1>1. Len(s) \in Nat /\ DOMAIN s = 1 .. Len(s)
  OBVIOUS
<1>2. s \o <<e>> = Append(s, e)
  OBVIOUS
<1>3. /\ Len(Append(s, e)) = Len(s) + 1
      /\ Append(s, e) \in Seq(S)
      /\ Append(s, e)[Len(s) + 1] = e
  OBVIOUS
<1>4. ASSUME NEW p \in 1 .. Len(s)
      PROVE  Append(s, e)[p] = s[p]
  OBVIOUS
<1> QED  BY <1>1, <1>2, <1>3, <1>4

\* The layers by their positions.
LEMMA LayersAre ==
    ASSUME TypeOK, NEW fs \in Seq(Table), Len(fs) = Len(flushed)
    PROVE  LET m == Len(flushed)
               n == Len(flushed) + Len(imms) + 1
           IN  /\ n \in Nat \ {0} /\ m \in Nat /\ m < n
               /\ DOMAIN flushed = 1 .. m /\ DOMAIN imms = 1 .. n - m - 1
               /\ DOMAIN Layers(fs) = 1 .. n
               /\ \A p \in 1 .. m : Layers(fs)[p] = fs[p]
               /\ \A p \in m + 1 .. n - 1 : /\ p - m \in DOMAIN imms
                                            /\ Layers(fs)[p] = imms[p - m]
               /\ Layers(fs)[n] = mut
<1>1. imms \in Seq(Table) /\ mut \in Table /\ flushed \in Seq(Descriptor(FileIds))
  BY DEF TypeOK
<1> DEFINE m == Len(flushed)
           r == Len(imms)
           up == fs \o imms
<1>2. /\ m \in Nat /\ r \in Nat
      /\ DOMAIN flushed = 1 .. m /\ DOMAIN imms = 1 .. r /\ DOMAIN fs = 1 .. m
  BY <1>1
<1>3. /\ up \in Seq(Table) /\ Len(up) = m + r
      /\ \A p \in 1 .. m : up[p] = fs[p]
      /\ \A p \in m + 1 .. m + r : up[p] = imms[p - m]
  BY <1>1, <1>2
<1> HIDE DEF up
<1>4. Layers(fs) = up \o <<mut>>
  BY <1>1 DEF Layers, up
<1>5. /\ DOMAIN (up \o <<mut>>) = 1 .. m + r + 1
      /\ \A p \in 1 .. m + r : (up \o <<mut>>)[p] = up[p]
      /\ (up \o <<mut>>)[m + r + 1] = mut
  <2> HIDE DEF m, r
  <2> QED  BY <1>1, <1>3, ThenLast
<1> HIDE DEF m, r
<1>6. \A p \in m + 1 .. m + r : p - m \in 1 .. r
  BY <1>2
<1>7. m + r + 1 - 1 = m + r /\ m + r + 1 - m - 1 = r /\ m + r + 1 \in Nat \ {0}
      /\ m < m + r + 1
  BY <1>2
<1>8. (1 .. m) \cup (m + 1 .. m + r) \subseteq 1 .. m + r
  BY <1>2
<1>9. /\ \A p \in 1 .. m : (up \o <<mut>>)[p] = fs[p]
      /\ \A p \in m + 1 .. m + r : (up \o <<mut>>)[p] = imms[p - m]
  BY <1>3, <1>5, <1>8
<1> QED  BY <1>2, <1>4, <1>5, <1>6, <1>7, <1>9 DEF m, r

\* The layers of a read between calls, or of one between two files of a flush,
\* with what it sees of the files for k being what the files have, are in the
\* order of age.
LEMMA LayersInOrder ==
    ASSUME OrderInv, pc \in {"idle", "flush"}, NEW k \in Keys,
           NEW fs \in Seq(Table), Len(fs) = Len(flushed),
           \A j \in DOMAIN flushed : fs[j][k] = disk[flushed[j].id].ents[k]
    PROVE  InAgeOrder(Layers(fs), k)
<1> DEFINE ls == Layers(fs)
           m == Len(flushed)
           n == Len(flushed) + Len(imms) + 1
<1>1. TypeOK /\ DiskOrder /\ MemOrder /\ ListOrder
  BY DEF OrderInv, FreshInv, TypeInv
<1>2. /\ n \in Nat \ {0} /\ m \in Nat /\ m < n
      /\ DOMAIN flushed = 1 .. m /\ DOMAIN imms = 1 .. n - m - 1
      /\ DOMAIN ls = 1 .. n
      /\ \A p \in 1 .. m : ls[p] = fs[p]
      /\ \A p \in m + 1 .. n - 1 : p - m \in DOMAIN imms /\ ls[p] = imms[p - m]
      /\ ls[n] = mut
  BY <1>1, LayersAre
<1>3. \A j \in DOMAIN flushed : flushed[j].id \in FileIds
  BY ListedIds
<1> HIDE DEF ls, m, n
<1>4. \A p \in 1 .. m : /\ flushed[p].id \in FileIds
                        /\ ls[p][k] = disk[flushed[p].id].ents[k]
  BY <1>2, <1>3
<1>5. ASSUME NEW p \in 1 .. n
      PROVE  ls[p][k] \in Entry
  <2>1. CASE p \in 1 .. m
    BY <1>1, <1>4, <2>1, FileEntries DEF TypeOK
  <2>2. CASE p \in m + 1 .. n - 1
    <3>1. ls[p] = imms[p - m] /\ imms[p - m] \in Table
      BY <1>1, <1>2, <2>2, AllTables
    <3> QED  BY <3>1, TableType
  <2>3. CASE p = n
    <3>1. ls[p] = mut /\ mut \in Table
      BY <1>1, <1>2, <2>3, AllTables
    <3> QED  BY <3>1, TableType
  <2>4. p \in 1 .. m \/ p \in m + 1 .. n - 1 \/ p = n
    BY <1>2
  <2> QED  BY <2>1, <2>2, <2>3, <2>4
<1>6. ASSUME NEW p \in 1 .. n, NEW q \in 1 .. n, p < q,
             ls[p][k].seq > 0, ls[q][k].seq > 0
      PROVE  ls[p][k].seq <= ls[q][k].seq
  <2>1. CASE q \in 1 .. m
    <3>1. p \in 1 .. m
      BY <1>2, <1>6, <2>1
    <3>2. flushed[p].id < flushed[q].id
      BY <1>1, <1>2, <1>6, <2>1, <3>1 DEF ListOrder
    <3> QED  BY <1>1, <1>4, <1>6, <2>1, <3>1, <3>2 DEF DiskOrder, Ordered
  <2>2. CASE q \in m + 1 .. n - 1
    <3>1. CASE p \in 1 .. m
      <4>1. Ordered(disk[flushed[p].id].ents, imms[q - m])
        BY <1>1, <1>2, <1>4, <2>2, <3>1 DEF MemOrder
      <4> QED  BY <1>2, <1>4, <1>6, <2>2, <3>1, <4>1 DEF Ordered
    <3>2. CASE p \in m + 1 .. n - 1
      <4>1. Ordered(imms[p - m], imms[q - m])
        <5>1. p - m < q - m
          BY <1>2, <1>6
        <5> QED  BY <1>1, <1>2, <2>2, <3>2, <5>1 DEF MemOrder
      <4> QED  BY <1>2, <1>6, <2>2, <3>2, <4>1 DEF Ordered
    <3> QED  BY <1>2, <1>6, <2>2, <3>1, <3>2
  <2>3. CASE q = n
    <3>1. CASE p \in 1 .. m
      <4>1. Ordered(disk[flushed[p].id].ents, mut)
        BY <1>1, <1>4, <3>1 DEF MemOrder
      <4> QED  BY <1>2, <1>4, <1>6, <2>3, <3>1, <4>1 DEF Ordered
    <3>2. CASE p \in m + 1 .. n - 1
      <4>1. Ordered(imms[p - m], mut)
        BY <1>1, <1>2, <3>2 DEF MemOrder
      <4> QED  BY <1>2, <1>6, <2>3, <3>2, <4>1 DEF Ordered
    <3> QED  BY <1>2, <1>6, <2>3, <3>1, <3>2
  <2> QED  BY <1>2, <2>1, <2>2, <2>3
<1>7. DOMAIN ls = 1 .. n
  BY <1>2
<1> QED  BY <1>5, <1>6, <1>7 DEF InAgeOrder, ls

\* What Get sees of the files, and RangeScan over [a, b].
GetTables == [j \in DOMAIN flushed |->
                [x \in Keys |-> GetFromSSTable(disk, flushed[j], x)]]
ScanTables(a, b) ==
    [j \in DOMAIN flushed |-> RangeScanSSTable(disk, flushed[j], a, b)]

LEMMA ReadTables ==
    ASSUME OrderInv, Described, pc \in {"idle", "flush"}, NEW a \in Int, NEW b \in Int
    PROVE  /\ GetTables \in Seq(Table) /\ Len(GetTables) = Len(flushed)
           /\ ScanTables(a, b) \in Seq(Table)
           /\ Len(ScanTables(a, b)) = Len(flushed)
           /\ \A j \in DOMAIN flushed : \A k \in Keys :
                /\ GetTables[j][k] = disk[flushed[j].id].ents[k]
                /\ k \in a .. b =>
                     ScanTables(a, b)[j][k] = disk[flushed[j].id].ents[k]
<1>1. DOMAIN flushed = 1 .. Len(flushed) /\ Len(flushed) \in Nat
      /\ disk \in [FileIds -> File]
  BY DEF OrderInv, FreshInv, TypeInv, TypeOK
<1>2. ASSUME NEW j \in DOMAIN flushed
      PROVE  /\ GetTables[j] \in Table
             /\ ScanTables(a, b)[j] \in Table
  <2>1. flushed[j].id \in FileIds
    BY ListedIds
  <2>2. disk[flushed[j].id].ents \in Table
    BY <1>1, <2>1 DEF File
  <2>3. ScanTables(a, b)[j] \in Table
    BY <2>2, EmptyTableType, OnlyType DEF ScanTables, RangeScanSSTable
  <2>4. \A x \in Keys : GetFromSSTable(disk, flushed[j], x) \in Entry
    BY <2>2, NoEntryType, TableType DEF GetFromSSTable
  <2>5. GetTables[j] \in Table
    BY <2>4 DEF GetTables, Table
  <2> QED  BY <2>3, <2>5
<1>3. /\ GetTables \in Seq(Table) /\ Len(GetTables) = Len(flushed)
      /\ ScanTables(a, b) \in Seq(Table) /\ Len(ScanTables(a, b)) = Len(flushed)
  <2>1. GetTables = [j \in 1 .. Len(flushed) |-> GetTables[j]]
    BY <1>1 DEF GetTables
  <2>2. ScanTables(a, b) = [j \in 1 .. Len(flushed) |-> ScanTables(a, b)[j]]
    BY <1>1 DEF ScanTables
  <2> QED  BY <1>1, <1>2, <2>1, <2>2
<1>4. ASSUME NEW j \in DOMAIN flushed, NEW k \in Keys
      PROVE  /\ GetTables[j][k] = disk[flushed[j].id].ents[k]
             /\ k \in a .. b =>
                  ScanTables(a, b)[j][k] = disk[flushed[j].id].ents[k]
  BY FileReads DEF GetTables, ScanTables
<1> QED  BY <1>3, <1>4

LEMMA ReadsAgree ==
    ASSUME OrderInv, Described
    PROVE  GetAgreesWithRangeScan
<1> SUFFICES ASSUME pc = "idle", NEW a \in Keys, NEW b \in Keys, NEW k \in a .. b
             PROVE  RangeScan(a, b)[k] = Get(k)
  BY DEF GetAgreesWithRangeScan
<1> DEFINE gs == GetTables
           ss == ScanTables(a, b)
           n  == Len(flushed) + Len(imms) + 1
           m  == Len(flushed)
<1>1. TypeOK /\ a \in Int /\ b \in Int /\ k \in Keys
  BY DEF OrderInv, FreshInv, TypeInv, Keys
<1>2. /\ gs \in Seq(Table) /\ Len(gs) = m /\ ss \in Seq(Table) /\ Len(ss) = m
      /\ \A j \in DOMAIN flushed : gs[j][k] = disk[flushed[j].id].ents[k]
      /\ \A j \in DOMAIN flushed : ss[j][k] = disk[flushed[j].id].ents[k]
  <2>1. /\ gs \in Seq(Table) /\ Len(gs) = m /\ ss \in Seq(Table) /\ Len(ss) = m
        /\ \A j \in DOMAIN flushed : \A x \in Keys :
             /\ gs[j][x] = disk[flushed[j].id].ents[x]
             /\ x \in a .. b => ss[j][x] = disk[flushed[j].id].ents[x]
    BY <1>1, ReadTables
  <2> HIDE DEF gs, ss, m
  <2> QED  BY <1>1, <2>1
<1>3. Get(k) = FirstHit(Layers(gs), k).val
  BY DEF Get, GetTables
<1>4. RangeScan(a, b)[k] = MergeFromNewest(Layers(ss), k).val
  BY <1>1 DEF RangeScan, ScanTables
<1> HIDE DEF gs, ss
<1>5. InAgeOrder(Layers(ss), k)
  BY <1>1, <1>2, LayersInOrder
<1>6. n \in Nat \ {0} /\ DOMAIN Layers(ss) = 1 .. n /\ DOMAIN Layers(gs) = 1 .. n
  BY <1>1, <1>2, LayersAre
<1> HIDE DEF n
<1>7. MergeFromNewest(Layers(ss), k) = FirstHit(Layers(ss), k)
  BY <1>5, <1>6, FirstHitIsNewest
<1>8. \A p \in 1 .. n : Layers(ss)[p][k] = Layers(gs)[p][k]
  <2>1. /\ m \in Nat /\ m < n /\ DOMAIN flushed = 1 .. m
        /\ \A p \in 1 .. m : Layers(ss)[p] = ss[p] /\ Layers(gs)[p] = gs[p]
        /\ \A p \in m + 1 .. n - 1 : Layers(ss)[p] = imms[p - m]
                                     /\ Layers(gs)[p] = imms[p - m]
        /\ Layers(ss)[n] = mut /\ Layers(gs)[n] = mut
    BY <1>1, <1>2, LayersAre DEF n
  <2> HIDE DEF m
  <2>2. \A p \in 1 .. n : p \in 1 .. m \/ p \in m + 1 .. n - 1 \/ p = n
    BY <1>6, <2>1
  <2>3. ASSUME NEW p \in 1 .. n, p \in 1 .. m
        PROVE  Layers(ss)[p][k] = Layers(gs)[p][k]
    <3>1. Layers(ss)[p] = ss[p] /\ Layers(gs)[p] = gs[p]
      BY <2>1, <2>3
    <3>2. ss[p][k] = gs[p][k]
      BY <1>2, <2>1, <2>3
    <3> QED  BY <3>1, <3>2
  <2>4. ASSUME NEW p \in 1 .. n, p \in m + 1 .. n - 1 \/ p = n
        PROVE  Layers(ss)[p][k] = Layers(gs)[p][k]
    <3>1. Layers(ss)[p] = Layers(gs)[p]
      BY <2>1, <2>4
    <3> QED  BY <3>1
  <2> QED  BY <2>2, <2>3, <2>4
<1>9. FirstHit(Layers(ss), k) = FirstHit(Layers(gs), k)
  BY <1>6, <1>8, SameHit
<1> QED  BY <1>3, <1>4, <1>7, <1>9

\* Between calls RangeScan, which compares sequence numbers, and Get, which
\* takes the first hit of its search and trusts headers and filters, return the
\* same for every key and range.
THEOREM ReadPathsAgree ==
    ASSUME Reliable
    PROVE  Spec => []GetAgreesWithRangeScan
<1>1. OrderInv /\ Described /\ [Next]_vars => Described'
  BY NextDescribed
<1>2. OrderInv /\ Described => GetAgreesWithRangeScan
  BY ReadsAgree
<1>3. Spec => []OrderInv
  BY SpecOrderInv
<1> QED  BY <1>1, <1>2, <1>3, InitDescribed, PTL DEF Spec
-----------------------------------------------------------------------------
(* Read your writes *)

\* The newest layer decides the keys it has, and no other.
LEMMA NewestDecides ==
    ASSUME NEW s \in Seq(Table), NEW t \in Table, NEW u \in Table, NEW k \in Keys
    PROVE  /\ u[k].seq > 0 => FirstHit(s \o <<u>>, k) = u[k]
           /\ u[k] = t[k] => FirstHit(s \o <<u>>, k) = FirstHit(s \o <<t>>, k)
<1> DEFINE n == Len(s) + 1
           su == s \o <<u>>
           st == s \o <<t>>
           H == Holders(su, k)
<1>1. n \in Nat /\ Len(s) \in Nat /\ n \in 1 .. n
  OBVIOUS
<1>2. /\ DOMAIN su = 1 .. n /\ su[n] = u
      /\ \A p \in 1 .. Len(s) : su[p] = s[p]
  BY ThenLast
<1>3. /\ DOMAIN st = 1 .. n /\ st[n] = t
      /\ \A p \in 1 .. Len(s) : st[p] = s[p]
  BY ThenLast
<1>4. \A p \in 1 .. n : p \in 1 .. Len(s) \/ p = n
  BY <1>1
<1> HIDE DEF n, su, st
<1>5. ASSUME u[k].seq > 0
      PROVE  FirstHit(su, k) = u[k]
  <2>1. H \in SUBSET (1 .. n) /\ n \in H
    BY <1>1, <1>2, <1>5 DEF Holders
  <2> HIDE DEF H
  <2>2. IsFiniteSet(H) /\ H \in SUBSET Int /\ H # {}
    <3>1. IsFiniteSet(1 .. n)
      BY <1>1, FS_Interval
    <3>2. IsFiniteSet(H)
      BY <2>1, <3>1, FS_Subset
    <3>3. H \in SUBSET Int /\ H # {}
      BY <1>1, <2>1
    <3> QED  BY <3>2, <3>3
  <2>3. Max(H) \in H /\ \A y \in H : y <= Max(H)
    BY <2>2, MaxProperties
  <2>4. Max(H) = n
    <3>1. Max(H) \in 1 .. n /\ n <= Max(H)
      BY <2>1, <2>3
    <3> QED  BY <1>1, <3>1
  <2> QED  BY <1>2, <2>1, <2>4 DEF FirstHit, H
<1>6. ASSUME u[k] = t[k]
      PROVE  FirstHit(su, k) = FirstHit(st, k)
  <2>1. \A p \in 1 .. n : su[p][k] = st[p][k]
    BY <1>2, <1>3, <1>4, <1>6
  <2> QED  BY <1>1, <1>2, <1>3, <2>1, SameHit
<1> QED  BY <1>5, <1>6 DEF su, st

LEMMA GetTablesType ==
    ASSUME TypeOK
    PROVE  GetTables \in Seq(Table)
<1>1. DOMAIN flushed = 1 .. Len(flushed) /\ Len(flushed) \in Nat
      /\ disk \in [FileIds -> File]
  BY DEF TypeOK
<1>2. ASSUME NEW j \in DOMAIN flushed
      PROVE  GetTables[j] \in Table
  <2>1. flushed[j].id \in FileIds
    BY DescriptorType DEF TypeOK
  <2>2. disk[flushed[j].id].ents \in Table
    BY <1>1, <2>1 DEF File
  <2>3. \A x \in Keys : GetFromSSTable(disk, flushed[j], x) \in Entry
    BY <2>2, NoEntryType, TableType DEF GetFromSSTable
  <2> QED  BY <2>3 DEF GetTables, Table
<1>3. GetTables = [j \in 1 .. Len(flushed) |-> GetTables[j]]
  BY <1>1 DEF GetTables
<1> QED  BY <1>1, <1>2, <1>3

\* An insertion into the mutable memtable, nothing else being touched.
LEMMA InsertIsRead ==
    ASSUME TypeOK, NEW k \in Keys, NEW v \in Values \cup {Tombstone},
           Insert(mut, k, v), UNCHANGED <<imms, flushed, disk>>, NEW j \in Keys
    PROVE  Get(j)' = IF j = k THEN v ELSE Get(j)
<1> DEFINE up == GetTables \o imms
<1>1. imms \in Seq(Table) /\ mut \in Table /\ nextSeq \in Nat \ {0}
  BY DEF TypeOK
<1>2. up \in Seq(Table)
  BY <1>1, GetTablesType
<1>3. /\ mut' \in Table /\ mut'[k] = [seq |-> nextSeq, val |-> v]
      /\ \A x \in Keys \ {k} : mut'[x] = mut[x]
  BY <1>1, InsertType DEF Insert, Table
<1>4. Get(j) = FirstHit(up \o <<mut>>, j).val
  BY <1>1 DEF Get, Layers, GetTables
<1>5. Get(j)' = FirstHit(up \o <<mut'>>, j).val
  BY <1>1 DEF Get, Layers, GetTables
<1> HIDE DEF up
<1>6. CASE j = k
  <2>1. mut'[k].seq > 0 /\ mut'[k].val = v
    BY <1>1, <1>3
  <2>2. FirstHit(up \o <<mut'>>, k) = mut'[k]
    BY <1>1, <1>2, <1>3, <2>1, NewestDecides
  <2> QED  BY <1>5, <1>6, <2>1, <2>2
<1>7. CASE j # k
  <2>1. mut'[j] = mut[j]
    BY <1>3, <1>7
  <2>2. FirstHit(up \o <<mut'>>, j) = FirstHit(up \o <<mut>>, j)
    BY <1>1, <1>2, <1>3, <2>1, NewestDecides
  <2> QED  BY <1>4, <1>5, <1>7, <2>2
<1> QED  BY <1>6, <1>7

-----------------------------------------------------------------------------
(***************************************************************************)
(* What a compaction keeps, what Get returns, and that the database        *)
(* implements the store of KVStore, for every value of the constants.      *)
(* Each version of a key is stored with the same value wherever it is      *)
(* stored, and the memtables still to be flushed are strictly newer than   *)
(* what was flushed.  The assumptions are those of the order of age, and   *)
(* that the values the client writes are read back from a file as written: *)
(* the run `whitespace` shows what becomes of others.                      *)
(***************************************************************************)

WholeValues == \A v \in ClientValues : FirstToken(v) = v

Stored == ClientValues \cup {Tombstone}

\* The versions of k in the files, in the memtables, and in what is written.
InFiles(k)  == {disk[id].ents[k] : id \in FileIds}
InMemory(k) == {imms[p][k] : p \in DOMAIN imms} \cup {mut[k]}
Versions(k) == InFiles(k) \cup InMemory(k) \cup {out[k]}

\* A sequence number stands for one version of a key, wherever it is stored.
OneVersion ==
    /\ op.val \in Stored
    /\ \A k \in Keys : \A e \in Versions(k) :
         /\ e.val \in Stored
         /\ \A f \in Versions(k) : e.seq = f.seq => e = f

\* Every entry of u is newer than that of its key in t.
Before(t, u) == \A k \in Keys : u[k].seq > 0 => t[k].seq < u[k].seq

\* Every memtable that is not flushed, nor being flushed, is newer than t.
Flushable(t) ==
    /\ Before(t, mut)
    /\ \A p \in DOMAIN imms : p > 1 => Before(t, imms[p])

\* Only the front of immutables_ may be in a file already.
Strict ==
    pc # "closed" =>
        /\ \A p, q \in DOMAIN imms : p < q => Before(imms[p], imms[q])
        /\ \A p \in DOMAIN imms : Before(imms[p], mut)
        /\ \A id \in FileIds : Flushable(disk[id].ents)
        /\ Flushable(out)

\* What is being written, or has been, is in the files or will be.
Written ==
    /\ pc = "flushWrite" => out = Head(imms)
    /\ pc \in {"compact", "compactWrite"} =>
         \A k \in Keys : Head(imms)[k].seq <= Recovered(k).seq
    /\ pc \in {"compactWrite", "compactRemove"} =>
         \A k \in Keys : Recovered(k).val = out[k].val
-----------------------------------------------------------------------------
(* The newest entry in the files *)

\* Recovered, of any directory.
RecoveredIn(d, k) ==
    LET holding == {id \in FileIds : d[id].ents[k].seq > 0}
    IN  IF holding = {} THEN NoEntry ELSE d[Max(holding)].ents[k]

\* No file of d has a newer entry of k than e.
IsNewest(d, k, e) ==
    /\ e \in Entry
    /\ e # NoEntry => \E id \in FileIds : e = d[id].ents[k]
    /\ \A id \in FileIds : d[id].ents[k].seq <= e.seq

\* With the files in the order of age the entry of the largest id is newest.
LEMMA RecoveredInNewest ==
    ASSUME NEW d \in [FileIds -> File], NEW k \in Keys,
           \A i, j \in FileIds : i < j => Ordered(d[i].ents, d[j].ents)
    PROVE  IsNewest(d, k, RecoveredIn(d, k))
<1> DEFINE holding == {id \in FileIds : d[id].ents[k].seq > 0}
<1>1. \A id \in FileIds \ holding : d[id].ents[k].seq = 0
  BY FileEntries
<1>2. CASE holding = {}
  <2>1. RecoveredIn(d, k) = NoEntry
    BY <1>2 DEF RecoveredIn
  <2> QED  BY <1>1, <1>2, <2>1, NoEntryType DEF IsNewest
<1>3. CASE holding # {}
  <2>1. IsFiniteSet(FileIds) /\ FileIds \subseteq Int
    BY FS_Interval DEF FileIds
  <2>2. IsFiniteSet(holding) /\ holding \in SUBSET Int
    BY <2>1, FS_Subset
  <2>3. Max(holding) \in holding /\ \A y \in holding : y <= Max(holding)
    <3> HIDE DEF holding
    <3> QED  BY <1>3, <2>2, MaxProperties
  <2>4. RecoveredIn(d, k) = d[Max(holding)].ents[k]
    BY <1>3 DEF RecoveredIn
  <2> DEFINE m == Max(holding)
  <2>5. /\ m \in FileIds /\ d[m].ents[k].seq > 0
        /\ \A y \in holding : y <= m
        /\ RecoveredIn(d, k) = d[m].ents[k]
    BY <2>3, <2>4
  <2> HIDE DEF m
  <2>6. ASSUME NEW id \in FileIds
        PROVE  d[id].ents[k].seq <= d[m].ents[k].seq
    <3>1. CASE id = m
      BY <3>1, FileEntries, <2>5
    <3>2. CASE id # m /\ id \in holding
      <4>1. id < m
        <5>1. id <= m /\ id \in Int /\ m \in Int
          BY <3>2, <2>1, <2>5
        <5> QED  BY <3>2, <5>1
      <4> QED  BY <4>1, <3>2, <2>5 DEF Ordered
    <3>3. CASE id \notin holding
      BY <1>1, <3>3, <2>5, FileEntries
    <3> QED  BY <3>1, <3>2, <3>3
  <2> HIDE DEF holding
  <2> QED  BY <2>5, <2>6, FileEntries DEF IsNewest
<1> QED  BY <1>2, <1>3

LEMMA NewestIsUnique ==
    ASSUME NEW d \in [FileIds -> File], NEW k \in Keys,
           \A i, j \in FileIds : d[i].ents[k].seq = d[j].ents[k].seq
                                 => d[i].ents[k] = d[j].ents[k],
           NEW e, IsNewest(d, k, e), NEW f, IsNewest(d, k, f)
    PROVE  e = f
<1>1. /\ e \in Entry /\ f \in Entry
      /\ e.seq \in Nat /\ f.seq \in Nat
      /\ (e.seq = 0 => e = NoEntry) /\ (f.seq = 0 => f = NoEntry)
  BY EntryType DEF IsNewest
<1>2. \A i \in FileIds : d[i].ents[k].seq \in Nat
  BY FileEntries
<1>3. CASE e = NoEntry \/ f = NoEntry
  BY <1>1, <1>2, <1>3, NoEntryType DEF IsNewest
<1>4. CASE e # NoEntry /\ f # NoEntry
  <2>1. PICK i \in FileIds : e = d[i].ents[k]
    BY <1>4 DEF IsNewest
  <2>2. PICK j \in FileIds : f = d[j].ents[k]
    BY <1>4 DEF IsNewest
  <2>3. d[i].ents[k].seq = d[j].ents[k].seq
    BY <2>1, <2>2, <1>2 DEF IsNewest
  <2> QED  BY <2>1, <2>2, <2>3
<1> QED  BY <1>3, <1>4

LEMMA RecoveredNewest ==
    ASSUME TypeOK, DiskOrder, NEW k \in Keys
    PROVE  IsNewest(disk, k, Recovered(k))
<1>1. Recovered(k) = RecoveredIn(disk, k)
  BY DEF Recovered, RecoveredIn
<1> QED  BY <1>1, RecoveredInNewest DEF TypeOK, DiskOrder

LEMMA RecoveredNewestNext ==
    ASSUME TypeOK', DiskOrder', NEW k \in Keys
    PROVE  IsNewest(disk', k, Recovered(k)')
<1>1. Recovered(k)' = RecoveredIn(disk', k)
  BY DEF Recovered, RecoveredIn
<1> QED  BY <1>1, RecoveredInNewest DEF TypeOK, DiskOrder

LEMMA NewestIsRecovered ==
    ASSUME TypeOK, DiskOrder, OneVersion, NEW k \in Keys,
           NEW e, IsNewest(disk, k, e)
    PROVE  Recovered(k) = e
<1>1. \A i, j \in FileIds : disk[i].ents[k].seq = disk[j].ents[k].seq
                            => disk[i].ents[k] = disk[j].ents[k]
  BY DEF OneVersion, Versions, InFiles
<1> QED  BY <1>1, RecoveredNewest, NewestIsUnique DEF TypeOK

LEMMA NewestIsRecoveredNext ==
    ASSUME TypeOK', DiskOrder', OneVersion', NEW k \in Keys,
           NEW e, IsNewest(disk', k, e)
    PROVE  Recovered(k)' = e
<1>1. \A i, j \in FileIds : disk'[i].ents[k].seq = disk'[j].ents[k].seq
                            => disk'[i].ents[k] = disk'[j].ents[k]
  BY DEF OneVersion, Versions, InFiles
<1> QED  BY <1>1, RecoveredNewestNext, NewestIsUnique DEF TypeOK
-----------------------------------------------------------------------------
(* One version for each sequence number *)

LEMMA VersionsType ==
    ASSUME TypeOK, NEW k \in Keys, NEW e \in Versions(k)
    PROVE  e \in Entry /\ e.seq \in Nat /\ (e.seq = 0 => e = NoEntry)
<1>1. e \in Entry
  <2>1. /\ \A id \in FileIds : disk[id].ents[k] \in Entry
        /\ \A p \in DOMAIN imms : imms[p][k] \in Entry
        /\ mut[k] \in Entry /\ out[k] \in Entry
    BY AllTables, TableType
  <2> QED  BY <2>1 DEF Versions, InFiles, InMemory
<1> QED  BY <1>1, EntryType

\* A step that makes no version.
LEMMA VersionsKept ==
    ASSUME TypeOK, OneVersion, op'.val \in Stored,
           \A k \in Keys : Versions(k)' \subseteq Versions(k) \cup {NoEntry}
    PROVE  OneVersion'
<1> SUFFICES ASSUME NEW k \in Keys, NEW e \in Versions(k)'
             PROVE  /\ e.val \in Stored
                    /\ \A f \in Versions(k)' : e.seq = f.seq => e = f
  BY DEF OneVersion
<1>1. e \in Versions(k) \cup {NoEntry}
  OBVIOUS
<1>2. NoEntry.val \in Stored /\ NoEntry.seq = 0
  BY DEF NoEntry, Stored
<1>3. e.val \in Stored
  BY <1>1, <1>2 DEF OneVersion
<1>4. ASSUME NEW f \in Versions(k)', e.seq = f.seq
      PROVE  e = f
  <2>1. f \in Versions(k) \cup {NoEntry}
    OBVIOUS
  <2>2. CASE e \in Versions(k) /\ f \in Versions(k)
    BY <1>4, <2>2 DEF OneVersion
  <2>3. CASE e = NoEntry \/ f = NoEntry
    BY <1>1, <1>2, <1>4, <2>1, <2>3, VersionsType
  <2> QED  BY <1>1, <2>1, <2>2, <2>3
<1> QED  BY <1>3, <1>4

\* A step that makes one, with a number larger than any.
LEMMA VersionAdded ==
    ASSUME TypeOK, OneVersion, op'.val \in Stored,
           NEW k \in Keys, NEW v \in Stored, NEW n \in Nat \ {0},
           \A x \in Keys : \A e \in Versions(x) : e.seq < n,
           \A x \in Keys \ {k} : Versions(x)' \subseteq Versions(x) \cup {NoEntry},
           Versions(k)' \subseteq Versions(k) \cup {NoEntry, [seq |-> n, val |-> v]}
    PROVE  OneVersion'
<1> DEFINE new == [seq |-> n, val |-> v]
<1> SUFFICES ASSUME NEW x \in Keys, NEW e \in Versions(x)'
             PROVE  /\ e.val \in Stored
                    /\ \A f \in Versions(x)' : e.seq = f.seq => e = f
  BY DEF OneVersion
<1>0. new.seq = n /\ new.val = v
  OBVIOUS
<1> HIDE DEF new
<1>1. e \in Versions(x) \cup {NoEntry, new}
  BY DEF new
<1>2. NoEntry.val \in Stored /\ NoEntry.seq = 0
  BY DEF NoEntry, Stored
<1>3. e.val \in Stored
  BY <1>0, <1>1, <1>2 DEF OneVersion
<1>4. ASSUME NEW f \in Versions(x)', e.seq = f.seq
      PROVE  e = f
  <2>1. f \in Versions(x) \cup {NoEntry, new}
    BY DEF new
  <2>2. CASE e \in Versions(x) /\ f \in Versions(x)
    BY <1>4, <2>2 DEF OneVersion
  <2>3. CASE e \in Versions(x) \cup {NoEntry} /\ f \in Versions(x) \cup {NoEntry}
             /\ (e = NoEntry \/ f = NoEntry)
    BY <1>2, <1>4, <2>3, VersionsType
  <2>4. CASE e = new \/ f = new
    <3>1. \A g \in Versions(x) \cup {NoEntry} : g.seq \in Nat /\ g.seq < n
      BY <1>2, VersionsType
    <3> QED  BY <1>0, <1>1, <1>4, <2>1, <2>4, <3>1
  <2> QED  BY <1>1, <2>1, <2>2, <2>3, <2>4
<1> QED  BY <1>3, <1>4

\* What is written is read back as it is.
LEMMA WrittenWhole ==
    ASSUME TypeOK, OneVersion, WholeValues, NEW k \in Keys
    PROVE  FileWritten.ents[k] = out[k]
<1>1. out[k] \in Entry /\ out[k].val \in Stored
  <2>1. out[k] \in Versions(k)
    BY DEF Versions
  <2> QED  BY <2>1, VersionsType DEF OneVersion
<1>2. ParseSSTableDataLine(out[k]) = out[k]
  <2>1. CASE out[k].val = Tombstone
    BY <2>1 DEF ParseSSTableDataLine
  <2>2. CASE out[k].val # Tombstone
    <3>1. out[k].val \in ClientValues /\ FirstToken(out[k].val) = out[k].val
      BY <1>1, <2>2 DEF Stored, WholeValues
    <3>2. out[k] = [out[k] EXCEPT !.val = out[k].val]
      BY <1>1 DEF Entry, NoEntry
    <3> QED  BY <2>2, <3>1, <3>2 DEF ParseSSTableDataLine
  <2> QED  BY <2>1, <2>2
<1> QED  BY <1>2 DEF FileWritten, WriteSSTable

\* One file becomes empty, or holds entries of out.
LEMMA FileVersions ==
    ASSUME TypeOK, NEW n \in FileIds, NEW f,
           disk' = [disk EXCEPT ![n] = f],
           NEW k \in Keys, f.ents[k] \in {NoEntry, out[k]}
    PROVE  InFiles(k)' \subseteq Versions(k) \cup {NoEntry}
<1>1. disk'[n] = f /\ \A id \in FileIds \ {n} : disk'[id] = disk[id]
  BY DEF TypeOK
<1>2. \A id \in FileIds : disk'[id].ents[k] \in InFiles(k) \cup {NoEntry, out[k]}
  BY <1>1 DEF InFiles
<1> QED  BY <1>2 DEF InFiles, Versions

\* The memtables stay, or the front goes.
LEMMA MemoryVersions ==
    ASSUME TypeOK, UNCHANGED mut,
           imms' = imms \/ (imms # <<>> /\ imms' = Tail(imms)), NEW k \in Keys
    PROVE  InMemory(k)' \subseteq InMemory(k)
<1>1. \A p \in DOMAIN imms' : \E q \in DOMAIN imms : imms'[p] = imms[q]
  <2>1. CASE imms' = imms
    BY <2>1
  <2>2. CASE imms # <<>> /\ imms' = Tail(imms)
    <3>1. imms \in Seq(Table)
      BY DEF TypeOK
    <3>2. \A p \in DOMAIN imms' : p + 1 \in DOMAIN imms /\ imms'[p] = imms[p + 1]
      BY <2>2, <3>1
    <3> QED  BY <3>2
  <2> QED  BY <2>1, <2>2
<1> QED  BY <1>1 DEF InMemory

\* The insertion of a version.
LEMMA InsertVersion ==
    ASSUME FreshInv, OneVersion, pc # "closed", op'.val \in Stored,
           NEW k \in Keys, NEW v \in Stored, v \in Values \cup {Tombstone},
           Insert(mut, k, v), UNCHANGED <<imms, disk>>,
           out' \in {out, EmptyTable}
    PROVE  OneVersion'
<1>1. TypeOK /\ SeqsBelow /\ nextSeq \in Nat \ {0} /\ mut \in Table
  BY DEF FreshInv, TypeInv, TypeOK
<1> DEFINE new == [seq |-> nextSeq, val |-> v]
<1>2. mut'[k] = new /\ \A x \in Keys \ {k} : mut'[x] = mut[x]
  BY <1>1 DEF Insert, Table
<1>3. ASSUME NEW x \in Keys
      PROVE  \A e \in Versions(x) : e.seq < nextSeq
  BY <1>1, AllTables DEF SeqsBelow, Below, Versions, InFiles, InMemory
<1>4. \A x \in Keys : out'[x] \in {out[x], NoEntry}
  BY DEF EmptyTable
<1>5. ASSUME NEW x \in Keys
      PROVE  Versions(x)' \subseteq Versions(x) \cup {NoEntry, mut'[x]}
  BY <1>4 DEF Versions, InFiles, InMemory
<1>6. \A x \in Keys \ {k} : Versions(x)' \subseteq Versions(x) \cup {NoEntry}
  <2>1. \A x \in Keys \ {k} : mut'[x] \in Versions(x)
    BY <1>2 DEF Versions, InMemory
  <2> QED  BY <1>5, <2>1
<1>7. Versions(k)' \subseteq Versions(k) \cup {NoEntry, new}
  BY <1>2, <1>5
<1> QED  BY <1>1, <1>3, <1>6, <1>7, VersionAdded

\* The entries a compaction keeps are versions of some file.
LEMMA LiveVersions ==
    ASSUME TypeOK, flushed # <<>>, NEW skipped, NEW k \in Keys
    PROVE  /\ CompactEntries(disk, flushed, skipped) \in Table
           /\ CompactEntries(disk, flushed, skipped)[k] \in InFiles(k) \cup {NoEntry}
<1> DEFINE live == CompactEntries(disk, flushed, skipped)
<1>1. /\ disk \in [FileIds -> File]
      /\ flushed \in Seq(Descriptor(FileIds))
      /\ \A j \in DOMAIN flushed : flushed[j].id \in FileIds
  BY DescriptorType DEF TypeOK
<1>2. /\ live \in Table
      /\ live[k].seq > 0 => \E j \in DOMAIN flushed :
                               live[k] = disk[flushed[j].id].ents[k]
  <2>1. disk \in [FileIds -> File] /\ flushed \in Seq(Descriptor(FileIds))
    BY <1>1
  <2> HIDE DEF live
  <2> QED  BY <2>1, CompactEntriesOK DEF live
<1> HIDE DEF live
<1>3. live[k].seq > 0 => live[k] \in InFiles(k)
  BY <1>1, <1>2 DEF InFiles
<1>4. ASSUME ~(live[k].seq > 0)
      PROVE  live[k] = NoEntry
  <2>1. live[k] \in Entry /\ live[k].seq \in Nat
    BY <1>2, TableType
  <2> QED  BY <1>4, <2>1, EntryType
<1> QED  BY <1>2, <1>3, <1>4 DEF live

LEMMA InitOneVersion == Init => OneVersion
<1> SUFFICES ASSUME Init PROVE OneVersion
  OBVIOUS
<1>1. \A k \in Keys : Versions(k) = {NoEntry}
  <2>1. \A id \in FileIds : disk[id].ents = EmptyTable
    BY NoFileOK DEF Init
  <2>2. mut = EmptyTable /\ out = EmptyTable /\ DOMAIN imms = {}
    BY DEF Init
  <2>3. ASSUME NEW k \in Keys, NEW e \in Versions(k)
        PROVE  e = NoEntry
    BY <2>1, <2>2 DEF Versions, InFiles, InMemory, EmptyTable
  <2>4. \A k \in Keys : NoEntry \in Versions(k)
    BY <2>2 DEF Versions, EmptyTable
  <2> QED  BY <2>3, <2>4
<1>2. NoEntry.val \in Stored /\ op.val \in Stored
  BY DEF NoEntry, Stored, Init, NoOp
<1> QED  BY <1>1, <1>2 DEF OneVersion

LEMMA NextOneVersion ==
    ASSUME OrderInv, Reliable, WholeValues, OneVersion, [Next]_vars
    PROVE  OneVersion'
<1>1. /\ FreshInv /\ TypeInv /\ TypeOK /\ Gone
      /\ op.val \in Stored /\ Tombstone \in Stored
      /\ Stored \subseteq Values \cup {Tombstone}
  BY DEF OrderInv, FreshInv, TypeInv, OneVersion, Stored
<1>2. NoScratch => op'.val \in Stored /\ out' = EmptyTable
  BY DEF NoScratch, NoOp, Stored
<1>3. \A k \in Keys : EmptyTable[k] = NoEntry
  BY DEF EmptyTable
\* The steps that put versions from one place to another.
<1>4. ASSUME op'.val \in Stored,
             \A k \in Keys : /\ InFiles(k)' \subseteq Versions(k) \cup {NoEntry}
                             /\ InMemory(k)' \subseteq Versions(k) \cup {NoEntry}
                             /\ out'[k] \in Versions(k) \cup {NoEntry}
      PROVE  OneVersion'
  <2>1. \A k \in Keys : Versions(k)' \subseteq Versions(k) \cup {NoEntry}
    BY <1>4 DEF Versions
  <2> QED  BY <1>1, <1>4, <2>1, VersionsKept
<1>5. ASSUME disk' = disk
      PROVE  \A k \in Keys : InFiles(k)' \subseteq Versions(k) \cup {NoEntry}
  BY <1>5 DEF InFiles, Versions
<1>6. ASSUME UNCHANGED mut,
             imms' = imms \/ (imms # <<>> /\ imms' = Tail(imms))
      PROVE  \A k \in Keys : InMemory(k)' \subseteq Versions(k) \cup {NoEntry}
  BY <1>1, <1>6, MemoryVersions DEF Versions
<1>7. ASSUME NEW n \in FileIds, NEW f \in {NoFile, BadFile},
             disk' = [disk EXCEPT ![n] = f]
      PROVE  \A k \in Keys : InFiles(k)' \subseteq Versions(k) \cup {NoEntry}
  <2>1. f.ents = EmptyTable
    BY <1>7, NoFileOK
  <2>2. \A k \in Keys : f.ents[k] \in {NoEntry, out[k]}
    BY <1>3, <2>1
  <2> QED  BY <1>1, <1>7, <2>2, FileVersions
<1>8. ASSUME NEW f \in PartialFiles(FileWritten, FALSE),
             pc \in {"flushWrite", "compactWrite"},
             disk' = [disk EXCEPT ![nextFileId - 1] = f]
      PROVE  \A k \in Keys : InFiles(k)' \subseteq Versions(k) \cup {NoEntry}
  <2>1. nextFileId - 1 \in FileIds /\ KeysOf(out) # {}
    BY <1>1, <1>8 DEF TypeInv, Control
  <2>2. FileWritten \in File
    BY <1>1, <2>1, FileWrittenOK
  <2>3. \A k \in Keys : f.ents[k] \in {NoEntry, out[k]}
    BY <1>1, <2>2, WholePartialFiles, WrittenWhole
  <2> QED  BY <1>1, <1>8, <2>1, <2>3, FileVersions
<1>9. FileWritten \in PartialFiles(FileWritten, FALSE)
  BY DEF PartialFiles
<1>10. \A k \in Keys : out[k] \in Versions(k) \cup {NoEntry}
  BY DEF Versions
<1>11. ASSUME NEW u \in BOOLEAN, NEW b \in BloomModes, Open(u, b)
       PROVE  OneVersion'
  <2>1. UNCHANGED <<mut, imms, op, out, disk>>
    BY <1>11 DEF Open, scratch
  <2> QED  BY <1>1, <1>4, <1>5, <1>6, <1>10, <2>1
<1>12. ASSUME NEW k \in Keys, NEW v \in Stored, Write(k, v)
       PROVE  OneVersion'
  <2>1. disk' = disk /\ out' = out /\ pc # "closed"
    BY <1>12 DEF Write, scratch
  <2>2. CASE mutSize + EntryBytes(v) <= MaxMemtableBytes
    <3>1. Insert(mut, k, v) /\ imms' = imms /\ op' = op
      BY <1>12, <2>2 DEF Write, scratch
    <3> QED  BY <1>1, <2>1, <3>1, InsertVersion
  <2>3. CASE ~(mutSize + EntryBytes(v) <= MaxMemtableBytes)
    <3>1. imms' = Append(imms, mut) /\ mut' = EmptyTable
          /\ op' = [key |-> k, val |-> v]
      BY <1>12, <2>3 DEF Write
    <3>2. \A p \in DOMAIN imms' : \/ p \in DOMAIN imms /\ imms'[p] = imms[p]
                                  \/ imms'[p] = mut
      BY <1>1, <3>1 DEF TypeOK
    <3>3. \A x \in Keys : InMemory(x)' \subseteq Versions(x) \cup {NoEntry}
      BY <1>3, <3>1, <3>2 DEF InMemory, Versions
    <3>4. op'.val \in Stored
      BY <3>1
    <3> QED  BY <1>4, <1>5, <1>10, <2>1, <3>3, <3>4
  <2> QED  BY <2>2, <2>3
<1>13. CASE FinishWrite
  <2>1. /\ Insert(mut, op.key, op.val) /\ UNCHANGED <<imms, disk>>
        /\ op'.val \in Stored /\ out' = EmptyTable /\ pc # "closed"
    BY <1>2, <1>13 DEF FinishWrite
  <2>2. op.key \in Keys
    BY <1>1 DEF TypeOK
  <2> QED  BY <1>1, <2>1, <2>2, InsertVersion
<1>14. CASE FlushCreate
  <2>1. UNCHANGED <<mut, imms>> /\ nextFileId \in FileIds /\ imms # <<>>
    BY <1>14 DEF FlushCreate
  <2>2. CASE Throw /\ UNCHANGED disk
    <3>1. op'.val \in Stored /\ out' = EmptyTable
      BY <1>2, <2>2 DEF Throw
    <3> QED  BY <1>3, <1>4, <1>5, <1>6, <2>1, <2>2, <3>1
  <2>3. CASE /\ out' = Head(imms)
             /\ disk' = [disk EXCEPT ![nextFileId] = BadFile]
             /\ op' = op
    <3>1. Head(imms) = imms[1] /\ 1 \in DOMAIN imms
      BY <1>1, <2>1 DEF TypeOK
    <3>2. \A k \in Keys : out'[k] \in Versions(k) \cup {NoEntry}
      BY <2>3, <3>1 DEF Versions, InMemory
    <3> QED  BY <1>1, <1>4, <1>6, <1>7, <2>1, <2>3, <3>2
  <2> QED  BY <1>14, <2>2, <2>3 DEF FlushCreate
<1>15. CASE FlushWrite
  <2>1. /\ pc = "flushWrite" /\ mut' = mut /\ op' = op
        /\ disk' = [disk EXCEPT ![nextFileId - 1] = FileWritten]
        /\ imms' = imms \/ (imms # <<>> /\ imms' = Tail(imms))
        /\ out' = out \/ out' = EmptyTable
    BY <1>1, <1>15, WholeLines DEF FlushWrite, EraseFlushed, TypeInv, Control
  <2> QED  BY <1>1, <1>3, <1>4, <1>6, <1>8, <1>9, <1>10, <2>1
<1>16. CASE CompactCreate
  <2>1. /\ pc = "compact" /\ UNCHANGED <<mut, imms>> /\ nextFileId \in FileIds
        /\ flushed # <<>>
        /\ disk' = disk \/ disk' = [disk EXCEPT ![nextFileId] = BadFile]
    BY <1>1, <1>16 DEF CompactCreate, TypeInv, Control
  <2>2. op'.val \in Stored
        /\ \E skipped : out' \in {EmptyTable, CompactEntries(disk, flushed, skipped)}
    BY <1>1, <1>2, <1>16 DEF CompactCreate, Throw
  <2>3. \A k \in Keys : out'[k] \in Versions(k) \cup {NoEntry}
    BY <1>1, <1>3, <2>1, <2>2, LiveVersions DEF Versions
  <2> QED  BY <1>4, <1>5, <1>6, <1>7, <2>1, <2>2, <2>3
<1>17. CASE CompactWrite
  <2>1. /\ pc = "compactWrite" /\ UNCHANGED <<mut, imms, op, out>>
        /\ disk' = [disk EXCEPT ![nextFileId - 1] = FileWritten]
    BY <1>17, WholeLines DEF CompactWrite, memory, scratch
  <2> QED  BY <1>1, <1>4, <1>6, <1>8, <1>9, <1>10, <2>1
<1>18. CASE CompactRemove
  <2>1. /\ removed < Len(flushed) /\ UNCHANGED <<mut, imms, op, out>>
        /\ disk' = [disk EXCEPT ![NextRemoved] = NoFile]
    BY <1>18 DEF CompactRemove, Reliable, memory
  <2>2. NextRemoved \in FileIds
    <3>1. removed + 1 \in DOMAIN flushed
      BY <1>1, <2>1 DEF TypeOK
    <3> QED  BY <1>1, <3>1, DescriptorType DEF TypeOK, NextRemoved
  <2> QED  BY <1>1, <1>4, <1>6, <1>7, <1>10, <2>1, <2>2
<1>19. CASE CompactDone
  <2>1. /\ pc = "compactRemove" /\ disk' = disk /\ mut' = mut /\ op' = op
        /\ imms # <<>> /\ imms' = Tail(imms) /\ out' = EmptyTable
    BY <1>1, <1>19 DEF CompactDone, EraseFlushed, TypeInv, Control
  <2> QED  BY <1>1, <1>3, <1>4, <1>5, <1>6, <2>1
<1>20. CASE Close \/ Crash
  <2>1. /\ mut' = EmptyTable /\ imms' = <<>> /\ out' = EmptyTable
        /\ op'.val \in Stored
    BY <1>2, <1>20 DEF Close, Crash, NoMemory
  <2>2. \A k \in Keys : InMemory(k)' \subseteq Versions(k) \cup {NoEntry}
    BY <1>3, <2>1 DEF InMemory
  <2>3. \/ disk' = disk
        \/ /\ pc \in {"flushWrite", "compactWrite"}
           /\ \E f \in PartialFiles(FileWritten, FALSE) :
                disk' = [disk EXCEPT ![nextFileId - 1] = f]
    BY <1>20 DEF Close, Crash, Reliable
  <2>4. \A k \in Keys : InFiles(k)' \subseteq Versions(k) \cup {NoEntry}
    BY <1>5, <1>8, <2>3
  <2> QED  BY <1>3, <1>4, <2>1, <2>2, <2>4
<1>21. CASE UNCHANGED vars
  BY <1>1, <1>4, <1>5, <1>6, <1>10, <1>21 DEF vars, memory, scratch
<1>22. \A v \in ClientValues \cup {Tombstone} : v \in Stored
  BY DEF Stored
<1> QED  BY <1>11, <1>12, <1>13, <1>14, <1>15, <1>16, <1>17, <1>18, <1>19,
            <1>20, <1>21, <1>22 DEF Next, Put, Delete, Internal
-----------------------------------------------------------------------------
(* The memtables still to be flushed are strictly newer *)

LEMMA EmptyBefore ==
    ASSUME NEW t \in Table
    PROVE  Before(EmptyTable, t) /\ Before(t, EmptyTable)
  BY DEF Before, EmptyTable, NoEntry

\* A table whose entries are those of flushable tables.
LEMMA DrawnIsFlushable ==
    ASSUME TypeOK, NEW t,
           \A k \in Keys : \/ t[k].seq = 0
                           \/ \E s : Flushable(s) /\ t[k].seq = s[k].seq
    PROVE  Flushable(t)
<1>1. \A p \in DOMAIN imms : \A k \in Keys : imms[p][k].seq \in Nat
  BY AllTables, TableType
<1>2. \A k \in Keys : mut[k].seq \in Nat
  BY AllTables, TableType
<1>3. Before(t, mut)
  <2> SUFFICES ASSUME NEW k \in Keys, mut[k].seq > 0 PROVE t[k].seq < mut[k].seq
    BY DEF Before
  <2> QED  BY <1>2 DEF Flushable, Before
<1>4. ASSUME NEW p \in DOMAIN imms, p > 1
      PROVE  Before(t, imms[p])
  <2> SUFFICES ASSUME NEW k \in Keys, imms[p][k].seq > 0
               PROVE  t[k].seq < imms[p][k].seq
    BY DEF Before
  <2> QED  BY <1>1, <1>4 DEF Flushable, Before
<1> QED  BY <1>3, <1>4 DEF Flushable

LEMMA FrontIsFlushable ==
    ASSUME TypeOK, Strict, pc # "closed", imms # <<>>
    PROVE  Flushable(Head(imms))
<1>1. imms \in Seq(Table)
  BY DEF TypeOK
<1>2. Head(imms) = imms[1] /\ 1 \in DOMAIN imms
  BY <1>1
<1> QED  BY <1>2 DEF Strict, Flushable

\* A step that moves entries to files, or erases the front.
LEMMA StrictKept ==
    ASSUME TypeOK, Strict, pc # "closed", UNCHANGED mut,
           imms' = imms \/ (imms # <<>> /\ imms' = Tail(imms)),
           \A id \in FileIds : Flushable(disk'[id].ents),
           Flushable(out')
    PROVE  Strict'
<1>1. ASSUME NEW t, Flushable(t)
      PROVE  /\ Before(t, mut')
             /\ \A p \in DOMAIN imms' : p > 1 => Before(t, imms'[p])
  <2>1. CASE imms' = imms
    BY <1>1, <2>1 DEF Flushable
  <2>2. CASE imms # <<>> /\ imms' = Tail(imms)
    <3>1. imms \in Seq(Table)
      BY DEF TypeOK
    <3>2. \A p \in DOMAIN imms' : /\ p + 1 > 1 /\ p + 1 \in DOMAIN imms
                                  /\ imms'[p] = imms[p + 1]
      BY <2>2, <3>1
    <3> QED  BY <1>1, <3>2 DEF Flushable
  <2> QED  BY <2>1, <2>2
<1>2. /\ \A p, q \in DOMAIN imms' : p < q => Before(imms'[p], imms'[q])
      /\ \A p \in DOMAIN imms' : Before(imms'[p], mut')
  <2>1. CASE imms' = imms
    BY <2>1 DEF Strict
  <2>2. CASE imms # <<>> /\ imms' = Tail(imms)
    <3>1. imms \in Seq(Table)
      BY DEF TypeOK
    <3>2. \A p \in DOMAIN imms' : /\ p \in Nat /\ p + 1 \in DOMAIN imms
                                  /\ imms'[p] = imms[p + 1]
      BY <2>2, <3>1
    <3>3. \A p, q \in DOMAIN imms' : p < q => p + 1 < q + 1
      BY <3>2
    <3> QED  BY <3>2, <3>3 DEF Strict
  <2> QED  BY <2>1, <2>2
<1>3. \A id \in FileIds : Flushable(disk[id].ents)'
  <2> TAKE id \in FileIds
  <2> QED  BY <1>1 DEF Flushable
<1>4. Flushable(out)'
  BY <1>1 DEF Flushable
<1> QED  BY <1>2, <1>3, <1>4 DEF Strict

\* An insertion in the mutable memtable.
LEMMA InsertStrict ==
    ASSUME FreshInv, Strict, pc # "closed",
           NEW k \in Keys, NEW v \in Values \cup {Tombstone},
           Insert(mut, k, v), UNCHANGED <<imms, disk>>,
           out' \in {out, EmptyTable}
    PROVE  Strict'
<1>1. TypeOK /\ TypeInv /\ SeqsBelow /\ nextSeq \in Nat \ {0} /\ mut \in Table
  BY DEF FreshInv, TypeInv, TypeOK
<1>2. mut'[k].seq = nextSeq /\ \A x \in Keys \ {k} : mut'[x] = mut[x]
  BY <1>1, InsertType
<1>3. ASSUME NEW t \in Table, Below(t, nextSeq), Before(t, mut)
      PROVE  Before(t, mut')
  BY <1>2, <1>3 DEF Before, Below
<1>4. ASSUME NEW t \in Table, Below(t, nextSeq), Flushable(t)
      PROVE  Flushable(t)'
  BY <1>3, <1>4 DEF Flushable
<1>5. \A id \in FileIds : Flushable(disk[id].ents)'
  <2> TAKE id \in FileIds
  <2>1. disk[id].ents \in Table /\ Below(disk[id].ents, nextSeq)
        /\ Flushable(disk[id].ents)
    BY <1>1, AllTables DEF SeqsBelow, Strict
  <2> QED  BY <1>3, <2>1 DEF Flushable
<1>6. Flushable(out)'
  <2>1. out' \in Table /\ Below(out', nextSeq) /\ Flushable(out')
    <3>1. CASE out' = out
      BY <1>1, <3>1, AllTables DEF SeqsBelow, Strict
    <3>2. CASE out' = EmptyTable
      <4>1. Flushable(EmptyTable)
        BY <1>1, EmptyBefore, AllTables DEF Flushable
      <4> QED  BY <1>1, <3>2, <4>1, EmptyTableType, EmptyBelow
    <3> QED  BY <3>1, <3>2
  <2> QED  BY <1>3, <2>1 DEF Flushable
<1>7. \A p \in DOMAIN imms : Before(imms[p], mut')
  BY <1>1, <1>3, AllTables DEF SeqsBelow, Strict
<1> QED  BY <1>5, <1>6, <1>7 DEF Strict

LEMMA InitStrict == Init => Strict
  BY DEF Init, Strict

\* What WriteSSTable adds to the files is what was given to it.
LEMMA WrittenFlushable ==
    ASSUME TypeInv, Strict, pc \in {"flushWrite", "compactWrite"},
           disk' = [disk EXCEPT ![nextFileId - 1] = FileWritten]
    PROVE  \A id \in FileIds : Flushable(disk'[id].ents)
<1>1. TypeOK /\ nextFileId - 1 \in FileIds /\ KeysOf(out) # {}
  BY DEF TypeInv, Control
<1>2. \A k \in Keys : FileWritten.ents[k].seq = out[k].seq
  BY <1>1, FileWrittenOK
<1>3. Flushable(out) /\ \A id \in FileIds : Flushable(disk[id].ents)
  BY DEF Strict
<1>4. Flushable(FileWritten.ents)
  BY <1>1, <1>2, <1>3, DrawnIsFlushable
<1>5. /\ disk'[nextFileId - 1] = FileWritten
      /\ \A id \in FileIds \ {nextFileId - 1} : disk'[id] = disk[id]
  BY <1>1 DEF TypeOK
<1> QED  BY <1>3, <1>4, <1>5

LEMMA NextStrict ==
    ASSUME OrderInv, Reliable, Strict, [Next]_vars
    PROVE  Strict'
<1>1. FreshInv /\ TypeInv /\ TypeOK /\ Gone
  BY DEF OrderInv, FreshInv, TypeInv
<1>2. NoScratch => out' = EmptyTable
  BY DEF NoScratch
<1>3. Flushable(EmptyTable)
  BY <1>1, EmptyBefore, AllTables DEF Flushable
<1>4. pc # "closed" =>
         Flushable(out) /\ \A id \in FileIds : Flushable(disk[id].ents)
  BY DEF Strict
\* A file becomes empty.
<1>5. ASSUME pc # "closed", NEW n \in FileIds, NEW f \in {NoFile, BadFile},
             disk' = [disk EXCEPT ![n] = f]
      PROVE  \A id \in FileIds : Flushable(disk'[id].ents)
  <2>1. /\ disk'[n].ents = EmptyTable
        /\ \A id \in FileIds \ {n} : disk'[id] = disk[id]
    BY <1>1, <1>5, NoFileOK DEF TypeOK
  <2> QED  BY <1>3, <1>4, <1>5, <2>1
<1>6. ASSUME NEW u \in BOOLEAN, NEW b \in BloomModes, Open(u, b)
      PROVE  Strict'
  <2>1. mut' = EmptyTable /\ imms' = <<>>
    BY <1>1, <1>6 DEF Open, Gone
  <2>2. \A t : Before(t, EmptyTable)
    BY DEF Before, EmptyTable, NoEntry
  <2> QED  BY <2>1, <2>2 DEF Strict, Flushable
<1>7. ASSUME NEW k \in Keys, NEW v \in Values \cup {Tombstone}, Write(k, v)
      PROVE  Strict'
  <2>1. disk' = disk /\ out' = out /\ pc # "closed"
    BY <1>7 DEF Write, scratch
  <2>2. CASE mutSize + EntryBytes(v) <= MaxMemtableBytes
    <3>1. Insert(mut, k, v) /\ imms' = imms
      BY <1>7, <2>2 DEF Write
    <3> QED  BY <1>1, <2>1, <3>1, InsertStrict
  <2>3. CASE ~(mutSize + EntryBytes(v) <= MaxMemtableBytes)
    <3>1. imms' = Append(imms, mut) /\ mut' = EmptyTable
      BY <1>7, <2>3 DEF Write
    <3>2. /\ DOMAIN imms = 1 .. Len(imms) /\ Len(imms) \in Nat
          /\ DOMAIN imms' = 1 .. Len(imms) + 1
          /\ imms'[Len(imms) + 1] = mut
          /\ \A p \in DOMAIN imms : imms'[p] = imms[p]
      BY <1>1, <3>1 DEF TypeOK
    <3>3. \A t : Before(t, EmptyTable)
      BY DEF Before, EmptyTable, NoEntry
    <3>4. \A p \in DOMAIN imms' : Before(imms'[p], mut')
      BY <3>1, <3>3
    <3>5. ASSUME NEW p \in DOMAIN imms', NEW q \in DOMAIN imms', p < q
          PROVE  Before(imms'[p], imms'[q])
      <4>1. p \in DOMAIN imms
        BY <3>2, <3>5
      <4>2. CASE q \in DOMAIN imms
        BY <2>1, <3>2, <3>5, <4>1, <4>2 DEF Strict
      <4>3. CASE q = Len(imms) + 1
        BY <2>1, <3>2, <4>1, <4>3 DEF Strict
      <4> QED  BY <3>2, <4>2, <4>3
    <3>6. ASSUME NEW t, Flushable(t)
          PROVE  /\ Before(t, mut')
                 /\ \A p \in DOMAIN imms' : p > 1 => Before(t, imms'[p])
      BY <3>1, <3>2, <3>3, <3>6 DEF Flushable
    <3>7. Flushable(out)' /\ \A id \in FileIds : Flushable(disk[id].ents)'
      BY <1>4, <2>1, <3>6 DEF Flushable
    <3> QED  BY <3>4, <3>5, <3>7 DEF Strict
  <2> QED  BY <2>2, <2>3
<1>8. CASE FinishWrite
  <2>1. /\ Insert(mut, op.key, op.val) /\ UNCHANGED <<imms, disk>>
        /\ out' = EmptyTable /\ pc # "closed"
    BY <1>2, <1>8 DEF FinishWrite
  <2>2. op.key \in Keys /\ op.val \in Values \cup {Tombstone}
    BY <1>1 DEF TypeOK
  <2> QED  BY <1>1, <2>1, <2>2, InsertStrict
<1>9. CASE FlushCreate
  <2>1. UNCHANGED <<mut, imms>> /\ nextFileId \in FileIds /\ imms # <<>>
        /\ pc # "closed"
    BY <1>9 DEF FlushCreate
  <2>2. CASE Throw /\ UNCHANGED disk
    <3>1. out' = EmptyTable
      BY <1>2, <2>2 DEF Throw
    <3> QED  BY <1>1, <1>3, <1>4, <2>1, <2>2, <3>1, StrictKept
  <2>3. CASE /\ out' = Head(imms)
             /\ disk' = [disk EXCEPT ![nextFileId] = BadFile]
    BY <1>1, <1>5, <2>1, <2>3, FrontIsFlushable, StrictKept
  <2> QED  BY <1>9, <2>2, <2>3 DEF FlushCreate
<1>10. CASE FlushWrite
  <2>1. /\ pc = "flushWrite" /\ mut' = mut
        /\ disk' = [disk EXCEPT ![nextFileId - 1] = FileWritten]
        /\ imms' = imms \/ (imms # <<>> /\ imms' = Tail(imms))
        /\ out' = out \/ out' = EmptyTable
    BY <1>1, <1>10, WholeLines DEF FlushWrite, EraseFlushed, TypeInv, Control
  <2>2. \A id \in FileIds : Flushable(disk'[id].ents)
    BY <1>1, <2>1, WrittenFlushable
  <2> QED  BY <1>1, <1>3, <1>4, <2>1, <2>2, StrictKept
<1>11. CASE CompactCreate
  <2>1. /\ pc = "compact" /\ UNCHANGED <<mut, imms>> /\ nextFileId \in FileIds
        /\ flushed # <<>>
        /\ disk' = disk \/ disk' = [disk EXCEPT ![nextFileId] = BadFile]
    BY <1>1, <1>11 DEF CompactCreate, TypeInv, Control
  <2>2. \E skipped : out' \in {EmptyTable, CompactEntries(disk, flushed, skipped)}
    BY <1>2, <1>11 DEF CompactCreate, Throw
  <2>3. \A k \in Keys : \/ out'[k].seq = 0
                        \/ \E s : Flushable(s) /\ out'[k].seq = s[k].seq
    <3>1. \A k \in Keys : out'[k] \in InFiles(k) \cup {NoEntry}
      BY <1>1, <2>1, <2>2, LiveVersions DEF EmptyTable
    <3>2. NoEntry.seq = 0
      BY NoEntryType
    <3> QED  BY <1>4, <2>1, <3>1, <3>2 DEF InFiles
  <2>4. Flushable(out')
    BY <1>1, <2>3, DrawnIsFlushable
  <2> QED  BY <1>1, <1>4, <1>5, <2>1, <2>4, StrictKept
<1>12. CASE CompactWrite
  <2>1. /\ pc = "compactWrite" /\ UNCHANGED <<mut, imms, out>>
        /\ disk' = [disk EXCEPT ![nextFileId - 1] = FileWritten]
    BY <1>12, WholeLines DEF CompactWrite, memory, scratch
  <2> QED  BY <1>1, <1>4, <2>1, WrittenFlushable, StrictKept
<1>13. CASE CompactRemove
  <2>1. /\ pc = "compactRemove" /\ removed < Len(flushed)
        /\ UNCHANGED <<mut, imms, out>>
        /\ disk' = [disk EXCEPT ![NextRemoved] = NoFile]
    BY <1>13 DEF CompactRemove, Reliable, memory
  <2>2. NextRemoved \in FileIds
    <3>1. removed + 1 \in DOMAIN flushed
      BY <1>1, <2>1 DEF TypeOK
    <3> QED  BY <1>1, <3>1, DescriptorType DEF TypeOK, NextRemoved
  <2> QED  BY <1>1, <1>4, <1>5, <2>1, <2>2, StrictKept
<1>14. CASE CompactDone
  <2>1. /\ pc = "compactRemove" /\ disk' = disk /\ mut' = mut
        /\ imms # <<>> /\ imms' = Tail(imms) /\ out' = EmptyTable
    BY <1>1, <1>14 DEF CompactDone, EraseFlushed, TypeInv, Control
  <2> QED  BY <1>1, <1>3, <1>4, <2>1, StrictKept
<1>15. CASE Close \/ Crash
  <2>1. pc' = "closed"
    BY <1>15 DEF Close, Crash
  <2> QED  BY <2>1 DEF Strict
<1>16. CASE UNCHANGED vars
  BY <1>16 DEF vars, memory, scratch, Strict, Flushable
<1>17. ClientValues \subseteq Values
  BY LSMDBAssumption
<1> QED  BY <1>6, <1>7, <1>8, <1>9, <1>10, <1>11, <1>12, <1>13, <1>14, <1>15,
            <1>16, <1>17 DEF Next, Put, Delete, Internal
-----------------------------------------------------------------------------
(* What the files have after a step *)

LEMMA SameRecovered ==
    ASSUME \A id \in FileIds : disk'[id].ents = disk[id].ents, NEW k \in Keys
    PROVE  Recovered(k)' = Recovered(k)
<1> DEFINE holding == {id \in FileIds : disk[id].ents[k].seq > 0}
           later   == {id \in FileIds : disk'[id].ents[k].seq > 0}
<1>1. later = holding
  OBVIOUS
<1>2. Recovered(k) = IF holding = {} THEN NoEntry ELSE disk[Max(holding)].ents[k]
  BY DEF Recovered
<1>3. Recovered(k)' = IF later = {} THEN NoEntry ELSE disk'[Max(later)].ents[k]
  BY DEF Recovered
<1>4. holding # {} => Max(holding) \in FileIds
  <2>1. IsFiniteSet(FileIds) /\ FileIds \subseteq Int
    BY FS_Interval DEF FileIds
  <2>2. IsFiniteSet(holding) /\ holding \in SUBSET Int
    BY <2>1, FS_Subset
  <2>3. holding \subseteq FileIds
    OBVIOUS
  <2> HIDE DEF holding
  <2> QED  BY <2>2, <2>3, MaxProperties
<1> HIDE DEF holding, later
<1> QED  BY <1>1, <1>2, <1>3, <1>4

\* Creating a file loses nothing, for its id is new.
LEMMA CreatedEntries ==
    ASSUME FreshInv, pc # "closed", nextFileId \in FileIds,
           disk' = [disk EXCEPT ![nextFileId] = BadFile]
    PROVE  \A id \in FileIds : disk'[id].ents = disk[id].ents
<1>1. TypeOK /\ FilesOK /\ IdsBelow
  BY DEF FreshInv, TypeInv
<1>2. /\ disk'[nextFileId] = BadFile
      /\ \A id \in FileIds \ {nextFileId} : disk'[id] = disk[id]
  BY <1>1 DEF TypeOK
<1>3. disk[nextFileId].status # "ok"
  <2>1. ~(nextFileId < nextFileId)
    BY DEF FileIds
  <2> QED  BY <1>1, <2>1 DEF IdsBelow
<1>4. disk[nextFileId].ents = EmptyTable /\ disk'[nextFileId].ents = EmptyTable
  BY <1>1, <1>2, <1>3, NoFileOK DEF FilesOK
<1> QED  BY <1>2, <1>4

\* The file being written is the newest: its entries are what the files then
\* have, and of other keys they have what they had.
LEMMA FilledRecovered ==
    ASSUME OrderInv, OrderInv', OneVersion, OneVersion',
           pc \in {"flushWrite", "compactWrite"},
           NEW f, disk' = [disk EXCEPT ![nextFileId - 1] = f],
           NEW k \in Keys, f.ents[k] \in {NoEntry, out[k]}
    PROVE  Recovered(k)' = IF f.ents[k].seq > 0 THEN out[k] ELSE Recovered(k)
<1> DEFINE n == nextFileId - 1
<1>1. /\ TypeOK /\ TypeOK' /\ DiskOrder /\ DiskOrder' /\ OutOrder
      /\ FilesOK /\ IdsBelow /\ n \in FileIds
  BY DEF OrderInv, FreshInv, TypeInv, Control
<1> HIDE DEF n
<1>2. disk'[n] = f /\ \A id \in FileIds \ {n} : disk'[id] = disk[id]
  BY <1>1 DEF TypeOK, n
<1>3. NoEntry.seq = 0 /\ f.ents[k] = disk'[n].ents[k]
  BY <1>2, NoEntryType
<1>4. disk[n].ents[k] = NoEntry
  BY <1>1 DEF IdsBelow, FilesOK, EmptyTable, n
<1>5. /\ out[k] \in Entry /\ out[k].seq \in Nat
      /\ \A id \in FileIds : disk[id].ents[k].seq \in Nat
      /\ IsNewest(disk, k, Recovered(k)) /\ Recovered(k).seq \in Nat
  <2>1. IsNewest(disk, k, Recovered(k))
    BY <1>1, RecoveredNewest
  <2> QED  BY <1>1, <2>1, AllTables, TableType, FileEntries, EntryType
           DEF IsNewest, TypeOK
<1>6. CASE f.ents[k].seq > 0
  <2>0. f.ents[k] = out[k] /\ out[k].seq > 0
    BY <1>3, <1>6
  <2>1. \A id \in FileIds : disk[id].ents[k].seq <= out[k].seq
    BY <1>1, <1>5, <2>0 DEF OutOrder, Ordered
  <2>2. \A id \in FileIds : disk'[id].ents[k].seq <= out[k].seq
    BY <1>1, <1>2, <1>5, <2>0, <2>1
  <2>3. IsNewest(disk', k, out[k])
    BY <1>1, <1>2, <1>5, <2>0, <2>2 DEF IsNewest
  <2>4. Recovered(k)' = out[k]
    BY <1>1, <2>3, NewestIsRecoveredNext
  <2> QED  BY <1>6, <2>4
<1>7. CASE ~(f.ents[k].seq > 0)
  <2> DEFINE r == Recovered(k)
  <2>0. f.ents[k].seq = 0 /\ r.seq \in Nat /\ IsNewest(disk, k, r)
    BY <1>3, <1>5, <1>7
  <2> HIDE DEF r
  <2>1. \A id \in FileIds : disk'[id].ents[k].seq <= r.seq
    BY <1>2, <1>3, <2>0 DEF IsNewest
  <2>2. r # NoEntry => \E id \in FileIds : r = disk'[id].ents[k]
    BY <1>2, <1>4, <2>0 DEF IsNewest
  <2>3. IsNewest(disk', k, r)
    BY <2>0, <2>1, <2>2 DEF IsNewest
  <2>4. Recovered(k)' = r
    BY <1>1, <2>3, NewestIsRecoveredNext
  <2> QED  BY <1>7, <2>4 DEF r
<1> QED  BY <1>6, <1>7

LEMMA WrittenRecovered ==
    ASSUME OrderInv, OrderInv', OneVersion, OneVersion', WholeValues,
           pc \in {"flushWrite", "compactWrite"},
           disk' = [disk EXCEPT ![nextFileId - 1] = FileWritten],
           NEW k \in Keys
    PROVE  Recovered(k)' = IF out[k].seq > 0 THEN out[k] ELSE Recovered(k)
<1>1. FileWritten.ents[k] = out[k]
  BY WrittenWhole DEF OrderInv, FreshInv, TypeInv
<1> QED  BY <1>1, FilledRecovered

\* Removing the oldest file takes away at most an entry that no other file has,
\* and then the files have nothing of its key.
LEMMA OldestRemoved ==
    ASSUME TypeOK, TypeOK', DiskOrder, DiskOrder', OneVersion, OneVersion',
           FilesOK, NEW n \in FileIds, disk' = [disk EXCEPT ![n] = NoFile],
           \A id \in FileIds \ {n} : disk[id].status = "ok" => n < id,
           NEW k \in Keys
    PROVE  \/ Recovered(k)' = Recovered(k)
           \/ /\ Recovered(k)' = NoEntry
              /\ Recovered(k).seq > 0
              /\ \A id \in FileIds \ {n} : disk[id].ents[k].seq = 0
<1> DEFINE r == Recovered(k)
<1>1. /\ disk'[n].ents[k] = NoEntry
      /\ \A id \in FileIds \ {n} : disk'[id] = disk[id]
  BY NoFileOK DEF TypeOK, EmptyTable
<1>2. IsNewest(disk, k, r) /\ r.seq \in Nat
      /\ \A id \in FileIds : disk[id].ents[k].seq \in Nat
  <2>1. IsNewest(disk, k, r)
    BY RecoveredNewest
  <2> HIDE DEF r
  <2> QED  BY <2>1, FileEntries, EntryType DEF IsNewest, TypeOK
<1>3. NoEntry.seq = 0 /\ NoEntry \in Entry
  BY NoEntryType
<1>4. r.seq = 0 => r = NoEntry
  <2> HIDE DEF r
  <2> QED  BY <1>2, EntryType DEF IsNewest
<1> HIDE DEF r
<1>5. ASSUME r = NoEntry \/ \E id \in FileIds \ {n} : r = disk[id].ents[k]
      PROVE  Recovered(k)' = r
  <2>1. IsNewest(disk', k, r)
    BY <1>1, <1>2, <1>3, <1>5 DEF IsNewest
  <2> QED  BY <2>1, NewestIsRecoveredNext
<1>6. ASSUME r # NoEntry, ~ \E id \in FileIds \ {n} : r = disk[id].ents[k]
      PROVE  /\ Recovered(k)' = NoEntry
             /\ \A id \in FileIds \ {n} : disk[id].ents[k].seq = 0
  <2>1. r = disk[n].ents[k] /\ r.seq > 0
    BY <1>2, <1>4, <1>6 DEF IsNewest
  <2>2. ASSUME NEW id \in FileIds \ {n}
        PROVE  disk[id].ents[k].seq = 0
    <3>1. SUFFICES ASSUME disk[id].ents[k].seq > 0 PROVE FALSE
      BY <1>2
    <3>2. disk[id].status = "ok"
      BY <3>1, <1>3 DEF FilesOK, EmptyTable
    <3>3. disk[n].ents[k].seq <= disk[id].ents[k].seq
      BY <2>1, <3>1, <3>2 DEF DiskOrder, Ordered
    <3>4. disk[id].ents[k].seq = r.seq
      BY <1>2, <2>1, <3>3 DEF IsNewest
    <3>5. disk[id].ents[k] \in Versions(k) /\ disk[n].ents[k] \in Versions(k)
      BY DEF Versions, InFiles
    <3>6. disk[id].ents[k] = r
      BY <2>1, <3>4, <3>5 DEF OneVersion
    <3> QED  BY <1>6, <3>6
  <2>3. IsNewest(disk', k, NoEntry)
    BY <1>1, <1>3, <2>2 DEF IsNewest
  <2> QED  BY <2>2, <2>3, NewestIsRecoveredNext
<1>7. r # NoEntry => r.seq > 0
  BY <1>2, <1>4
<1> QED  BY <1>5, <1>6, <1>7 DEF r

\* A removal takes the oldest file, and never the compacted one.
LEMMA RemovedIsOldest ==
    ASSUME OrderInv, Reliable, CompactRemove
    PROVE  /\ NextRemoved \in FileIds
           /\ disk' = [disk EXCEPT ![NextRemoved] = NoFile]
           /\ \A id \in FileIds \ {NextRemoved} :
                disk[id].status = "ok" => NextRemoved < id
           /\ NextRemoved # nextFileId - 1
<1>1. TypeOK /\ ListOrder /\ Listed
  BY DEF OrderInv, FreshInv, TypeInv
<1>2. /\ pc = "compactRemove" /\ removed < Len(flushed)
      /\ disk' = [disk EXCEPT ![NextRemoved] = NoFile]
  BY DEF CompactRemove, Reliable
<1>3. /\ removed \in Nat /\ Len(flushed) \in Nat
      /\ DOMAIN flushed = 1 .. Len(flushed)
      /\ removed + 1 \in DOMAIN flushed
      /\ NextRemoved = flushed[removed + 1].id
  BY <1>1, <1>2 DEF TypeOK, NextRemoved
<1>4. /\ NextRemoved \in FileIds /\ NextRemoved \in Nat /\ nextFileId \in Nat
      /\ NextRemoved < nextFileId - 1
  BY <1>2, <1>3, ListedIds
<1>5. ASSUME NEW id \in FileIds \ {NextRemoved}, disk[id].status = "ok"
      PROVE  NextRemoved < id
  <2>1. id \in SSTables(disk)
    BY <1>1, <1>5 DEF SSTables, TypeOK
  <2>2. CASE id = nextFileId - 1
    BY <1>4, <2>2
  <2>3. CASE \E j \in removed + 1 .. Len(flushed) : id = flushed[j].id
    <3>1. PICK j \in removed + 1 .. Len(flushed) : id = flushed[j].id
      BY <2>3
    <3>2. j \in DOMAIN flushed /\ removed + 1 < j
      BY <1>3, <1>5, <3>1
    <3> QED  BY <1>1, <1>2, <1>3, <3>1, <3>2 DEF ListOrder
  <2> QED  BY <1>1, <1>2, <2>1, <2>2, <2>3 DEF Listed
<1> QED  BY <1>2, <1>4, <1>5

LEMMA RemovedRecovered ==
    ASSUME OrderInv, OrderInv', Reliable, WholeValues, Described,
           OneVersion, OneVersion', CompactRemove, NEW k \in Keys
    PROVE  \/ Recovered(k)' = Recovered(k)
           \/ /\ Recovered(k)' = NoEntry /\ Recovered(k).seq > 0
              /\ out[k] = NoEntry
<1>1. TypeOK /\ TypeOK' /\ DiskOrder /\ DiskOrder' /\ FilesOK /\ TypeInv
      /\ nextFileId - 1 \in FileIds /\ pc = "compactRemove"
  BY DEF OrderInv, FreshInv, TypeInv, Control, CompactRemove
<1>2. /\ NextRemoved \in FileIds
      /\ disk' = [disk EXCEPT ![NextRemoved] = NoFile]
      /\ \A id \in FileIds \ {NextRemoved} :
           disk[id].status = "ok" => NextRemoved < id
      /\ NextRemoved # nextFileId - 1
  BY RemovedIsOldest
<1>3. \/ Recovered(k)' = Recovered(k)
      \/ /\ Recovered(k)' = NoEntry
         /\ Recovered(k).seq > 0
         /\ \A id \in FileIds \ {NextRemoved} : disk[id].ents[k].seq = 0
  BY <1>1, <1>2, OldestRemoved
<1>4. out[k] \in Entry /\ out[k].seq \in Nat
  BY <1>1, AllTables, TableType
<1>5. ASSUME \A id \in FileIds \ {NextRemoved} : disk[id].ents[k].seq = 0
      PROVE  out[k] = NoEntry
  <2>1. disk[nextFileId - 1].ents[k].seq = 0
    BY <1>1, <1>2, <1>5
  <2>2. out[k].seq > 0 => KeysOf(out) # {}
    BY DEF KeysOf
  <2>3. KeysOf(out) # {} => disk[nextFileId - 1].ents[k] = out[k]
    BY <1>1, WrittenWhole DEF Described
  <2> QED  BY <1>4, <2>1, <2>2, <2>3, EntryType
<1> QED  BY <1>3, <1>5
-----------------------------------------------------------------------------
(* What is written is what the files have *)

LEMMA InitWritten == Init => Written
  BY DEF Init, Written

\* The merge keeps the value of each key that the files have of it.
LEMMA LiveIsRecovered ==
    ASSUME OrderInv, OneVersion, pc = "compact", NEW k \in Keys
    PROVE  Recovered(k).val = CompactEntries(disk, flushed, {})[k].val
<1> DEFINE live == CompactEntries(disk, flushed, {})
<1>1. /\ TypeOK /\ DiskOrder /\ FilesOK /\ flushed # <<>>
      /\ Ids(flushed) = SSTables(disk)
      /\ disk \in [FileIds -> File] /\ flushed \in Seq(Descriptor(FileIds))
      /\ \A j \in DOMAIN flushed : flushed[j].id \in FileIds
  BY DescriptorType DEF OrderInv, FreshInv, TypeInv, Control, TypeOK, Listed
<1>2. \E e \in {NoEntry} \cup {disk[flushed[j].id].ents[k] : j \in DOMAIN flushed} :
        /\ \A j \in DOMAIN flushed : flushed[j].id \notin {} =>
             disk[flushed[j].id].ents[k].seq <= e.seq
        /\ live[k] = IF e.val = Tombstone THEN NoEntry ELSE e
  <2>1. flushed # <<>> /\ disk \in [FileIds -> File]
        /\ flushed \in Seq(Descriptor(FileIds))
    BY <1>1
  <2> HIDE DEF live
  <2> QED  BY <2>1, CompactEntriesOK DEF live
<1> HIDE DEF live
<1>3. PICK e \in {NoEntry} \cup {disk[flushed[j].id].ents[k] : j \in DOMAIN flushed} :
        /\ \A j \in DOMAIN flushed : disk[flushed[j].id].ents[k].seq <= e.seq
        /\ live[k] = IF e.val = Tombstone THEN NoEntry ELSE e
  BY <1>2
<1>4. e \in Entry /\ e.seq \in Nat
  BY <1>1, FileEntries, NoEntryType
<1>5. ASSUME NEW id \in FileIds
      PROVE  disk[id].ents[k].seq <= e.seq
  <2>1. CASE disk[id].status = "ok"
    <3>1. id \in Ids(flushed)
      BY <1>1, <2>1 DEF SSTables
    <3> QED  BY <1>3, <3>1 DEF Ids
  <2>2. CASE disk[id].status # "ok"
    <3>1. disk[id].ents[k].seq = 0
      BY <1>1, <2>2 DEF FilesOK, EmptyTable, NoEntry
    <3> QED  BY <1>4, <3>1
  <2> QED  BY <2>1, <2>2
<1>6. IsNewest(disk, k, e)
  BY <1>1, <1>3, <1>4, <1>5 DEF IsNewest
<1>7. Recovered(k) = e
  BY <1>1, <1>6, NewestIsRecovered
<1>8. NoEntry.val = Tombstone
  BY DEF NoEntry
<1> QED  BY <1>3, <1>7, <1>8 DEF live

LEMMA NextWritten ==
    ASSUME OrderInv, OrderInv', Reliable, WholeValues, Described,
           OneVersion, OneVersion', Written, [Next]_vars
    PROVE  Written'
<1>1. FreshInv /\ TypeInv /\ TypeOK /\ TypeOK' /\ DiskOrder' /\ Listed
  BY DEF OrderInv, FreshInv, TypeInv
<1>2. ASSUME pc' \notin {"flushWrite", "compact", "compactWrite", "compactRemove"}
      PROVE  Written'
  BY <1>2 DEF Written
<1>3. CASE FlushCreate
  <2>1. \/ pc' = "idle"
        \/ pc' = "flushWrite" /\ out' = Head(imms) /\ imms' = imms
    BY <1>3 DEF FlushCreate, Throw
  <2> QED  BY <1>2, <2>1 DEF Written
<1>4. CASE FlushWrite
  <2>1. /\ pc = "flushWrite" /\ out = Head(imms) /\ out \in Table
        /\ disk' = [disk EXCEPT ![nextFileId - 1] = FileWritten]
    BY <1>1, <1>4, WholeLines DEF FlushWrite, Written, TypeOK
  <2>2. \/ pc' = "flush"
        \/ pc' = "compact" /\ imms' = imms
    BY <1>4 DEF FlushWrite, EraseFlushed
  <2>3. ASSUME NEW k \in Keys
        PROVE  out[k].seq <= Recovered(k)'.seq
    <3>1. Recovered(k)' = IF out[k].seq > 0 THEN out[k] ELSE Recovered(k)
      BY <2>1, WrittenRecovered
    <3>2. IsNewest(disk, k, Recovered(k))
      BY <1>1, RecoveredNewest DEF OrderInv
    <3>3. Recovered(k).seq \in Nat /\ out[k].seq \in Nat
      BY <2>1, <3>2, TableType, EntryType DEF IsNewest
    <3> QED  BY <3>1, <3>3
  <2>4. CASE pc' = "compact" /\ imms' = imms
    BY <2>1, <2>3, <2>4 DEF Written
  <2> QED  BY <1>2, <2>2, <2>4
<1>5. CASE CompactCreate
  <2>1. pc = "compact" /\ imms' = imms /\ nextFileId \in FileIds
    BY <1>5 DEF CompactCreate
  <2>2. \/ pc' = "idle"
        \/ /\ pc' \in {"compactWrite", "compactRemove"}
           /\ out' = CompactEntries(disk, flushed, {})
           /\ disk' = disk \/ disk' = [disk EXCEPT ![nextFileId] = BadFile]
    BY <1>5 DEF CompactCreate, Throw, Reliable
  <2>3. CASE /\ pc' \in {"compactWrite", "compactRemove"}
             /\ out' = CompactEntries(disk, flushed, {})
             /\ disk' = disk \/ disk' = [disk EXCEPT ![nextFileId] = BadFile]
    <3>1. \A id \in FileIds : disk'[id].ents = disk[id].ents
      BY <1>1, <2>1, <2>3, CreatedEntries
    <3>2. \A k \in Keys : Recovered(k)' = Recovered(k)
      BY <3>1, SameRecovered
    <3>3. \A k \in Keys : Recovered(k).val = out'[k].val
      BY <2>1, <2>3, LiveIsRecovered
    <3> QED  BY <2>1, <2>3, <3>2, <3>3 DEF Written
  <2> QED  BY <1>2, <2>2, <2>3
<1>6. CASE CompactWrite
  <2>1. /\ pc = "compactWrite" /\ pc' = "compactRemove" /\ out' = out
        /\ disk' = [disk EXCEPT ![nextFileId - 1] = FileWritten]
    BY <1>6, WholeLines DEF CompactWrite, scratch
  <2>2. \A k \in Keys : Recovered(k)'.val = out[k].val
    BY <2>1, WrittenRecovered DEF Written
  <2> QED  BY <2>1, <2>2 DEF Written
<1>7. CASE CompactRemove
  <2>1. pc = "compactRemove" /\ pc' = pc /\ out' = out
    BY <1>7 DEF CompactRemove, Reliable
  <2>2. \A k \in Keys : Recovered(k)'.val = out[k].val
    BY <1>7, <2>1, RemovedRecovered DEF Written
  <2> QED  BY <2>1, <2>2 DEF Written
<1>8. CASE CompactDone \/ Close \/ Crash \/ FinishWrite
  BY <1>2, <1>8 DEF CompactDone, EraseFlushed, Close, Crash, FinishWrite
<1>9. ASSUME NEW k, NEW v, Write(k, v)
      PROVE  Written'
  BY <1>2, <1>9 DEF Write
<1>10. ASSUME NEW u, NEW b, Open(u, b)
       PROVE  Written'
  BY <1>2, <1>10 DEF Open
<1>11. CASE UNCHANGED vars
  <2>1. \A k \in Keys : Recovered(k)' = Recovered(k)
    BY <1>11, SameRecovered DEF vars
  <2> QED  BY <1>11, <2>1 DEF vars, memory, scratch, Written
<1> QED  BY <1>3, <1>4, <1>5, <1>6, <1>7, <1>8, <1>9, <1>10, <1>11
         DEF Next, Put, Delete, Internal
-----------------------------------------------------------------------------
VersionsInv == OrderInv /\ Described /\ OneVersion /\ Strict /\ Written

LEMMA SpecVersionsInv ==
    ASSUME Reliable, WholeValues
    PROVE  Spec => []VersionsInv
<1>1. Init => VersionsInv
  BY InitOrderInv, InitDescribed, InitOneVersion, InitStrict, InitWritten
     DEF VersionsInv
<1>2. VersionsInv /\ [Next]_vars => VersionsInv'
  <2> SUFFICES ASSUME VersionsInv, [Next]_vars PROVE VersionsInv'
    OBVIOUS
  <2>1. OrderInv' /\ Described' /\ OneVersion' /\ Strict'
    BY NextOrderInv, NextDescribed, NextOneVersion, NextStrict DEF VersionsInv
  <2>2. Written'
    BY <2>1, NextWritten DEF VersionsInv
  <2> QED  BY <2>1, <2>2 DEF VersionsInv
<1> QED  BY <1>1, <1>2, PTL DEF Spec

\* The steps of a compaction, one by one.
LEMMA CompactionStep ==
    ASSUME VersionsInv, VersionsInv', Reliable, WholeValues, [Next]_vars,
           pc' # "closed", pc \in {"compact", "compactWrite", "compactRemove"},
           NEW k \in Keys
    PROVE  Recovered(k)'.val = Recovered(k).val
<1>1. FreshInv
  BY DEF VersionsInv, OrderInv
<1>2. CASE disk' = disk
  BY <1>2, SameRecovered
<1>3. CASE CompactCreate /\ disk' = [disk EXCEPT ![nextFileId] = BadFile]
  <2>1. nextFileId \in FileIds /\ pc # "closed"
    BY <1>3 DEF CompactCreate
  <2> QED  BY <1>1, <1>3, <2>1, CreatedEntries, SameRecovered
<1>4. CASE CompactWrite \/ (CompactRemove /\ UNCHANGED <<pc, out>>)
  <2>1. /\ pc \in {"compactWrite", "compactRemove"}
        /\ pc' = "compactRemove" /\ out' = out
    BY <1>4 DEF CompactWrite, CompactRemove, scratch
  <2> QED  BY <2>1 DEF VersionsInv, Written
<1>5. disk' = disk \/ CompactCreate \/ CompactWrite \/ CompactRemove
  <2>1. pc \notin {"closed", "idle", "flush", "flushWrite"}
    OBVIOUS
  <2>2. ~Crash
    BY DEF Crash
  <2> QED  BY <2>1, <2>2 DEF Next, Internal, Open, Put, Delete, Write, Close,
              FinishWrite, FlushCreate, FlushWrite, CompactDone, vars
<1>6. CompactCreate => disk' = disk \/ disk' = [disk EXCEPT ![nextFileId] = BadFile]
  BY DEF CompactCreate
<1>7. CompactRemove => disk' = disk \/ UNCHANGED <<pc, out>>
  BY DEF CompactRemove
<1> QED  BY <1>2, <1>3, <1>4, <1>5, <1>6, <1>7

\* While the files can be read and removed and lines hold the values, no step
\* of a compaction changes what the files say of any key.
THEOREM CompactionChangesNothing ==
    ASSUME Reliable, WholeValues
    PROVE  Spec => CompactionKeepsContents
<1>1. VersionsInv /\ VersionsInv' /\ [Next]_vars
        => [pc' # "closed" /\ pc \in {"compact", "compactWrite", "compactRemove"}
              => UNCHANGED Contents]_vars
  <2> SUFFICES ASSUME VersionsInv, VersionsInv', [Next]_vars, pc' # "closed",
                      pc \in {"compact", "compactWrite", "compactRemove"}
               PROVE  Contents' = Contents
    OBVIOUS
  <2> QED  BY CompactionStep DEF Contents
<1>2. Spec => []VersionsInv
  BY SpecVersionsInv
<1> QED  BY <1>1, <1>2, PTL DEF Spec, CompactionKeepsContents
-----------------------------------------------------------------------------
(* What Get returns *)

\* The newest of the layers is the newest pending version, if there is any, and
\* otherwise what the files have.
LEMMA LayersGive ==
    ASSUME VersionsInv, pc \in {"idle", "flush"}, NEW k \in Keys
    PROVE  LET e == FirstHit(Layers(GetTables), k)
           IN  /\ Pending(k) # {} =>
                    e \in Pending(k) /\ \A f \in Pending(k) : f.seq <= e.seq
               /\ Pending(k) = {} => e = Recovered(k)
<1> DEFINE gs == GetTables
           m == Len(flushed)
           n == Len(flushed) + Len(imms) + 1
           e == FirstHit(Layers(gs), k)
           r == Recovered(k)
<1>1. /\ OrderInv /\ Described /\ OneVersion /\ TypeOK /\ DiskOrder
      /\ FilesOK /\ Ids(flushed) = SSTables(disk)
      /\ pc # "closed" /\ pc # "compactRemove"
  BY DEF VersionsInv, OrderInv, FreshInv, TypeInv, Listed
<1>2. /\ gs \in Seq(Table) /\ Len(gs) = m
      /\ \A j \in DOMAIN flushed : gs[j][k] = disk[flushed[j].id].ents[k]
      /\ \A j \in DOMAIN flushed : flushed[j].id \in FileIds
  <2>1. MinKey \in Int
    BY SSTableAssumption
  <2>2. \A j \in DOMAIN flushed : flushed[j].id \in FileIds
    BY <1>1, ListedIds
  <2>3. /\ gs \in Seq(Table) /\ Len(gs) = m
        /\ \A j \in DOMAIN flushed : gs[j][k] = disk[flushed[j].id].ents[k]
    BY <1>1, <2>1, ReadTables
  <2> QED  BY <2>2, <2>3
<1> HIDE DEF gs
<1>3. InAgeOrder(Layers(gs), k)
  BY <1>1, <1>2, LayersInOrder
<1>4. /\ n \in Nat \ {0} /\ m \in Nat /\ m < n
      /\ DOMAIN flushed = 1 .. m /\ DOMAIN imms = 1 .. n - m - 1
      /\ DOMAIN Layers(gs) = 1 .. n
      /\ \A p \in 1 .. m : Layers(gs)[p] = gs[p]
      /\ \A p \in m + 1 .. n - 1 : /\ p - m \in DOMAIN imms
                                   /\ Layers(gs)[p] = imms[p - m]
      /\ Layers(gs)[n] = mut
  BY <1>1, <1>2, LayersAre
<1> HIDE DEF m, n
<1>5. /\ \E p \in 1 .. n : e = Layers(gs)[p][k]
      /\ \A p \in 1 .. n : Layers(gs)[p][k].seq <= e.seq
  BY <1>3, <1>4, FirstHitIsNewest
<1> HIDE DEF e
\* e is a version in the files or in memory, and newer than any.
<1>6. e \in InFiles(k) \cup InMemory(k)
  <2>1. PICK p \in 1 .. n : e = Layers(gs)[p][k]
    BY <1>5
  <2>2. CASE p \in 1 .. m
    <3>1. Layers(gs)[p] = gs[p] /\ p \in DOMAIN flushed
      BY <1>4, <2>2
    <3>2. e = disk[flushed[p].id].ents[k] /\ flushed[p].id \in FileIds
      BY <1>2, <2>1, <3>1
    <3> QED  BY <3>2 DEF InFiles
  <2>3. CASE p \in m + 1 .. n - 1
    BY <1>4, <2>1, <2>3 DEF InMemory
  <2>4. CASE p = n
    BY <1>4, <2>1, <2>4 DEF InMemory
  <2> QED  BY <1>4, <2>2, <2>3, <2>4
<1>7. e \in Versions(k) /\ e \in Entry /\ e.seq \in Nat
  BY <1>1, <1>6, VersionsType DEF Versions
<1>8. \A f \in InMemory(k) : f.seq <= e.seq
  <2>1. \A p \in DOMAIN imms : /\ p + m \in m + 1 .. n - 1
                               /\ p + m - m = p
    BY <1>4
  <2>2. \A p \in DOMAIN imms : p + m \in 1 .. n /\ Layers(gs)[p + m] = imms[p]
    BY <1>4, <2>1
  <2> QED  BY <1>4, <1>5, <2>2 DEF InMemory
<1>9. \A id \in FileIds : disk[id].ents[k].seq <= e.seq
  <2> TAKE id \in FileIds
  <2>1. CASE disk[id].status = "ok"
    <3>1. PICK j \in DOMAIN flushed : flushed[j].id = id
      BY <1>1, <2>1 DEF SSTables, Ids, TypeOK
    <3>2. j \in 1 .. m /\ j \in 1 .. n
      BY <1>4
    <3> QED  BY <1>2, <1>4, <1>5, <3>1, <3>2
  <2>2. CASE disk[id].status # "ok"
    BY <1>1, <1>7, <2>2 DEF FilesOK, EmptyTable, NoEntry
  <2> QED  BY <2>1, <2>2
<1>10. IsNewest(disk, k, r) /\ r.seq \in Nat
  <2>1. IsNewest(disk, k, r)
    BY <1>1, RecoveredNewest
  <2> HIDE DEF r
  <2> QED  BY <2>1, EntryType DEF IsNewest
<1>11. Pending(k) = {f \in InMemory(k) : f.seq > r.seq}
  <2>1. /\ Unflushed = imms \o <<mut>> /\ imms \in Seq(Table)
        /\ DOMAIN imms = 1 .. Len(imms) /\ Len(imms) \in Nat
    BY <1>1 DEF Unflushed, TypeOK
  <2>2. /\ DOMAIN Unflushed = 1 .. Len(imms) + 1
        /\ \A p \in DOMAIN imms : Unflushed[p] = imms[p]
        /\ Unflushed[Len(imms) + 1] = mut
    BY <2>1
  <2>3. {Unflushed[p][k] : p \in DOMAIN Unflushed} = InMemory(k)
    BY <2>1, <2>2 DEF InMemory
  <2> QED  BY <2>3 DEF Pending
<1> HIDE DEF r
<1>12. \A f \in InMemory(k) : f.seq \in Nat
  BY <1>1, VersionsType DEF Versions
<1>13. ASSUME Pending(k) # {}
       PROVE  e \in Pending(k) /\ \A f \in Pending(k) : f.seq <= e.seq
  <2>1. PICK f \in InMemory(k) : f.seq > r.seq
    BY <1>11, <1>13
  <2>2. e.seq > r.seq
    BY <1>7, <1>8, <1>10, <1>12, <2>1
  <2>3. e \notin InFiles(k)
    BY <1>7, <1>10, <2>2 DEF InFiles, IsNewest
  <2> QED  BY <1>6, <1>8, <1>11, <2>2, <2>3
<1>14. ASSUME Pending(k) = {}
       PROVE  e = r
  <2>1. e.seq <= r.seq
    <3>1. CASE e \in InMemory(k)
      BY <1>7, <1>10, <1>11, <1>14, <3>1
    <3>2. CASE e \in InFiles(k)
      BY <1>10, <3>2 DEF InFiles, IsNewest
    <3> QED  BY <1>6, <3>1, <3>2
  <2>2. IsNewest(disk, k, e)
    <3>1. e # NoEntry => \E id \in FileIds : e = disk[id].ents[k]
      <4>1. SUFFICES ASSUME e # NoEntry
                     PROVE  \E id \in FileIds : e = disk[id].ents[k]
        OBVIOUS
      <4>2. e.seq > 0 /\ r.seq > 0
        BY <1>7, <1>10, <2>1, <4>1, EntryType
      <4>3. PICK id \in FileIds : r = disk[id].ents[k]
        BY <1>10, <4>2, NoEntryType DEF IsNewest
      <4>4. e.seq = r.seq
        BY <1>7, <1>9, <1>10, <2>1, <4>3
      <4>5. r \in Versions(k)
        BY <4>3 DEF Versions, InFiles
      <4> QED  BY <1>1, <1>7, <4>3, <4>4, <4>5 DEF OneVersion
    <3> QED  BY <1>7, <1>9, <3>1 DEF IsNewest
  <2> QED  BY <1>1, <2>2, NewestIsRecovered DEF r
<1> QED  BY <1>13, <1>14 DEF e, r, gs

\* The memtables not flushed yet, by position: those after the front while its
\* compaction removes files, and the mutable one.
LEMMA UnflushedAre ==
    ASSUME TypeInv
    PROVE  LET d == IF pc = "compactRemove" THEN 1 ELSE 0
               n == Len(imms) - d
           IN  /\ n \in Nat /\ Len(imms) \in Nat /\ DOMAIN imms = 1 .. Len(imms)
               /\ DOMAIN Unflushed = 1 .. n + 1
               /\ \A p \in 1 .. n : p + d \in DOMAIN imms
                                    /\ Unflushed[p] = imms[p + d]
               /\ Unflushed[n + 1] = mut
<1>1. imms \in Seq(Table) /\ (pc = "compactRemove" => imms # <<>>)
  BY DEF TypeInv, TypeOK, Control
<1> DEFINE m == Len(imms)
<1>2. m \in Nat /\ DOMAIN imms = 1 .. m /\ mut \in Table
  BY <1>1 DEF TypeInv, TypeOK
<1>3. CASE pc = "compactRemove"
  <2> DEFINE t == Tail(imms)
  <2>1. /\ t \in Seq(Table) /\ Len(t) = m - 1 /\ m \in Nat \ {0}
        /\ \A p \in 1 .. m - 1 : t[p] = imms[p + 1]
    BY <1>1, <1>3
  <2>2. Unflushed = t \o <<mut>>
    BY <1>3 DEF Unflushed
  <2> HIDE DEF t, m
  <2>3. /\ DOMAIN Unflushed = 1 .. m - 1 + 1 /\ Unflushed[m - 1 + 1] = mut
        /\ \A p \in 1 .. m - 1 : Unflushed[p] = t[p]
    BY <1>2, <2>1, <2>2, ThenLast
  <2>4. m - 1 \in Nat /\ \A p \in 1 .. m - 1 : p + 1 \in 1 .. m
    BY <2>1
  <2>5. (IF pc = "compactRemove" THEN 1 ELSE 0) = 1
    BY <1>3
  <2> QED  BY <1>2, <2>1, <2>3, <2>4, <2>5 DEF m
<1>4. CASE pc # "compactRemove"
  <2>1. Unflushed = imms \o <<mut>>
    BY <1>4 DEF Unflushed
  <2>2. /\ DOMAIN Unflushed = 1 .. m + 1 /\ Unflushed[m + 1] = mut
        /\ \A p \in 1 .. m : Unflushed[p] = imms[p]
    BY <1>1, <1>2, <2>1, ThenLast
  <2>3. m - 0 = m /\ \A p \in 1 .. m : p + 0 = p
    <3> HIDE DEF m
    <3> QED  BY <1>2
  <2>4. (IF pc = "compactRemove" THEN 1 ELSE 0) = 0
    BY <1>4
  <2> QED  BY <1>2, <2>2, <2>3, <2>4
<1> QED  BY <1>3, <1>4

LEMMA PendingVersions ==
    ASSUME TypeInv, NEW k \in Keys
    PROVE  Pending(k) \subseteq InMemory(k) /\ Pending(k) \subseteq Versions(k)
<1>1. \A p \in DOMAIN Unflushed :
          Unflushed[p] = mut \/ \E q \in DOMAIN imms : Unflushed[p] = imms[q]
  <2> DEFINE d == IF pc = "compactRemove" THEN 1 ELSE 0
             n == Len(imms) - d
  <2>1. /\ n \in Nat /\ DOMAIN Unflushed = 1 .. n + 1
        /\ \A p \in 1 .. n : p + d \in DOMAIN imms /\ Unflushed[p] = imms[p + d]
        /\ Unflushed[n + 1] = mut
    BY UnflushedAre
  <2> HIDE DEF n, d
  <2> QED  BY <2>1
<1> QED  BY <1>1 DEF Pending, InMemory, Versions

\* What the store holds of a key, read off its versions.
LEMMA CurrentIs ==
    \A k \in Keys :
        KV!Current(k) = IF Pending(k) = {} THEN Recovered(k).val
                        ELSE (CHOOSE f \in KV!Newest(Pending(k)) : TRUE).val
  BY DEF KV!Current, Contents

LEMMA CurrentIsNext ==
    (\A k \in Keys :
        KV!Current(k) = IF Pending(k) = {} THEN Recovered(k).val
                        ELSE (CHOOSE f \in KV!Newest(Pending(k)) : TRUE).val)'
  BY CurrentIs, PTL

\* There is one newest pending version.
LEMMA NewestPending ==
    ASSUME VersionsInv, NEW k \in Keys, NEW e \in Pending(k),
           \A f \in Pending(k) : f.seq <= e.seq
    PROVE  KV!Current(k) = e.val
<1> DEFINE c == CHOOSE f \in KV!Newest(Pending(k)) : TRUE
<1>1. e \in KV!Newest(Pending(k))
  BY DEF KV!Newest
<1>2. c \in KV!Newest(Pending(k))
  BY <1>1
<1>3. KV!Current(k) = c.val
  BY CurrentIs
<1> HIDE DEF c
<1>4. c \in Pending(k) /\ c.seq <= e.seq /\ e.seq <= c.seq
  BY <1>2 DEF KV!Newest
<1>5. TypeInv /\ TypeOK /\ OneVersion
  BY DEF VersionsInv, OrderInv, FreshInv, TypeInv
<1>6. Pending(k) \subseteq Versions(k)
  BY <1>5, PendingVersions
<1>7. c.seq = e.seq
  BY <1>4, <1>5, <1>6, VersionsType
<1>8. c = e
  BY <1>4, <1>5, <1>6, <1>7 DEF OneVersion
<1> QED  BY <1>3, <1>8

\* Between calls, and when the flush loop is at its test, Get returns that.
LEMMA CurrentIsRead ==
    ASSUME VersionsInv, pc \in {"idle", "flush"}, NEW k \in Keys
    PROVE  Get(k) = KV!Current(k)
<1> DEFINE e == FirstHit(Layers(GetTables), k)
<1>1. Get(k) = e.val
  BY DEF Get, GetTables
<1>2. /\ Pending(k) # {} =>
           e \in Pending(k) /\ \A f \in Pending(k) : f.seq <= e.seq
      /\ Pending(k) = {} => e = Recovered(k)
  BY LayersGive
<1> HIDE DEF e
<1>3. CASE Pending(k) = {}
  BY <1>1, <1>2, <1>3, CurrentIs
<1>4. CASE Pending(k) # {}
  BY <1>1, <1>2, <1>4, NewestPending
<1> QED  BY <1>3, <1>4

\* Between calls Get returns what the abstract store holds: the newest pending
\* version of the key, in whichever memtable it is, or the durable one.
THEOREM GetIsCurrent ==
    ASSUME Reliable, WholeValues
    PROVE  Spec => []GetReturnsCurrent
<1>1. VersionsInv => GetReturnsCurrent
  BY CurrentIsRead DEF GetReturnsCurrent
<1> QED  BY <1>1, SpecVersionsInv, PTL
-----------------------------------------------------------------------------
(***************************************************************************)
(* The database implements the store of KVStore: each step of the code is  *)
(* a step of the store or none.  An insertion is its Write, the completion *)
(* of the file of a flush its Harden, a close or a crash its Crash;        *)
(* opening, rotating, creating files, and every step of a compaction are   *)
(* none.                                                                   *)
(***************************************************************************)

\* The versions of k that no flush has begun to write.
Later(k) == {e \in {imms[p][k] : p \in DOMAIN imms \ {1}} \cup {mut[k]} : e.seq > 0}

\* The version of k that the next flush writes, or the one in progress.
Foremost(k) == IF pc = "compactRemove" \/ imms = <<>> THEN {}
            ELSE {e \in {imms[1][k]} : e.seq > Recovered(k).seq}

LEMMA LaterIsNewer ==
    ASSUME VersionsInv, pc # "closed", NEW k \in Keys
    PROVE  /\ Recovered(k) \in Entry /\ Recovered(k).seq \in Nat
           /\ \A e \in Later(k) : e.seq \in Nat /\ e.seq > Recovered(k).seq
<1>1. TypeOK /\ DiskOrder /\ Strict
  BY DEF VersionsInv, OrderInv, FreshInv, TypeInv
<1>2. IsNewest(disk, k, Recovered(k))
  BY <1>1, RecoveredNewest
<1>3. Recovered(k) \in Entry /\ Recovered(k).seq \in Nat
  BY <1>2, EntryType DEF IsNewest
<1>4. \A p \in DOMAIN imms : imms[p][k].seq \in Nat /\ mut[k].seq \in Nat
  BY <1>1, AllTables, TableType
<1>5. mut[k].seq \in Nat /\ \A id \in FileIds : disk[id].ents[k].seq \in Nat
  BY <1>1, AllTables, TableType
<1>6. DOMAIN imms = 1 .. Len(imms) /\ Len(imms) \in Nat
  BY <1>1 DEF TypeOK
<1>7. ASSUME NEW e \in Later(k)
      PROVE  e.seq \in Nat /\ e.seq > Recovered(k).seq
  <2>1. e.seq > 0 /\ e.seq \in Nat
    BY <1>4, <1>5 DEF Later
  <2>2. \A id \in FileIds : disk[id].ents[k].seq < e.seq
    <3>1. CASE e = mut[k]
      BY <1>1, <2>1, <3>1 DEF Strict, Flushable, Before
    <3>2. CASE \E p \in DOMAIN imms \ {1} : e = imms[p][k]
      <4>1. PICK p \in DOMAIN imms \ {1} : e = imms[p][k]
        BY <3>2
      <4>2. p > 1
        BY <1>6
      <4> QED  BY <1>1, <2>1, <4>1, <4>2 DEF Strict, Flushable, Before
    <3> QED  BY <3>1, <3>2 DEF Later
  <2> QED  BY <1>2, <1>3, <2>1, <2>2, NoEntryType DEF IsNewest
<1> QED  BY <1>3, <1>7

LEMMA PendingIs ==
    ASSUME VersionsInv, pc # "closed", NEW k \in Keys
    PROVE  Pending(k) = Later(k) \cup Foremost(k)
<1> DEFINE r == Recovered(k)
           d == IF pc = "compactRemove" THEN 1 ELSE 0
           n == Len(imms) - d
<1>1. TypeInv /\ TypeOK
  BY DEF VersionsInv, OrderInv, FreshInv, TypeInv
<1>2. /\ r \in Entry /\ r.seq \in Nat
      /\ \A e \in Later(k) : e.seq \in Nat /\ e.seq > r.seq
  BY LaterIsNewer
<1>3. /\ n \in Nat /\ Len(imms) \in Nat /\ DOMAIN imms = 1 .. Len(imms)
      /\ DOMAIN Unflushed = 1 .. n + 1
      /\ \A p \in 1 .. n : p + d \in DOMAIN imms /\ Unflushed[p] = imms[p + d]
      /\ Unflushed[n + 1] = mut
  BY <1>1, UnflushedAre
<1>4. /\ \A p \in DOMAIN imms : imms[p][k].seq \in Nat
      /\ mut[k].seq \in Nat
  BY <1>1, AllTables, TableType
<1>5. Pending(k) = {e \in {Unflushed[p][k] : p \in DOMAIN Unflushed} : e.seq > r.seq}
  BY DEF Pending
<1>6. Foremost(k) = IF d = 1 \/ imms = <<>> THEN {}
                 ELSE {e \in {imms[1][k]} : e.seq > r.seq}
  BY DEF Foremost
<1>7. d \in {0, 1} /\ n = Len(imms) - d /\ (imms = <<>> <=> Len(imms) = 0)
  BY <1>1 DEF TypeOK
<1> HIDE DEF r, d, n
<1>8. ASSUME NEW e \in Pending(k)
      PROVE  e \in Later(k) \cup Foremost(k)
  <2>1. PICK p \in 1 .. n + 1 : e = Unflushed[p][k]
    BY <1>3, <1>5
  <2>2. e.seq > r.seq
    BY <1>5
  <2>3. CASE p = n + 1
    <3>1. e = mut[k] /\ e.seq > 0
      BY <1>2, <1>3, <1>4, <2>1, <2>2, <2>3
    <3> QED  BY <3>1 DEF Later
  <2>4. CASE p \in 1 .. n
    <3>1. p + d \in DOMAIN imms /\ e = imms[p + d][k] /\ e.seq > 0
      BY <1>2, <1>3, <1>4, <2>1, <2>2, <2>4
    <3>2. CASE p + d = 1
      <4>1. d = 0 /\ imms # <<>>
        BY <1>3, <1>7, <2>4, <3>2
      <4> QED  BY <1>6, <2>2, <3>1, <3>2, <4>1
    <3>3. CASE p + d # 1
      BY <3>1, <3>3 DEF Later
    <3> QED  BY <3>2, <3>3
  <2> QED  BY <1>3, <2>3, <2>4
<1>9. ASSUME NEW e \in Later(k) \cup Foremost(k)
      PROVE  e \in Pending(k)
  <2>1. e.seq > r.seq
    BY <1>2, <1>6
  <2>2. \E p \in DOMAIN Unflushed : e = Unflushed[p][k]
    <3>1. CASE e = mut[k]
      <4>1. n + 1 \in 1 .. n + 1
        BY <1>3
      <4> QED  BY <1>3, <3>1, <4>1
    <3>2. CASE e # mut[k]
      <4>1. \E p \in DOMAIN imms : e = imms[p][k] /\ (p # 1 \/ d = 0)
        <5>1. CASE e \in Later(k)
          BY <3>2, <5>1 DEF Later
        <5>2. CASE e \in Foremost(k)
          <6>1. d = 0 /\ imms # <<>> /\ e = imms[1][k]
            BY <1>6, <1>7, <5>2
          <6> QED  BY <1>3, <1>7, <6>1
        <5> QED  BY <5>1, <5>2
      <4>2. PICK p \in DOMAIN imms : e = imms[p][k] /\ (p # 1 \/ d = 0)
        BY <4>1
      <4>3. p - d \in 1 .. n /\ p - d + d = p
        BY <1>3, <1>7, <4>2
      <4> QED  BY <1>3, <4>2, <4>3
    <3> QED  BY <3>1, <3>2
  <2> QED  BY <1>5, <2>1, <2>2
<1> QED  BY <1>8, <1>9

\* From the completion of its flush on, the front has nothing to add.
LEMMA NothingInFront ==
    ASSUME VersionsInv, pc \in {"compact", "compactWrite", "compactRemove"},
           NEW k \in Keys
    PROVE  Pending(k) = Later(k)
<1>1. TypeOK /\ Written /\ imms \in Seq(Table)
  BY DEF VersionsInv, OrderInv, FreshInv, TypeInv, TypeOK
<1>2. Recovered(k).seq \in Nat
  BY LaterIsNewer
<1>3. CASE pc = "compactRemove"
  BY <1>3, PendingIs DEF Foremost
<1>4. CASE pc # "compactRemove" /\ imms # <<>>
  <2>1. imms[1][k].seq <= Recovered(k).seq /\ imms[1][k].seq \in Nat
    <3>1. Head(imms) = imms[1] /\ 1 \in DOMAIN imms
      BY <1>1, <1>4
    <3> QED  BY <1>1, <1>4, <3>1, AllTables, TableType DEF Written
  <2>2. Foremost(k) = {}
    BY <1>2, <2>1 DEF Foremost
  <2> QED  BY <2>2, PendingIs
<1>5. CASE imms = <<>>
  BY <1>5, PendingIs DEF Foremost
<1> QED  BY <1>3, <1>4, <1>5
LEMMA PendingIsLater ==
    VersionsInv /\ pc \in {"compact", "compactWrite", "compactRemove"}
      => \A k \in Keys : Pending(k) = Later(k)
  BY NothingInFront
-----------------------------------------------------------------------------
(* Steps that the store does not see *)

Pends == [k \in Keys |-> Pending(k)]

LEMMA Unseen ==
    ASSUME \A k \in Keys : /\ Recovered(k)'.val = Recovered(k).val
                           /\ Pending(k)' = Pending(k)
    PROVE  UNCHANGED KV!vars
  BY DEF KV!vars, Contents

\* The files have the same entries, and the memtables are the same.
LEMMA UnseenHere ==
    ASSUME \A id \in FileIds : disk'[id].ents = disk[id].ents,
           Unflushed' = Unflushed
    PROVE  UNCHANGED KV!vars
<1>1. \A k \in Keys : Recovered(k)' = Recovered(k)
  BY SameRecovered
<1>2. \A k \in Keys : Pending(k)' = Pending(k)
  BY <1>1 DEF Pending
<1> QED  BY <1>1, <1>2, Unseen

LEMMA CompactionUnseen ==
    ASSUME VersionsInv, VersionsInv', Reliable, WholeValues, [Next]_vars,
           pc \in {"compact", "compactWrite", "compactRemove"},
           pc' \in {"compact", "compactWrite", "compactRemove"},
           UNCHANGED <<imms, mut>>
    PROVE  UNCHANGED KV!vars
<1>0. (VersionsInv /\ pc \in {"compact", "compactWrite", "compactRemove"}
         => \A k \in Keys : Pending(k) = Later(k))'
  BY PendingIsLater, PTL
<1>1. ASSUME NEW k \in Keys
      PROVE  Pending(k)' = Pending(k)
  <2>1. Pending(k) = Later(k)
    BY NothingInFront
  <2>2. Pending(k)' = Later(k)'
    BY <1>0
  <2>3. Later(k)' = Later(k)
    BY DEF Later
  <2> QED  BY <2>1, <2>2, <2>3
<1>2. \A k \in Keys : Recovered(k)'.val = Recovered(k).val
  BY CompactionStep
<1> QED  BY <1>1, <1>2, Unseen

\* A rotation adds an empty memtable.
LEMMA RotationUnseen ==
    ASSUME TypeOK, VersionsInv, pc = "idle", pc' = "flush", disk' = disk,
           imms' = Append(imms, mut), mut' = EmptyTable
    PROVE  UNCHANGED KV!vars
<1>1. imms \in Seq(Table) /\ mut \in Table
  BY DEF TypeOK
<1>2. /\ DOMAIN Unflushed = 1 .. Len(imms) + 1
      /\ \A p \in 1 .. Len(imms) : Unflushed[p] = imms[p]
      /\ Unflushed[Len(imms) + 1] = mut
      /\ Len(imms) \in Nat
  BY <1>1 DEF Unflushed
<1>3. /\ DOMAIN Unflushed' = 1 .. Len(imms) + 2
      /\ \A p \in 1 .. Len(imms) : Unflushed'[p] = imms[p]
      /\ Unflushed'[Len(imms) + 1] = mut
      /\ Unflushed'[Len(imms) + 2] = EmptyTable
  <2>1. Unflushed' = imms' \o <<EmptyTable>>
    BY DEF Unflushed
  <2>2. /\ imms' \in Seq(Table) /\ Len(imms') = Len(imms) + 1
        /\ \A p \in 1 .. Len(imms) : imms'[p] = imms[p]
        /\ imms'[Len(imms) + 1] = mut
    BY <1>1
  <2> QED  BY <1>2, <2>1, <2>2
<1>4. ASSUME NEW k \in Keys
      PROVE  Recovered(k)' = Recovered(k) /\ Pending(k)' = Pending(k)
  <2>1. Recovered(k)' = Recovered(k)
    BY SameRecovered
  <2>2. ~(EmptyTable[k].seq > Recovered(k).seq)
    <3>1. EmptyTable[k].seq = 0
      BY DEF EmptyTable, NoEntry
    <3>2. Recovered(k).seq \in Nat
      BY LaterIsNewer
    <3> QED  BY <3>1, <3>2
  <2>3. {Unflushed'[p][k] : p \in DOMAIN Unflushed'}
          = {Unflushed[p][k] : p \in DOMAIN Unflushed} \cup {EmptyTable[k]}
    BY <1>2, <1>3
  <2> QED  BY <2>1, <2>2, <2>3 DEF Pending
<1> QED  BY <1>4, Unseen
-----------------------------------------------------------------------------
(* Write *)

\* The store's Write of a version newer than any pending.
LEMMA StoreWrite ==
    ASSUME NEW k \in Keys, NEW v \in Values \cup {Tombstone}, NEW n \in Nat,
           \A f \in Pending(k) : f.seq < n,
           \A x \in Keys \ {k} : Pending(x)' = Pending(x),
           NEW kept, kept = Pending(k) \/ kept = Pending(k) \ KV!Newest(Pending(k)),
           Pending(k)' = kept \cup {[seq |-> n, val |-> v]},
           \A x \in Keys : Recovered(x)' = Recovered(x)
    PROVE  KV!Write(k, v)
<1> DEFINE e == [seq |-> n, val |-> v]
<1>1. e \in [seq : Nat, val : {v}] /\ e.seq = n
  OBVIOUS
<1>2. Pends' = [Pends EXCEPT ![k] = kept \cup {e}]
  BY DEF Pends
<1>3. Pends[k] = Pending(k) /\ Pends'[k] = Pending(k)' /\ e \in Pends'[k]
  BY DEF Pends
<1> HIDE DEF e
<1>4. Contents' = Contents
  BY DEF Contents
<1>5. \A f \in Pends[k] : f.seq < e.seq
  BY <1>1, <1>3
<1>6. kept \in {Pends[k], Pends[k] \ KV!Newest(Pends[k])}
  BY <1>3
<1>7. \E kk \in {Pends[k], Pends[k] \ KV!Newest(Pends[k])}, ee \in Pends'[k] :
         /\ ee \in [seq : Nat, val : {v}]
         /\ \A f \in Pends[k] : f.seq < ee.seq
         /\ Pends' = [Pends EXCEPT ![k] = kk \cup {ee}]
  BY <1>1, <1>2, <1>3, <1>5, <1>6
<1> QED  BY <1>4, <1>7 DEF KV!Write, Pends

LEMMA PendingHere ==
    TypeOK /\ pc # "compactRemove"
      => \A x \in Keys : Pending(x) = {e \in InMemory(x) : e.seq > Recovered(x).seq}
<1> SUFFICES ASSUME TypeOK, pc # "compactRemove", NEW k \in Keys
             PROVE  {Unflushed[p][k] : p \in DOMAIN Unflushed} = InMemory(k)
  BY DEF Pending
<1>1. imms \in Seq(Table) /\ DOMAIN imms = 1 .. Len(imms) /\ Len(imms) \in Nat
  BY DEF TypeOK
<1>2. Unflushed = imms \o <<mut>>
  BY DEF Unflushed
<1>3. /\ DOMAIN Unflushed = 1 .. Len(imms) + 1
      /\ \A p \in DOMAIN imms : Unflushed[p] = imms[p]
      /\ Unflushed[Len(imms) + 1] = mut
  BY <1>1, <1>2
<1> QED  BY <1>1, <1>3 DEF InMemory

LEMMA PendingHereNext ==
    (TypeOK /\ pc # "compactRemove"
      => \A x \in Keys : Pending(x) = {e \in InMemory(x) : e.seq > Recovered(x).seq})'
  BY PendingHere, PTL

LEMMA InsertIsWrite ==
    ASSUME VersionsInv, TypeOK', pc \in {"idle", "flush"}, pc' = "idle",
           NEW k \in Keys, NEW v \in Values \cup {Tombstone},
           Insert(mut, k, v), UNCHANGED <<imms, disk>>
    PROVE  KV!Write(k, v)
<1> DEFINE old(x) == {imms[p][x] : p \in DOMAIN imms}
           r(x) == Recovered(x).seq
           kept == {e \in old(k) : e.seq > r(k)}
<1>1. TypeOK /\ SeqsBelow /\ DiskOrder /\ Strict /\ mut \in Table
      /\ nextSeq \in Nat
  BY DEF VersionsInv, OrderInv, FreshInv, TypeInv, TypeOK
<1>2. mut'[k] = [seq |-> nextSeq, val |-> v] /\ \A x \in Keys \ {k} : mut'[x] = mut[x]
  BY <1>1 DEF Insert, Table
<1>3. \A x \in Keys : Recovered(x)' = Recovered(x)
  BY SameRecovered
<1>4. \A x \in Keys : Pending(x) = {e \in old(x) \cup {mut[x]} : e.seq > r(x)}
  BY <1>1, PendingHere DEF InMemory
<1>5. \A x \in Keys : Pending(x)' = {e \in old(x) \cup {mut'[x]} : e.seq > r(x)}
  BY <1>3, PendingHereNext DEF InMemory
<1>6. \A x \in Keys \ {k} : Pending(x)' = Pending(x)
  <2> TAKE x \in Keys \ {k}
  <2>1. mut'[x] = mut[x]
    BY <1>2
  <2> HIDE DEF old, r
  <2> QED  BY <1>4, <1>5, <2>1
<1>7. mut[k].seq \in Nat /\ r(k) \in Nat /\ mut[k] \in Entry
      /\ (mut[k].seq > 0 => mut[k].seq > r(k))
  <2>1. mut[k].seq > 0 => mut[k] \in Later(k)
    BY DEF Later
  <2> QED  BY <1>1, <2>1, TableType, LaterIsNewer
<1>8. \A e \in old(k) : /\ e.seq \in Nat /\ e.seq < nextSeq
                        /\ mut[k].seq > 0 => e.seq < mut[k].seq
  BY <1>1, AllTables, TableType DEF SeqsBelow, Below, Strict, Before
<1>9. mut[k].seq < nextSeq /\ r(k) < nextSeq
  <2>1. IsNewest(disk, k, Recovered(k))
    BY <1>1, RecoveredNewest
  <2>2. \A id \in FileIds : disk[id].ents[k].seq < nextSeq
    BY <1>1 DEF SeqsBelow, Below
  <2>3. NoEntry.seq = 0 /\ mut[k].seq < nextSeq
    BY <1>1, NoEntryType DEF SeqsBelow, Below
  <2> QED  BY <1>1, <1>7, <2>1, <2>2, <2>3 DEF IsNewest
<1>10. \A f \in Pending(k) : f.seq < nextSeq
  BY <1>4, <1>8, <1>9
<1>11. Pending(k)' = kept \cup {[seq |-> nextSeq, val |-> v]}
  <2>1. [seq |-> nextSeq, val |-> v].seq > r(k)
    BY <1>1, <1>7, <1>9
  <2> HIDE DEF r, old
  <2> QED  BY <1>2, <1>5, <2>1
<1>12. kept = Pending(k) \/ kept = Pending(k) \ KV!Newest(Pending(k))
  <2>1. CASE mut[k].seq = 0
    BY <1>4, <1>7, <2>1
  <2>2. CASE mut[k].seq > 0
    <3>1. Pending(k) = kept \cup {mut[k]}
      BY <1>4, <1>7, <1>8, <2>2
    <3>2. \A e \in kept : e.seq \in Nat /\ e.seq < mut[k].seq
      BY <1>8, <2>2
    <3> HIDE DEF kept
    <3>3. KV!Newest(Pending(k)) = {mut[k]}
      BY <1>7, <3>1, <3>2 DEF KV!Newest
    <3>4. mut[k] \notin kept
      BY <3>2
    <3>5. kept = (kept \cup {mut[k]}) \ {mut[k]}
      BY <3>4, Zenon
    <3> QED  BY <3>1, <3>3, <3>5
  <2>3. mut[k].seq = 0 \/ mut[k].seq > 0
    BY <1>7
  <2> HIDE DEF kept
  <2> QED  BY <2>1, <2>2, <2>3
<1> HIDE DEF kept, old, r
<1> QED  BY <1>1, <1>3, <1>6, <1>10, <1>11, <1>12, StoreWrite
-----------------------------------------------------------------------------
(* Harden and Crash *)

\* While a file is being written, its entries are those of the front, or the
\* files have their values already.
LEMMA OutIsKnown ==
    ASSUME VersionsInv, pc \in {"flushWrite", "compactWrite"}, NEW k \in Keys,
           out[k].seq > 0
    PROVE  /\ Recovered(k).seq \in Nat /\ out[k].seq \in Nat
           /\ Recovered(k).seq <= out[k].seq
           /\ \/ out[k] = Recovered(k)
              \/ out[k] \in Pending(k) /\ pc = "flushWrite"
              \/ out[k].val = Recovered(k).val /\ pc = "compactWrite"
<1>1. TypeInv /\ TypeOK /\ DiskOrder /\ OutOrder /\ OneVersion /\ Written
      /\ imms \in Seq(Table) /\ imms # <<>>
  BY DEF VersionsInv, OrderInv, FreshInv, TypeInv, TypeOK, Control
<1>2. IsNewest(disk, k, Recovered(k))
  BY <1>1, RecoveredNewest
<1>3. Recovered(k).seq \in Nat /\ out[k].seq \in Nat
  BY <1>1, <1>2, AllTables, TableType, EntryType DEF IsNewest
<1>4. Recovered(k).seq <= out[k].seq
  <2>1. \A id \in FileIds : disk[id].ents[k].seq \in Nat
    BY <1>1, AllTables, TableType
  <2>2. \A id \in FileIds : disk[id].ents[k].seq <= out[k].seq
    BY <1>1, <1>3, <2>1 DEF OutOrder, Ordered
  <2> QED  BY <1>2, <1>3, <2>2, NoEntryType DEF IsNewest
<1>5. CASE pc = "compactWrite"
  BY <1>1, <1>3, <1>4, <1>5 DEF Written
<1>6. CASE pc = "flushWrite"
  <2>1. out = imms[1] /\ 1 \in DOMAIN imms
    <3>1. Head(imms) = imms[1] /\ 1 \in DOMAIN imms
      BY <1>1
    <3> QED  BY <1>1, <1>6, <3>1 DEF Written
  <2>2. CASE out[k].seq > Recovered(k).seq
    <3>1. out[k] \in Foremost(k)
      BY <1>1, <1>6, <2>1, <2>2 DEF Foremost
    <3> QED  BY <1>3, <1>4, <1>6, <3>1, PendingIs
  <2>3. CASE out[k].seq = Recovered(k).seq
    <3>1. Recovered(k) # NoEntry
      BY <2>3, NoEntryType
    <3>2. Recovered(k) \in Versions(k)
      BY <1>2, <3>1 DEF IsNewest, Versions, InFiles
    <3>3. out[k] \in Versions(k)
      BY DEF Versions
    <3>4. out[k] = Recovered(k)
      BY <1>1, <2>3, <3>2, <3>3 DEF OneVersion
    <3> QED  BY <1>3, <1>4, <3>4
  <2> QED  BY <1>3, <1>4, <2>2, <2>3
<1> QED  BY <1>5, <1>6

LEMMA FlushIsHarden ==
    ASSUME VersionsInv, VersionsInv', Reliable, WholeValues, FlushWrite
    PROVE  KV!Harden
<1>1. TypeInv /\ TypeOK /\ TypeOK' /\ Written /\ imms \in Seq(Table) /\ imms # <<>>
      /\ pc = "flushWrite" /\ OrderInv /\ OrderInv' /\ OneVersion /\ OneVersion'
  BY DEF VersionsInv, OrderInv, FreshInv, TypeInv, TypeOK, Control, FlushWrite
<1>2. /\ mut' = mut /\ pc' # "compactRemove"
      /\ disk' = [disk EXCEPT ![nextFileId - 1] = FileWritten]
      /\ imms' = imms \/ imms' = Tail(imms)
  BY WholeLines DEF FlushWrite, EraseFlushed
<1>3. out = imms[1] /\ DOMAIN imms = 1 .. Len(imms) /\ Len(imms) \in Nat
  <2>1. Head(imms) = imms[1]
    BY <1>1
  <2> QED  BY <1>1, <2>1 DEF Written
<1>4. ASSUME NEW k \in Keys
      PROVE  \/ Recovered(k)'.val = Recovered(k).val /\ Pending(k)' = Pending(k)
             \/ \E e \in Pending(k) : /\ Recovered(k)'.val = e.val
                                      /\ Pending(k)' = {f \in Pending(k) : f.seq > e.seq}
  <2> DEFINE r == Recovered(k)
             s == Recovered(k)'
             old == InMemory(k)
             new == InMemory(k)'
  <2>1. s = IF out[k].seq > 0 THEN out[k] ELSE r
    BY <1>1, <1>2, WrittenRecovered
  <2>2. /\ r.seq \in Nat /\ out[k].seq \in Nat
        /\ out[k].seq > 0 =>
             r.seq <= out[k].seq /\ (out[k] = r \/ out[k] \in Pending(k))
    BY <1>1, LaterIsNewer, AllTables, TableType, OutIsKnown
  <2>3. s.seq \in Nat /\ r.seq <= s.seq /\ out[k].seq <= s.seq
    BY <2>1, <2>2
  <2>4. Pending(k) = {e \in old : e.seq > r.seq} /\ \A e \in old : e.seq \in Nat
    BY <1>1, PendingHere, VersionsType DEF Versions
  <2>5. Pending(k)' = {e \in new : e.seq > s.seq}
    BY <1>1, <1>2, PendingHereNext
  <2>6. new \subseteq old /\ old \subseteq new \cup {out[k]}
    <3>1. CASE imms' = imms
      BY <1>2, <3>1 DEF InMemory
    <3>2. CASE imms' = Tail(imms)
      <4>1. DOMAIN imms' = 1 .. Len(imms) - 1
            /\ \A p \in 1 .. Len(imms) - 1 : imms'[p] = imms[p + 1]
        BY <1>1, <3>2
      <4>2. \A p \in DOMAIN imms' : p + 1 \in DOMAIN imms
        BY <1>3, <4>1
      <4>3. \A p \in DOMAIN imms : p = 1 \/ (p - 1 \in DOMAIN imms' /\ p - 1 + 1 = p)
        BY <1>3, <4>1
      <4>4. \A p \in DOMAIN imms : p = 1 \/ \E q \in DOMAIN imms' : imms[p] = imms'[q]
        BY <4>1, <4>3
      <4>5. \A p \in DOMAIN imms' : \E q \in DOMAIN imms : imms'[p] = imms[q]
        BY <4>1, <4>2
      <4> QED  BY <1>2, <1>3, <4>4, <4>5 DEF InMemory
    <3> QED  BY <1>2, <3>1, <3>2
  <2> HIDE DEF r, s, old, new
  <2>7. Pending(k)' = {e \in Pending(k) : e.seq > s.seq}
    <3>1. \A e \in new : e.seq > s.seq => e \in Pending(k)
      BY <2>2, <2>3, <2>4, <2>6
    <3>2. \A e \in Pending(k) : e.seq > s.seq => e \in new
      BY <2>2, <2>3, <2>4, <2>6
    <3> QED  BY <2>5, <3>1, <3>2
  <2>8. CASE s = r
    <3>1. Pending(k)' = Pending(k)
      BY <2>4, <2>7, <2>8
    <3> QED  BY <2>8, <3>1 DEF r, s
  <2>9. CASE s = out[k] /\ out[k] \in Pending(k)
    BY <2>7, <2>9 DEF s
  <2> QED  BY <2>1, <2>2, <2>8, <2>9
<1>5. \A k \in Keys : /\ Contents[k] = Recovered(k).val
                      /\ Contents'[k] = Recovered(k)'.val
                      /\ Pends[k] = Pending(k) /\ Pends'[k] = Pending(k)'
  BY DEF Contents, Pends
<1>6. DOMAIN Contents' = Keys /\ DOMAIN Pends' = Keys
  BY DEF Contents, Pends
<1>7. \A k \in Keys :
         \/ Contents'[k] = Contents[k] /\ Pends'[k] = Pends[k]
         \/ \E e \in Pends[k] : /\ Contents'[k] = e.val
                                /\ Pends'[k] = {f \in Pends[k] : f.seq > e.seq}
  BY <1>4, <1>5
<1> QED  BY <1>6, <1>7 DEF KV!Harden, Pends

\* What a crash leaves of the file being written becomes durable in part.
LEMMA StopIsCrash ==
    ASSUME VersionsInv, VersionsInv', Reliable, WholeValues, Close \/ Crash
    PROVE  KV!Crash
<1>1. TypeInv /\ TypeOK /\ pc # "closed" /\ OrderInv /\ OrderInv'
      /\ OneVersion /\ OneVersion' /\ Written
  BY DEF VersionsInv, OrderInv, FreshInv, TypeInv, Close, Crash
<1>2. pc' = "closed" /\ mut' = EmptyTable /\ imms' = <<>>
  BY DEF Close, Crash, NoMemory
<1>3. ASSUME NEW k \in Keys
      PROVE  Pending(k)' = {}
  <2>1. Pending(k)' = {e \in InMemory(k)' : e.seq > Recovered(k)'.seq}
    BY <1>2, PendingHereNext DEF VersionsInv, OrderInv, FreshInv, TypeInv
  <2>2. InMemory(k)' = {NoEntry}
    BY <1>2 DEF InMemory, EmptyTable
  <2>3. NoEntry.seq = 0 /\ Recovered(k)'.seq \in Nat
    <3>1. IsNewest(disk', k, Recovered(k)')
      BY RecoveredNewestNext DEF VersionsInv, OrderInv, FreshInv, TypeInv
    <3> QED  BY <3>1, NoEntryType, EntryType DEF IsNewest
  <2> QED  BY <2>1, <2>2, <2>3
<1>4. ASSUME NEW k \in Keys
      PROVE  Recovered(k)'.val \in {Recovered(k).val} \cup {e.val : e \in Pending(k)}
  <2>1. CASE disk' = disk
    BY <2>1, SameRecovered
  <2>2. CASE /\ pc \in {"flushWrite", "compactWrite"}
             /\ \E left \in PartialFiles(FileWritten, FALSE) :
                  disk' = [disk EXCEPT ![nextFileId - 1] = left]
    <3>1. PICK left \in PartialFiles(FileWritten, FALSE) :
              disk' = [disk EXCEPT ![nextFileId - 1] = left]
      BY <2>2
    <3>2. KeysOf(out) # {}
      BY <1>1, <2>2 DEF TypeInv, Control
    <3>3. left.ents[k] \in {NoEntry, out[k]}
      BY <1>1, <3>1, <3>2, FileWrittenOK, WholePartialFiles, WrittenWhole
    <3>4. Recovered(k)' = IF left.ents[k].seq > 0 THEN out[k] ELSE Recovered(k)
      BY <1>1, <2>2, <3>1, <3>3, FilledRecovered
    <3>5. left.ents[k].seq > 0 => out[k].seq > 0
      BY <3>3, NoEntryType
    <3>6. out[k].seq > 0 =>
              \/ out[k].val = Recovered(k).val
              \/ out[k] \in Pending(k)
      BY <2>2, OutIsKnown
    <3> QED  BY <3>4, <3>5, <3>6
  <2> QED  BY <2>1, <2>2 DEF Close, Crash, Reliable
<1>5. \A k \in Keys : /\ Contents[k] = Recovered(k).val
                      /\ Contents'[k] = Recovered(k)'.val
                      /\ Pends[k] = Pending(k)
  BY DEF Contents, Pends
<1>6. DOMAIN Contents' = Keys /\ Pends' = [k \in Keys |-> {}]
  BY <1>3 DEF Contents, Pends
<1>7. \A k \in Keys : Contents'[k] \in {Contents[k]} \cup {e.val : e \in Pends[k]}
  BY <1>4, <1>5
<1> QED  BY <1>6, <1>7 DEF KV!Crash, Pends
-----------------------------------------------------------------------------
(* The refinement *)

LEMMA StoreInit == Init => KV!Init
<1> SUFFICES ASSUME Init PROVE KV!Init
  OBVIOUS
<1>1. \A id \in FileIds : disk[id].ents = EmptyTable
  BY NoFileOK DEF Init
<1>2. ASSUME NEW k \in Keys
      PROVE  Recovered(k) = NoEntry /\ Pending(k) = {}
  <2>1. \A id \in FileIds : ~(disk[id].ents[k].seq > 0)
    BY <1>1 DEF EmptyTable, NoEntry
  <2>2. {id \in FileIds : disk[id].ents[k].seq > 0} = {}
    BY <2>1
  <2>3. Recovered(k) = NoEntry
    BY <2>2 DEF Recovered
  <2>4. Unflushed = <<EmptyTable>>
    BY DEF Unflushed, Init
  <2>5. \A p \in DOMAIN Unflushed : Unflushed[p][k].seq = 0
    BY <2>4 DEF EmptyTable, NoEntry
  <2> QED  BY <2>3, <2>5, NoEntryType DEF Pending
<1>3. NoEntry.val = Tombstone
  BY DEF NoEntry
<1> QED  BY <1>2, <1>3 DEF KV!Init, Contents

\* What a call does before it inserts, and an exception in it, the store does not
\* see, but for the versions that a flush has made durable.
LEMMA CallUnseen ==
    ASSUME VersionsInv, VersionsInv', Reliable, WholeValues,
           \/ FlushCreate \/ FlushWrite
           \/ CompactCreate \/ CompactWrite \/ CompactRemove \/ CompactDone
    PROVE  UNCHANGED KV!vars \/ KV!Harden
<1>1. FreshInv
  BY DEF VersionsInv, OrderInv
<1>2. CASE FlushCreate
  <2>1. /\ pc = "flush" /\ pc' \in {"idle", "flushWrite"} /\ UNCHANGED <<imms, mut>>
        /\ nextFileId \in FileIds
        /\ disk' = disk \/ disk' = [disk EXCEPT ![nextFileId] = BadFile]
    BY <1>2 DEF FlushCreate, Throw
  <2>2. \A id \in FileIds : disk'[id].ents = disk[id].ents
    <3>1. pc # "closed"
      BY <2>1
    <3> QED  BY <1>1, <2>1, <3>1, CreatedEntries
  <2>3. Unflushed' = Unflushed
    BY <2>1 DEF Unflushed
  <2> QED  BY <2>2, <2>3, UnseenHere
<1>3. CASE FlushWrite
  BY <1>3, FlushIsHarden
<1>4. CASE CompactCreate /\ pc' = "idle"
  <2>1. /\ pc = "compact" /\ UNCHANGED <<imms, mut>> /\ disk' = disk
    BY <1>4 DEF CompactCreate
  <2>2. Unflushed' = Unflushed
    BY <1>4, <2>1 DEF Unflushed
  <2> QED  BY <2>1, <2>2, UnseenHere
<1>5. CASE \/ CompactCreate /\ pc' # "idle"
           \/ CompactWrite
           \/ CompactRemove
  <2>1. /\ pc \in {"compact", "compactWrite", "compactRemove"}
        /\ pc' \in {"compact", "compactWrite", "compactRemove"}
        /\ UNCHANGED <<imms, mut>>
    BY <1>5 DEF CompactCreate, CompactWrite, CompactRemove, Throw, Reliable, memory
  <2>2. [Next]_vars
    BY <1>5 DEF Next, Internal
  <2> QED  BY <2>1, <2>2, CompactionUnseen
<1>6. CASE CompactDone
  <2>1. /\ pc = "compactRemove" /\ pc' = "flush" /\ mut' = mut
        /\ imms' = Tail(imms) /\ disk' = disk
    BY <1>6 DEF CompactDone, EraseFlushed
  <2>2. Unflushed' = Unflushed
    BY <2>1 DEF Unflushed
  <2> QED  BY <2>1, <2>2, UnseenHere
<1> QED  BY <1>2, <1>3, <1>4, <1>5, <1>6

LEMMA StoreNext ==
    ASSUME VersionsInv, VersionsInv', Reliable, WholeValues, [Next]_vars
    PROVE  [KV!Next]_(KV!vars)
<1>1. FreshInv /\ TypeInv /\ TypeOK /\ TypeOK' /\ Gone
  BY DEF VersionsInv, OrderInv, FreshInv, TypeInv
<1>2. ASSUME NEW u \in BOOLEAN, NEW b \in BloomModes, Open(u, b)
      PROVE  UNCHANGED KV!vars
  <2>1. disk' = disk /\ Unflushed' = Unflushed
    BY <1>2 DEF Open, Unflushed
  <2> QED  BY <2>1, UnseenHere
<1>3. ASSUME NEW k \in Keys, NEW v \in Values \cup {Tombstone}, Write(k, v)
      PROVE  [KV!Next]_(KV!vars)
  <2>1. CASE mutSize + EntryBytes(v) <= MaxMemtableBytes
    <3>1. /\ pc = "idle" /\ pc' = "idle" /\ Insert(mut, k, v)
          /\ UNCHANGED <<imms, disk>>
      BY <1>3, <2>1 DEF Write
    <3>2. KV!Write(k, v)
      BY <1>1, <3>1, InsertIsWrite
    <3> QED  BY <3>2 DEF KV!Next, KV!Content
  <2>2. CASE ~(mutSize + EntryBytes(v) <= MaxMemtableBytes)
    <3>1. /\ pc = "idle" /\ pc' = "flush" /\ disk' = disk
          /\ imms' = Append(imms, mut) /\ mut' = EmptyTable
      BY <1>3, <2>2 DEF Write
    <3>2. UNCHANGED KV!vars
      BY <1>1, <3>1, RotationUnseen
    <3> QED  BY <3>2
  <2> QED  BY <2>1, <2>2
<1>4. CASE FinishWrite
  <2>1. /\ pc = "flush" /\ pc' = "idle" /\ Insert(mut, op.key, op.val)
        /\ UNCHANGED <<imms, disk>>
    BY <1>4 DEF FinishWrite
  <2>2. op.key \in Keys /\ op.val \in Values \cup {Tombstone}
    BY <1>1 DEF TypeOK
  <2>3. KV!Write(op.key, op.val)
    BY <1>1, <2>1, <2>2, InsertIsWrite
  <2> QED  BY <2>2, <2>3 DEF KV!Next, KV!Content
<1>5. CASE \/ FlushCreate \/ FlushWrite
           \/ CompactCreate \/ CompactWrite \/ CompactRemove \/ CompactDone
  BY <1>5, CallUnseen DEF KV!Next
<1>6. CASE Close \/ Crash
  BY <1>6, StopIsCrash DEF KV!Next
<1>7. CASE UNCHANGED vars
  <2>1. disk' = disk /\ Unflushed' = Unflushed
    BY <1>7 DEF vars, memory, Unflushed
  <2> QED  BY <2>1, UnseenHere
<1> QED  BY <1>2, <1>3, <1>4, <1>5, <1>6, <1>7 DEF Next, Put, Delete, Internal

\* The database, with its memtables, files, flushes and compactions, does what
\* the store does: no value is invented, no durable one is lost, and no older
\* or deleted one comes back, whichever call is made and whenever it dies.
THEOREM StoreIsImplemented ==
    ASSUME Reliable, WholeValues
    PROVE  Spec => ImplementsKVStore
<1>1. VersionsInv /\ VersionsInv' /\ [Next]_vars => [KV!Next]_(KV!vars)
  BY StoreNext
<1>2. Spec => []VersionsInv
  BY SpecVersionsInv
<1> QED  BY <1>1, <1>2, StoreInit, PTL DEF Spec, ImplementsKVStore, KV!Spec
-----------------------------------------------------------------------------
(***************************************************************************)
(* A whole call, from its beginning to its end.  Up to the insertion the   *)
(* store holds what it held when the call began, wherever the entries are  *)
(* by now; and at the test of the flush loop, where a call ends normally,  *)
(* Get returns what the store holds, as it does between calls.             *)
(***************************************************************************)

\* Making versions durable up to some one changes no current value.
LEMMA CurrentKept ==
    ASSUME VersionsInv, UNCHANGED KV!vars \/ KV!Harden, NEW k \in Keys
    PROVE  KV!Current(k)' = KV!Current(k)
<1>1. /\ KV!Current(k) = IF Pending(k) = {} THEN Recovered(k).val
                         ELSE (CHOOSE f \in KV!Newest(Pending(k)) : TRUE).val
      /\ KV!Current(k)' = IF Pending(k)' = {} THEN Recovered(k)'.val
                          ELSE (CHOOSE f \in KV!Newest(Pending(k)') : TRUE).val
  BY CurrentIs, CurrentIsNext
<1>2. \/ Recovered(k)'.val = Recovered(k).val /\ Pending(k)' = Pending(k)
      \/ \E e \in Pending(k) : /\ Recovered(k)'.val = e.val
                               /\ Pending(k)' = {f \in Pending(k) : f.seq > e.seq}
  <2>1. /\ Contents[k] = Recovered(k).val /\ Contents'[k] = Recovered(k)'.val
        /\ Pends[k] = Pending(k) /\ Pends'[k] = Pending(k)'
    BY DEF Contents, Pends
  <2>2. CASE UNCHANGED KV!vars
    <3>1. Contents' = Contents /\ Pends' = Pends
      BY <2>2 DEF KV!vars, Pends
    <3> QED  BY <2>1, <3>1
  <2>3. CASE KV!Harden
    <3>1. \/ Contents'[k] = Contents[k] /\ Pends'[k] = Pends[k]
          \/ \E e \in Pends[k] : /\ Contents'[k] = e.val
                                 /\ Pends'[k] = {f \in Pends[k] : f.seq > e.seq}
      BY <2>3 DEF KV!Harden, Pends
    <3> QED  BY <2>1, <3>1
  <2> QED  BY <2>2, <2>3
<1>3. CASE Recovered(k)'.val = Recovered(k).val /\ Pending(k)' = Pending(k)
  BY <1>1, <1>3
<1>4. ASSUME NEW e \in Pending(k), Recovered(k)'.val = e.val,
             Pending(k)' = {f \in Pending(k) : f.seq > e.seq}
      PROVE  KV!Current(k)' = KV!Current(k)
  <2>1. \A f \in Pending(k) : f.seq \in Nat
    <3>1. TypeInv /\ TypeOK /\ OneVersion
      BY DEF VersionsInv, OrderInv, FreshInv, TypeInv
    <3> QED  BY <3>1, PendingVersions, VersionsType
  <2>2. CASE Pending(k)' = {}
    <3>1. \A f \in Pending(k) : f.seq <= e.seq
      BY <1>4, <2>1, <2>2
    <3>2. KV!Current(k) = e.val
      BY <3>1, NewestPending
    <3> QED  BY <1>1, <1>4, <2>2, <3>2
  <2>3. CASE Pending(k)' # {}
    <3>1. KV!Newest(Pending(k)') = KV!Newest(Pending(k))
      BY <1>4, <2>1, <2>3 DEF KV!Newest
    <3> QED  BY <1>1, <2>3, <3>1
  <2> QED  BY <2>2, <2>3
<1> QED  BY <1>2, <1>3, <1>4

\* What the store holds.
Currents == [k \in Keys |-> KV!Current(k)]

LEMMA AnswersAre == VersionsInv /\ pc \in {"idle", "flush"} => Answers = Currents
  BY CurrentIsRead DEF Answers, Currents

LEMMA AnswersAreNext ==
    (VersionsInv /\ pc \in {"idle", "flush"} => Answers = Currents)'
  BY AnswersAre, PTL

\* What Get answered when the call began is what the store holds until it ends.
Held == InCall => before = Currents

LEMMA CallHolds ==
    ASSUME VersionsInv, VersionsInv', Reliable, WholeValues,
           Next, InCall, pc' # "closed", ~FinishWrite
    PROVE  Currents' = Currents
<1>1. \/ FlushCreate \/ FlushWrite
      \/ CompactCreate \/ CompactWrite \/ CompactRemove \/ CompactDone
  BY DEF Next, Internal, Open, Put, Delete, Write, Close, Crash, InCall
<1>2. UNCHANGED KV!vars \/ KV!Harden
  BY <1>1, CallUnseen
<1> QED  BY <1>2, CurrentKept DEF Currents

LEMMA NextHeld ==
    ASSUME VersionsInv, VersionsInv', Reliable, WholeValues, Held,
           [CallsNext]_callVars
    PROVE  Held'
<1>1. TypeOK /\ FreshInv
  BY DEF VersionsInv, OrderInv, FreshInv, TypeInv
<1> SUFFICES ASSUME InCall' PROVE before' = Currents'
  BY DEF Held
<1>2. CASE UNCHANGED callVars
  <2>1. UNCHANGED KV!vars
    <3>1. disk' = disk /\ Unflushed' = Unflushed
      BY <1>2 DEF callVars, vars, memory, Unflushed
    <3> QED  BY <3>1, UnseenHere
  <2>2. Currents' = Currents
    BY <2>1, CurrentKept DEF Currents
  <2>3. InCall /\ before' = before
    BY <1>2 DEF callVars, vars, InCall
  <2> QED  BY <2>2, <2>3 DEF Held
<1>3. CASE CallsNext /\ InCall
  <2>1. Next /\ before' = before /\ pc' # "closed" /\ ~FinishWrite
    BY <1>3 DEF CallsNext, AtStart, InCall, FinishWrite
  <2>2. Currents' = Currents
    BY <1>3, <2>1, CallHolds
  <2> QED  BY <1>3, <2>1, <2>2 DEF Held
<1>4. CASE CallsNext /\ ~InCall
  <2>1. Next /\ before' = Answers
    BY <1>4 DEF CallsNext, AtStart
  <2>2. /\ pc = "idle" /\ pc' = "flush" /\ disk' = disk
        /\ imms' = Append(imms, mut) /\ mut' = EmptyTable
    BY <1>4, <2>1 DEF Next, Internal, Open, Put, Delete, Write, Close, Crash, InCall,
       FinishWrite, FlushCreate, FlushWrite, CompactCreate, CompactWrite,
       CompactRemove, CompactDone
  <2>3. UNCHANGED KV!vars
    BY <1>1, <2>2, RotationUnseen
  <2>4. Currents' = Currents
    BY <2>3, CurrentKept DEF Currents
  <2>5. Answers = Currents
    BY <2>2, AnswersAre
  <2> QED  BY <2>1, <2>4, <2>5
<1> QED  BY <1>2, <1>3, <1>4

\* A call that returns.
LEMMA ReturnsIsWrite ==
    ASSUME VersionsInv, Held, NEW k \in Keys, NEW v \in Values \cup {Tombstone},
           Returns(k, v)
    PROVE  Answers' = [AtStart EXCEPT ![k] = v]
<1>1. TypeOK
  BY DEF VersionsInv, OrderInv, FreshInv, TypeInv
<1>2. pc \in {"idle", "flush"} /\ Insert(mut, k, v) /\ UNCHANGED <<imms, flushed, disk>>
  <2>1. CASE FinishWrite /\ op = [key |-> k, val |-> v]
    <3>1. op.key = k /\ op.val = v
      BY <2>1
    <3> QED  BY <2>1, <3>1 DEF FinishWrite
  <2>2. CASE Write(k, v) /\ pc' = "idle"
    BY <2>2 DEF Write
  <2> QED  BY <2>1, <2>2 DEF Returns
<1>3. \A j \in Keys : Get(j)' = IF j = k THEN v ELSE Get(j)
  BY <1>1, <1>2, InsertIsRead
<1>4. Answers' = [Answers EXCEPT ![k] = v]
  BY <1>3 DEF Answers
<1>5. AtStart = Answers
  BY <1>2, AnswersAre DEF AtStart, InCall, Held
<1> QED  BY <1>4, <1>5

\* A Put or Delete happens wholly or not at all, as far as Get shows: whatever
\* it flushes, merges and removes on the way, when it returns it has changed the
\* answer for its key since it began, to the value written, and no other; and an
\* exception that ends it has changed none.
THEOREM CallsAreAtomic ==
    ASSUME Reliable, WholeValues
    PROVE  CallsSpec => WritesAreAtomic
<1>1. CallsInit => Init /\ Held
  BY DEF CallsInit, Held, InCall, Init
<1>2. [CallsNext]_callVars => [Next]_vars
  BY DEF CallsNext, callVars
<1>3. CallsSpec => []VersionsInv
  <2>1. CallsSpec => Spec
    BY <1>1, <1>2, PTL DEF CallsSpec, Spec
  <2> QED  BY <2>1, SpecVersionsInv, PTL
<1>4. VersionsInv /\ VersionsInv' /\ Held /\ [CallsNext]_callVars => Held'
  BY NextHeld
<1>5. ASSUME VersionsInv, VersionsInv', Held, CallsNext, Throws
      PROVE  Answers' = AtStart
  <2>1. Next /\ InCall /\ pc' = "idle" /\ ~FinishWrite
    BY <1>5 DEF CallsNext, Throws
  <2>2. Currents' = Currents
    BY <1>5, <2>1, CallHolds
  <2>3. Answers' = Currents'
    BY <1>5, <2>1, AnswersAreNext
  <2>4. AtStart = Currents
    BY <1>5, <2>1 DEF AtStart, Held
  <2> QED  BY <2>2, <2>3, <2>4
<1>6. VersionsInv /\ VersionsInv' /\ Held /\ [CallsNext]_callVars
        => [/\ \A k \in Keys, v \in Values \cup {Tombstone} :
                 Returns(k, v) => Answers' = [AtStart EXCEPT ![k] = v]
            /\ Throws => Answers' = AtStart]_callVars
  BY <1>5, ReturnsIsWrite
<1> QED  BY <1>1, <1>3, <1>4, <1>6, PTL DEF CallsSpec, WritesAreAtomic
=============================================================================
