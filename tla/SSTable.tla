------------------------------ MODULE SSTable ------------------------------
(***************************************************************************)
(* SSTable files and their compaction (lab3/sstable.cc, lab3/compaction.cc)*)
(* as pure operators: what a file holds, what a crash may leave of it, and *)
(* what the readers return for it.                                         *)
(*                                                                         *)
(* A table gives each key the newest version stored of it.  That is all    *)
(* the skip list of a memtable can show: an insertion goes in front of     *)
(* every node of its key, and every reader stops at the first one.         *)
(***************************************************************************)
EXTENDS BloomFilter, Sequences, FiniteSetsExt

CONSTANTS
    MinKey, MaxKey,     \* the ints in play
    Values,             \* every value a file or a memtable may hold
    Tombstone,          \* marks a deleted key
    FirstToken(_),      \* what `iss >> value` reads back of a value written
    EmptyString,        \* the value ""
    ValuePrefixes(_),   \* what is left of a value when its line is cut short
    SeqBase             \* sequence numbers are written in this base

ASSUME SSTableAssumption ==
    /\ MinKey \in Int /\ MaxKey \in Int /\ MinKey <= MaxKey
    /\ Tombstone \notin Values
    /\ \A v \in Values : FirstToken(v) \in Values
    /\ EmptyString \in Values
    /\ \A v \in Values : ValuePrefixes(v) \subseteq Values
    /\ SeqBase \in Nat \ {0, 1}
    /\ \A k \in MinKey .. MaxKey, i \in 0 .. HashCount : SimpleHash(k, i) \in Nat

Keys == MinKey .. MaxKey
----------------------------------------------------------------------------
(* Tables *)

\* The tables' "no entry for this key"; sequence numbers in use start at 1.
NoEntry == [seq |-> 0, val |-> Tombstone]

Entry == {NoEntry} \cup [seq : Nat \ {0}, val : Values \cup {Tombstone}]

Table == [Keys -> Entry]

EmptyTable == [k \in Keys |-> NoEntry]

KeysOf(t) == {k \in Keys : t[k].seq > 0}

\* The part of t with keys in S.
Only(t, S) == [k \in Keys |-> IF k \in S THEN t[k] ELSE NoEntry]
----------------------------------------------------------------------------
(* Choosing among the entries a sequence of tables, oldest first, has for k *)

Holders(ts, k) == {p \in DOMAIN ts : ts[p][k].seq > 0}

\* The first hit of a search that starts at the newest table.
FirstHit(ts, k) ==
    IF Holders(ts, k) = {} THEN NoEntry ELSE ts[Max(Holders(ts, k))][k]

\* The tables holding the entry of k with the largest sequence number.
Latest(ts, k) ==
    {p \in DOMAIN ts : \A q \in DOMAIN ts : ts[q][k].seq <= ts[p][k].seq}

\* Merging newest table first, an equal sequence number not replacing (`>`).
MergeFromNewest(ts, k) == ts[Max(Latest(ts, k))][k]

\* Merging oldest table first, an equal sequence number not replacing (`>`).
MergeFromOldest(ts, k) == ts[Min(Latest(ts, k))][k]
----------------------------------------------------------------------------
(* Files *)

\* "bad": the file exists and ReadSSTableHeader rejects it.
File == [status : {"none", "bad", "ok"}, lo : Int, hi : Int, newest : Nat,
         bloom : BloomFilters, ents : Table]

NoFile == [status |-> "none", lo |-> 0, hi |-> 0, newest |-> 0,
           bloom |-> EmptyFilter, ents |-> EmptyTable]

BadFile == [NoFile EXCEPT !.status = "bad"]

\* A data line, written as `P key seq value` or `D key seq` and parsed back.
ParseSSTableDataLine(e) ==
    IF e.val = Tombstone THEN e ELSE [e EXCEPT !.val = FirstToken(@)]

\* Plausible bug: newest_seq is that of the first entry in key order.
WriteSSTableNewestOfFirst(t, writeBloom) ==
    [status |-> "ok",
     lo     |-> Min(KeysOf(t)),
     hi     |-> Max(KeysOf(t)),
     newest |-> t[Min(KeysOf(t))].seq,
     bloom  |-> IF writeBloom THEN BuildBloomFilterFromKeys(KeysOf(t))
                              ELSE EmptyFilter,
     ents   |-> [k \in Keys |-> ParseSSTableDataLine(t[k])]]

\* The complete file WriteSSTable leaves for the entries of t.
WriteSSTable(t, writeBloom) ==
    [status |-> "ok",
     lo     |-> Min(KeysOf(t)),
     hi     |-> Max(KeysOf(t)),
     newest |-> Max({t[k].seq : k \in KeysOf(t)}),
     bloom  |-> IF writeBloom THEN BuildBloomFilterFromKeys(KeysOf(t))
                              ELSE EmptyFilter,
     ents   |-> [k \in Keys |-> ParseSSTableDataLine(t[k])]]

\* What reading the digits of a cut sequence number gives.
SeqPrefixes(s) == {r \in 1 .. s : \E n \in 1 .. s : r = s \div (SeqBase ^ n)}

\* What may be read back of a data line that ends early: in the value, or in
\* the sequence number, and then there is no value.
CutEntries(e) ==
    IF e.val = Tombstone
    THEN [seq : SeqPrefixes(e.seq), val : {Tombstone}]
    ELSE [seq : {e.seq}, val : ValuePrefixes(e.val)]
         \cup [seq : SeqPrefixes(e.seq), val : {EmptyString}]

\* The file ends in its header: before the META line is complete, or after it
\* or in the BLOOM line.
CutHeaders(f) ==
    {BadFile} \cup {[f EXCEPT !.bloom = b, !.ents = EmptyTable] :
                        b \in {f.bloom} \cup CutFilters(f.bloom)}

\* What may be left of file f when its writing ends early: part of the header,
\* or the header and the lines of the smallest keys.  With `torn`, the line
\* after them may also be there in part.
PartialFiles(f, torn) ==
    LET Upto(k)  == Only(f.ents, MinKey .. k)
        Whole(k) == [f EXCEPT !.ents = Upto(k)]
        Torn(k)  == {[f EXCEPT !.ents = [Upto(k) EXCEPT ![k] = e]] :
                        e \in CutEntries(f.ents[k])}
    IN  {f} \cup CutHeaders(f)
        \cup {Whole(k) : k \in KeysOf(f.ents)}
        \cup IF torn THEN UNION {Torn(k) : k \in KeysOf(f.ents)} ELSE {}
----------------------------------------------------------------------------
(* Directory and readers; disk maps a file id to the file sst_<id>.txt *)

\* SSTableFile: what memory keeps of a file.  Its has_bloom_filter adds
\* nothing to whether the filter is Empty, and oldest_seq has no reader.
Descriptor(FileIds) ==
    [id : FileIds, lo : Int, hi : Int, newest : Nat, bloom : BloomFilters]

Describe(id, f, loadBloom) ==
    [id |-> id, lo |-> f.lo, hi |-> f.hi, newest |-> f.newest,
     bloom |-> IF loadBloom THEN f.bloom ELSE EmptyFilter]

SSTables(disk) == {id \in DOMAIN disk : disk[id].status = "ok"}

IsSSTDirEmpty(disk) == \A id \in DOMAIN disk : disk[id].status = "none"

Ascending(ids) == \A i, j \in DOMAIN ids : i < j => ids[i] < ids[j]

Ids(files) == {files[j].id : j \in DOMAIN files}

\* The listing of the files in `opened`, sorted by id; the only element.
ListSSTables(disk, opened, loadBloom) ==
    {[j \in DOMAIN ids |-> Describe(ids[j], disk[ids[j]], loadBloom)] :
        ids \in {s \in [1 .. Cardinality(opened) -> opened] :
                    /\ {s[j] : j \in DOMAIN s} = opened
                    /\ Ascending(s)}}

GetFromSSTable(disk, file, k) ==
    IF \/ k < file.lo \/ k > file.hi
       \/ ~Empty(file.bloom) /\ ~MayContain(file.bloom, k)
       \/ disk[file.id].status # "ok"
    THEN NoEntry
    ELSE disk[file.id].ents[k]

\* The scan of a file reads the header again and ignores the filter.
RangeScanSSTable(disk, file, a, b) ==
    LET f == disk[file.id]
    IN  IF f.status # "ok" \/ b < f.lo \/ a > f.hi
        THEN EmptyTable
        ELSE Only(f.ents, a .. b)

\* Plausible bug: an entry of a later file never replaces an earlier one.
CompactEntriesFirstWins(disk, files, skipped) ==
    LET ts     == [j \in DOMAIN files |->
                     IF files[j].id \in skipped THEN EmptyTable
                     ELSE disk[files[j].id].ents]
        merged == [k \in Keys |-> IF Holders(ts, k) = {} THEN NoEntry
                                  ELSE ts[Min(Holders(ts, k))][k]]
    IN  Only(merged, {k \in Keys : merged[k].val # Tombstone})

\* The merge of CompactAllSSTables: per key the largest sequence number, and
\* then no tombstones.  A file that cannot be opened is skipped.
CompactEntries(disk, files, skipped) ==
    LET ts     == [j \in DOMAIN files |->
                     IF files[j].id \in skipped THEN EmptyTable
                     ELSE disk[files[j].id].ents]
        merged == [k \in Keys |-> MergeFromOldest(ts, k)]
    IN  Only(merged, {k \in Keys : merged[k].val # Tombstone})
============================================================================
