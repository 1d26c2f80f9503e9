# TLA+ specifications of the LSM database

The repository holds three lab assignments of a storage course in C++: an
in-memory database over a skip list (`lab2/skiplist`), the same interface over
a B+ tree (`lab2/bptree`), and an LSM database with SSTable files, compaction
and Bloom filters (`lab3`).  This directory holds TLA+ modules of that code,
TLC configurations that check them on small instances, and theorems that hold
for every value of the constants, checked by TLAPS.

    tlc -config MCLSMDB_crash.cfg MCLSMDB      # one of the runs below
    tlc -config MCLSMDBCalls_bloom.cfg MCLSMDBCalls
    tlc -config MCBPTree_tree.cfg MCBPTree
    tlc -config MCSkipList_towers.cfg MCSkipList
    tlc -config MCMemDB_memdb.cfg MCMemDB
    tlapm LSMDB_proofs.tla                     # one of the proof modules

## The system

All of it is single-threaded: a database is an object that one client calls.
What is concurrent is the process and its end.  lab3 keeps files that outlive
the object, a call of `Put` may create one file and fill it, create another one,
and remove a few, and the process may die, or a file operation throw, between
any two of these steps.

| component | source | state | operations |
|---|---|---|---|
| LSMDB | `lab3/memdb.{h,cc}` | mutable memtable and its size, list of immutables, list of file descriptors, next file id, next sequence number | constructor (recovery), `Put`, `Delete`, `Get`, `RangeScan`; inside a write `EnsureMutableCapacity`, `FlushAllImmutables`, `FlushOneImmutable`, `MaybeCompactSSTables` |
| SSTable files | `lab3/sstable.{h,cc}` | a directory of text files: a META header, an optional BLOOM line, one data line per key | `WriteSSTable`, `ListSSTables`, `GetFromSSTable`, `RangeScanSSTable`, `IsSSTDirEmpty` |
| Compaction | `lab3/compaction.{h,cc}` | none of its own | `CompactAllSSTables`: merge all files, write one, remove the others |
| Bloom filter | `lab3/bloom_filter.{h,cc}` | bit count, hash count, bits | `BuildBloomFilterFromKeys`, `Add`, `MayContain`, hexadecimal encoding |
| SkipList (lab3) | `lab3/skiplist.{h,cc}` | towers of nodes, next sequence number | constructor, destructor, `Put`, `PutWithSequence`, `Delete`, `DeleteWithSequence`, `Get`, `GetLatest`, `RangeScan`, `RangeScanLatest` |
| SkipList and InMemoryDB (lab2) | `lab2/skiplist/*` | towers; a mutable and a list of immutable memtables, never flushed | `Put`, `Get`, `Delete`, `RangeScan` |
| B+ tree and InMemoryDB (lab2) | `lab2/bptree/*` | nodes with keys, children, a `next` chain of leaves and parent pointers | `Put` with splits, `Delete` with borrowing and merging, `Get`, `RangeScan` |
| tests, benchmarks | `*_test.cc`, `*_bench.cc`, `workloads/` | | clients of the databases |
| googletest | `googletest/` | | vendored |

How the parts of lab3 interact: `LSMDB` inserts in the skip list of its mutable
memtable; a write that does not fit makes that memtable immutable and flushes
every immutable with `WriteSSTable` before it inserts; after each flush the list
of files may be compacted, which reads every file, writes one and removes the
rest; `Get` asks the memtables from the newest to the oldest and then the files,
newest first, each behind its key range and Bloom filter, and stops at the
first hit; `RangeScan` and the compaction ask all of them and compare sequence
numbers.  The constructor rebuilds the list of files, the next file id and the
next sequence number from the directory alone; nothing records which files are
current, and the memtables are lost.

What is hard here, and what each part must get right:

* *Files.* The order of the ids in the directory is the only order recovery
  has.  It must be the order of age at every step of a flush and a compaction,
  whatever the process had done when it died: this is why the compacted files
  must go oldest first and only after the new file is written.
* *Numbers.* A sequence number or file id that a reopened database takes must
  not be in use, otherwise a merge keeps an older value, or a file is truncated.
* *Reads.* Two read paths answer the same question from different facts (the
  order of the layers, ranges and filters; sequence numbers) and must agree.
* *Failure.* A flush or compaction left in the middle by an exception leaves
  the object usable, with lists that must still describe the directory.
* *Skip list.* A tower is linked one level at a time behind nodes that were
  found before; levels must stay in step, whatever heights are drawn, and a
  reader must come to the newest version of a key first although the sequence
  numbers come from outside and need not grow.
* *Layers.* The memtables of lab2 each count their entries from 1: only their
  order says which of two entries is newer.
* *B+ tree.* A deletion rebalances nodes that the frames of the recursion above
  still refer to by index.

`PROJECT.json` lists each hazard at its line with the properties that cover it.

## Modules

| module | what it is |
|---|---|
| `BloomFilter` | the filter as operators; the hash function is a constant |
| `SSTable` | tables, what a file holds whole or cut, the readers, the merge of a compaction, as operators on a directory |
| `KVStore` | the abstract specification: a map with one durable value per key and a set of newer versions that a crash may lose |
| `LSMDB` | the database and its directory as a state machine, one action per file operation; the properties |
| `LSMDBCalls` | `LSMDB` with a history variable, what `Get` answered when the call in progress began: a call as its client sees it |
| `MCLSMDB`, `MCLSMDBCalls` | values for TLC; one `.cfg` per run |
| `MemTable` | the abstract specification of a memtable's container: the version of each key stored last, and reads of it |
| `SkipList` | the skip list of lab3, node by node, a step per turn of a loop; the properties |
| `MCSkipList` | values for TLC |
| `OrderedMap` | the abstract specification of the in-memory databases: a map, and a `Delete` that says what it found |
| `MemDB` | the `InMemoryDB` of lab2 over skip lists, with the lists' bottom levels; the properties |
| `MCMemDB` | values for TLC |
| `BPTree` | the B+ tree as a heap of nodes, `Put` and `Delete`; the properties |
| `MCBPTree` | a view of the tree without addresses; one `.cfg` per run |
| `Collections` | lemmas about finite sets of integers (a least and a greatest element, `Min` and `Max`) and about sequences (one element put in or taken out, two joined, the first place where something holds) |
| `SSTable_proofs` | lemmas about the operators of `SSTable` and `BloomFilter` |
| `LSMDB_proofs` | types, fresh sequence numbers, no file overwritten, few files, drained immutables; files in the order of age, the list is the directory, what reads return and a compaction keeps; `LSMDB` implements `KVStore`; calls are atomic |
| `SkipList_proofs` | the skip list is linked, frees what it allocates and implements `MemTable` |
| `MemDB_proofs` | memtables fill up, both reads agree, `MemDB` implements `OrderedMap` |
| `BPTree_proofs` | the heap is one tree: parents are right, it is balanced, nothing leaks |
| `BPTree_order_proofs` | the ranges of keys that searches take to the nodes and the chain of leaves, and that `Put` keeps them |
| `BPTree_search_proofs` | `Delete` keeps them; the tree implements `OrderedMap`, and its searches and scans find every entry |

How they fit together: `LSMDB` extends `SSTable`, which extends `BloomFilter`;
`LSMDB` implements `KVStore`.  `SkipList` implements `MemTable`, which is the
table that `LSMDB` keeps for a memtable (`mut`, and the members of `imms`) and
`SSTable` calls `Table`.  `MemDB` and `BPTree` both implement `OrderedMap`.

### State and actions of LSMDB, and the code

`mut`, `mutSize`, `imms`, `flushed`, `nextFileId`, `nextSeq` and `bloomOn` are
the members of the object (`memdb.h:104-109`); `disk` is the directory, from
file ids to files; `pc` is the place in the code of the call in progress, and
`op`, `out`, `removed` are its locals.

| action | code |
|---|---|
| `Open` | the constructor, `memdb.cc:28-47`, with `IsSSTDirEmpty` and `ListSSTables` |
| `Close`, `Crash` | the object goes, between calls or in one; a file being written stays in some prefix |
| `Write` (of `Put`, `Delete`) | up to the flush loop; with room, the whole call |
| `FlushCreate` | loop test, `FlushOneImmutable` and `WriteSSTable` up to the open file (`memdb.cc:206-216`, `sstable.cc:216-239`) |
| `FlushWrite` | the lines of the file, `push_back` of its descriptor, the threshold test, `erase` of the immutable |
| `CompactCreate` | reading and merging all files, the open of the new file (`compaction.cc:31-118`) |
| `CompactWrite` | the lines of the new file |
| `CompactRemove` | one `std::filesystem::remove` (`compaction.cc:121-123`) |
| `CompactDone` | `flushed_files_` is replaced (`memdb.cc:241-244`), `erase` of the immutable |
| `FinishWrite` | the loop ends, the entry is inserted |

Reads change nothing and are operators, `Get` and `RangeScan`.

`LSMDBCalls` adds the variable `before`, which each step writes and none reads:
the behaviours are those of `LSMDB`.  It holds what `Get` answered for every key
when the call in progress began, so that a property can compare the end of a
call with its beginning, many steps earlier.

A *table* maps each key to the newest version stored of it.  This is the
contract of the skip list: an insertion goes in front of the nodes of its key,
and every reader stops at the first of them.  `SkipList` is shown to keep it.

*What a crash, or a full disk, may leave of a file.*  The process dies, not the
machine: what has been written to the kernel stays.  The lines go through one
stream buffer in order, so a file ends up empty (`bad`, no header can be read)
or with its first lines.  The META line is shorter than the buffer and the
first thing in it, so it is there whole or not at all.  The BLOOM line may end
anywhere (`CutHeaders`): without its digits there is no filter, with an odd
number of them the header is refused, and otherwise the filter has fewer bytes
than its bit count says (`CutFilters`), and a lookup reads behind their end
whatever is there (`Beyond`).  With the
fault `"write"` the same may be left by a `WriteSSTable` that returns, since
nothing tests the stream after writing (`WriteLines`).  `TornLines` adds files
whose last data line is there in part: cut in its value, or in its sequence
number, which then reads back as the number its first digits make, with an
empty value.

*Abstractions.*  Text is not modelled, except where reading back differs from
what was written: `FirstToken` is what `iss >> value` makes of a value, and
`ValuePrefixes`, `SeqPrefixes` what is left of a line that was cut.  The hash
function is a constant.  `has_bloom_filter` is the emptiness of the filter, and
`oldest_seq` is written but never read.

### State and actions of SkipList, and the code

`heap` maps the address of every node allocated to its fields.  An address is
<<tower, level>>: `operator new` gives an address not in use, whatever it is,
and nothing compares them.  Tower 0 is the heads.  `nextSeq` is `next_seq_`; the
other variables are the locals of the call in progress: `call` its arguments,
`x` the node it looks at (and `node` of scans and of the destructor), `level`,
`update`, `height` (`node_level`), `lvl`, `down`, `current` (`current_key`),
`out`; `answer` is what the last read returned.  `max_level` is the argument of
the constructor, `MaxLevel` the member, which is at least 1.

| action | code (`lab3/skiplist.cc`) |
|---|---|
| `Put`, `PutWithSequence`, `Delete`, `DeleteWithSequence`, `Lookup`, `RangeScan` | the calls, up to the loop of `FindGreaterOrEqual` (51-57) |
| `FindRight`, `FindDown` | the inner loop (60-62), the rest of the outer one (63-72) |
| `FoundToWrite`, `FoundByGet`, `FoundByScan` | the return of the search to its caller; the height of a tower is drawn here, any from 1 to `MaxLevel` |
| `Link` | one turn of the loop that links a tower (87-94, 133-139) |
| `ScanKey`, `SkipOlder`, `ScanDone` | the loop of a scan over keys, the one inside it over older nodes, its end |
| `Destroy`, `FreeNode`, `FreeLevelBelow` | the destructor (19-32) |

`Get` and `GetLatest` differ only in whether a tombstone counts as found, as do
`RangeScan` and `RangeScanLatest`: an argument of the call.  The probability of
a height is not modelled, only that each may be drawn.

### State and actions of MemDB, and the code

`mutable_` and `immutables_` are the members of `InMemoryDB`; a memtable is its
`list`, the list's `next_seq_`, `size_bytes` and `immutable`.  Put and Delete
are sequential code without failures, and an action each: `EnsureMutableCapacity`
(`Write`) and then the insertion where `FindGreaterOrEqual` says.  The list is
the bottom level of the skip list from the head on; the levels above shorten
the way to a node and are what `SkipList` is about.  A search stops
where `FirstFrom` says; `Get` stops at the newest memtable that has the key
(`StopsAt`), and `RangeScan` goes through all of them, newest first, a key that
is decided keeping what was said of it (`Over`).  The client stops when there
are `MaxWrites` nodes (`Nodes`).  `Get` and `RangeScan` are
operators.  `done` is the call that returned last, for `OrderedMap`, so that a
write that does something else than it was asked for is no step of the map.

### State and actions of BPTree, and the code

`heap` maps the address of every node that is allocated to its fields: `leaf`
(`is_leaf`), `keys`, `items` (the `values` of a leaf, the `children` of an
internal node), `next` and `parent` (`bptree.h:41-61`).  `root` is `root_`,
`degree` the option the tree was built with, `done` the last call and, for a
`Delete`, its result.  The code is sequential, so `Put` and
`Delete` are one action each.  The recursion in them is a recursive function on
the nodes: all the frames of a call go down before the first of them changes
anything, so each finds its child in the heap that the call started with, and
what a frame does when its child has returned is an operator from a heap to a
heap (`InsertInLeaf` and `InsertInInternal`, `DeleteFromLeaf` and
`DeleteFromInternal`).  The other functions of the code are an operator each:
`Split`, `RefreshInternalKeys`, `FixUnderflow`,
`BorrowFromLeft` and `BorrowFromRight` (the two halves of `BorrowFromSibling`),
`Merge`, `RemoveChild`, `DetachLeafFromChain`.  Where a leaf and an internal
node differ in one step only, an operator says in which: `Promoted`, `Between`,
`Rotated`.  `Get` and `RangeScan` change nothing and are operators.

*The read of a freed node.*  `DeleteFromNode` looks again at
`children[idx]` after the call below has returned (`bptree.cc:245`).  If the
child was the last one and has merged itself into its left sibling, that slot
is one past the end of the vector and still has the address of the deleted
node, whose flag and size are then read.  What is there is up to the allocator.
In a build with the default allocator the call goes on, when the garbage reads
as a node with enough keys, or ends the process, when it reads as one that
underflows and is then merged.  `Delete` chooses between the two, and `fate`
says which happened; other damage the garbage may do is not modelled.

## Runs

Keys of `LSMDB` are 1..2 (1..3 in `bloom`), a key has 4 bytes and a value 4, and
a memtable 12, the sizes of `lab3/db_test.cc`: a memtable holds one put, or a put
and a delete, or three deletes, so that a few writes fill several memtables.
`MaxSeq` bounds how many writes are kept, `MaxFileId` how many files are ever
created; both only stop the client.  A crash or close is possible everywhere,
and lowers both numbers again when it loses what was in memory, so that runs
contain any number of reopenings.

| run | question | bounds |
|---|---|---|
| `crash` | do flush, compaction and recovery implement `KVStore`, with the process dying anywhere and the creation of any file free to throw? Do memory and directory agree, does `Get` return the current value, does every call end? | 2 keys, 1 value and the tombstone, 4 writes, 6 files, threshold 1: two flushes, a compaction and a second one with the result of the first, with a failure before it; under fairness |
| `threshold` | do numbers stay fresh, files few, and the immutables drained, when several files pile up, crashes cut lines and the disk is full? | threshold 2, 4 writes, 6 files, failing writes: compactions of three files, and of more after crashes; any file may end anywhere, also those of calls that returned; every file has a filter, of 8 bits per key and so of two bytes for two keys, which may be cut to one; sequence numbers in base 2, so that short numbers already have proper prefixes |
| `bloom` | do `Get` and `RangeScan` agree, and on the current value, with the filter on or off at each opening? Does a call that returns change the answer for its key alone, compared with what `Get` said before the call, and one that throws change none? | 3 keys, so that a call flushes and merges the entries of two others; 2 values (symmetric), 3 writes, 6 files, threshold 1; the creation of any file free to throw, in the flush or in the compaction; 10 bits per key and 2 hashes, so that the filter of one key has two bytes, and a filter of the keys 1 and 3 seems to have the key 2; a crash may cut a filter to one byte, and keys are then looked up beyond it |

The instances are small but hold each kind of step in each order: the longest
chain a property needs is write, flush, write, flush, compaction, crash in the
middle of its removals, reopening, flush, compaction, and that fits in four
writes and six files.

The runs of `BPTree` are over every sequence of puts and deletes of a few keys,
of any length.  Nothing is bounded but the keys, so nothing is cut off; a view
takes trees that differ in the addresses of their nodes only for one.  (The
run `freed` does without it, so that its trace shows the addresses.)

| run | question | bounds |
|---|---|---|
| `tree` | is the tree a map? Can everything be found, is the tree balanced, are parents right, does a node leak or a pointer dangle? | degree 4, the default, with 10 keys: three levels, where internal nodes split, borrow and merge, and a freed node is read; degree 3, the smallest, with 9 keys: four levels; a leaf keeps at least one key here, so leaves become empty and are cut out of the chain, also across subtrees. No two keys share a value, and some are overwritten |

Deadlock is not checked in `tree`, as the read of a freed node may end the
process there.

The runs of the skip list and of the database over it:

| run | question | bounds |
|---|---|---|
| `towers` | does the list implement `MemTable`, whatever heights are drawn; are its levels linked at every step, does every call end, is everything freed? | 2 keys, 1 value and the tombstone, 2 levels, 3 insertions: towers of both heights in each order before, behind and between those of the same key; callers' number 3 next to the list's own, so that the newest version of a key may have the smaller number; under fairness |
| `memdb` | is the layered database a map, do its reads agree, when is a memtable replaced? | keys and values of `MCMemDB`, with values that leave room, just fill a memtable and are larger than one; five writes, so up to six memtables |

Deadlock is not checked in `towers`, where nothing follows the destructor, nor
in `memdb`, where the client stops after `MaxWrites`.

The properties are these.

* `ImplementsKVStore` (refinement).  The durable value of a key is what the
  newest file with an entry for it says; its pending versions are those in
  memory with a larger sequence number.  So a flush may only make values
  durable, a compaction may change nothing, and a crash at any step neither
  loses a durable value nor brings an older or deleted one back.
* `FilesInSeqOrder`, `ListMatchesDirectory`, `NextSeqIsFresh`,
  `NoFileIsOverwritten`: what recovery and reads rely on.
* `GetReturnsCurrent`, `GetAgreesWithRangeScan`: what reads return.
* `CompactionKeepsContents`, `FlushLeavesFewFiles`, `ImmutablesDrained`.
* `WritesAreAtomic`: a `Put` or `Delete` happens wholly or not at all.  When it
  returns, `Get` answers what was written for its key, and for every other key
  what it answered when the call began, whatever was flushed, merged and removed
  in between.  When an exception ends it, no answer has changed.  It
  fails with the faults that `Reliable` leaves out: with `"read"`, a call
  returns whose compaction left a file out and lost another key.
* `ImplementsOrderedMap` (refinement): whatever is restructured, the entries in
  the leaves of a B+ tree, or what the memtables of `MemDB` say, change by the
  one that was asked for, and `Delete` reports what it found.
* `MemTablesAreFull`: a memtable of `MemDB` is replaced only by an entry that
  would not fit, and its size is that of what is in it.
* `ImplementsMemTable` (refinement): the newest tower of a key is its version
  in the abstract table.  So every insertion is one step, the turn of the loop
  that links its bottom node; linking the levels above changes nothing, and
  every read returns what the table holds.
* `LevelsLinked`: at every step each level links exactly its nodes, in order.
* `AnswersAscend`, `EverythingFreed`.
* `ReadsFindEverything`: they can also all be found, by `Get` through separators
  and by `RangeScan` through the chain.  A wrong separator or `next` pointer
  changes no entry, and shows only here.  A separator need not be the least key
  on its right, as the comment at `bptree.cc:273` has it, since a node that
  rebalances itself returns before its separators are refreshed; it is enough
  that it separates.
* `Balanced`, `ParentsAreRight`, `NothingLeaks`, and `TypeOK` (no pointer to a
  node that was freed): what later deletions rely on.
* `CallsReturn` (liveness), under weak fairness of `Internal`, that is of the
  steps of a call in progress, in `LSMDB` and in `SkipList`.  The code justifies
  it: it is sequential code without locks or waiting, so a call that can go on
  does, unless the process dies, and then the call is over.  Nothing is assumed
  about the client.

## Where the code and its comments part

Six runs show behaviours of the code that its own comments or tests exclude;
TLC's counterexample is the scenario.

* `oversize`: a put longer than a memtable, into an empty memtable, makes the
  empty memtable immutable; `WriteSSTable` refuses an empty table, the
  exception leaves it at the front of the list, and every later flush throws.
* `whitespace`: a value with white space comes back cut after a flush.
* `unreadable`: a file that cannot be opened during a compaction is left out of
  the merge and then removed.  `CompactionKeepsContents` fails in the same way
  with `Faults = {"write"}`: the files go although the lines of the one that
  replaces them were not all written.
* `unremovable`: if removing a file throws, the list in memory still has the
  files removed before and not their replacement, and `Get` misses keys.
* `torn_read`: a line cut inside its sequence number is read as an entry; `Get`
  and `RangeScan` then disagree.
* `freed`: the read of a freed node above.  It takes ten keys at degree 4; a
  build with an address sanitizer stops at the same line.

Apart from these, and with the faults they need left out, all properties hold.

## What is proved

The proofs are about `Spec` of `LSMDB`, of `SkipList`, of `MemDB` and of
`BPTree` for every value of the constants: any keys, values, sizes, threshold,
bounds, hash function, heights, degree.  They use the assumptions
`BloomAssumption`, `SSTableAssumption`, `LSMDBAssumption`, `SkipListAssumption`,
`MemDBAssumption` and `BPTreeAssumption`, which TLC evaluates in every run of a
module that extends theirs.

Some theorems of `LSMDB` assume two things more, which the runs that violate
what they conclude show to be needed.  `Reliable`: files can be opened and
removed, what is written arrives, and no line is cut by a crash (`unreadable`,
`unremovable` and `torn_read` are runs without it).  Crashes at every step,
files that end after any of their lines, cut filters and creations that throw
are all still there.  `WholeValues`: a value is read back from a file as it was
written (`whitespace` is a run without it).

* `NoFalseNegatives`: the filter built for a set of keys has each of them.  The
  lookup and the insertion probe the same bits, whatever the hash is, and
  `BloomByteSize` leaves room for all of them.
* `TypeCorrect`.  A step needs to know which immutable, file id and list of
  entries a place in the code works on, so the invariant `TypeInv` adds
  `Control` (what holds at each `pc`) to `TypeOK`.
* `SequenceNumbersAreFresh`, `FilesAreNotOverwritten`, if no file is unreadable.
  `NextSeqIsFresh` is not inductive: a reopening computes the next number from
  headers, so `FreshInv` adds that a header's number bounds the entries of its
  file (`FilesOK`), that nothing is in memory while the database is closed
  (`Gone`), and that the files of ids not taken yet cannot be read
  (`IdsBelow`).  Crashes, failed creations, writes and removals and cut lines
  are all included.
* `FewFilesStay`: a call that flushed and returned leaves at most `Threshold`
  files in the list, whatever fails.  After a crash it may be
  longer; `FewFiles` says that it is not once the flush loop has emptied the
  immutables, as `MaybeCompactSSTables` runs after every file of a flush.
* `ImmutablesAreDrained`, if every entry fits into an empty memtable
  (`EntriesFit`; `oversize` is a run without it) and no file fails to be created
  or removed.  `Drained` adds that every immutable holds an entry,
  since `WriteSSTable` refuses an empty table and the loop ends there.
* `FilesStayInSeqOrder`, `ListStaysTheDirectory`, from `Reliable`.  `OrderInv`
  says that the layers are in the order of age (files by id, the file being
  written, immutables, mutable), that the list is in the order of ids, and that
  it is the directory less what the compaction in progress has removed.
* `ReadPathsAgree`, from `Reliable`.  `Get` stops at the first layer that has
  the key and `RangeScan` takes the largest number; with layers in the order of
  age (`LayersInOrder`) these are one entry (`FirstHitIsNewest`), if no file
  that has the key is passed over.  For that `Described` adds to `OrderInv`
  that each descriptor in the list has the range and the filter of its file,
  also of a file that a crash has cut (`WholePartialFiles`); a file whose filter
  was cut ends there, and has no entries that it could hide.
* `CompactionChangesNothing` and `GetIsCurrent`, from `Reliable` and
  `WholeValues`.  That layers are in the order of age allows equal numbers in
  two layers, as an immutable that is flushed is in a file too until it is
  erased.  So `VersionsInv` adds `OneVersion` (a number has one value, wherever
  it is stored), `Strict` (only the front of the immutables can have numbers
  that are in files) and `Written` (what a flush has written stays the newest in
  the files while the compaction after it runs; what that compaction has merged
  is what the files say).
* `StoreIsImplemented`, the refinement of `KVStore`, from the same invariant.
  An insertion is `Write`; the completion of the file of a flush is `Harden`,
  with the versions of the front of the immutables (`PendingIs` gives what is
  pending as the front and what came later, `FlushIsHarden` the step); the end
  of the object is `Crash`, and what a file being written has got by then is
  what each key may keep (`StopIsCrash`).  Everything else is a stutter: opening,
  rotating, creating, all of a compaction, and erasing the front, which after
  its flush has nothing that the files have not.
* `CallsAreAtomic`, about `CallsSpec`, from `Reliable` and `WholeValues`.  What
  the store holds of a key (`KVStore!Current`, in terms of versions and not of
  layers) is what `Get` answers whenever the call in progress is between two
  files (`CurrentIsRead`), and every step of a call before its insertion is a
  stutter of the store or hardens versions, which leaves the newest of each key
  where it is (`CallUnseen`, `CurrentKept`).  So `Held` is invariant: until the
  call ends, the store holds what `Get` answered when it began.
* `ListTypes`, `ListLinked`, `ListAscends`, `ListFreed`, `ListIsMemTable`: all
  five follow from one inductive invariant.  `LevelsLinked` alone is not
  inductive: a step relies on where the call is.  So `Inv` adds what holds of
  the nodes whatever happens (`NodesOK`, `HaveNewest`, `NumbersOK`), of the
  arguments (`CallOK`), and one conjunct per place of the code: `Idle`,
  `Finding` (the search is still in front of its key at this level, and
  `update` is in front of it at the levels above), `LinkingOK` (the nodes of
  `update` are the last in front of the key at the levels not linked yet),
  `Scanning` and `Skipping` (what was collected is what the table holds of the
  keys passed), `Freeing` (the levels above are gone, and of this one a
  beginning).  The refinement then has one step per action: `Link` at the
  bottom is `Insert`, the end of a read is `Read`, `Destroy` is `Drop`, all
  others are stutters.

* `MemDB_proofs`: `Types`, `MemTablesFillUp`, `IsOrderedMap`, `ReadsAgree`, with
  no assumption beyond `MemDBAssumption`.  `Inv` says of every memtable that it is
  `Good` (its list ascends by key and, among nodes of a key, descends by number,
  the numbers are those from 1 to `next_seq_ - 1`, each once (`Numbered`),
  `size_bytes` is what the nodes amount to) and that only the last is mutable; and of every neighbour that the first entry
  behind an immutable did not fit (`AllFull`).  That a search stops at the newest
  node of its key, although nodes are inserted in front by number, is
  `SearchFinds` and `InsertSplices`.  `RangeScan` folds over the memtables; `LoopIs`
  gives the fold in closed form.  It is shown by a least counterexample, not by the library's induction
  theorems, which take an operator as a parameter and which the provers here
  cannot instantiate.

* `BPTree_proofs`: `ParentsAlwaysRight`, `StaysBalanced`, `NeverLeaks`, with no
  assumption beyond `BPTreeAssumption`, so also after the read of a freed node,
  when the call goes on with a parent that was not examined again.  All three
  follow from `TreeInv`: there are levels `lv`, 0 for the leaves, such that the
  heap is one tree under the root (`Tree`).  `Forest` says that each node but
  the roots is a child of one node, its parent, one level above, and `Balance`
  how many keys and children it has.  A heap in the middle of a call is a forest
  too, with a node that has been split off as a second root, or a node that has
  not been given its last key back.  `SurgeryKeepsForest` is the one lemma about
  pointers: a step that changes a few nodes keeps a forest if those nodes have
  the same children between them before and after it, but for the roots that it
  makes or takes away.  Splits, rotations, merges, removals and the two changes of the
  root are cases of it (`SplitHalves`, `LinkedIn`, `HandedOverIs`, `MergedIs`,
  `RemoveChildIs`, `TopAdded`, `ShrunkRootIs`).  A call of `Insert` at a node
  returns a heap that is `Grown`, one of `DeleteFromNode` a heap that is
  `Shrunk`: the tree is balanced but for that node, which may miss one key, or
  for its parent, if the node has already merged or borrowed.  `InsertGrows` and `DeleteShrinks`
  say so for every node: were there nodes for which it is wrong, take one of
  least level, which is wrong although it is right for its child.  That a node
  found empty at `bptree.cc:235` is never internal, and the last disjunct of
  `FixUnderflow` (no sibling at all) is never taken below the root, comes out
  of the counts in `Balance`.

* `BPTree_order_proofs` and `BPTree_search_proofs`: `StaysTyped`,
  `TreeIsOrderedMap`, `ReadsAlwaysFind`, with no assumption beyond
  `BPTreeAssumption` either.  Their invariant `SearchInv` adds to `Tree` that
  keys are where searches look for them (`Plain`).  What is true of separators in this code is
  weaker than that each is the least key on its right, and a statement about
  paths from the root would need induction.  So a ghost gives every node n a
  range of keys, from `lo[n]` up to `hi[n]`, and the invariant says three things that
  look at one node and its neighbours only: the keys of an internal node cut its
  range into those of its children (`Parted`), the keys of a leaf ascend within
  its range (`Filed`), and `next` leads to the leaf whose range begins where this
  one ends (`Chained`).

  A call moves these ranges.  `RefreshInternalKeys` replaces separators by the
  first keys of leaves, so bounds equal to them rise in all the tree at once
  (`RaisedRanges`, `SeparatorsRaise`).  A split gives the upper part of a range
  to a node that no parent has yet (`Ordered`, with that node and the one it was
  split from), a borrowing moves the bound between two siblings, a merge joins
  two ranges, and a leaf that is removed leaves its range to a
  neighbour, while `DetachLeafFromChain` looks for its predecessor along the
  chain (`DetachSkips`).  The order in which `DeleteFromNode` does this matters: a
  frame whose child has rebalanced itself returns without refreshing, and its
  separators still part its range.

  Along with the order goes what each step does to the entries: `SameEntries`
  for restructuring, `PutTo` and `Erased` for the leaf.  So a step is one of
  `Stepped`, which `MapIs` turns into a step of `OrderedMap`.  For reads,
  `FindLeaf` comes to the leaf whose range has the key (`GetFinds`); for scans
  every leaf has a rank that falls along `next`, and a least counterexample by
  that rank shows that a scan from a leaf finds what is at or above its range
  (`ScanFrom`, `ScanServes`).  That the entries found from the root are
  those of all leaves allocated is `NothingLeaks`.

Model-checked only: `CallsReturn`, as liveness and `ENABLED` are out of the
prover's reach, and what the runs that expect a violation show.  Every other
property of a passing run is stated by one of these theorems.

## Not modelled

* Power loss: nothing in the code calls `fsync`, and a model of it would have
  the kernel lose any suffix of any file.  The models are of process crashes.
* The text of the files beyond what is said above, and a META line that is cut:
  it is the first thing in a buffer that is larger than it, and written with it
  at once.
* The mixing function of the filter (a constant), and the hexadecimal digits of
  its bytes.
* Overflow of `int` ids and 64-bit sequence numbers.
* The towers of lab2's skip list: built as those of lab3, which are modelled.
* The tests, which call the databases, the benchmarks, which time them over the
  workload files, and the build.
* googletest, a copy of a test framework that no database calls.  It is nine
  tenths of the lines of C++ in the repository, so the share of the lines that
  the modules map stays small however much of the labs they cover.

## Plan

1. (done) `BloomFilter`, `SSTable`, `KVStore`, `LSMDB`, the runs and theorems
   above.
2. (done) `OrderedMap`, `BPTree` and its runs.
3. (done) `MemTable`, `SkipList`, its run and its theorems.
4. (done) `MemDB` and its run.
5. (done) Cut BLOOM lines and failing writes in `SSTable` and `LSMDB`.
6. (done) Proofs of what reads return, of what a compaction keeps, and of the
   refinement of `KVStore`.
7. (done) Proofs of `WritesAreAtomic`, `FlushLeavesFewFiles`, `ImmutablesDrained`
   and of `MemDB`.
8. (done) Proofs about the shape of the B+ tree, with its recursion written as
   recursive functions.
9. (done) Proofs of the order of keys and of the chain of leaves in the B+ tree,
   and of its refinement of `OrderedMap`.
