--------------------------- MODULE SSTable_proofs ---------------------------
(***************************************************************************)
(* Facts about the Bloom filter and the SSTable operators, for every key   *)
(* range, value set, hash function and filter size: what the readers and   *)
(* the merge of a compaction rely on.                                      *)
(***************************************************************************)
EXTENDS SSTable, Collections

(* The Bloom filter *)

\* A filter for some keys has bits.
LEMMA BitCountPositive ==
    ASSUME NEW ks \in SUBSET Keys, ks # {}, BitsPerKey # 0
    PROVE  Cardinality(ks) * BitsPerKey \in Nat \ {0}
<1>1. IsFiniteSet(ks) /\ Cardinality(ks) \in Nat \ {0}
  BY SSTableAssumption, FS_Interval, FS_Subset, FS_CardinalityType,
     FS_EmptySet DEF Keys
<1>2. BitsPerKey \in Nat \ {0}
  BY BloomAssumption
<1> QED  BY <1>1, <1>2, Z3

\* PositiveModulo keeps the probes of a key among the bits there are.
LEMMA ProbesInRange ==
    ASSUME NEW k \in MinKey .. MaxKey, NEW n \in Nat \ {0}
    PROVE  Probes(k, n, HashCount) \subseteq 0 .. n - 1
<1>1. \A i \in 0 .. HashCount - 1 : i \in 0 .. HashCount
  BY BloomAssumption
<1>2. \A i \in 0 .. HashCount - 1 : SimpleHash(k, i) \in Nat
  BY <1>1, SSTableAssumption
<1>3. \A h \in Nat : h % n \in 0 .. n - 1
  OBVIOUS
<1> QED  BY <1>2, <1>3 DEF Probes

\* BloomByteSize rounds up.
LEMMA BytesHoldBits ==
    ASSUME NEW n \in Nat
    PROVE  /\ BloomByteSize(n) \in Nat
           /\ \A i \in 0 .. n - 1 : i < 8 * BloomByteSize(n)
  BY DEF BloomByteSize

\* The filter built for a set of keys is never consulted, or says "maybe" of
\* each of them: GetFromSSTable cannot lose an entry to it.
THEOREM NoFalseNegatives ==
    ASSUME NEW ks \in SUBSET Keys, NEW k \in ks
    PROVE  LET f == BuildBloomFilterFromKeys(ks)
           IN  Empty(f) \/ MayContain(f, k)
<1>1. CASE ks = {} \/ BitsPerKey = 0 \/ HashCount = 0
  BY <1>1 DEF BuildBloomFilterFromKeys, Empty, EmptyFilter
<1>2. CASE ~(ks = {} \/ BitsPerKey = 0 \/ HashCount = 0)
  <2> DEFINE n    == Cardinality(ks) * BitsPerKey
             size == BloomByteSize(n)
             set  == UNION {Probes(x, n, HashCount) : x \in ks}
             f    == BuildBloomFilterFromKeys(ks)
  <2>1. n \in Nat \ {0}
    BY <1>2, BitCountPositive
  <2>2. f = [bitCount |-> n, hashCount |-> HashCount, bytes |-> size, bits |-> set]
    BY <1>2 DEF BuildBloomFilterFromKeys
  <2>3. \A i \in Probes(k, n, HashCount) : i \in set
    OBVIOUS
  <2>4. \A i \in Probes(k, n, HashCount) : i < 8 * size
    <3>1. Probes(k, n, HashCount) \subseteq 0 .. n - 1
      BY <2>1, ProbesInRange DEF Keys
    <3> HIDE DEF n
    <3> QED  BY <2>1, <3>1, BytesHoldBits
  <2> HIDE DEF n, size, set
  <2>5. \A i \in Probes(k, n, HashCount) : GetBit(f, i)
    BY <2>2, <2>3, <2>4 DEF GetBit
  <2>6. f.bitCount = n /\ f.hashCount = HashCount /\ f.bytes = size
    BY <2>2
  <2> HIDE DEF f
  <2>7. Empty(f) \/ MayContain(f, k)
    BY <1>2, <2>5, <2>6 DEF Empty, MayContain
  <2> QED  BY <2>7 DEF f
<1> QED  BY <1>1, <1>2

\* The filters built have the type of filters.
LEMMA BuildBloomFilterType ==
    ASSUME NEW ks \in SUBSET Keys
    PROVE  BuildBloomFilterFromKeys(ks) \in BloomFilters
<1>1. EmptyFilter \in BloomFilters
  BY DEF EmptyFilter, BloomFilters
<1>2. CASE ~(ks = {} \/ BitsPerKey = 0 \/ HashCount = 0)
  <2> DEFINE n == Cardinality(ks) * BitsPerKey
  <2>1. HashCount \in Nat
    BY BloomAssumption
  <2>2. n \in Nat \ {0}
    BY <1>2, BitCountPositive
  <2> HIDE DEF n
  <2>3. BloomByteSize(n) \in Nat
    BY <2>2, BytesHoldBits
  <2>4. ASSUME NEW k \in ks PROVE Probes(k, n, HashCount) \subseteq Nat
    <3>1. Probes(k, n, HashCount) \subseteq 0 .. n - 1
      BY <2>2, ProbesInRange DEF Keys
    <3> QED  BY <2>2, <3>1
  <2>5. UNION {Probes(k, n, HashCount) : k \in ks} \subseteq Nat
    BY <2>4
  <2>6. BuildBloomFilterFromKeys(ks) =
          [bitCount  |-> n, hashCount |-> HashCount, bytes |-> BloomByteSize(n),
           bits |-> UNION {Probes(k, n, HashCount) : k \in ks}]
    BY <1>2 DEF BuildBloomFilterFromKeys, n
  <2> QED  BY <2>1, <2>2, <2>3, <2>5, <2>6 DEF BloomFilters
<1> QED  BY <1>1, <1>2 DEF BuildBloomFilterFromKeys

\* What is read of a filter cut short has the type of filters.
LEMMA CutFiltersType ==
    ASSUME NEW f \in BloomFilters
    PROVE  CutFilters(f) \subseteq BloomFilters
<1>1. EmptyFilter \in BloomFilters
  BY DEF EmptyFilter, BloomFilters
<1>2. ASSUME NEW b \in 1 .. f.bytes - 1
      PROVE  [f EXCEPT !.bytes = b, !.bits = {i \in @ : i < 8 * b}] \in BloomFilters
  <2> DEFINE kept == {i \in f.bits : i < 8 * b}
  <2>1. f.bytes \in Nat /\ f.bits \subseteq Nat
    BY DEF BloomFilters
  <2>2. b \in Nat /\ kept \in SUBSET Nat
    BY <2>1
  <2> HIDE DEF kept
  <2>3. [f EXCEPT !.bytes = b, !.bits = kept] \in BloomFilters
    BY <2>2 DEF BloomFilters
  <2> QED  BY <2>3 DEF kept
<1> QED  BY <1>1, <1>2 DEF CutFilters
-----------------------------------------------------------------------------
(* Tables and files *)

\* An entry is a record, and sequence number 0 means no entry.
LEMMA EntryType ==
    ASSUME NEW e \in Entry
    PROVE  /\ e.seq \in Nat
           /\ e.val \in Values \cup {Tombstone}
           /\ e.seq = 0 => e = NoEntry
  BY DEF NoEntry, Entry

LEMMA NoEntryType == NoEntry \in Entry /\ NoEntry.seq = 0
  BY DEF NoEntry, Entry

LEMMA TableType ==
    ASSUME NEW t \in Table, NEW k \in Keys
    PROVE  t[k] \in Entry /\ t[k].seq \in Nat
<1>1. t[k] \in Entry
  BY DEF Table
<1> QED  BY <1>1, EntryType

LEMMA EmptyTableType == EmptyTable \in Table
  BY NoEntryType DEF EmptyTable, Table

LEMMA NoFileType == NoFile \in File /\ BadFile \in File
<1>1. EmptyFilter \in BloomFilters
  BY DEF EmptyFilter, BloomFilters
<1> QED  BY <1>1, EmptyTableType DEF NoFile, BadFile, File

LEMMA KeysOfFinite ==
    ASSUME NEW t
    PROVE  KeysOf(t) \in SUBSET Int /\ IsFiniteSet(KeysOf(t))
           /\ KeysOf(t) \subseteq Keys
<1>1. KeysOf(t) \subseteq Keys /\ Keys \subseteq Int
  BY SSTableAssumption DEF KeysOf, Keys
<1>2. IsFiniteSet(Keys)
  BY SSTableAssumption, FS_Interval DEF Keys
<1> QED  BY <1>1, <1>2, FS_Subset

\* A header bounds its entries from all sides, and its filter admits them.
FileOK(f) ==
    \A k \in Keys : f.ents[k].seq > 0 =>
        /\ f.lo <= k /\ k <= f.hi
        /\ f.ents[k].seq <= f.newest
        /\ Empty(f.bloom) \/ MayContain(f.bloom, k)

LEMMA ParseType ==
    ASSUME NEW e \in Entry
    PROVE  ParseSSTableDataLine(e) \in Entry
           /\ ParseSSTableDataLine(e).seq = e.seq
<1>1. CASE e.val = Tombstone
  BY <1>1 DEF ParseSSTableDataLine
<1>2. CASE e.val # Tombstone
  BY <1>2, SSTableAssumption DEF ParseSSTableDataLine, Entry, NoEntry
<1> QED  BY <1>1, <1>2

LEMMA NewestIsMax ==
    ASSUME NEW t \in Table, KeysOf(t) # {}
    PROVE  LET S == {t[k].seq : k \in KeysOf(t)}
           IN  Max(S) \in Nat /\ \A k \in KeysOf(t) : t[k].seq <= Max(S)
<1> DEFINE f == [k \in KeysOf(t) |-> t[k].seq]
           S == {t[k].seq : k \in KeysOf(t)}
<1>1. f \in Surjection(KeysOf(t), S)
  BY DEF Surjection
<1>2. IsFiniteSet(S)
  <2> HIDE DEF f, S
  <2> QED  BY <1>1, KeysOfFinite, FS_Surjection
<1>3. S \in SUBSET Nat /\ S # {}
  BY TableType DEF KeysOf
<1>4. Max(S) \in S /\ \A y \in S : y <= Max(S)
  <2> HIDE DEF S
  <2>1. S \in SUBSET Int
    BY <1>3
  <2> QED  BY <1>2, <1>3, <2>1, MaxProperties
<1> QED  BY <1>3, <1>4

\* The file written for a nonempty table is well formed, its header bounds its
\* entries, and it holds the table's sequence numbers.
LEMMA WriteSSTableOK ==
    ASSUME NEW t \in Table, KeysOf(t) # {}, NEW wb \in BOOLEAN
    PROVE  LET f == WriteSSTable(t, wb)
           IN  /\ f \in File
               /\ f.status = "ok"
               /\ FileOK(f)
               /\ \A k \in Keys : f.ents[k].seq = t[k].seq
<1> DEFINE f == WriteSSTable(t, wb)
           ents == [k \in Keys |-> ParseSSTableDataLine(t[k])]
           newest == Max({t[k].seq : k \in KeysOf(t)})
           bloom == IF wb THEN BuildBloomFilterFromKeys(KeysOf(t))
                          ELSE EmptyFilter
<1>1. /\ Min(KeysOf(t)) \in Int /\ Max(KeysOf(t)) \in Int
      /\ \A k \in KeysOf(t) : Min(KeysOf(t)) <= k /\ k <= Max(KeysOf(t))
  BY KeysOfFinite, MinProperties, MaxProperties
<1>2. newest \in Nat /\ \A k \in KeysOf(t) : t[k].seq <= newest
  BY NewestIsMax
<1>3. bloom \in BloomFilters
      /\ \A k \in KeysOf(t) : Empty(bloom) \/ MayContain(bloom, k)
  <2>1. EmptyFilter \in BloomFilters /\ Empty(EmptyFilter)
    BY DEF EmptyFilter, BloomFilters, Empty
  <2>2. BuildBloomFilterFromKeys(KeysOf(t)) \in BloomFilters
    BY KeysOfFinite, BuildBloomFilterType
  <2>3. KeysOf(t) \in SUBSET Keys
    BY DEF KeysOf
  <2> QED  BY <2>1, <2>2, <2>3, NoFalseNegatives
<1>4. ents \in Table /\ \A k \in Keys : ents[k].seq = t[k].seq
  BY ParseType DEF Table
<1>5. f = [status |-> "ok", lo |-> Min(KeysOf(t)), hi |-> Max(KeysOf(t)),
           newest |-> newest, bloom |-> bloom, ents |-> ents]
  BY DEF WriteSSTable
<1> HIDE DEF newest, bloom, ents, f
<1>6. f \in File /\ f.status = "ok"
  BY <1>1, <1>2, <1>3, <1>4, <1>5 DEF File
<1>7. \A k \in Keys : f.ents[k].seq = t[k].seq
  BY <1>4, <1>5
<1>8. FileOK(f)
  <2> SUFFICES ASSUME NEW k \in Keys, f.ents[k].seq > 0
               PROVE  /\ f.lo <= k /\ k <= f.hi
                      /\ f.ents[k].seq <= f.newest
                      /\ Empty(f.bloom) \/ MayContain(f.bloom, k)
    BY DEF FileOK
  <2>1. k \in KeysOf(t)
    BY <1>7 DEF KeysOf
  <2> QED  BY <2>1, <1>1, <1>2, <1>3, <1>5, <1>7
<1> QED  BY <1>6, <1>7, <1>8 DEF f

LEMMA OnlyType ==
    ASSUME NEW t \in Table, NEW S
    PROVE  /\ Only(t, S) \in Table
           /\ \A k \in Keys : Only(t, S)[k] = IF k \in S THEN t[k] ELSE NoEntry
  BY NoEntryType DEF Only, Table

\* An entry read back of a cut line is an entry, not newer than the whole one.
LEMMA CutEntriesType ==
    ASSUME NEW e \in Entry, NEW c \in CutEntries(e)
    PROVE  c \in Entry /\ c.seq <= e.seq
<1>1. e.seq \in Nat /\ e.val \in Values \cup {Tombstone}
  BY EntryType
<1>2. \A s \in SeqPrefixes(e.seq) : s \in Nat \ {0} /\ s <= e.seq
  BY <1>1 DEF SeqPrefixes
<1>3. \A s \in Nat \ {0}, v \in Values \cup {Tombstone} :
         [seq |-> s, val |-> v] \in Entry
  BY DEF Entry
<1>4. CASE e.val = Tombstone
  <2>1. PICK s \in SeqPrefixes(e.seq) : c = [seq |-> s, val |-> Tombstone]
    BY <1>4 DEF CutEntries
  <2> QED  BY <2>1, <1>2, <1>3
<1>5. CASE e.val # Tombstone
  <2>1. EmptyString \in Values /\ ValuePrefixes(e.val) \subseteq Values
    BY <1>1, <1>5, SSTableAssumption
  <2>2. e.seq \in Nat \ {0}
    BY <1>1, <1>5, EntryType DEF NoEntry
  <2>3. CASE c \in [seq : {e.seq}, val : ValuePrefixes(e.val)]
    <3>1. PICK v \in Values : c = [seq |-> e.seq, val |-> v]
      BY <2>1, <2>3
    <3> QED  BY <3>1, <2>2, <1>3
  <2>4. CASE c \in [seq : SeqPrefixes(e.seq), val : {EmptyString}]
    <3>1. PICK s \in SeqPrefixes(e.seq) : c = [seq |-> s, val |-> EmptyString]
      BY <2>4
    <3> QED  BY <3>1, <2>1, <1>2, <1>3
  <2> QED  BY <1>5, <2>3, <2>4 DEF CutEntries
<1> QED  BY <1>4, <1>5

\* Whatever a crash leaves of a file is a file, with a header that bounds its
\* entries and with no newer entry of any key than the complete file has.
\* Without torn lines its entries are entries of the complete file.
LEMMA PartialFilesOK ==
    ASSUME NEW f \in File, f.status = "ok", FileOK(f),
           NEW torn \in BOOLEAN, NEW g \in PartialFiles(f, torn)
    PROVE  /\ g \in File
           /\ g.status \in {"bad", "ok"}
           /\ g.status # "ok" => g.ents = EmptyTable
           /\ \A k \in Keys : g.ents[k].seq <= f.ents[k].seq
           /\ FileOK(g)
<1> DEFINE Upto(k) == Only(f.ents, MinKey .. k)
<1>1. f.ents \in Table
  BY DEF File
<1>2. \A k \in Keys : f.ents[k] \in Entry /\ f.ents[k].seq \in Nat
  BY <1>1, TableType
<1>3. \A k : Upto(k) \in Table
             /\ \A x \in Keys : Upto(k)[x] \in {NoEntry, f.ents[x]}
  BY <1>1, OnlyType
<1>4. NoEntry.seq = 0
  BY DEF NoEntry
<1> HIDE DEF Upto
\* Every file but a "bad" one has the header of f and entries no newer.
<1>5. ASSUME NEW t \in Table, g = [f EXCEPT !.ents = t],
             \A k \in Keys : t[k].seq <= f.ents[k].seq
      PROVE  /\ g \in File
             /\ g.status = "ok"
             /\ \A k \in Keys : g.ents[k].seq <= f.ents[k].seq
             /\ FileOK(g)
  <2>1. g \in File /\ g.status = "ok" /\ g.ents = t
    BY <1>5 DEF File
  <2>2. g.lo = f.lo /\ g.hi = f.hi /\ g.newest = f.newest /\ g.bloom = f.bloom
    BY <1>5 DEF File
  <2>3. FileOK(g)
    <3> SUFFICES ASSUME NEW k \in Keys, t[k].seq > 0
                 PROVE  /\ f.lo <= k /\ k <= f.hi
                        /\ t[k].seq <= f.newest
                        /\ Empty(f.bloom) \/ MayContain(f.bloom, k)
      BY <2>1, <2>2 DEF FileOK
    <3>1. t[k].seq \in Nat /\ f.newest \in Nat
      BY TableType DEF File
    <3>2. f.ents[k].seq > 0 /\ t[k].seq <= f.ents[k].seq
      BY <1>2, <1>5, <3>1
    <3> QED  BY <1>2, <3>1, <3>2 DEF FileOK
  <2> QED  BY <2>1, <2>3, <1>5
<1>6. CASE g = BadFile
  <2>1. BadFile.status = "bad" /\ BadFile.ents = EmptyTable
    BY DEF BadFile, NoFile
  <2>2. \A k \in Keys : EmptyTable[k].seq = 0
    BY <1>4 DEF EmptyTable
  <2> QED  BY <1>2, <1>6, <2>1, <2>2, NoFileType DEF FileOK
<1>7. CASE g = f
  <2> QED  BY <1>2, <1>7
<1>8. CASE \E b \in {f.bloom} \cup CutFilters(f.bloom) :
               g = [f EXCEPT !.bloom = b, !.ents = EmptyTable]
  <2>1. PICK b \in {f.bloom} \cup CutFilters(f.bloom) :
               g = [f EXCEPT !.bloom = b, !.ents = EmptyTable]
    BY <1>8
  <2>2. b \in BloomFilters
    <3>1. f.bloom \in BloomFilters
      BY DEF File
    <3> QED  BY <2>1, <3>1, CutFiltersType
  <2>3. g \in File /\ g.status = "ok" /\ g.ents = EmptyTable
    BY <2>1, <2>2, EmptyTableType DEF File
  <2>4. \A k \in Keys : EmptyTable[k].seq = 0
    BY <1>4 DEF EmptyTable
  <2> QED  BY <1>2, <2>3, <2>4 DEF FileOK
<1>9. CASE \E k \in KeysOf(f.ents) : g = [f EXCEPT !.ents = Upto(k)]
  <2>1. PICK k \in KeysOf(f.ents) : g = [f EXCEPT !.ents = Upto(k)]
    BY <1>9
  <2>2. \A x \in Keys : Upto(k)[x].seq <= f.ents[x].seq
    BY <1>2, <1>3, <1>4
  <2> QED  BY <2>1, <2>2, <1>3, <1>5
<1>10. CASE \E k \in KeysOf(f.ents) : \E e \in CutEntries(f.ents[k]) :
               g = [f EXCEPT !.ents = [Upto(k) EXCEPT ![k] = e]]
  <2>0. PICK k \in KeysOf(f.ents) : \E e \in CutEntries(f.ents[k]) :
               g = [f EXCEPT !.ents = [Upto(k) EXCEPT ![k] = e]]
    BY <1>10
  <2>1. PICK e \in CutEntries(f.ents[k]) :
               g = [f EXCEPT !.ents = [Upto(k) EXCEPT ![k] = e]]
    BY <2>0
  <2>2. k \in Keys
    BY KeysOfFinite
  <2>3. e \in Entry /\ e.seq <= f.ents[k].seq
    BY <2>2, <1>2, CutEntriesType
  <2> DEFINE t == [Upto(k) EXCEPT ![k] = e]
  <2>4. t \in Table
    BY <1>3, <2>2, <2>3 DEF Table
  <2>5. \A x \in Keys : t[x].seq <= f.ents[x].seq
    BY <1>2, <1>3, <1>4, <2>3 DEF Table
  <2> HIDE DEF t
  <2>6. g = [f EXCEPT !.ents = t]
    BY <2>1 DEF t
  <2> QED  BY <2>4, <2>5, <2>6, <1>5
<1>11. \/ g = BadFile
       \/ g = f
       \/ \E b \in {f.bloom} \cup CutFilters(f.bloom) :
              g = [f EXCEPT !.bloom = b, !.ents = EmptyTable]
       \/ \E k \in KeysOf(f.ents) : g = [f EXCEPT !.ents = Upto(k)]
       \/ \E k \in KeysOf(f.ents) : \E e \in CutEntries(f.ents[k]) :
              g = [f EXCEPT !.ents = [Upto(k) EXCEPT ![k] = e]]
  <2>1. CutHeaders(f) =
          {BadFile} \cup {[f EXCEPT !.bloom = b, !.ents = EmptyTable] :
                              b \in {f.bloom} \cup CutFilters(f.bloom)}
    BY DEF CutHeaders
  <2>2. CASE g \in CutHeaders(f)
    BY <2>1, <2>2
  <2>3. CASE g \in {[f EXCEPT !.ents = Upto(k)] : k \in KeysOf(f.ents)}
    BY <2>3
  <2> DEFINE Torn(k) == {[f EXCEPT !.ents = [Upto(k) EXCEPT ![k] = e]] :
                            e \in CutEntries(f.ents[k])}
  <2>4. CASE g \in UNION {Torn(k) : k \in KeysOf(f.ents)}
    <3>1. PICK k \in KeysOf(f.ents) : g \in Torn(k)
      <4> HIDE DEF Torn
      <4> QED  BY <2>4
    <3> QED  BY <3>1, Zenon
  <2>5. \/ g = f \/ g \in CutHeaders(f)
        \/ g \in {[f EXCEPT !.ents = Upto(k)] : k \in KeysOf(f.ents)}
        \/ g \in UNION {Torn(k) : k \in KeysOf(f.ents)}
    BY Zenon DEF PartialFiles, Upto
  <2> QED  BY <2>2, <2>3, <2>4, <2>5
<1> QED  BY <1>6, <1>7, <1>8, <1>9, <1>10, <1>11

\* Without torn lines, what a crash leaves of a file has whole entries only.
LEMMA WholePartialFiles ==
    ASSUME NEW f \in File, NEW g \in PartialFiles(f, FALSE), NEW k \in Keys
    PROVE  /\ g.ents[k] \in {NoEntry, f.ents[k]}
           /\ g.ents[k].seq \in {0, f.ents[k].seq}
<1>1. f.ents \in Table /\ f.ents[k].seq \in Nat
  <2>1. f.ents \in Table
    BY DEF File
  <2> QED  BY <2>1, TableType
<1>2. EmptyTable[k] = NoEntry /\ NoEntry.seq = 0
  BY DEF EmptyTable, NoEntry
<1>3. CASE g = BadFile
  BY <1>2, <1>3 DEF BadFile, NoFile
<1>4. CASE g = f
  BY <1>4
<1>5. CASE \E b \in {f.bloom} \cup CutFilters(f.bloom) :
               g = [f EXCEPT !.bloom = b, !.ents = EmptyTable]
  BY <1>2, <1>5 DEF File
<1>6. CASE \E x \in KeysOf(f.ents) :
              g = [f EXCEPT !.ents = Only(f.ents, MinKey .. x)]
  <2>1. PICK x \in KeysOf(f.ents) :
              g = [f EXCEPT !.ents = Only(f.ents, MinKey .. x)]
    BY <1>6
  <2>2. g.ents = Only(f.ents, MinKey .. x)
    BY <2>1 DEF File
  <2>3. g.ents[k] \in {NoEntry, f.ents[k]}
    BY <1>1, <2>2, OnlyType
  <2> QED  BY <1>2, <2>3
<1> QED  BY <1>3, <1>4, <1>5, <1>6 DEF PartialFiles, CutHeaders

\* The merge of a compaction: each entry kept is that of some file, and no
\* file that was read has a newer one; a key left out has a tombstone, or
\* nothing, as its newest entry.
LEMMA CompactEntriesOK ==
    ASSUME NEW ids, NEW disk \in [ids -> File],
           NEW files \in Seq(Descriptor(ids)), files # <<>>, NEW skipped
    PROVE  LET r == CompactEntries(disk, files, skipped)
           IN  /\ r \in Table
               /\ \A k \in Keys : r[k].seq > 0 =>
                    /\ \E j \in DOMAIN files : r[k] = disk[files[j].id].ents[k]
                    /\ \A j \in DOMAIN files : files[j].id \notin skipped =>
                         disk[files[j].id].ents[k].seq <= r[k].seq
               /\ \A k \in Keys :
                    \E e \in {NoEntry} \cup {disk[files[j].id].ents[k] : j \in DOMAIN files} :
                       /\ \A j \in DOMAIN files : files[j].id \notin skipped =>
                            disk[files[j].id].ents[k].seq <= e.seq
                       /\ r[k] = IF e.val = Tombstone THEN NoEntry ELSE e
<1> DEFINE ts == [j \in DOMAIN files |->
                    IF files[j].id \in skipped THEN EmptyTable
                    ELSE disk[files[j].id].ents]
           merged == [k \in Keys |-> MergeFromOldest(ts, k)]
           r == CompactEntries(disk, files, skipped)
<1>1. DOMAIN files = 1 .. Len(files) /\ Len(files) \in Nat /\ Len(files) # 0
  OBVIOUS
<1>2. \A j \in DOMAIN files : files[j].id \in ids
  <2>1. \A j \in DOMAIN files : files[j] \in Descriptor(ids)
    BY <1>1
  <2> QED  BY <2>1 DEF Descriptor
<1>3. \A j \in DOMAIN files : ts[j] \in Table
  BY <1>2, EmptyTableType DEF File
<1>4. DOMAIN ts = 1 .. Len(files)
  BY <1>1
<1>5. ASSUME NEW k \in Keys
      PROVE  \E p \in DOMAIN ts :
                /\ merged[k] = ts[p][k]
                /\ \A q \in DOMAIN ts : ts[q][k].seq <= ts[p][k].seq
  <2> DEFINE seqs == [p \in DOMAIN ts |-> ts[p][k].seq]
             S == {seqs[p] : p \in DOMAIN ts}
             L == Latest(ts, k)
  <2>1. \A p \in DOMAIN ts : ts[p][k].seq \in Nat
    <3> HIDE DEF ts
    <3> QED  BY <1>3, <1>4, <1>1, TableType
  <2>2. S \in SUBSET Int /\ S # {}
    <3>1. \A p \in DOMAIN ts : seqs[p] \in Nat
      BY <2>1
    <3>2. 1 \in DOMAIN ts
      BY <1>1, <1>4
    <3> HIDE DEF seqs, ts
    <3> QED  BY <3>1, <3>2
  <2>3. IsFiniteSet(DOMAIN ts)
    <3> HIDE DEF ts
    <3> QED  BY <1>4, <1>1, FS_Interval
  <2>4. IsFiniteSet(S)
    <3>1. seqs \in Surjection(DOMAIN ts, S)
      BY DEF Surjection
    <3> HIDE DEF seqs, ts, S
    <3> QED  BY <2>3, <3>1, FS_Surjection
  <2>5. PICK m \in S : \A y \in S : m >= y
    <3> HIDE DEF S
    <3> QED  BY <2>2, <2>4, UpperBoundExists
  <2>6. L # {} /\ L \subseteq DOMAIN ts
    <3>1. PICK p \in DOMAIN ts : m = ts[p][k].seq
      BY <2>5
    <3>2. \A q \in DOMAIN ts : ts[q][k].seq <= ts[p][k].seq
      <4> TAKE q \in DOMAIN ts
      <4>1. ts[q][k].seq \in S
        OBVIOUS
      <4> QED  BY <4>1, <2>5, <3>1, <2>1
    <3>3. p \in L
      BY <3>2 DEF Latest
    <3> QED  BY <3>3 DEF Latest
  <2>7. L \in SUBSET Int /\ IsFiniteSet(L)
    <3> HIDE DEF L
    <3>1. L \in SUBSET (1 .. Len(files))
      BY <2>6, <1>4
    <3>2. IsFiniteSet(1 .. Len(files))
      BY <1>1, FS_Interval
    <3>3. L \in SUBSET Int
      BY <3>1, <1>1
    <3> QED  BY <3>1, <3>2, <3>3, FS_Subset
  <2>8. Min(L) \in L
    <3> HIDE DEF L
    <3> QED  BY <2>6, <2>7, MinProperties
  <2>9. merged[k] = ts[Min(L)][k]
    BY DEF MergeFromOldest
  <2>10. Min(L) \in DOMAIN ts
         /\ \A q \in DOMAIN ts : ts[q][k].seq <= ts[Min(L)][k].seq
    BY <2>8 DEF Latest
  <2> QED  BY <2>9, <2>10
<1>6. merged \in Table
  <2>1. \A k \in Keys : merged[k] \in Entry
    <3> TAKE k \in Keys
    <3>1. PICK p \in DOMAIN ts : merged[k] = ts[p][k]
      BY <1>5
    <3> QED  BY <3>1, <1>3, <1>4, <1>1 DEF Table
  <2> HIDE DEF ts
  <2> QED  BY <2>1 DEF Table
<1>7. r = Only(merged, {k \in Keys : merged[k].val # Tombstone})
  BY DEF CompactEntries
<1> HIDE DEF merged, r
<1>8. r \in Table /\ \A k \in Keys : r[k] \in {NoEntry, merged[k]}
  BY <1>6, <1>7, OnlyType
<1>9. ASSUME NEW k \in Keys, r[k].seq > 0
      PROVE  /\ \E j \in DOMAIN files : r[k] = disk[files[j].id].ents[k]
             /\ \A j \in DOMAIN files : files[j].id \notin skipped =>
                  disk[files[j].id].ents[k].seq <= r[k].seq
  <2>1. r[k] = merged[k]
    BY <1>8, <1>9 DEF NoEntry
  <2>2. PICK p \in DOMAIN ts :
                /\ merged[k] = ts[p][k]
                /\ \A q \in DOMAIN ts : ts[q][k].seq <= ts[p][k].seq
    BY <1>5
  <2>3. ts[p][k].seq > 0
    BY <1>9, <2>1, <2>2
  <2>4. files[p].id \notin skipped
    BY <2>3, <2>2 DEF EmptyTable, NoEntry
  <2>5. r[k] = disk[files[p].id].ents[k] /\ p \in DOMAIN files
    BY <2>1, <2>2, <2>4
  <2>6. ASSUME NEW j \in DOMAIN files, files[j].id \notin skipped
        PROVE  disk[files[j].id].ents[k].seq <= r[k].seq
    BY <2>6, <2>1, <2>2
  <2> QED  BY <2>5, <2>6
<1>10. ASSUME NEW k \in Keys
       PROVE  \E e \in {NoEntry} \cup {disk[files[j].id].ents[k] : j \in DOMAIN files} :
                /\ \A j \in DOMAIN files : files[j].id \notin skipped =>
                     disk[files[j].id].ents[k].seq <= e.seq
                /\ r[k] = IF e.val = Tombstone THEN NoEntry ELSE e
  <2>1. PICK p \in DOMAIN ts :
                /\ merged[k] = ts[p][k]
                /\ \A q \in DOMAIN ts : ts[q][k].seq <= ts[p][k].seq
    BY <1>5
  <2>2. merged[k] \in {NoEntry} \cup {disk[files[j].id].ents[k] : j \in DOMAIN files}
    BY <2>1 DEF EmptyTable
  <2>3. ASSUME NEW j \in DOMAIN files, files[j].id \notin skipped
        PROVE  disk[files[j].id].ents[k].seq <= merged[k].seq
    BY <2>1, <2>3
  <2>4. r[k] = IF merged[k].val = Tombstone THEN NoEntry ELSE merged[k]
    <3>1. r[k] = IF k \in {x \in Keys : merged[x].val # Tombstone}
                 THEN merged[k] ELSE NoEntry
      BY <1>6, <1>7, OnlyType
    <3> QED  BY <3>1
  <2> QED  BY <2>2, <2>3, <2>4
<1> QED  BY <1>8, <1>9, <1>10 DEF r

\* The listing of a directory describes exactly the files opened, by their
\* headers, in the order of their ids.
LEMMA ListSSTablesOK ==
    ASSUME NEW n \in Nat, NEW disk \in [1 .. n -> File],
           NEW opened \in SUBSET (1 .. n), NEW loadBloom \in BOOLEAN,
           NEW files \in ListSSTables(disk, opened, loadBloom)
    PROVE  /\ files \in Seq(Descriptor(1 .. n))
           /\ Ids(files) = opened
           /\ \A i, j \in DOMAIN files : i < j => files[i].id < files[j].id
           /\ \A j \in DOMAIN files :
                files[j] = Describe(files[j].id, disk[files[j].id], loadBloom)
<1> DEFINE card == Cardinality(opened)
<1>1. card \in Nat
  <2>1. IsFiniteSet(1 .. n)
    BY FS_Interval
  <2>2. IsFiniteSet(opened)
    BY <2>1, FS_Subset
  <2> QED  BY <2>2, FS_CardinalityType
<1> HIDE DEF card
<1>2. PICK ids \in {s \in [1 .. card -> opened] :
                      /\ {s[j] : j \in DOMAIN s} = opened
                      /\ Ascending(s)} :
          files = [j \in DOMAIN ids |-> Describe(ids[j], disk[ids[j]], loadBloom)]
  BY DEF ListSSTables, card
<1>3. /\ DOMAIN ids = 1 .. card
      /\ \A j \in 1 .. card : ids[j] \in opened
      /\ {ids[j] : j \in DOMAIN ids} = opened
      /\ \A i, j \in DOMAIN ids : i < j => ids[i] < ids[j]
  BY <1>2 DEF Ascending
<1>4. \A id \in 1 .. n : /\ Describe(id, disk[id], loadBloom).id = id
                         /\ Describe(id, disk[id], loadBloom) \in Descriptor(1 .. n)
  <2>1. EmptyFilter \in BloomFilters
    BY DEF EmptyFilter, BloomFilters
  <2> QED  BY <2>1 DEF Describe, Descriptor, File
<1>5. /\ DOMAIN files = 1 .. card
      /\ \A j \in 1 .. card :
            /\ files[j] = Describe(ids[j], disk[ids[j]], loadBloom)
            /\ files[j].id = ids[j]
            /\ files[j] \in Descriptor(1 .. n)
  BY <1>2, <1>3, <1>4
<1>6. files \in Seq(Descriptor(1 .. n))
  <2>1. files = [j \in 1 .. card |-> files[j]]
    BY <1>2, <1>3, <1>5
  <2> QED  BY <1>1, <1>5, <2>1
<1>7. Ids(files) = opened
  BY <1>3, <1>5 DEF Ids
<1> QED  BY <1>3, <1>5, <1>6, <1>7

\* Of ages that ascend but for zeros, the last that is not zero is the largest.
LEMMA LastIsLargest ==
    ASSUME NEW n \in Nat \ {0}, NEW age \in [1 .. n -> Nat],
           \A p, q \in 1 .. n : p < q /\ age[p] > 0 /\ age[q] > 0 => age[p] <= age[q],
           NEW H, H = {p \in 1 .. n : age[p] > 0},
           NEW L, L = {p \in 1 .. n : \A q \in 1 .. n : age[q] <= age[p]}
    PROVE  /\ Max(L) \in 1 .. n /\ \A p \in 1 .. n : age[p] <= age[Max(L)]
           /\ H # {} => Max(H) = Max(L)
           /\ H = {} => \A p \in 1 .. n : age[p] = 0
<1>1. IsFiniteSet(1 .. n) /\ (1 .. n) \subseteq Int
  BY FS_Interval
<1>2. H \in SUBSET Int /\ IsFiniteSet(H) /\ L \in SUBSET Int /\ IsFiniteSet(L)
  BY <1>1, FS_Subset
<1>3. CASE H = {}
  <2>1. \A p \in 1 .. n : age[p] = 0
    BY <1>3
  <2>2. n \in L
    BY <2>1
  <2>3. Max(L) \in L
    BY <1>2, <2>2, MaxProperties
  <2> QED  BY <1>3, <2>1, <2>3
<1>4. CASE H # {}
  <2> DEFINE m == Max(H)
  <2>1. m \in H /\ \A p \in H : p <= m
    BY <1>2, <1>4, MaxProperties
  <2> HIDE DEF m
  <2>2. m \in 1 .. n /\ age[m] > 0
    BY <2>1
  <2>3. \A p \in 1 .. n : p > m => age[p] = 0
    BY <2>1, <2>2
  <2>4. ASSUME NEW p \in 1 .. n
        PROVE  age[p] <= age[m]
    <3>1. CASE p > m
      BY <2>2, <2>3, <3>1
    <3>2. CASE p <= m
      BY <2>2, <3>2
    <3> QED  BY <2>2, <3>1, <3>2
  <2>5. m \in L
    BY <2>2, <2>4
  <2>6. Max(L) \in L /\ \A p \in L : p <= Max(L)
    BY <1>2, <2>5, MaxProperties
  <2>7. Max(L) \in 1 .. n /\ age[m] <= age[Max(L)]
    BY <2>2, <2>6
  <2>8. Max(L) = m
    <3>1. m <= Max(L)
      BY <2>5, <2>6
    <3>2. ~(Max(L) > m)
      BY <2>2, <2>3, <2>7
    <3> QED  BY <2>2, <2>7, <3>1, <3>2
  <2> QED  BY <1>4, <2>4, <2>7, <2>8 DEF m
<1> QED  BY <1>3, <1>4

\* The entries that a sequence of tables has for k, in the order of age.
InAgeOrder(ts, k) ==
    /\ \A p \in DOMAIN ts : ts[p][k] \in Entry
    /\ \A p, q \in DOMAIN ts :
         p < q /\ ts[p][k].seq > 0 /\ ts[q][k].seq > 0 => ts[p][k].seq <= ts[q][k].seq

\* In layers that are in the order of age, the first hit of a search from the
\* newest is what a merge of all of them keeps.
LEMMA FirstHitIsNewest ==
    ASSUME NEW n \in Nat \ {0}, NEW ts, DOMAIN ts = 1 .. n, NEW k, InAgeOrder(ts, k)
    PROVE  /\ MergeFromNewest(ts, k) = FirstHit(ts, k)
           /\ \E p \in 1 .. n : FirstHit(ts, k) = ts[p][k]
           /\ \A p \in 1 .. n : ts[p][k].seq <= FirstHit(ts, k).seq
<1> DEFINE H == Holders(ts, k)
           L == Latest(ts, k)
           age == [p \in 1 .. n |-> ts[p][k].seq]
<1>1. \A p \in 1 .. n : /\ ts[p][k].seq = age[p]
                        /\ age[p] \in Nat
                        /\ age[p] = 0 => ts[p][k] = NoEntry
  <2>1. \A p \in 1 .. n : ts[p][k] \in Entry
    BY DEF InAgeOrder
  <2> QED  BY <2>1, EntryType
<1>2. H = {p \in 1 .. n : age[p] > 0}
  BY DEF Holders
<1>3. L = {p \in 1 .. n : \A q \in 1 .. n : age[q] <= age[p]}
  BY DEF Latest
<1>4. age \in [1 .. n -> Nat]
  BY <1>1
<1>5. FirstHit(ts, k) = IF H = {} THEN NoEntry ELSE ts[Max(H)][k]
  BY DEF FirstHit
<1>6. MergeFromNewest(ts, k) = ts[Max(L)][k]
  BY DEF MergeFromNewest
<1> HIDE DEF H, L, age
<1>7. ASSUME NEW p \in 1 .. n, NEW q \in 1 .. n, p < q, age[p] > 0, age[q] > 0
      PROVE  age[p] <= age[q]
  <2>1. age[p] = ts[p][k].seq /\ age[q] = ts[q][k].seq
    BY <1>1
  <2>2. ts[p][k].seq <= ts[q][k].seq
    BY <1>7, <2>1 DEF InAgeOrder
  <2> QED  BY <2>1, <2>2
<1>8. /\ Max(L) \in 1 .. n /\ \A p \in 1 .. n : age[p] <= age[Max(L)]
      /\ H # {} => Max(H) = Max(L)
      /\ H = {} => \A p \in 1 .. n : age[p] = 0
  <2>1. \A p, q \in 1 .. n : p < q /\ age[p] > 0 /\ age[q] > 0 => age[p] <= age[q]
    BY <1>7
  <2>2. \A HH, LL : HH = {p \in 1 .. n : age[p] > 0}
                   /\ LL = {p \in 1 .. n : \A q \in 1 .. n : age[q] <= age[p]}
          => /\ Max(LL) \in 1 .. n /\ \A p \in 1 .. n : age[p] <= age[Max(LL)]
             /\ HH # {} => Max(HH) = Max(LL)
             /\ HH = {} => \A p \in 1 .. n : age[p] = 0
    BY <1>4, <2>1, LastIsLargest
  <2> QED  BY <1>2, <1>3, <2>2
<1> DEFINE m == Max(L)
<1> HIDE DEF m
<1>9. m \in 1 .. n /\ \A p \in 1 .. n : age[p] <= age[m]
  BY <1>8 DEF m
<1>10. FirstHit(ts, k) = ts[m][k]
  <2>1. CASE H = {}
    <3>1. age[m] = 0
      BY <1>8, <1>9, <2>1
    <3> QED  BY <1>1, <1>5, <1>9, <2>1, <3>1
  <2>2. CASE H # {}
    BY <1>5, <1>8, <2>2 DEF m
  <2> QED  BY <2>1, <2>2
<1>11. \A p \in 1 .. n : ts[p][k].seq <= ts[m][k].seq
  BY <1>1, <1>9
<1> QED  BY <1>6, <1>9, <1>10, <1>11 DEF m

\* Only what the layers have for the key matters.
LEMMA SameHit ==
    ASSUME NEW n \in Nat, NEW ts, NEW us, NEW k,
           DOMAIN ts = 1 .. n, DOMAIN us = 1 .. n,
           \A p \in 1 .. n : ts[p][k] = us[p][k]
    PROVE  FirstHit(ts, k) = FirstHit(us, k)
<1> DEFINE H == {p \in 1 .. n : ts[p][k].seq > 0}
<1>1. Holders(ts, k) = H /\ Holders(us, k) = H
  BY DEF Holders
<1>2. CASE H = {}
  BY <1>1, <1>2 DEF FirstHit
<1>3. CASE H # {}
  <2>1. IsFiniteSet(1 .. n)
    BY FS_Interval
  <2>2. H \in SUBSET Int /\ IsFiniteSet(H) /\ H \subseteq 1 .. n
    BY <2>1, FS_Subset
  <2> HIDE DEF H
  <2>3. Max(H) \in 1 .. n
    BY <1>3, <2>2, MaxProperties
  <2> QED  BY <1>1, <1>3, <2>3 DEF FirstHit
<1> QED  BY <1>2, <1>3
=============================================================================
