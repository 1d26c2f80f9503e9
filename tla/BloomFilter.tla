---------------------------- MODULE BloomFilter ----------------------------
(***************************************************************************)
(* The Bloom filter of an SSTable (lab3/bloom_filter.cc).  A filter is its *)
(* bit count, its number of hash functions, the size of std::vector        *)
(* <uint8_t> bits, which need not fit the bit count when the filter was    *)
(* read from a file, and the set of the bits in it that are 1.  The 64-bit *)
(* mixing function is a parameter: nothing below depends on which bits a   *)
(* key probes, only on Add and MayContain probing the same.                *)
(***************************************************************************)
EXTENDS Integers, FiniteSets

CONSTANTS
    BitsPerKey,         \* options.sstable_bloom_bits_per_key
    HashCount,          \* options.sstable_bloom_hash_count
    SimpleHash(_, _),   \* SimpleHash(key, i): the i-th hash of a key
    Beyond(_)           \* a bit read behind the end of `bits`, which may be anything

ASSUME BloomAssumption == BitsPerKey \in Nat /\ HashCount \in Nat
----------------------------------------------------------------------------
BloomFilters == [bitCount : Nat, hashCount : Nat, bytes : Nat, bits : SUBSET Nat]

\* BloomFilter as default-constructed: matches nothing, and is never consulted.
EmptyFilter == [bitCount |-> 0, hashCount |-> 0, bytes |-> 0, bits |-> {}]

Empty(f) == f.bitCount = 0 \/ f.bytes = 0

BloomByteSize(bit_count) == (bit_count + 7) \div 8

\* The bits a key sets in, or looks up in, a filter of n bits.
Probes(k, n, hashes) == {SimpleHash(k, i) % n : i \in 0 .. hashes - 1}

BuildBloomFilterFromKeys(keys) ==
    IF keys = {} \/ BitsPerKey = 0 \/ HashCount = 0
    THEN EmptyFilter
    ELSE LET n == Cardinality(keys) * BitsPerKey
         IN  [bitCount  |-> n,
              hashCount |-> HashCount,
              bytes     |-> BloomByteSize(n),
              bits      |-> UNION {Probes(k, n, HashCount) : k \in keys}]

\* What DecodeBloomFilterBits makes of a BLOOM line that ends early: without any
\* of the digits it counts as no filter, and an odd number of them is refused;
\* otherwise there are fewer bytes than the bit count says.
CutFilters(f) ==
    {EmptyFilter}
    \cup {[f EXCEPT !.bytes = b, !.bits = {i \in @ : i < 8 * b}] : b \in 1 .. f.bytes - 1}

GetBit(f, i) == IF i < 8 * f.bytes THEN i \in f.bits ELSE Beyond(i)

\* Plausible bug: the lookup runs one hash function more than the build.
MayContainExtraHash(f, k) ==
    /\ ~Empty(f)
    /\ f.hashCount # 0
    /\ \A i \in Probes(k, f.bitCount, f.hashCount + 1) : GetBit(f, i)

MayContain(f, k) ==
    /\ ~Empty(f)
    /\ f.hashCount # 0
    /\ \A i \in Probes(k, f.bitCount, f.hashCount) : GetBit(f, i)
============================================================================
