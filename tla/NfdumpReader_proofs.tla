------------------------ MODULE NfdumpReader_proofs -------------------------
(***************************************************************************)
(* Proofs about the nfdump reader, for every set of files, every cap and   *)
(* every width of the word: the units of a converted flow, the bounds of   *)
(* the cursor and of the decompressed block, that what converts is         *)
(* complete, and that what is sound converts.                              *)
(***************************************************************************)
EXTENDS NfdumpReaderProps, FiniteSums, SequenceTheorems, TLAPS

-----------------------------------------------------------------------------
(* Units *)

\* The signed reading of a number of any sign lies within the signed word.
LEMMA SignedType ==
  ASSUME NEW n \in Int
  PROVE  AsSigned(n) \in Int
<1>1. Word \in Nat /\ 0 < Word
  BY BoundsAssumption
<1>2. n % Word \in 0 .. (Word - 1)
  BY <1>1
<1> QED BY <1>1, <1>2 DEF AsSigned

\* A number that fits is read as it is.
LEMMA SignedExact ==
  ASSUME NEW n \in Nat, n < Word \div 2
  PROVE  AsSigned(n) = n
<1>1. Word \in Nat /\ 0 < Word /\ Word \div 2 \in Nat /\ Word \div 2 < Word
  BY BoundsAssumption
<1>2. n % Word = n
  BY <1>1
<1> QED BY <1>1, <1>2 DEF AsSigned

\* A difference of numbers that fit fits, and a negative one stays negative.
LEMMA SignedDifference ==
  ASSUME NEW m \in Nat, NEW n \in Nat, m < Word \div 2, n < Word \div 2
  PROVE  AsSigned(m - n) = m - n
<1> DEFINE half == Word \div 2
<1>1. Word \in Nat /\ 0 < Word /\ half \in Nat /\ 2 * half = Word
  BY BoundsAssumption
<1>2. CASE n <= m
  BY <1>1, <1>2, SignedExact
<1>3. CASE m < n
  <2>1. (m - n) % Word = (m - n) + Word
    <3>1. (m - n) + Word \in 0 .. (Word - 1)
      BY <1>1, <1>3
    <3> QED BY <1>1, <1>3, <3>1
  <2>2. half <= (m - n) + Word
    BY <1>1
  <2> HIDE DEF half
  <2> QED BY <1>1, <2>1, <2>2 DEF AsSigned, half
<1> QED BY <1>2, <1>3

\* The larger of a number and nothing.
LEMMA MaxOfTwo ==
  ASSUME NEW m \in Int, NEW n \in Int
  PROVE  Max({m, n}) = IF m >= n THEN m ELSE n
<1>1. CASE m >= n
  BY <1>1 DEF Max
<1>2. CASE m < n
  BY <1>2 DEF Max
<1> QED BY <1>1, <1>2

\* Whatever 64-bit times a record holds, its flow lasts no less than nothing.
THEOREM DurationsAreNeverNegative ==
  ASSUME NEW f, f.first_ms \in Nat, f.last_ms \in Nat
  PROVE  ToCanonical(f).flow_dur \in Nat
<1> DEFINE d == AsSigned(AsSigned(f.last_ms) - AsSigned(f.first_ms))
<1>1. d \in Int
  BY SignedType
<1>2. ToCanonical(f).flow_dur = Max({0, d})
  BY DEF ToCanonical
<1> HIDE DEF d
<1>3. Max({0, d}) = IF 0 >= d THEN 0 ELSE d
  BY <1>1, MaxOfTwo
<1> QED BY <1>1, <1>2, <1>3

\* Times whose microseconds fit in 63 bits come out exact: the flow starts at
\* its own first packet, in microseconds, and ends at its last, or where it
\* starts when the last was before (nfcapd.rs:56-72).
LEMMA TimesOfAFlow ==
  ASSUME NEW f, f.first_ms \in Nat, f.last_ms \in Nat,
         f.first_ms * Thousand < Word \div 2, f.last_ms * Thousand < Word \div 2
  PROVE  /\ ToCanonical(f).timestamp = f.first_ms * Thousand
         /\ ToCanonical(f).flow_dur
              = IF f.last_ms >= f.first_ms THEN f.last_ms - f.first_ms ELSE 0
<1> DEFINE first == f.first_ms
           last == f.last_ms
           product == first * Thousand
<1>1. Thousand \in Nat /\ 1 <= Thousand /\ Word \in Nat /\ Word \div 2 \in Int
  BY BoundsAssumption
<1>2. product \in Nat /\ first <= product /\ last <= last * Thousand
  BY <1>1
<1>3. first < Word \div 2 /\ last < Word \div 2 /\ product < Word \div 2
  BY <1>1, <1>2
<1>4. AsSigned(first) = first /\ AsSigned(last) = last
  BY <1>3, SignedExact
<1>5. AsSigned(last - first) = last - first
  BY <1>3, SignedDifference
<1>6. AsSigned(product) = product
  BY <1>2, <1>3, SignedExact
<1>7. Max({0, last - first}) = IF 0 >= last - first THEN 0 ELSE last - first
  BY MaxOfTwo
<1>8. ToCanonical(f).timestamp = product
  BY <1>4, <1>6 DEF ToCanonical
<1>9. ToCanonical(f).flow_dur = Max({0, last - first})
  BY <1>4, <1>5 DEF ToCanonical
<1> QED BY <1>7, <1>8, <1>9

\* Counters that fit in 63 bits come out as they are, and those a record does
\* not have as 0 (nfcapd.rs:63-66).
LEMMA CountersOfAFlow ==
  ASSUME NEW f, f.bytes \in Nat, f.bwd # None => f.bwd \in Nat
  PROVE  /\ f.bytes < Word \div 2 => ToCanonical(f).fwd_bytes = f.bytes
         /\ f.bwd = None => ToCanonical(f).bwd_bytes = 0
         /\ f.bwd # None /\ f.bwd < Word \div 2 => ToCanonical(f).bwd_bytes = f.bwd
<1>1. f.bytes < Word \div 2 => AsSigned(f.bytes) = f.bytes
  BY SignedExact
<1>2. f.bwd # None /\ f.bwd < Word \div 2 => AsSigned(f.bwd) = f.bwd
  BY SignedExact
<1> QED BY <1>1, <1>2 DEF ToCanonical

-----------------------------------------------------------------------------
(* The inductive invariant *)

\* A file is a sequence of blocks, which are sequences of records.
LEMMA FileType ==
  ASSUME file \in Files
  PROVE  /\ Len(file.blocks) \in Nat /\ DOMAIN file.blocks = 1 .. Len(file.blocks)
         /\ file.num_blocks \in Nat /\ file.block_size \in Nat
         /\ file.data_blocks \in 0 .. Len(file.blocks)
         /\ \A n \in 1 .. Len(file.blocks) :
              LET b == file.blocks[n]
              IN /\ b \in ToSet(file.blocks)
                 /\ b.size \in Nat /\ b.plain \in Nat /\ b.num_records \in Nat
                 /\ b.records \in Seq(ToSet(b.records)) /\ Len(b.records) \in Nat
                 /\ DOMAIN b.records = 1 .. Len(b.records)
                 /\ \A r \in ToSet(b.records) : r.size \in Nat
                 /\ \A k \in 1 .. Len(b.records) : b.records[k] \in ToSet(b.records)
<1>1. /\ Len(file.blocks) \in Nat /\ DOMAIN file.blocks = 1 .. Len(file.blocks)
  BY FilesAssumption, LenProperties
<1>2. \A n \in 1 .. Len(file.blocks) : file.blocks[n] \in ToSet(file.blocks)
  BY <1>1 DEF ToSet
<1>3. ASSUME NEW b \in ToSet(file.blocks)
      PROVE  /\ b.records \in Seq(ToSet(b.records)) /\ Len(b.records) \in Nat
             /\ DOMAIN b.records = 1 .. Len(b.records)
             /\ \A k \in 1 .. Len(b.records) : b.records[k] \in ToSet(b.records)
  <2>1. b.records \in Seq(ToSet(b.records))
    BY FilesAssumption
  <2>2. Len(b.records) \in Nat /\ DOMAIN b.records = 1 .. Len(b.records)
    BY <2>1, LenProperties
  <2> QED BY <2>1, <2>2 DEF ToSet
<1> QED BY <1>1, <1>2, <1>3, FilesAssumption

-----------------------------------------------------------------------------
(* Places *)

\* What a place is, and that there are finitely many.
LEMMA PlacesType ==
  ASSUME file \in Files
  PROVE  /\ IsFiniteSet(Places)
         /\ \A p \in Places :
              /\ p = <<p[1], p[2]>> /\ p[1] \in 1 .. file.data_blocks
              /\ p[2] \in 1 .. Len(file.blocks[p[1]].records)
              /\ file.blocks[p[1]].records[p[2]].rtype \in FlowTypes
         /\ \A n \in 1 .. file.data_blocks : \A k \in 1 .. Len(file.blocks[n].records) :
              <<n, k>> \in Places <=> file.blocks[n].records[k].rtype \in FlowTypes
<1> DEFINE Row(m) == {m} \X {k \in DOMAIN file.blocks[m].records :
                              file.blocks[m].records[k].rtype \in FlowTypes}
           D == 1 .. file.data_blocks
           f == [n \in D |-> Row(n)]
           Rows == {Row(n) : n \in D}
<1>1. /\ file.data_blocks \in Nat
      /\ \A n \in D : /\ Len(file.blocks[n].records) \in Nat
                      /\ DOMAIN file.blocks[n].records = 1 .. Len(file.blocks[n].records)
  BY FileType
<1>2. Places = UNION Rows
  BY DEF Places
<1>3. IsFiniteSet(Rows)
  <2>1. f \in Surjection(D, Rows)
    BY DEF Surjection
  <2>2. IsFiniteSet(D)
    BY <1>1, FS_Interval
  <2> HIDE DEF f, Rows, D
  <2> QED BY <2>1, <2>2, FS_Surjection
<1>4. \A T \in Rows : IsFiniteSet(T)
  <2> SUFFICES ASSUME NEW n \in D PROVE IsFiniteSet(Row(n))
    OBVIOUS
  <2> DEFINE K == {k \in DOMAIN file.blocks[n].records :
                     file.blocks[n].records[k].rtype \in FlowTypes}
  <2> DEFINE L == Len(file.blocks[n].records)
  <2>0. 1 \in Int /\ L \in Int
    BY <1>1
  <2> HIDE DEF L
  <2>1. IsFiniteSet(1 .. L)
    BY <2>0, FS_Interval
  <2>2. K \subseteq 1 .. L
    BY <1>1 DEF L
  <2>3. IsFiniteSet(K)
    BY <2>1, <2>2, FS_Subset
  <2>4. IsFiniteSet({n})
    BY FS_Singleton
  <2> HIDE DEF K
  <2>5. IsFiniteSet({n} \X K)
    BY <2>3, <2>4, FS_Product
  <2> QED BY <2>5 DEF K
<1>5. IsFiniteSet(Places)
  <2> HIDE DEF Rows
  <2> QED BY <1>2, <1>3, <1>4, FS_UNION
<1>6. ASSUME NEW p \in Places
      PROVE  /\ p = <<p[1], p[2]>> /\ p[1] \in D
             /\ p[2] \in 1 .. Len(file.blocks[p[1]].records)
             /\ file.blocks[p[1]].records[p[2]].rtype \in FlowTypes
  <2>1. PICK n \in D : p \in Row(n)
    BY <1>2
  <2> QED BY <1>1, <2>1
<1>7. ASSUME NEW n \in D, NEW k \in 1 .. Len(file.blocks[n].records)
      PROVE  <<n, k>> \in Places <=> file.blocks[n].records[k].rtype \in FlowTypes
  <2>1. file.blocks[n].records[k].rtype \in FlowTypes => <<n, k>> \in Row(n)
    BY <1>1
  <2>2. Row(n) \subseteq Places
    BY <1>2
  <2> QED BY <1>6, <2>1, <2>2
<1> QED BY <1>5, <1>6, <1>7

\* Ranks are numbers, and a place ranks among those up to any other behind it.
LEMMA RankType ==
  ASSUME file \in Files, NEW q
  PROVE  /\ IsFiniteSet(UpTo(q)) /\ UpTo(q) \subseteq Places
         /\ Rank(q) \in Nat /\ Rank(q) <= Cardinality(Places) /\ Cardinality(Places) \in Nat
         /\ UpTo(q) = Places => Rank(q) = Cardinality(Places)
         /\ Rank(q) = 0 <=> UpTo(q) = {}
<1>1. UpTo(q) \subseteq Places
  BY DEF UpTo
<1>2. IsFiniteSet(Places)
  BY PlacesType
<1> QED BY <1>1, <1>2, FS_Subset, FS_CardinalityType, FS_EmptySet DEF Rank

\* The order of places is the file's.
LEMMA Ordered ==
  ASSUME NEW a \in Nat, NEW b \in Nat, file \in Files, NEW p \in Places
  PROVE  /\ p \in UpTo(p)
         /\ p \in UpTo(<<a, b>>) => UpTo(p) \subseteq UpTo(<<a, b>>)
         /\ p \notin UpTo(<<a, b>>) => UpTo(<<a, b>>) \cup {p} \subseteq UpTo(p)
<1>1. \A q \in Places : q[1] \in Nat /\ q[2] \in Nat
  <2> SUFFICES ASSUME NEW q \in Places PROVE q[1] \in Nat /\ q[2] \in Nat
    OBVIOUS
  <2>1. q[1] \in 1 .. file.data_blocks /\ q[2] \in 1 .. Len(file.blocks[q[1]].records)
    BY PlacesType
  <2>2. file.data_blocks \in Int /\ Len(file.blocks[q[1]].records) \in Int
    BY <2>1, FileType
  <2> QED BY <2>1, <2>2
<1>2. p[1] \in Nat /\ p[2] \in Nat
  BY <1>1
<1>3. p \in UpTo(p)
  BY <1>2 DEF UpTo, NotAfter
<1>4. ASSUME p \in UpTo(<<a, b>>), NEW q \in UpTo(p)
      PROVE  q \in UpTo(<<a, b>>)
  <2>1. q \in Places /\ q[1] \in Nat /\ q[2] \in Nat
    BY <1>1 DEF UpTo
  <2>2. NotAfter(q, p) /\ NotAfter(p, <<a, b>>)
    BY <1>4 DEF UpTo
  <2>3. NotAfter(q, <<a, b>>)
    BY <1>2, <2>1, <2>2 DEF NotAfter
  <2> QED BY <2>1, <2>3 DEF UpTo
<1>5. ASSUME p \notin UpTo(<<a, b>>), NEW q \in UpTo(<<a, b>>)
      PROVE  q \in UpTo(p)
  <2>1. q \in Places /\ q[1] \in Nat /\ q[2] \in Nat
    BY <1>1 DEF UpTo
  <2>2. NotAfter(q, <<a, b>>) /\ ~NotAfter(p, <<a, b>>)
    BY <1>5 DEF UpTo
  <2>3. NotAfter(q, p)
    BY <1>2, <2>1, <2>2 DEF NotAfter
  <2> QED BY <2>1, <2>3 DEF UpTo
<1> QED BY <1>3, <1>4, <1>5

\* What lies up to a cursor ranks no higher than the cursor, from 1 on, and
\* what lies behind it ranks higher.
LEMMA RankBound ==
  ASSUME file \in Files, NEW a \in Nat, NEW b \in Nat, NEW p \in Places
  PROVE  IF p \in UpTo(<<a, b>>) THEN Rank(p) \in 1 .. Rank(<<a, b>>)
                                 ELSE Rank(p) > Rank(<<a, b>>)
<1>1. CASE p \in UpTo(<<a, b>>)
  <2>1. UpTo(p) \subseteq UpTo(<<a, b>>) /\ UpTo(p) # {}
    BY <1>1, Ordered
  <2>2. Rank(p) <= Rank(<<a, b>>)
    BY <2>1, RankType, FS_Subset DEF Rank
  <2> QED BY <1>1, <2>1, <2>2, RankType
<1>2. CASE p \notin UpTo(<<a, b>>)
  <2> DEFINE S == UpTo(<<a, b>>) \cup {p}
  <2>1. S \subseteq UpTo(p)
    BY <1>2, Ordered
  <2>2. IsFiniteSet(S) /\ Cardinality(S) = Rank(<<a, b>>) + 1
    BY <1>2, RankType, FS_AddElement DEF Rank
  <2> HIDE DEF S
  <2>3. Cardinality(S) <= Rank(p)
    BY <2>1, RankType, FS_Subset DEF Rank
  <2> QED BY <1>2, <2>2, <2>3, RankType
<1> QED BY <1>1, <1>2

\* One record further, the places are one more when the record is a flow.
LEMMA RankStep ==
  ASSUME file \in Files, NEW a \in 1 .. file.data_blocks, NEW b \in Nat,
         b + 1 \in 1 .. Len(file.blocks[a].records)
  PROVE  IF file.blocks[a].records[b + 1].rtype \in FlowTypes
         THEN /\ UpTo(<<a, b + 1>>) = UpTo(<<a, b>>) \cup {<<a, b + 1>>}
              /\ <<a, b + 1>> \in Places
              /\ Rank(<<a, b + 1>>) = Rank(<<a, b>>) + 1
         ELSE UpTo(<<a, b + 1>>) = UpTo(<<a, b>>)
<1> DEFINE new == <<a, b + 1>>
<1>1. file.data_blocks \in Int /\ a \in Nat
  BY FileType
<1>2. new \in Places <=> file.blocks[a].records[b + 1].rtype \in FlowTypes
  BY PlacesType
<1>3. \A q \in Places : /\ q = <<q[1], q[2]>> /\ q[1] \in Int /\ q[2] \in Int
  <2> SUFFICES ASSUME NEW q \in Places
               PROVE  q = <<q[1], q[2]>> /\ q[1] \in Int /\ q[2] \in Int
    OBVIOUS
  <2>1. q = <<q[1], q[2]>> /\ q[1] \in 1 .. file.data_blocks
        /\ q[2] \in 1 .. Len(file.blocks[q[1]].records)
    BY PlacesType
  <2> QED BY <2>1
<1>4. \A q \in Places : NotAfter(q, new) <=> NotAfter(q, <<a, b>>) \/ q = new
  <2> SUFFICES ASSUME NEW q \in Places
               PROVE  NotAfter(q, new) <=> NotAfter(q, <<a, b>>) \/ q = new
    OBVIOUS
  <2>1. q = <<q[1], q[2]>> /\ q[1] \in Int /\ q[2] \in Int
    BY <1>3
  <2>2. q = new <=> q[1] = a /\ q[2] = b + 1
    BY <2>1
  <2> QED BY <1>1, <2>1, <2>2 DEF NotAfter
<1>5. ~NotAfter(new, <<a, b>>)
  BY <1>1 DEF NotAfter
<1>6. CASE new \in Places
  <2>1. UpTo(new) = UpTo(<<a, b>>) \cup {new} /\ new \notin UpTo(<<a, b>>)
    BY <1>4, <1>5, <1>6 DEF UpTo
  <2>2. IsFiniteSet(UpTo(<<a, b>>))
    BY RankType
  <2>3. Rank(new) = Rank(<<a, b>>) + 1
    BY <2>1, <2>2, FS_AddElement DEF Rank
  <2> QED BY <1>2, <1>6, <2>1, <2>3
<1>7. CASE new \notin Places
  BY <1>2, <1>4, <1>7 DEF UpTo
<1> QED BY <1>6, <1>7

\* Between the end of one block and the start of the next lies no place; the
\* end of the last is behind them all.
LEMMA RankOfBlockEnd ==
  ASSUME file \in Files, NEW a \in 0 .. file.data_blocks,
         NEW b \in Nat, b = IF a = 0 THEN 0 ELSE Len(file.blocks[a].records)
  PROVE  /\ UpTo(<<a, b>>) = UpTo(<<a + 1, 0>>)
         /\ a = file.data_blocks => UpTo(<<a, b>>) = Places
         /\ UpTo(<<0, 0>>) = {}
<1>1. file.data_blocks \in Int /\ a \in Nat
  BY FileType
<1>2. ASSUME NEW q \in Places
      PROVE  /\ NotAfter(q, <<a, b>>) <=> NotAfter(q, <<a + 1, 0>>)
             /\ a = file.data_blocks => NotAfter(q, <<a, b>>)
             /\ ~NotAfter(q, <<0, 0>>)
  <2>1. /\ q[1] \in 1 .. file.data_blocks
        /\ q[2] \in 1 .. Len(file.blocks[q[1]].records)
    BY PlacesType
  <2>2. q[1] \in Int /\ q[1] >= 1 /\ q[1] <= file.data_blocks /\ q[2] \in Int /\ q[2] >= 1
    BY <1>1, <2>1
  <2>3. q[1] = a => q[2] <= b
    BY <2>1, <2>2
  <2> QED BY <1>1, <2>2, <2>3 DEF NotAfter
<1> QED BY <1>2 DEF UpTo

-----------------------------------------------------------------------------
(* The inductive invariant *)

\* What a codec yields is within the cap.
LEMMA DecompressedIsBounded ==
  ASSUME NEW codec, NEW b, NEW hint \in Nat \cup {None},
         b.plain \in Nat, b.size \in Nat, b.size <= MaxCompressed,
         Decompresses(codec, b, hint)
  PROVE  (IF codec = "plain" THEN b.size ELSE b.plain) \in 0 .. MaxDecompressed
<1>1. /\ MaxCompressed \in Nat /\ MaxDecompressed \in Nat /\ DefaultLz4 \in Nat
      /\ MinLz4 \in Nat /\ MaxCompressed <= MaxDecompressed /\ MinLz4 <= MaxDecompressed
  BY BoundsAssumption
<1>2. CASE codec = "plain"
  BY <1>1, <1>2
<1>3. CASE codec \in {"lzo", "bz2", "zstd"}
  BY <1>1, <1>3 DEF Decompresses, Produced, Clamp
<1>4. CASE codec = "lz4"
  <2>1. (IF hint = None THEN DefaultLz4 ELSE hint) \in Nat
    BY <1>1
  <2>2. Lz4Buffer(hint) \in 0 .. MaxDecompressed
    BY <1>1, <2>1 DEF Lz4Buffer, Clamp
  <2>3. b.plain <= Lz4Buffer(hint)
    BY <1>4 DEF Decompresses
  <2> QED BY <1>1, <1>4, <2>2, <2>3
<1>5. codec \in {"plain", "lzo", "bz2", "zstd", "lz4"}
  BY DEF Decompresses
<1> QED BY <1>2, <1>3, <1>4, <1>5

\* What the current block is.
LEMMA BlockType ==
  ASSUME IInv
  PROVE  /\ Len(block.records) \in Nat /\ taken \in Nat /\ at \in 0 .. Len(file.blocks)
         /\ at = 0 => block.records = <<>> /\ Len(block.records) = 0
         /\ at # 0 => block.records = file.blocks[at].records /\ at \in 1 .. Len(file.blocks)
         /\ \A k \in 1 .. Len(block.records) :
              /\ at # 0 /\ block.records[k] \in ToSet(file.blocks[at].records)
              /\ file.blocks[at] \in ToSet(file.blocks)
              /\ block.records[k].size \in Nat
<1>1. at \in 0 .. Len(file.blocks) /\ file \in Files /\ taken \in 0 .. Len(block.records)
      /\ block.records = IF at = 0 THEN <<>> ELSE file.blocks[at].records
  BY DEF IInv, TypeOK
<1>2. CASE at = 0
  BY <1>1, <1>2, EmptySeq
<1>3. CASE at # 0
  <2>1. at \in 1 .. Len(file.blocks)
    BY <1>1, <1>3, FileType
  <2> QED BY <1>1, <1>3, <2>1, FileType
<1> QED BY <1>1, <1>2, <1>3

\* The file stays what it is, and so do its places.
LEMMA SameFile ==
  ASSUME file' = file
  PROVE  /\ Places' = Places /\ CanonicalFlows' = CanonicalFlows
         /\ HonestHeaders' = HonestHeaders
         /\ \A p : UpTo(p)' = UpTo(p) /\ Rank(p)' = Rank(p) /\ Parsed(p)' = Parsed(p)
<1>1. Places' = Places
  BY DEF Places
<1>2. CanonicalFlows' = CanonicalFlows
  BY DEF CanonicalFlows
<1>3. \A n : InAppendix(n)' = InAppendix(n)
  BY DEF InAppendix, Position
<1>4. HonestHeaders' = HonestHeaders
  BY <1>3 DEF HonestHeaders
<1>5. \A p : UpTo(p)' = UpTo(p)
  BY <1>1 DEF UpTo
<1>6. \A p : Rank(p)' = Rank(p)
  BY <1>5 DEF Rank
<1>7. \A p : Parsed(p)' = Parsed(p)
  BY DEF Parsed
<1> QED BY <1>1, <1>2, <1>4, <1>5, <1>6, <1>7

\* Giving up keeps the invariant.
LEMMA FailIInv ==
  ASSUME IInv, Fail
  PROVE  IInv'
<1>1. /\ pc' = "failed"
      /\ UNCHANGED <<file, at, remaining_blocks, block, block_pos, taken, records_left, flows>>
  BY DEF Fail
<1>2. Cursor' = Cursor /\ UpTo(Cursor)' = UpTo(Cursor) /\ Rank(Cursor)' = Rank(Cursor)
  BY <1>1 DEF Cursor, UpTo, Places, Rank
<1>3. TypeOK' /\ OutputIsNotEmpty'
  BY <1>1 DEF IInv, TypeOK, OutputIsNotEmpty
<1> QED BY <1>1, <1>2, <1>3, SameFile DEF IInv, CountersAreExact, FlowsAreThoseRead

\* A block that is loaded is within the cap, and lies in the data when the
\* headers are honest.
LEMMA LoadIInv ==
  ASSUME IInv, LoadBlock
  PROVE  IInv'
<1> DEFINE b == file.blocks[at + 1]
<1>1. /\ pc = "read" /\ file \in Files /\ at \in Nat /\ at < Len(file.blocks)
      /\ Len(file.blocks) \in Nat /\ remaining_blocks # 0 /\ records_left = 0
      /\ remaining_blocks \in 0 .. file.num_blocks /\ file.num_blocks \in Nat
      /\ file.data_blocks \in Nat
  BY FileType DEF IInv, TypeOK, LoadBlock, Loadable, Readable, NeedsBlock, CleanEnd
<1>2. /\ b.size \in Nat /\ b.plain \in Nat /\ b.num_records \in Nat
      /\ b.records \in Seq(ToSet(b.records)) /\ Len(b.records) \in Nat
  BY <1>1, FileType
<1>3. /\ block' = [records |-> b.records,
                   length |-> IF Codec = "plain" THEN b.size ELSE b.plain]
      /\ records_left' = b.num_records /\ at' = at + 1
      /\ block_pos' = 0 /\ taken' = 0 /\ remaining_blocks' = remaining_blocks - 1
      /\ UNCHANGED <<file, flows, pc>>
      /\ b.size <= MaxCompressed /\ Decompresses(Codec, b, Hint)
  BY DEF LoadBlock, Loadable, Readable
<1>4. HonestHeaders => (CountersAreExact /\ FlowsAreThoseRead)'
  <2> SUFFICES ASSUME HonestHeaders PROVE (CountersAreExact /\ FlowsAreThoseRead)'
    OBVIOUS
  <2>1. /\ at <= file.data_blocks /\ remaining_blocks = file.data_blocks - at
        /\ 0 = Len(block.records) - taken
        /\ Len(flows) = Rank(Cursor)
        /\ \A p \in UpTo(Cursor) : Parsed(p) # None /\ flows[Rank(p)] = ToCanonical(Parsed(p))
    BY <1>1 DEF IInv, CountersAreExact, FlowsAreThoseRead
  <2>2. at + 1 \in 1 .. file.data_blocks /\ at \in 0 .. file.data_blocks
    BY <1>1, <2>1
  <2>3. b.num_records = Len(b.records)
    BY <2>2 DEF HonestHeaders
  <2>4. UpTo(<<at, taken>>) = UpTo(<<at + 1, 0>>)
    <3>1. taken = (IF at = 0 THEN 0 ELSE Len(file.blocks[at].records)) /\ taken \in Nat
      BY <1>1, <2>1, BlockType
    <3> QED BY <1>1, <2>2, <3>1, RankOfBlockEnd
  <2>5. Cursor' = <<at + 1, 0>>
    BY <1>3 DEF Cursor
  <2>6. UpTo(Cursor)' = UpTo(Cursor)
    BY <1>3, <2>4, <2>5 DEF UpTo, Places, Cursor
  <2>7. Rank(Cursor)' = Rank(Cursor)
    BY <2>6 DEF Rank
  <2>8. CountersAreExact'
    <3>1. block'.records = b.records
      BY <1>3
    <3> HIDE DEF b
    <3> QED BY <1>1, <1>2, <1>3, <2>1, <2>2, <2>3, <3>1 DEF CountersAreExact
  <2>9. FlowsAreThoseRead'
    BY <1>3, <2>1, <2>6, <2>7, SameFile DEF FlowsAreThoseRead
  <2> QED BY <2>8, <2>9
<1>5. at' # 0 /\ block'.records = file'.blocks[at'].records
  BY <1>1, <1>3
<1> HIDE DEF b
<1>6. Hint \in Nat \cup {None}
  BY <1>1, FileType DEF Hint
<1>7. block'.length \in 0 .. MaxDecompressed
  BY <1>2, <1>3, <1>6, DecompressedIsBounded
<1>8. taken' \in 0 .. Len(block'.records)
  BY <1>2, <1>3
<1>9. /\ at' \in 0 .. Len(file'.blocks) /\ remaining_blocks' \in 0 .. file'.num_blocks
      /\ records_left' \in Nat /\ block_pos' \in 0 .. block'.length
  BY <1>1, <1>2, <1>3, <1>7, BoundsAssumption
<1>10. TypeOK' /\ OutputIsNotEmpty'
  BY <1>1, <1>3, <1>7, <1>9 DEF TypeOK, OutputIsNotEmpty
<1> QED BY <1>1, <1>3, <1>4, <1>5, <1>8, <1>10, SameFile DEF IInv

\* The cursor stays within the block, and the flows with the cursor.
LEMMA AdvanceIInv ==
  ASSUME IInv, SkipRecord \/ ReadFlow
  PROVE  IInv'
<1> DEFINE new == ToCanonical(ParseRecord(Record))
<1>1. /\ pc = "read" /\ records_left > 0 /\ taken < Len(block.records)
      /\ Record.size <= block.length - block_pos
      /\ block_pos' = block_pos + Record.size /\ taken' = taken + 1
      /\ records_left' = records_left - 1
      /\ UNCHANGED <<file, at, remaining_blocks, block, pc>> /\ file \in Files
  BY DEF SkipRecord, ReadFlow, NeedsRecord, Fits, AtRecord, Available, Advance, IInv
<1>2. /\ taken \in Nat /\ Len(block.records) \in Nat /\ taken + 1 \in 1 .. Len(block.records)
  BY <1>1, BlockType
<1>3. /\ at \in 1 .. Len(file.blocks) /\ at # 0 /\ block.records = file.blocks[at].records
      /\ Record = file.blocks[at].records[taken + 1] /\ Record.size \in Nat
      /\ Record \in ToSet(file.blocks[at].records) /\ file.blocks[at] \in ToSet(file.blocks)
  BY <1>2, BlockType DEF Record
<1>4. /\ block.length \in Nat /\ block_pos \in 0 .. block.length /\ records_left \in Nat
  BY BoundsAssumption DEF IInv, TypeOK
<1>5. /\ block_pos' \in 0 .. block'.length /\ records_left' \in Nat
      /\ taken' \in 0 .. Len(block'.records)
  <2>1. block_pos + Record.size \in 0 .. block.length
    <3>1. Record.size <= block.length - block_pos
      BY <1>1
    <3>2. Record.size \in Nat /\ block_pos \in 0 .. block.length /\ block.length \in Nat
      BY <1>3, <1>4
    <3> QED BY <3>1, <3>2
  <2>2. taken + 1 \in 0 .. Len(block.records) /\ records_left - 1 \in Nat
    BY <1>1, <1>2, <1>4
  <2> QED BY <1>1, <2>1, <2>2
<1>6. TypeOK' /\ OutputIsNotEmpty'
  BY <1>1, <1>5 DEF IInv, TypeOK, OutputIsNotEmpty
<1>7. CASE SkipRecord
  <2>1. Record.rtype \notin FlowTypes /\ flows' = flows
    BY <1>7 DEF SkipRecord, IsFlow
  <2>2. HonestHeaders => (CountersAreExact /\ FlowsAreThoseRead)'
    <3> SUFFICES ASSUME HonestHeaders PROVE (CountersAreExact /\ FlowsAreThoseRead)'
      OBVIOUS
    <3>1. /\ CountersAreExact /\ FlowsAreThoseRead
      BY DEF IInv
    <3>2. at \in 1 .. file.data_blocks
      BY <1>1, <1>3, <3>1, FileType DEF CountersAreExact
    <3>3. UpTo(<<at, taken + 1>>) = UpTo(<<at, taken>>)
      BY <1>1, <1>2, <1>3, <2>1, <3>2, RankStep
    <3>4. Cursor' = <<at, taken + 1>>
      BY <1>1 DEF Cursor
    <3>5. UpTo(Cursor)' = UpTo(Cursor)
      BY <1>1, <3>3, <3>4 DEF UpTo, Places, Cursor
    <3>6. Rank(Cursor)' = Rank(Cursor)
      BY <3>5 DEF Rank
    <3>7. CountersAreExact'
      BY <1>1, <1>2, <1>4, <3>1 DEF CountersAreExact
    <3>8. FlowsAreThoseRead'
      BY <1>1, <2>1, <3>1, <3>5, <3>6, SameFile DEF FlowsAreThoseRead
    <3> QED BY <3>7, <3>8
  <2> QED BY <1>1, <1>3, <1>5, <1>6, <2>1, <2>2, SameFile DEF IInv
<1>8. CASE ReadFlow
  <2>1. /\ Record.rtype \in FlowTypes /\ ParseRecord(Record) # None
        /\ flows' = Append(flows, new) /\ flows \in Seq(CanonicalFlows)
    BY <1>8 DEF ReadFlow, IsFlow, Parses, IInv
  <2>2. new \in CanonicalFlows
    BY <1>3, <2>1 DEF CanonicalFlows
  <2> HIDE DEF new
  <2>3. /\ flows' \in Seq(CanonicalFlows) /\ Len(flows) \in Nat /\ Len(flows') = Len(flows) + 1
        /\ flows'[Len(flows) + 1] = new /\ \A n \in 1 .. Len(flows) : flows'[n] = flows[n]
    BY <2>1, <2>2, AppendProperties, LenProperties
  <2>4. HonestHeaders => (CountersAreExact /\ FlowsAreThoseRead)'
    <3> SUFFICES ASSUME HonestHeaders PROVE (CountersAreExact /\ FlowsAreThoseRead)'
      OBVIOUS
    <3> DEFINE here == <<at, taken + 1>>
    <3>1. /\ CountersAreExact /\ FlowsAreThoseRead
      BY DEF IInv
    <3>2. at \in 1 .. file.data_blocks /\ at \in Nat
      BY <1>1, <1>3, <3>1, FileType DEF CountersAreExact
    <3>3. /\ UpTo(here) = UpTo(<<at, taken>>) \cup {here} /\ here \in Places
          /\ Rank(here) = Rank(<<at, taken>>) + 1
      BY <1>1, <1>2, <1>3, <2>1, <3>2, RankStep
    <3>4. Cursor' = here /\ Cursor = <<at, taken>>
      BY <1>1 DEF Cursor
    <3>5. UpTo(Cursor)' = UpTo(Cursor) \cup {here}
      BY <1>1, <3>3, <3>4 DEF UpTo, Places
    <3>6. Rank(Cursor)' = Rank(Cursor) + 1
      <4>1. Rank(Cursor)' = Cardinality(UpTo(Cursor)')
        BY DEF Rank
      <4> QED BY <3>3, <3>4, <3>5, <4>1 DEF Rank
    <3>7. CountersAreExact'
      BY <1>1, <1>2, <1>4, <3>1 DEF CountersAreExact
    <3>8. ASSUME NEW p \in UpTo(Cursor)
          PROVE  Parsed(p) # None /\ flows'[Rank(p)] = ToCanonical(Parsed(p))
      <4>1. Rank(p) \in 1 .. Rank(Cursor)
        BY <1>1, <1>2, <3>2, <3>4, RankBound, RankType
      <4>2. Rank(p) \in 1 .. Len(flows)
        BY <3>1, <4>1 DEF FlowsAreThoseRead
      <4> QED BY <2>3, <3>1, <4>2 DEF FlowsAreThoseRead
    <3>9. Parsed(here) # None /\ flows'[Rank(here)] = ToCanonical(Parsed(here))
      <4>1. Parsed(here) = ParseRecord(Record)
        BY <1>3 DEF Parsed
      <4>2. Rank(here) = Len(flows) + 1
        BY <3>1, <3>3, <3>4 DEF FlowsAreThoseRead
      <4> QED BY <2>1, <2>3, <4>1, <4>2 DEF new
    <3> HIDE DEF here
    <3>10. FlowsAreThoseRead'
      <4>1. Len(flows') = Rank(Cursor)'
        BY <2>3, <3>1, <3>6 DEF FlowsAreThoseRead
      <4>2. ASSUME NEW p \in UpTo(Cursor)'
            PROVE  Parsed(p)' # None /\ flows'[Rank(p)'] = ToCanonical(Parsed(p)')
        <5>1. Parsed(p)' = Parsed(p) /\ Rank(p)' = Rank(p)
          BY <1>1, SameFile
        <5> QED BY <3>5, <3>8, <3>9, <4>2, <5>1
      <4> QED BY <4>1, <4>2 DEF FlowsAreThoseRead, ToCanonical, AsSigned
    <3> QED BY <3>7, <3>10
  <2> QED BY <1>1, <1>3, <1>5, <1>6, <2>3, <2>4, SameFile DEF IInv
<1> QED BY <1>7, <1>8

\* The end is taken for clean only behind the last record of the last data
\* block, when the headers are honest.
LEMMA EndIsReached ==
  ASSUME IInv, HonestHeaders, pc = "read", records_left = 0, CleanEnd
  PROVE  at = file.data_blocks /\ taken = Len(block.records)
<1>1. /\ at <= file.data_blocks /\ remaining_blocks = file.data_blocks - at
      /\ 0 = Len(block.records) - taken
  BY DEF IInv, CountersAreExact
<1>2. at \in Nat /\ file.data_blocks \in Nat /\ taken \in Nat /\ Len(block.records) \in Nat
  BY BlockType, FileType DEF IInv
<1>3. ~(at < file.data_blocks)
  <2> SUFFICES ASSUME at < file.data_blocks PROVE FALSE
    OBVIOUS
  <2>1. remaining_blocks # 0
    BY <1>1, <1>2
  <2>2. InAppendix(at)
    BY <2>1 DEF CleanEnd, AppendixReached
  <2>3. at \in 0 .. file.data_blocks - 1
    BY <1>2
  <2> QED BY <2>2, <2>3 DEF HonestHeaders
<1> QED BY <1>1, <1>2, <1>3

\* Behind the last record, the places are all behind the cursor.
LEMMA CursorAtEnd ==
  ASSUME IInv, at = file.data_blocks, taken = Len(block.records)
  PROVE  UpTo(Cursor) = Places
<1>1. file \in Files /\ at \in 0 .. file.data_blocks /\ taken \in Nat
  BY BlockType, FileType DEF IInv
<1>2. taken = IF at = 0 THEN 0 ELSE Len(file.blocks[at].records)
  BY BlockType
<1> QED BY <1>1, <1>2, RankOfBlockEnd DEF Cursor

\* An end keeps the invariant.
LEMMA EndIInv ==
  ASSUME IInv, EndOfFile
  PROVE  IInv'
<1>1. CASE Fail
  BY <1>1, FailIInv
<1>2. CASE ~Fail
  <2>1. /\ pc' = "converted" /\ flows # <<>> /\ pc = "read" /\ records_left = 0 /\ CleanEnd
        /\ UNCHANGED <<file, at, remaining_blocks, block, block_pos, taken, records_left, flows>>
    BY <1>2 DEF EndOfFile, NeedsBlock
  <2>2. Cursor' = Cursor /\ UpTo(Cursor)' = UpTo(Cursor) /\ Rank(Cursor)' = Rank(Cursor)
    BY <2>1 DEF Cursor, UpTo, Places, Rank
  <2>3. TypeOK' /\ OutputIsNotEmpty'
    BY <2>1 DEF IInv, TypeOK, OutputIsNotEmpty
  <2>4. HonestHeaders => at = file.data_blocks /\ taken = Len(block.records)
    BY <2>1, EndIsReached
  <2> QED BY <2>1, <2>2, <2>3, <2>4, SameFile DEF IInv, CountersAreExact, FlowsAreThoseRead
<1> QED BY <1>1, <1>2

\* The inductive invariant holds in every reachable state.
THEOREM InductiveInvariant == Spec => []IInv
<1>1. Init => IInv
  <2> SUFFICES ASSUME Init PROVE IInv
    OBVIOUS
  <2>1. /\ block.records = <<>> /\ block.length = 0 /\ file \in Files
        /\ at = 0 /\ remaining_blocks = 0 /\ block_pos = 0 /\ taken = 0
        /\ records_left = 0 /\ pc = "open" /\ flows = <<>>
    BY DEF Init
  <2>2. Len(block.records) = 0 /\ Len(flows) = 0 /\ flows \in Seq(CanonicalFlows)
    BY <2>1, EmptySeq
  <2>3. TypeOK
    BY <2>1, FileType, BoundsAssumption DEF TypeOK
  <2>4. CountersAreExact
    BY <2>1, <2>2, FileType DEF CountersAreExact
  <2>5. UpTo(<<0, 0>>) = {}
    <3>1. 0 \in 0 .. file.data_blocks
      BY <2>1, FileType
    <3> QED BY <2>1, <3>1, RankOfBlockEnd
  <2>6. FlowsAreThoseRead
    BY <2>1, <2>2, <2>5, RankType DEF FlowsAreThoseRead, Cursor
  <2> QED BY <2>1, <2>2, <2>3, <2>4, <2>6 DEF IInv, OutputIsNotEmpty
<1>2. IInv /\ [Next]_vars => IInv'
  <2> SUFFICES ASSUME IInv, [Next]_vars PROVE IInv'
    OBVIOUS
  <2>1. CASE Open
    <3>1. CASE Fail
      BY <3>1, FailIInv
    <3>2. CASE ~Fail
      <4>1. /\ pc = "open" /\ pc' = "read" /\ remaining_blocks' = file.num_blocks
            /\ UNCHANGED <<file, at, block, block_pos, taken, records_left, flows>>
        BY <2>1, <3>2 DEF Open
      <4>2. file.num_blocks \in Nat
        BY FileType DEF IInv
      <4>3. Cursor' = Cursor /\ UpTo(Cursor)' = UpTo(Cursor) /\ Rank(Cursor)' = Rank(Cursor)
        BY <4>1 DEF Cursor, UpTo, Places, Rank
      <4>4. TypeOK' /\ OutputIsNotEmpty'
        BY <4>1, <4>2 DEF IInv, TypeOK, OutputIsNotEmpty
      <4>5. HonestHeaders => CountersAreExact'
        <5>1. at = 0 /\ file.data_blocks \in Nat
          BY <4>1, FileType DEF IInv
        <5> QED BY <4>1, <5>1 DEF IInv, CountersAreExact, HonestHeaders
      <4>6. HonestHeaders => FlowsAreThoseRead'
        BY <4>1, <4>3, SameFile DEF IInv, FlowsAreThoseRead
      <4> QED BY <4>1, <4>4, <4>5, <4>6, SameFile DEF IInv
    <3> QED BY <3>1, <3>2
  <2>2. CASE LoadFails \/ ReadFails
    BY <2>2, FailIInv DEF LoadFails, ReadFails
  <2>3. CASE UNCHANGED vars
    <3>1. UNCHANGED <<file, at, remaining_blocks, block, block_pos, taken, records_left, flows, pc>>
      BY <2>3 DEF vars
    <3>2. Cursor' = Cursor /\ UpTo(Cursor)' = UpTo(Cursor) /\ Rank(Cursor)' = Rank(Cursor)
      BY <3>1 DEF Cursor, UpTo, Places, Rank
    <3>3. TypeOK' /\ OutputIsNotEmpty'
      BY <3>1 DEF IInv, TypeOK, OutputIsNotEmpty
    <3> QED BY <3>1, <3>2, <3>3, SameFile DEF IInv, CountersAreExact, FlowsAreThoseRead
  <2> QED BY <2>1, <2>2, <2>3, LoadIInv, AdvanceIInv, EndIInv DEF Next
<1> QED BY <1>1, <1>2, PTL DEF Spec

-----------------------------------------------------------------------------
(* Theorems *)

\* The cursor never leaves its block, and no block exceeds the cap.
THEOREM TypeCorrect == Spec => []TypeOK
<1>1. IInv => TypeOK
  BY DEF IInv
<1> QED BY <1>1, InductiveInvariant, PTL

\* No flow is repeated, reordered or passed over while the file is read.
THEOREM PrefixAlways == Spec => []FlowsAreAPrefix
<1>1. IInv => FlowsAreAPrefix
  <2> SUFFICES ASSUME IInv, HonestHeaders
               PROVE  /\ Len(flows) <= Cardinality(Places)
                      /\ \A p \in Places : Rank(p) <= Len(flows) =>
                           Parsed(p) # None /\ flows[Rank(p)] = ToCanonical(Parsed(p))
    BY DEF FlowsAreAPrefix
  <2>1. /\ file \in Files /\ at \in Nat /\ taken \in Nat
    BY BlockType, FileType DEF IInv
  <2>2. /\ Len(flows) = Rank(<<at, taken>>)
        /\ \A p \in UpTo(<<at, taken>>) :
             Parsed(p) # None /\ flows[Rank(p)] = ToCanonical(Parsed(p))
    BY DEF IInv, FlowsAreThoseRead, Cursor
  <2>3. ASSUME NEW p \in Places, Rank(p) <= Len(flows) PROVE p \in UpTo(<<at, taken>>)
    BY <2>1, <2>2, <2>3, RankBound, RankType
  <2> QED BY <2>1, <2>2, <2>3, RankType
<1> QED BY <1>1, InductiveInvariant, PTL

\* A file that converts has a flow and gave every flow of its data blocks.
THEOREM NoPartialOutput == Spec => []ConvertedMeansComplete
<1>1. IInv => ConvertedMeansComplete
  <2> SUFFICES ASSUME IInv, HonestHeaders, pc = "converted"
               PROVE  /\ Places # {} /\ Len(flows) = Cardinality(Places)
                      /\ \A p \in Places :
                           Parsed(p) # None /\ flows[Rank(p)] = ToCanonical(Parsed(p))
    BY DEF ConvertedMeansComplete
  <2>1. /\ file \in Files /\ at = file.data_blocks /\ taken = Len(block.records)
        /\ FlowsAreThoseRead
    BY DEF IInv
  <2>2. UpTo(Cursor) = Places
    BY <2>1, CursorAtEnd
  <2>3. Len(flows) # 0
    BY EmptySeq, LenProperties DEF IInv, OutputIsNotEmpty
  <2>4. Len(flows) = Cardinality(Places)
    BY <2>1, <2>2, RankType DEF FlowsAreThoseRead, Cursor, Rank
  <2>5. Places # {}
    BY <2>3, <2>4, FS_EmptySet
  <2> QED BY <2>1, <2>2, <2>4, <2>5, RankType DEF FlowsAreThoseRead, Cursor
<1> QED BY <1>1, InductiveInvariant, PTL

\* Every flow collected has the right units and counters, at every moment.
THEOREM UnitsAlwaysRight == Spec => []UnitsAreRight
<1>1. IInv /\ FlowsAreAPrefix => UnitsAreRight
  <2> SUFFICES ASSUME IInv, FlowsAreAPrefix PROVE UnitsAreRight
    OBVIOUS
  <2>1. ASSUME NEW i \in DOMAIN flows PROVE flows[i].flow_dur >= 0
    <3>1. flows[i] \in CanonicalFlows
      BY ElementOfSeq, LenProperties DEF IInv
    <3>2. PICK r : /\ flows[i] = ToCanonical(ParseRecord(r))
                   /\ r \in UNION {ToSet(b.records) : b \in ToSet(file.blocks)}
                   /\ r.rtype \in FlowTypes /\ ParseRecord(r) # None
      BY <3>1 DEF CanonicalFlows
    <3>3. ParseRecord(r).first_ms \in Nat /\ ParseRecord(r).last_ms \in Nat
      BY <3>2, NumbersAssumption DEF IInv
    <3> QED BY <3>2, <3>3, DurationsAreNeverNegative
  <2>2. ASSUME HonestHeaders, NEW p \in Places, Rank(p) <= Len(flows)
        PROVE  LET f == Parsed(p)
                   flow == flows[Rank(p)]
               IN /\ f.first_ms * Thousand < Word \div 2 /\ f.last_ms * Thousand < Word \div 2 =>
                       /\ flow.timestamp = f.first_ms * Thousand
                       /\ flow.flow_dur
                            = IF f.last_ms >= f.first_ms THEN f.last_ms - f.first_ms ELSE 0
                  /\ f.bytes < Word \div 2 => flow.fwd_bytes = f.bytes
                  /\ f.bwd = None => flow.bwd_bytes = 0
                  /\ f.bwd # None /\ f.bwd < Word \div 2 => flow.bwd_bytes = f.bwd
    <3>1. Parsed(p) # None /\ flows[Rank(p)] = ToCanonical(Parsed(p))
      BY <2>2 DEF FlowsAreAPrefix
    <3>2. /\ Parsed(p).first_ms \in Nat /\ Parsed(p).last_ms \in Nat
          /\ Parsed(p).bytes \in Nat
          /\ Parsed(p).bwd # None => Parsed(p).bwd \in Nat
      <4> DEFINE r == file.blocks[p[1]].records[p[2]]
      <4>1. /\ file \in Files /\ p[1] \in 1 .. Len(file.blocks) /\ r.rtype \in FlowTypes
            /\ p[2] \in 1 .. Len(file.blocks[p[1]].records)
        BY PlacesType, FileType DEF IInv
      <4>2. file.blocks[p[1]] \in ToSet(file.blocks) /\ r \in ToSet(file.blocks[p[1]].records)
        BY <4>1, FileType
      <4> QED BY <3>1, <4>1, <4>2, NumbersAssumption DEF Parsed
    <3> DEFINE f == Parsed(p)
    <3> HIDE DEF f
    <3>3. f.first_ms \in Nat /\ f.last_ms \in Nat /\ flows[Rank(p)] = ToCanonical(f)
      BY <3>1, <3>2 DEF f
    <3>4. f.bytes \in Nat /\ (f.bwd # None => f.bwd \in Nat)
      BY <3>2 DEF f
    <3> QED BY <3>3, <3>4, TimesOfAFlow, CountersOfAFlow DEF f
  <2> QED BY <2>1, <2>2 DEF UnitsAreRight
<1> QED BY <1>1, InductiveInvariant, PrefixAlways, PTL

-----------------------------------------------------------------------------
(* Sound files *)

\* What lies up to n blocks, or takes up n records, is there up to m of them;
\* one more adds its own size.
LEMMA PartialSums ==
  ASSUME NEW f, NEW m \in Nat, NEW n \in 0 .. m, \A i \in 1 .. m : f[i] \in Nat
  PROVE  /\ SumFunctionOnSet(f, 1 .. n) \in Nat
         /\ SumFunctionOnSet(f, 1 .. m) \in Nat
         /\ SumFunctionOnSet(f, 1 .. n) <= SumFunctionOnSet(f, 1 .. m)
         /\ SumFunctionOnSet(f, 1 .. 0) = 0
         /\ n < m => SumFunctionOnSet(f, 1 .. (n + 1)) = SumFunctionOnSet(f, 1 .. n) + f[n + 1]
<1>1. IsFiniteSet(1 .. m) /\ IsFiniteSet(1 .. n) /\ 1 .. n \in SUBSET (1 .. m)
  BY FS_Interval
<1>2. /\ SumFunctionOnSet(f, 1 .. m) \in Nat
      /\ SumFunctionOnSet(f, 1 .. n) <= SumFunctionOnSet(f, 1 .. m)
  BY <1>1, SumType, SumOfPart
<1>3. \A i \in 1 .. n : f[i] \in Nat
  OBVIOUS
<1>4. SumFunctionOnSet(f, 1 .. n) \in Nat
  BY <1>1, <1>3, SumType
<1>5. SumFunctionOnSet(f, 1 .. 0) = 0
  <2>1. 1 .. 0 = {}
    OBVIOUS
  <2> QED BY <2>1, SumEmpty
<1>6. ASSUME n < m
      PROVE  SumFunctionOnSet(f, 1 .. (n + 1)) = SumFunctionOnSet(f, 1 .. n) + f[n + 1]
  <2>1. 1 .. (n + 1) = (1 .. n) \cup {n + 1} /\ n + 1 \notin 1 .. n
    OBVIOUS
  <2>2. \A y \in (1 .. n) \cup {n + 1} : f[y] \in Nat
    BY <1>6
  <2>3. SumFunctionOnSet(f, (1 .. n) \cup {n + 1}) = SumFunctionOnSet(f, 1 .. n) + f[n + 1]
    BY <1>1, <2>1, <2>2, SumAdd
  <2> QED BY <2>1, <2>3
<1> QED BY <1>2, <1>4, <1>5, <1>6

\* The records of a block, one by one.
LEMMA SizesAddUp ==
  ASSUME file \in Files, NEW a \in 1 .. Len(file.blocks),
         NEW k \in 0 .. Len(file.blocks[a].records)
  PROVE  LET records == file.blocks[a].records
         IN /\ SizeOf(records, k) \in Nat /\ SizeOf(records, Len(records)) \in Nat
            /\ SizeOf(records, k) <= SizeOf(records, Len(records))
            /\ SizeOf(records, 0) = 0
            /\ k < Len(records) =>
                 SizeOf(records, k + 1) = SizeOf(records, k) + records[k + 1].size
<1> DEFINE records == file.blocks[a].records
           f == [i \in DOMAIN records |-> records[i].size]
<1>1. Len(records) \in Nat /\ DOMAIN records = 1 .. Len(records)
      /\ \A i \in 1 .. Len(records) : records[i].size \in Nat
  BY FileType
<1>2. \A i \in 1 .. Len(records) : f[i] = records[i].size /\ f[i] \in Nat
  BY <1>1
<1>3. \A n : SizeOf(records, n) = SumFunctionOnSet(f, 1 .. n)
  BY DEF SizeOf
<1> HIDE DEF f
<1> DEFINE L == Len(records)
<1>4. /\ SumFunctionOnSet(f, 1 .. k) \in Nat
      /\ SumFunctionOnSet(f, 1 .. L) \in Nat
      /\ SumFunctionOnSet(f, 1 .. k) <= SumFunctionOnSet(f, 1 .. L)
      /\ SumFunctionOnSet(f, 1 .. 0) = 0
      /\ k < L => SumFunctionOnSet(f, 1 .. (k + 1)) = SumFunctionOnSet(f, 1 .. k) + f[k + 1]
  <2>1. L \in Nat /\ k \in 0 .. L /\ \A i \in 1 .. L : f[i] \in Nat
    BY <1>1, <1>2
  <2> HIDE DEF L
  <2> QED BY <2>1, PartialSums
<1>5. k < L => f[k + 1] = records[k + 1].size
  BY <1>1, <1>2
<1> QED BY <1>3, <1>4, <1>5

\* The next block of the data, header and all, is there when the data is.
LEMMA DataIsPresent ==
  ASSUME file \in Files, at \in Nat, at < file.data_blocks,
         file.length >= Position(file.data_blocks)
  PROVE  Present(1) /\ Present(1 + file.blocks[at + 1].size)
<1> DEFINE f == [i \in DOMAIN file.blocks |-> 1 + file.blocks[i].size]
           D == file.data_blocks
<1>1. /\ Len(file.blocks) \in Nat /\ D \in 0 .. Len(file.blocks)
      /\ DOMAIN file.blocks = 1 .. Len(file.blocks)
      /\ \A i \in 1 .. Len(file.blocks) : file.blocks[i].size \in Nat
  BY FileType
<1>2. /\ \A i \in 1 .. D : f[i] = 1 + file.blocks[i].size /\ f[i] \in Nat
      /\ at + 1 \in 1 .. D /\ at \in 0 .. D /\ at + 1 \in 0 .. D /\ D \in Nat
      /\ file.blocks[at + 1].size \in Nat
  BY <1>1
<1>3. \A n : Position(n) = DataStart(file.version) + SumFunctionOnSet(f, 1 .. n)
  BY DEF Position, Extent
<1> HIDE DEF f, D
<1>4. /\ SumFunctionOnSet(f, 1 .. at) \in Nat
      /\ SumFunctionOnSet(f, 1 .. (at + 1)) = SumFunctionOnSet(f, 1 .. at) + f[at + 1]
  <2>1. at < D
    BY DEF D
  <2> QED BY <1>2, <2>1, PartialSums
<1>5. /\ SumFunctionOnSet(f, 1 .. (at + 1)) <= SumFunctionOnSet(f, 1 .. D)
      /\ SumFunctionOnSet(f, 1 .. D) \in Nat
  BY <1>2, PartialSums
<1>6. DataStart(file.version) \in Nat
  BY BoundsAssumption DEF DataStart
<1>7. file.length >= DataStart(file.version) + SumFunctionOnSet(f, 1 .. D)
  BY <1>3 DEF D
<1>8. f[at + 1] = 1 + file.blocks[at + 1].size
  BY <1>2
<1> DEFINE start == DataStart(file.version)
           here == SumFunctionOnSet(f, 1 .. at)
           all == SumFunctionOnSet(f, 1 .. D)
           size == file.blocks[at + 1].size
<1>9. size \in Nat /\ here \in Nat /\ start \in Nat /\ file.length \in Nat
  BY <1>2, <1>4, <1>6, FilesAssumption
<1>10. here + (1 + size) <= all /\ all \in Nat /\ start + all <= file.length
  <2> HIDE DEF start, here, all, size
  <2> QED BY <1>4, <1>5, <1>7, <1>8, <1>9 DEF start, here, all, size
<1>11. Position(at) = start + here
  BY <1>3
<1>12. start + here + 1 <= file.length /\ start + here + (1 + size) <= file.length
  <2> HIDE DEF start, here, all, size
  <2> QED BY <1>9, <1>10
<1> QED BY <1>11, <1>12 DEF Present

\* What makes a file convertible is the file's alone.
LEMMA SameConvertible ==
  ASSUME file' = file
  PROVE  /\ Convertible' = Convertible
         /\ \A records, n : SizeOf(records, n)' = SizeOf(records, n)
<1>1. Position(file.data_blocks)' = Position(file.data_blocks) /\ Hint' = Hint
  BY DEF Position, Hint
<1>2. Intact' = Intact
  BY <1>1, SameFile DEF Intact, Codec
<1>3. Convertible' = Convertible
  BY <1>1, <1>2 DEF Convertible, Codec
<1> QED BY <1>3

\* A convertible file has its header.
LEMMA SoundOpens ==
  ASSUME IInv, Convertible, Open
  PROVE  pc' = "read" /\ UNCHANGED <<file, at, block, block_pos, taken>>
<1>1. file \in Files /\ file.version \in {V1, V2} /\ file.length >= Position(file.data_blocks)
  BY DEF IInv, Convertible, Intact
<1>2. file.length \in Nat /\ HeaderLength \in Nat /\ V1Start \in Nat /\ HeaderLength <= V1Start
  BY <1>1, FilesAssumption, BoundsAssumption
<1>3. Extent(file.blocks, file.data_blocks) \in Nat
  <2> DEFINE f == [i \in DOMAIN file.blocks |-> 1 + file.blocks[i].size]
             D == file.data_blocks
  <2>1. D \in Nat /\ \A i \in 1 .. D : i \in DOMAIN file.blocks /\ file.blocks[i].size \in Nat
    BY <1>1, FileType
  <2>2. \A i \in 1 .. D : f[i] \in Nat
    BY <2>1
  <2>3. Extent(file.blocks, D) = SumFunctionOnSet(f, 1 .. D)
    BY DEF Extent
  <2> HIDE DEF f, D
  <2>4. SumFunctionOnSet(f, 1 .. D) \in Nat
    BY <2>1, <2>2, PartialSums
  <2> QED BY <2>3, <2>4 DEF D
<1>4. DataStart(file.version) \in Nat /\ HeaderLength <= DataStart(file.version)
  BY <1>2 DEF DataStart
<1>5. HeaderLength <= file.length
  BY <1>1, <1>2, <1>3, <1>4 DEF Position
<1>6. ~(file.length < HeaderLength \/ file.version \notin {V1, V2})
  BY <1>1, <1>2, <1>5
<1> QED BY <1>6 DEF Open

\* Its next block can be loaded, until the data is read.
LEMMA SoundLoads ==
  ASSUME IInv, Convertible, pc = "read", ~CleanEnd
  PROVE  Loadable
<1> DEFINE b == file.blocks[at + 1]
<1>1. /\ file \in Files /\ HonestHeaders /\ CountersAreExact
      /\ file.length >= Position(file.data_blocks)
      /\ Codec \in {"plain", "lzo", "bz2", "zstd", "lz4"}
  BY DEF IInv, Convertible, Intact
<1>2. at \in Nat /\ at < file.data_blocks /\ at < Len(file.blocks)
  <2>1. at \in Nat /\ file.data_blocks \in 0 .. Len(file.blocks) /\ Len(file.blocks) \in Nat
    BY <1>1, FileType DEF IInv, TypeOK
  <2>2. at <= file.data_blocks /\ remaining_blocks = file.data_blocks - at
        /\ remaining_blocks # 0
    BY <1>1 DEF CountersAreExact, CleanEnd
  <2> QED BY <2>1, <2>2
<1>3. at + 1 \in 1 .. file.data_blocks
  BY <1>1, <1>2, FileType
<1>4. b.decodes /\ b.size <= MaxCompressed /\ b.plain <= MaxDecompressed
  BY <1>3 DEF Convertible, Intact
<1>5. Codec = "lz4" => b.plain <= Lz4Buffer(Hint)
  BY <1>3 DEF Convertible
<1>6. Present(1) /\ Present(1 + b.size)
  BY <1>1, <1>2, DataIsPresent
<1>7. Decompresses(Codec, b, Hint)
  <2>1. MaxDecompressed \in Nat /\ b.plain \in Nat
    BY <1>1, <1>2, FileType, BoundsAssumption
  <2> HIDE DEF b
  <2>2. Codec \in {"lzo", "bz2", "zstd"} => Produced(Codec, b, Hint) <= MaxDecompressed
    BY <1>4, <2>1 DEF Produced, Clamp
  <2> QED BY <1>1, <1>4, <1>5, <2>2 DEF Decompresses
<1> QED BY <1>2, <1>4, <1>6, <1>7 DEF Loadable, Readable

\* Its records fit, up to the last of the block, and its flows parse.
LEMMA SoundReads ==
  ASSUME IInv, CursorIsExact, Convertible, NeedsRecord
  PROVE  Fits /\ (IsFlow => Parses)
<1>1. /\ pc = "read" /\ records_left > 0 /\ file \in Files /\ CountersAreExact
  BY DEF IInv, Convertible, Intact, NeedsRecord
<1>2. /\ taken \in Nat /\ Len(block.records) \in Nat /\ taken < Len(block.records)
  BY <1>1, BlockType DEF CountersAreExact
<1>3. at # 0 /\ at \in 1 .. Len(file.blocks) /\ block.records = file.blocks[at].records
  BY <1>2, BlockType
<1>4. at \in 1 .. file.data_blocks
  BY <1>1, <1>3, FileType DEF CountersAreExact
<1> DEFINE records == file.blocks[at].records
           L == Len(records)
<1>5. /\ SizeOf(records, L) = file.blocks[at].plain
      /\ \A i \in DOMAIN records : records[i].size >= 1
  BY <1>4 DEF Convertible, Intact
<1>6. taken + 1 \in DOMAIN records /\ Record = records[taken + 1] /\ Record.size \in Nat
      /\ taken \in 0 .. L /\ taken + 1 \in 0 .. L
  BY <1>2, <1>3, FileType, BlockType DEF Record
<1>7. /\ SizeOf(records, taken) \in Nat /\ SizeOf(records, L) \in Nat
      /\ SizeOf(records, taken + 1) = SizeOf(records, taken) + Record.size
      /\ SizeOf(records, taken + 1) <= SizeOf(records, L)
  BY <1>1, <1>2, <1>3, <1>6, SizesAddUp
<1>8. block.length = SizeOf(records, L) /\ block_pos = SizeOf(records, taken)
  BY <1>3, <1>5 DEF CursorIsExact
<1>9. Record.size >= 1
  BY <1>5, <1>6
<1>10. Available \in Nat /\ Record.size <= Available /\ Available >= 1
  <2>1. Available = block.length - block_pos
    BY DEF Available
  <2> HIDE DEF records, L
  <2> QED BY <1>6, <1>7, <1>8, <1>9, <2>1
<1>11. Fits
  BY <1>2, <1>9, <1>10 DEF Fits, AtRecord
<1>12. ASSUME IsFlow PROVE Parses
  <2> DEFINE p == <<at, taken + 1>>
  <2>1. taken + 1 \in 1 .. L /\ records[taken + 1].rtype \in FlowTypes
    BY <1>2, <1>3, <1>6, <1>12 DEF IsFlow
  <2>2. p \in Places
    BY <1>1, <1>4, <2>1, PlacesType
  <2>3. Parsed(p) # None
    BY <2>2 DEF Convertible, Intact
  <2> QED BY <1>6, <2>3 DEF Parsed, Parses
<1> QED BY <1>11, <1>12

\* Behind its data there are flows.
LEMMA SoundEnds ==
  ASSUME IInv, Convertible, EndOfFile
  PROVE  pc' = "converted" /\ UNCHANGED <<file, at, block, block_pos, taken>>
<1>1. SUFFICES ASSUME flows = <<>> PROVE FALSE
  BY DEF EndOfFile
<1>2. /\ file \in Files /\ HonestHeaders /\ CountersAreExact /\ FlowsAreThoseRead
      /\ pc = "read" /\ records_left = 0 /\ CleanEnd /\ Places # {}
  BY DEF IInv, Convertible, Intact, EndOfFile, NeedsBlock
<1>3. at = file.data_blocks /\ taken = Len(block.records)
  BY <1>2, EndIsReached
<1>4. UpTo(Cursor) = Places
  BY <1>2, <1>3, CursorAtEnd
<1>5. Rank(Cursor) = 0
  BY <1>1, <1>2, EmptySeq DEF FlowsAreThoseRead
<1> QED BY <1>2, <1>4, <1>5, RankType

\* The cursor stays exact, and a convertible file is not refused.
LEMMA SoundStep ==
  ASSUME IInv, SoundInv, [Next]_vars
  PROVE  SoundInv'
<1>1. /\ block.length = IF at = 0 THEN 0 ELSE file.blocks[at].plain
      /\ block_pos = SizeOf(block.records, taken)
      /\ Convertible => pc # "failed"
      /\ file \in Files
  BY DEF SoundInv, CursorIsExact, SoundFilesConvert, IInv
<1>2. ASSUME Fail \/ EndOfFile \/ Open \/ UNCHANGED vars
      PROVE  CursorIsExact' /\ file' = file
  <2>1. UNCHANGED <<file, at, block, block_pos, taken>>
    BY <1>2 DEF Fail, EndOfFile, Open, vars
  <2> QED BY <1>1, <2>1 DEF CursorIsExact, SizeOf
<1>3. CASE Open
  <2>1. Convertible => pc' # "failed"
    BY <1>3, SoundOpens
  <2> QED BY <1>2, <1>3, <2>1, SameConvertible DEF SoundInv, SoundFilesConvert
<1>4. CASE EndOfFile
  <2>1. Convertible => pc' # "failed"
    BY <1>4, SoundEnds
  <2> QED BY <1>2, <1>4, <2>1, SameConvertible DEF SoundInv, SoundFilesConvert
<1>5. CASE LoadFails
  <2>1. ~Convertible
    BY <1>5, SoundLoads DEF LoadFails, NeedsBlock
  <2>2. Fail
    BY <1>5 DEF LoadFails
  <2> QED BY <1>2, <2>1, <2>2, SameConvertible DEF SoundInv, SoundFilesConvert
<1>6. CASE ReadFails
  <2>1. ~Convertible
    BY <1>6, SoundReads DEF ReadFails, SoundInv
  <2>2. Fail
    BY <1>6 DEF ReadFails
  <2> QED BY <1>2, <2>1, <2>2, SameConvertible DEF SoundInv, SoundFilesConvert
<1>7. CASE LoadBlock
  <2> DEFINE b == file.blocks[at + 1]
  <2>1. /\ file' = file /\ pc' = pc /\ at' = at + 1 /\ block_pos' = 0 /\ taken' = 0
        /\ block' = [records |-> b.records,
                     length |-> IF Codec = "plain" THEN b.size ELSE b.plain]
        /\ at \in Nat /\ at < Len(file.blocks)
    BY <1>7 DEF LoadBlock, Loadable, Readable, IInv, TypeOK
  <2>2. at + 1 \in 1 .. Len(file.blocks) /\ at + 1 # 0 /\ b \in ToSet(file.blocks)
        /\ 0 \in 0 .. Len(b.records)
    BY <1>1, <2>1, FileType
  <2>3. Codec = "plain" => b.plain = b.size
    BY <1>1, <2>2, FilesAssumption DEF Codec
  <2>4. SizeOf(b.records, 0) = 0
    BY <1>1, <2>2, SizesAddUp
  <2>5. block'.length = b.plain /\ block'.records = b.records
    BY <2>1, <2>3
  <2>6. CursorIsExact'
    BY <2>1, <2>2, <2>4, <2>5 DEF CursorIsExact, SizeOf
  <2> QED BY <1>1, <2>1, <2>6, SameConvertible DEF SoundInv, SoundFilesConvert
<1>8. CASE SkipRecord \/ ReadFlow
  <2>1. /\ UNCHANGED <<file, at, block, pc>> /\ taken' = taken + 1
        /\ block_pos' = block_pos + Record.size /\ taken < Len(block.records)
    BY <1>8 DEF SkipRecord, ReadFlow, Advance, Fits, AtRecord
  <2>2. /\ at \in 1 .. Len(file.blocks) /\ block.records = file.blocks[at].records
        /\ taken \in 0 .. Len(block.records)
    BY <2>1, BlockType
  <2>3. SizeOf(block.records, taken + 1) = SizeOf(block.records, taken) + Record.size
    BY <1>1, <2>1, <2>2, SizesAddUp DEF Record
  <2>4. CursorIsExact'
    BY <1>1, <2>1, <2>3 DEF CursorIsExact, SizeOf
  <2> QED BY <1>1, <2>1, <2>4, SameConvertible DEF SoundInv, SoundFilesConvert
<1>9. CASE UNCHANGED vars
  <2>1. pc' = pc
    BY <1>9 DEF vars
  <2> QED BY <1>1, <1>2, <1>9, <2>1, SameConvertible DEF SoundInv, SoundFilesConvert
<1> QED BY <1>3, <1>4, <1>5, <1>6, <1>7, <1>8, <1>9 DEF Next

\* A sound file is never refused: every length, count and size in it is taken
\* for what it is, up to blocks that fill the caps and records that fill their
\* block (nfdump/mod.rs:17-22).
THEOREM SoundFilesAlwaysConvert == Spec => []SoundFilesConvert
<1>1. Init => SoundInv
  <2> SUFFICES ASSUME Init PROVE SoundInv
    OBVIOUS
  <2>1. /\ at = 0 /\ block.length = 0 /\ block_pos = 0 /\ taken = 0 /\ pc = "open"
        /\ block.records = <<>>
    BY DEF Init
  <2>2. SizeOf(<<>>, 0) = 0
    <3>1. 1 .. 0 = {}
      OBVIOUS
    <3> QED BY <3>1, SumEmpty DEF SizeOf
  <2> QED BY <2>1, <2>2 DEF SoundInv, CursorIsExact, SoundFilesConvert
<1>2. SoundInv => SoundFilesConvert
  BY DEF SoundInv
<1> QED BY <1>1, <1>2, SoundStep, InductiveInvariant, PTL DEF Spec

=============================================================================
