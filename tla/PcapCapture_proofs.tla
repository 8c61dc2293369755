------------------------- MODULE PcapCapture_proofs -------------------------
(***************************************************************************)
(* Proofs about the reader loop, for every set of capture files, every     *)
(* buffer capacity and every chunking of the reads.  First the inductive   *)
(* invariant, one step per action; then the loop's refinement of the flow  *)
(* table, along which the table's theorems become theorems of the loop.    *)
(***************************************************************************)
EXTENDS PcapCaptureProps, SequenceTheorems, FiniteSetTheorems, TLAPS

\* A file is a non-empty sequence of blocks that fits the bound.
LEMMA FileType ==
  ASSUME NEW f \in Captures
  PROVE  /\ f.blocks \in Seq(CaptureBlock) /\ f.length \in Nat
         /\ Len(f.blocks) \in Nat /\ DOMAIN f.blocks = 1 .. Len(f.blocks)
         /\ \A n \in 1 .. Len(f.blocks) : /\ f.blocks[n] \in CaptureBlock
                                          /\ f.blocks[n].size \in Nat
<1>1. f.blocks \in Seq(CaptureBlock) /\ f.length \in Nat
  BY CaptureAssumption
<1>2. Len(f.blocks) \in Nat /\ DOMAIN f.blocks = 1 .. Len(f.blocks)
  BY <1>1, LenProperties
<1>3. \A n \in 1 .. Len(f.blocks) : f.blocks[n] \in CaptureBlock
  BY <1>1, <1>2, ElementOfSeq
<1>4. \A b \in CaptureBlock : b.size \in Nat
  BY DEF CaptureBlock
<1> QED BY <1>1, <1>2, <1>3, <1>4

-----------------------------------------------------------------------------
(* The inductive invariant *)

\* Consuming a block that is ready, and not malformed, keeps the invariant.
LEMMA ConsumeIInv ==
  ASSUME IInv, Ready, Consume, pc = "loop", Block.kind # "malformed",
         UNCHANGED <<file, got, exhausted, pc>>, legacy_nanos' \in BOOLEAN
  PROVE  IInv'
<1>1. /\ file \in Captures /\ Len(file.blocks) \in Nat /\ Block.size \in Nat
      /\ pos \in Nat /\ pos + 1 <= Len(file.blocks)
      /\ used + Block.size <= got
      /\ used \in Nat /\ got \in Nat /\ got - used <= Capacity /\ got <= file.length
  BY FileType DEF IInv, TypeOK, Ready, Block
<1>2. pos' = pos + 1 /\ used' = used + Block.size
  BY DEF Consume
<1>3. Block.size <= Capacity /\ Capacity \in Nat
  BY <1>1, CaptureAssumption
<1>4. TypeOK'
  <2>1. pos' \in 0 .. Len(file'.blocks) /\ got' \in 0 .. file'.length
    BY <1>1, <1>2 DEF IInv, TypeOK
  <2>2. used' \in 0 .. got' /\ got' - used' <= Capacity
    BY <1>1, <1>2, <1>3
  <2> QED BY <2>1, <2>2 DEF IInv, TypeOK
<1>5. \A n \in 1 .. pos' : /\ file'.blocks[n].kind # "malformed"
                           /\ file'.blocks[n].size <= Capacity
  <2> TAKE n \in 1 .. pos'
  <2>1. CASE n \in 1 .. pos
    BY <2>1 DEF IInv
  <2>2. CASE n = pos + 1
    BY <1>3, <2>2 DEF Block
  <2> QED BY <1>1, <1>2, <2>1, <2>2
<1> QED BY <1>4, <1>5 DEF IInv

\* Every step keeps it.
LEMMA StepIInv ==
  ASSUME IInv, [Next]_vars
  PROVE  IInv'
<1> USE DEF IInv, reader
<1>0. /\ Len(file.blocks) \in Nat /\ file.length \in Nat /\ file \in Captures
      /\ got \in Nat /\ used \in Nat /\ Capacity \in Nat
  BY FileType, CaptureAssumption DEF TypeOK
<1>1. CASE Open
  <2>1. PICK n \in 0 .. Smaller(Capacity, file.length) :
          got' = n /\ pc' \in {"loop", "failed"}
    BY <1>1 DEF Open
  <2>2. n \in Nat /\ n <= Capacity /\ n <= file.length
    BY <1>0, <2>1 DEF Smaller
  <2>3. got = 0 /\ used = 0 /\ UNCHANGED <<file, pos, used, exhausted, legacy_nanos>>
    BY <1>0, <1>1 DEF Open, TypeOK
  <2> QED BY <1>0, <2>1, <2>2, <2>3 DEF TypeOK
<1>2. CASE LegacyHeader
  BY <1>2, ConsumeIInv DEF LegacyHeader
<1>3. CASE InterfaceDescription
  BY <1>3, ConsumeIInv DEF InterfaceDescription, TypeOK
<1>4. CASE PacketBlock
  BY <1>4, ConsumeIInv DEF PacketBlock, PacketKinds, TypeOK
<1>5. CASE OtherBlock
  BY <1>5, ConsumeIInv DEF OtherBlock, TypeOK
<1>6. CASE Eof
  BY <1>6 DEF Eof, TypeOK
<1>7. CASE Incomplete
  BY <1>7 DEF Incomplete, TypeOK
<1>8. CASE UnexpectedEof
  BY <1>8 DEF UnexpectedEof, TypeOK
<1>9. CASE ParseError
  BY <1>9 DEF ParseError, TypeOK
<1>10. CASE Refill
  <2>1. CASE got = file.length
    BY <1>10, <2>1 DEF Refill, TypeOK
  <2>2. CASE got # file.length
    <3>1. PICK n \in 1 .. Smaller(Capacity - (got - used), file.length - got) :
            got' = got + n
      BY <1>10, <2>2 DEF Refill
    <3>2. /\ n \in Nat /\ n <= Capacity - (got - used) /\ n <= file.length - got
      BY <1>0, <3>1 DEF Smaller
    <3>3. /\ UNCHANGED <<file, pos, used, exhausted, legacy_nanos>>
          /\ pc = "refill" /\ pc' = "loop"
      BY <1>10, <2>2 DEF Refill
    <3>4. ~exhausted
      BY <2>2
    <3>5. got' \in 0 .. file.length /\ used \in 0 .. got' /\ got' - used <= Capacity
      BY <1>0, <3>1, <3>2 DEF TypeOK
    <3> QED BY <3>3, <3>4, <3>5 DEF TypeOK
  <2> QED BY <2>1, <2>2
<1>11. CASE RefillFails
  BY <1>11 DEF RefillFails, TypeOK
<1>12. CASE Convert
  BY <1>12 DEF Convert, TypeOK
<1>13. CASE UNCHANGED vars
  BY <1>13 DEF vars, TypeOK
<1> QED BY <1>1, <1>2, <1>3, <1>4, <1>5, <1>6, <1>7, <1>8, <1>9, <1>10, <1>11,
           <1>12, <1>13 DEF Next

\* The inductive invariant holds in every reachable state.
THEOREM InductiveInvariant == Spec => []IInv
<1>1. Init => IInv
  <2> SUFFICES ASSUME Init PROVE IInv
    OBVIOUS
  <2>1. /\ file \in Captures /\ Len(file.blocks) \in Nat /\ file.length \in Nat
        /\ pos = 0 /\ got = 0 /\ used = 0 /\ exhausted = FALSE
        /\ legacy_nanos = FALSE /\ pc = "open" /\ Capacity \in Nat
    BY FileType, CaptureAssumption DEF Init
  <2>2. pos \in 0 .. Len(file.blocks) /\ got \in 0 .. file.length /\ used \in 0 .. got
    BY <2>1
  <2>3. got - used <= Capacity
    BY <2>1
  <2>4. exhausted \in BOOLEAN /\ legacy_nanos \in BOOLEAN /\ ~exhausted
    BY <2>1
  <2>5. TypeOK
    BY <2>1, <2>2, <2>3, <2>4 DEF TypeOK
  <2>6. \A n \in 1 .. pos : FALSE
    BY <2>1
  <2> QED BY <2>1, <2>4, <2>5, <2>6 DEF IInv
<1> QED BY <1>1, StepIInv, PTL DEF Spec

\* The buffer holds between nothing and its capacity, on every file.
THEOREM TypeCorrect == Spec => []TypeOK
<1>1. IInv => TypeOK
  BY DEF IInv
<1> QED BY <1>1, InductiveInvariant, PTL

\* No conversion of part of a file, whatever the file, the capacity and the reads.
THEOREM WholeFilesOnly == Spec => []ConvertedMeansWholeFile
<1>1. IInv => ConvertedMeansWholeFile
  BY DEF IInv, ConvertedMeansWholeFile
<1> QED BY <1>1, InductiveInvariant, PTL

-----------------------------------------------------------------------------
\* What a packet block is parsed into is a packet of the flow table.
LEMMA BlockIsCaptured ==
  ASSUME IInv, Ready, Block.kind \in PacketKinds, ViewOf(Block.frame, linktype) # None
  PROVE  ParsePacket(ViewOf(Block.frame, linktype), TimeOf(Block, legacy_nanos), Block.origlen)
           \in CapturedPackets
<1> DEFINE link == IF linktype = Ethernet THEN Ethernet ELSE 0
           blocks == {b \in UNION {ToSet(f.blocks) : f \in Captures} : b.kind \in PacketKinds}
           readings == {r \in blocks \X {0, Ethernet} \X BOOLEAN :
                          ViewOf(r[1].frame, r[2]) # None}
           parsed(r) == ParsePacket(ViewOf(r[1].frame, r[2]), TimeOf(r[1], r[3]), r[1].origlen)
           this == <<Block, link, legacy_nanos>>
<1>1. file \in Captures /\ pos + 1 \in DOMAIN file.blocks
  BY FileType DEF IInv, TypeOK, Ready
<1>2. Block \in ToSet(file.blocks)
  BY <1>1 DEF ToSet, Block
<1>3. Block \in blocks
  BY <1>1, <1>2
<1>4. ViewOf(Block.frame, link) = ViewOf(Block.frame, linktype) /\ link \in {0, Ethernet}
  BY DEF ViewOf, Ethernet
<1>5. legacy_nanos \in BOOLEAN
  BY DEF IInv, TypeOK
<1> HIDE DEF blocks, link
<1>6. this \in readings
  BY <1>3, <1>4, <1>5
<1> HIDE DEF readings
<1>7. parsed(this) \in {parsed(r) : r \in readings}
  BY <1>6
<1>8. CapturedPackets = {parsed(r) : r \in readings}
  BY DEF CapturedPackets, readings, blocks
<1>9. parsed(this)
        = ParsePacket(ViewOf(Block.frame, linktype), TimeOf(Block, legacy_nanos), Block.origlen)
  BY <1>4
<1> QED BY <1>7, <1>8, <1>9

-----------------------------------------------------------------------------
(* What the table has seen *)

\* The packets of a file are some of its blocks.
LEMMA PacketsType ==
  ASSUME file \in Captures
  PROVE  /\ IsFiniteSet(Packets) /\ Packets \subseteq PacketBlocks
         /\ PacketBlocks \subseteq 1 .. Len(file.blocks)
<1>1. DOMAIN file.blocks = 1 .. Len(file.blocks) /\ Len(file.blocks) \in Nat
  BY FileType
<1>2. Packets \subseteq PacketBlocks /\ PacketBlocks \subseteq 1 .. Len(file.blocks)
  BY <1>1 DEF Packets, PacketBlocks
<1>3. IsFiniteSet(1 .. Len(file.blocks))
  BY <1>1, FS_Interval
<1>4. IsFiniteSet(Packets)
  BY <1>2, <1>3, FS_Subset
<1> QED BY <1>2, <1>4

\* The rank of a block is the number of packets so far, and grows with each.
LEMMA RankStep ==
  ASSUME file \in Captures, NEW n \in Nat
  PROVE  /\ Rank(n) \in Nat
         /\ n + 1 \in Packets => /\ PacketsUpTo(n + 1) = PacketsUpTo(n) \cup {n + 1}
                                 /\ Rank(n + 1) = Rank(n) + 1
         /\ n + 1 \notin Packets => PacketsUpTo(n + 1) = PacketsUpTo(n)
<1>1. IsFiniteSet(Packets) /\ \A m \in Packets : m \in Nat
  BY PacketsType, FileType
<1>2. IsFiniteSet(PacketsUpTo(n))
  BY <1>1, FS_Subset DEF PacketsUpTo
<1>3. Rank(n) \in Nat
  BY <1>2, FS_CardinalityType DEF Rank
<1>4. n + 1 \notin PacketsUpTo(n)
  BY DEF PacketsUpTo
<1>5. n + 1 \in Packets => PacketsUpTo(n + 1) = PacketsUpTo(n) \cup {n + 1}
  BY <1>1 DEF PacketsUpTo
<1>6. n + 1 \in Packets => Rank(n + 1) = Rank(n) + 1
  BY <1>2, <1>4, <1>5, FS_AddElement DEF Rank
<1>7. n + 1 \notin Packets => PacketsUpTo(n + 1) = PacketsUpTo(n)
  BY <1>1 DEF PacketsUpTo
<1> QED BY <1>3, <1>5, <1>6, <1>7

\* The place of a packet is among those of the packets up to a later block.
LEMMA RankBound ==
  ASSUME file \in Captures, NEW n \in Nat, NEW m \in PacketsUpTo(n)
  PROVE  Rank(m) \in 1 .. Rank(n)
<1>1. /\ IsFiniteSet(Packets) /\ \A k \in Packets : k \in Nat
      /\ m \in Packets /\ m <= n
  BY PacketsType, FileType DEF PacketsUpTo
<1>2. ASSUME NEW k \in PacketsUpTo(m) PROVE k \in PacketsUpTo(n)
  <2>1. k \in Packets /\ k <= m
    BY DEF PacketsUpTo
  <2>2. k \in Nat /\ k <= n
    BY <1>1, <2>1
  <2> QED BY <2>1, <2>2 DEF PacketsUpTo
<1>3. m \in PacketsUpTo(m)
  BY <1>1 DEF PacketsUpTo
<1>4. IsFiniteSet(PacketsUpTo(n)) /\ IsFiniteSet(PacketsUpTo(m))
  BY <1>1, FS_Subset DEF PacketsUpTo
<1>5. Rank(m) <= Rank(n) /\ Rank(m) \in Nat /\ Rank(n) \in Nat
  BY <1>2, <1>4, FS_Subset, FS_CardinalityType DEF Rank
<1>6. Rank(m) # 0
  BY <1>3, <1>4, FS_EmptySet DEF Rank
<1> QED BY <1>5, <1>6

\* The interface or header of the next block was consumed before it, and the
\* loop's link type is its own.
LEMMA DeclarationIsRead ==
  ASSUME IInv, Declared, Plain, Ready, Block.kind \in PacketKinds
  PROVE  /\ OwnLinktype(pos + 1) = linktype
         /\ Block.kind = "enhanced" => /\ Declaration(pos + 1) \in CaptureBlock
                                       /\ Declaration(pos + 1).kind = "interface"
<1> DEFINE n == pos + 1
           m == CHOOSE k \in 1 .. n - 1 : IsDeclaredBy(n, k)
<1>1. /\ file \in Captures /\ pos \in Nat /\ n \in DOMAIN file.blocks
      /\ DOMAIN file.blocks = 1 .. Len(file.blocks) /\ Len(file.blocks) \in Nat
      /\ n \in PacketBlocks
  BY FileType DEF IInv, TypeOK, Ready, Block, PacketBlocks
<1>2. m \in 1 .. n - 1 /\ IsDeclaredBy(n, m)
  BY <1>1 DEF Plain
<1>3. Declaration(n) = file.blocks[m] /\ OwnLinktype(n) = LinktypeOf(file.blocks[m])
  BY DEF OwnLinktype, Declaration
<1> HIDE DEF m
<1>4. m \in DOMAIN file.blocks /\ m <= pos
  BY <1>1, <1>2
<1>5. file.blocks[m].kind \in {"legacy_header", "interface"}
  BY <1>1, <1>2, CaptureAssumption DEF IsDeclaredBy
<1>6. m \in Declarations
  BY <1>4, <1>5 DEF Declarations
<1>7. OwnLinktype(n) = linktype
  BY <1>3, <1>4, <1>6 DEF Declared
<1>8. ASSUME Block.kind = "enhanced"
      PROVE  Declaration(n) \in CaptureBlock /\ Declaration(n).kind = "interface"
  BY <1>1, <1>2, <1>3, <1>4, <1>8, FileType DEF IsDeclaredBy, Block
<1> QED BY <1>7, <1>8

\* The time of the next legacy packet is its microseconds, in the resolutions
\* the code reads.
LEMMA LegacyTimeIsExact ==
  ASSUME IInv, Declared, Ready, Block.kind = "legacy", ResolutionIsRead(pos + 1)
  PROVE  TimeOf(Block, legacy_nanos) = Stamp(pos + 1)
<1>1. /\ file \in Captures /\ pos \in Nat /\ pos + 1 \in DOMAIN file.blocks
      /\ Block \in CaptureBlock /\ Block = file.blocks[pos + 1]
  BY FileType DEF IInv, TypeOK, Ready, Block
<1>2. file.blocks[1].kind = "legacy_header" /\ file.blocks[1] \in CaptureBlock
  BY <1>1, CaptureAssumption, FileType
<1>3. pos >= 1
  BY <1>1, <1>2
<1>4. legacy_nanos = (file.blocks[1].magic = "nsec")
  BY <1>2, <1>3 DEF Declared
<1>5. file.blocks[1].magic \in {"usec", "nsec", "usec_swapped"}
  BY <1>1, <1>2 DEF CaptureBlock, Magic, ResolutionIsRead
<1>6. Block.ts_sec \in Nat /\ Block.ts_usec \in Nat
  BY <1>1 DEF CaptureBlock
<1> DEFINE sec == Block.ts_sec
           frac == Block.ts_usec
<1>7. Stamp(pos + 1) = Nanoseconds(Block) \div 1000
  BY <1>1, SMT DEF Stamp, Microseconds
<1> HIDE DEF sec, frac
<1>8. sec \in Nat /\ frac \in Nat
  BY <1>6 DEF sec, frac
<1>9. /\ (sec * 1000000000 + frac) \div 1000 = sec * 1000000 + frac \div 1000
      /\ (sec * 1000000000 + frac * 1000) \div 1000 = sec * 1000000 + frac
  BY <1>8, SMT
<1>10. CASE legacy_nanos
  <2>0. FractionUnit = 1
    BY <1>4, <1>10 DEF FractionUnit
  <2>1. Nanoseconds(Block) = sec * 1000000000 + frac * 1
    BY <2>0, SMT DEF Nanoseconds, sec, frac
  <2>2. frac * 1 = frac
    BY <1>8
  <2>3. TimeOf(Block, legacy_nanos) = sec * 1000000 + frac \div 1000
    BY <1>10, SMT DEF TimeOf, LegacyTime, sec, frac
  <2> QED BY <1>7, <1>9, <2>1, <2>2, <2>3
<1>11. CASE ~legacy_nanos
  <2>0. FractionUnit = 1000
    <3>1. file.blocks[1].magic # "nsec"
      BY <1>4, <1>11, Zenon
    <3> QED BY <1>5, <3>1 DEF FractionUnit
  <2>1. Nanoseconds(Block) = sec * 1000000000 + frac * 1000
    BY <2>0, SMT DEF Nanoseconds, sec, frac
  <2>2. TimeOf(Block, legacy_nanos) = sec * 1000000 + frac
    BY <1>11, SMT DEF TimeOf, LegacyTime, sec, frac
  <2> QED BY <1>7, <1>9, <2>1, <2>2
<1> QED BY <1>10, <1>11

\* Two words, the high one signed, are the signed number of both.
LEMMA TwoWords ==
  ASSUME NEW k \in Nat, NEW h \in Nat, NEW l \in Nat, NEW w \in Nat, w = 2 * k, h < w, l < w
  PROVE  /\ h >= k <=> h * w + l >= (w * w) \div 2
         /\ (h - w) * w + l = (h * w + l) - w * w
<1>1. w * w = 2 * (k * w)
  BY SMT
<1>2. k * w \in Nat /\ h * w \in Nat
  BY SMT
<1>3. (w * w) \div 2 = k * w
  <2> DEFINE a == k * w
  <2>1. a \in Nat /\ w * w = 2 * a
    BY <1>1, <1>2
  <2> HIDE DEF a
  <2>2. (2 * a) \div 2 = a
    BY <2>1
  <2> QED BY <2>1, <2>2 DEF a
<1>4. h >= k => h * w >= k * w
  BY SMT
<1>5. h < k => h * w + w <= k * w
  <2>1. h < k => (h + 1) * w <= k * w
    BY SMT
  <2>2. (h + 1) * w = h * w + w
    BY SMT
  <2> QED BY <2>1, <2>2
<1>6. (h - w) * w = h * w - w * w
  BY SMT
<1>7. h >= k => h * w + l >= (w * w) \div 2
  BY <1>2, <1>3, <1>4
<1>8. h < k => h * w + l < (w * w) \div 2
  BY <1>2, <1>3, <1>5
<1>9. w * w \in Nat
  BY SMT
<1>10. (h - w) * w + l = (h * w + l) - w * w
  <2> DEFINE a == h * w
             b == w * w
             c == (h - w) * w
  <2>1. a \in Nat /\ b \in Nat /\ c = a - b
    BY <1>2, <1>6, <1>9
  <2> HIDE DEF a, b, c
  <2>2. c + l = (a + l) - b
    BY <2>1
  <2> QED BY <2>2 DEF a, b, c
<1>11. h * w + l \in Nat /\ (w * w) \div 2 \in Nat
  BY <1>2, <1>3
<1> QED BY <1>7, <1>8, <1>10, <1>11

\* The time of the next pcapng packet is its microseconds as an i64, where its
\* interface counts in microseconds.
LEMMA EnhancedTimeIsExact ==
  ASSUME IInv, Ready, Block.kind = "enhanced", ResolutionIsRead(pos + 1)
  PROVE  TimeOf(Block, legacy_nanos) = Stamp(pos + 1)
<1>1. /\ file \in Captures /\ pos \in Nat /\ pos + 1 \in DOMAIN file.blocks
      /\ Block \in CaptureBlock /\ Block = file.blocks[pos + 1]
  BY FileType DEF IInv, TypeOK, Ready, Block
<1>2. /\ Block.ts_high \in Nat /\ Block.ts_low \in Nat
      /\ Block.ts_high < Word /\ Block.ts_low < Word
  BY <1>1, CaptureAssumption DEF CaptureBlock
<1> DEFINE h == Block.ts_high
           l == Block.ts_low
           k == Word \div 2
           t == Ticks(Block)
<1>3. Word \in Nat /\ k \in Nat /\ Word = 2 * k
  BY CaptureAssumption
<1>4. /\ h >= k <=> h * Word + l >= (Word * Word) \div 2
      /\ (h - Word) * Word + l = (h * Word + l) - Word * Word
  BY <1>2, <1>3, TwoWords
<1>5. t = h * Word + l /\ t \in Nat
  BY <1>2, <1>3, SMT DEF Ticks
<1>6. Stamp(pos + 1) = Signed((t * 1000000) \div 1000000)
  BY <1>1, SMT DEF Stamp, Microseconds, ResolutionIsRead
<1> HIDE DEF t
<1>7. (t * 1000000) \div 1000000 = t
  BY <1>5, SMT
<1>8. TimeOf(Block, legacy_nanos) = IF h >= k THEN (h - Word) * Word + l ELSE h * Word + l
  BY DEF TimeOf, EnhancedTime
<1> HIDE DEF h, l, k
<1>9. TimeOf(Block, legacy_nanos) = IF h >= k THEN t - Word * Word ELSE t
  <2>1. (h - Word) * Word + l = t - Word * Word /\ h * Word + l = t
    BY <1>4, <1>5, Zenon
  <2> QED BY <1>8, <2>1, Zenon
<1>10. (Word * Word) \div 2 \in Int /\ (h >= k <=> ~(t < (Word * Word) \div 2))
  <2>1. (Word * Word) \div 2 \in Int
    BY <1>3, SMT
  <2> DEFINE half == (Word * Word) \div 2
  <2> HIDE DEF half
  <2>2. t >= half <=> ~(t < half)
    BY <1>5, <2>1 DEF half
  <2> QED BY <1>4, <1>5, <2>1, <2>2 DEF half
<1> QED BY <1>6, <1>7, <1>9, <1>10 DEF Signed

\* What the next packet block is parsed into is its packet.
LEMMA ParsedIsPacket ==
  ASSUME IInv, Declared, Plain, Ready, Block.kind \in PacketKinds
  PROVE  IsPacketOf(ParsePacket(ViewOf(Block.frame, linktype),
                                TimeOf(Block, legacy_nanos), Block.origlen), pos + 1)
<1>1. OwnLinktype(pos + 1) = linktype
  BY DeclarationIsRead
<1>2. ResolutionIsRead(pos + 1) => TimeOf(Block, legacy_nanos) = Stamp(pos + 1)
  BY LegacyTimeIsExact, EnhancedTimeIsExact DEF PacketKinds
<1>3. Block = file.blocks[pos + 1]
  BY DEF Block
<1> QED BY <1>1, <1>2, <1>3 DEF IsPacketOf, DecodedAt, OwnView, ParsePacket

\* The file stays what it is, and so does the independent reading of it.
LEMMA SameFile ==
  ASSUME file' = file
  PROVE  /\ Plain' = Plain /\ Declarations' = Declarations /\ Packets' = Packets
         /\ \A n : PacketsUpTo(n)' = PacketsUpTo(n) /\ Rank(n)' = Rank(n)
         /\ \A n, p : IsPacketOf(p, n)' = IsPacketOf(p, n)
<1>1. Declarations' = Declarations /\ PacketBlocks' = PacketBlocks
  BY DEF Declarations, PacketBlocks
<1>2. \A n : Interfaces(n)' = Interfaces(n)
  BY DEF Interfaces
<1>3. \A n, m : IsDeclaredBy(n, m)' = IsDeclaredBy(n, m)
  BY <1>2 DEF IsDeclaredBy
<1>4. \A n : Declaration(n)' = Declaration(n)
  BY <1>3 DEF Declaration
<1>5. Plain' = Plain
  BY <1>1, <1>3 DEF Plain
<1>6. \A n : OwnView(n)' = OwnView(n)
  BY <1>4 DEF OwnView, OwnLinktype
<1>7. Packets' = Packets
  BY <1>1, <1>6 DEF Packets
<1>8. \A n : PacketsUpTo(n)' = PacketsUpTo(n)
  BY <1>7 DEF PacketsUpTo
<1>9. \A n : Rank(n)' = Rank(n)
  BY <1>8 DEF Rank
<1>10. \A n : Stamp(n)' = Stamp(n) /\ ResolutionIsRead(n)' = ResolutionIsRead(n)
  BY <1>4 DEF Stamp, Microseconds, Nanoseconds, FractionUnit, ResolutionIsRead
<1>11. \A n, p : IsPacketOf(p, n)' = IsPacketOf(p, n)
  BY <1>6, <1>10 DEF IsPacketOf, DecodedAt
<1> QED BY <1>1, <1>5, <1>7, <1>8, <1>9, <1>11

\* Consuming a block that declares nothing keeps what was declared.
LEMMA ConsumeDeclared ==
  ASSUME IInv, Declared, Ready, Consume, Block.kind \notin {"legacy_header", "interface"},
         UNCHANGED <<file, linktype, legacy_nanos>>
  PROVE  Declared'
<1>1. pos \in Nat /\ pos' = pos + 1 /\ file \in Captures
  BY FileType DEF IInv, TypeOK, Consume
<1>2. pos' >= 1 /\ file.blocks[1].kind = "legacy_header" => pos >= 1
  BY <1>1 DEF Block
<1>3. ASSUME NEW n \in Declarations, n <= pos' PROVE n <= pos
  <2>1. n \in Nat /\ n # pos + 1
    BY <1>1, <1>3, FileType DEF Declarations, Block
  <2> QED BY <1>1, <1>3, <2>1
<1>4. Declarations' = Declarations /\ Plain' = Plain
  BY SameFile
<1> QED BY <1>1, <1>2, <1>3, <1>4 DEF Declared

\* A step that leaves the file, the position and the table alone.
LEMMA SameSeen ==
  ASSUME Seen, UNCHANGED <<file, pos, linktype, legacy_nanos, trace>>
  PROVE  Seen'
<1>1. /\ Plain' = Plain /\ Declarations' = Declarations
      /\ PacketsUpTo(pos)' = PacketsUpTo(pos) /\ Rank(pos)' = Rank(pos)
      /\ \A n : Rank(n)' = Rank(n) /\ \A p : IsPacketOf(p, n)' = IsPacketOf(p, n)
  BY SameFile
<1>2. Declared'
  BY <1>1 DEF Seen, Declared
<1>3. PacketsAreDecoded'
  BY <1>1 DEF Seen, PacketsAreDecoded
<1> QED BY <1>2, <1>3 DEF Seen

\* Consuming a block without a packet in it adds nothing to what was decoded.
LEMMA NothingDecoded ==
  ASSUME IInv, PacketsAreDecoded, Consume, Plain => pos + 1 \notin Packets,
         UNCHANGED <<file, trace>>
  PROVE  PacketsAreDecoded'
<1>1. pos \in Nat /\ pos' = pos + 1 /\ file \in Captures
  BY FileType DEF IInv, TypeOK, Consume
<1>2. Plain => PacketsUpTo(pos + 1) = PacketsUpTo(pos)
  BY <1>1, RankStep
<1>3. Plain => /\ Len(trace) = Rank(pos + 1)
               /\ \A n \in PacketsUpTo(pos + 1) : IsPacketOf(trace[Rank(n)], n)
  BY <1>2 DEF PacketsAreDecoded, Rank
<1>4. /\ Plain' = Plain /\ PacketsUpTo(pos)' = PacketsUpTo(pos + 1)
      /\ Rank(pos)' = Rank(pos + 1)
      /\ \A n : Rank(n)' = Rank(n) /\ \A p : IsPacketOf(p, n)' = IsPacketOf(p, n)
  BY <1>1, SameFile DEF PacketsUpTo, Rank
<1> QED BY <1>3, <1>4 DEF PacketsAreDecoded

\* Consuming a block with a packet adds that one.
LEMMA OneDecoded ==
  ASSUME IInv, Seen, Ready, Consume, Block.kind \in PacketKinds,
         ViewOf(Block.frame, linktype) # None, UNCHANGED file,
         trace' = Append(trace, ParsePacket(ViewOf(Block.frame, linktype),
                                            TimeOf(Block, legacy_nanos), Block.origlen))
  PROVE  PacketsAreDecoded'
<1> DEFINE p == ParsePacket(ViewOf(Block.frame, linktype),
                            TimeOf(Block, legacy_nanos), Block.origlen)
<1>1. /\ pos \in Nat /\ pos' = pos + 1 /\ file \in Captures
      /\ pos + 1 \in PacketBlocks /\ Block = file.blocks[pos + 1]
  BY FileType DEF IInv, TypeOK, Consume, Ready, Block, PacketBlocks
<1>2. p \in CapturedPackets /\ trace \in Seq(CapturedPackets)
  BY BlockIsCaptured DEF Seen
<1>3. ASSUME Plain
      PROVE  /\ Len(trace') = Rank(pos + 1)
             /\ \A n \in PacketsUpTo(pos + 1) : IsPacketOf(trace'[Rank(n)], n)
  <2>1. OwnLinktype(pos + 1) = linktype
    BY <1>3, DeclarationIsRead DEF Seen
  <2>2. IsPacketOf(p, pos + 1) /\ pos + 1 \in Packets
    BY <1>1, <1>3, <2>1, ParsedIsPacket DEF Seen, OwnView, Packets
  <2> HIDE DEF p
  <2>3. /\ Len(trace) = Rank(pos)
        /\ \A n \in PacketsUpTo(pos) : IsPacketOf(trace[Rank(n)], n)
    BY <1>3 DEF Seen, PacketsAreDecoded
  <2>4. /\ Rank(pos) \in Nat /\ Rank(pos + 1) = Rank(pos) + 1
        /\ PacketsUpTo(pos + 1) = PacketsUpTo(pos) \cup {pos + 1}
    BY <1>1, <2>2, RankStep
  <2>5. trace' = Append(trace, p)
    BY DEF p
  <2>6. /\ Len(trace') = Len(trace) + 1
        /\ trace'[Len(trace) + 1] = p
        /\ \A k \in 1 .. Len(trace) : trace'[k] = trace[k]
    BY <1>2, <2>5, AppendProperties
  <2>7. ASSUME NEW n \in PacketsUpTo(pos) PROVE IsPacketOf(trace'[Rank(n)], n)
    <3>1. Rank(n) \in 1 .. Rank(pos)
      BY <1>1, RankBound
    <3> QED BY <2>3, <2>6, <3>1
  <2> QED BY <2>2, <2>3, <2>4, <2>6, <2>7
<1>4. /\ Plain' = Plain /\ PacketsUpTo(pos)' = PacketsUpTo(pos + 1)
      /\ Rank(pos)' = Rank(pos + 1)
      /\ \A n : Rank(n)' = Rank(n) /\ \A q : IsPacketOf(q, n)' = IsPacketOf(q, n)
  BY <1>1, SameFile DEF PacketsUpTo, Rank
<1> QED BY <1>3, <1>4 DEF PacketsAreDecoded

\* Every step keeps what the table has seen.
LEMMA StepSeen ==
  ASSUME IInv, Seen, [Next]_vars
  PROVE  Seen'
<1> USE DEF reader, table
<1>0. /\ file \in Captures /\ pos \in Nat
      /\ DOMAIN file.blocks = 1 .. Len(file.blocks) /\ Len(file.blocks) \in Nat
  BY FileType DEF IInv, TypeOK
<1>1. CASE LegacyHeader
  <2>1. /\ Consume /\ UNCHANGED <<file, trace>> /\ Ready
        /\ linktype' = LinktypeOf(Block) /\ legacy_nanos' = (Block.magic = "nsec")
        /\ Block.kind = "legacy_header" /\ pos' = pos + 1
    BY <1>1 DEF LegacyHeader, Consume, LinktypeOf
  <2>2. pos = 0 /\ Block = file.blocks[1]
    BY <1>0, <2>1, CaptureAssumption DEF Block, Ready
  <2>3. PacketsAreDecoded'
    BY <1>0, <2>1, NothingDecoded DEF Seen, Packets, PacketBlocks, PacketKinds, Block
  <2>4. \A n \in Declarations : n <= 1 => n = 1
    BY <1>0 DEF Declarations
  <2>5. Declarations' = Declarations
    BY <2>1, SameFile
  <2>6. Declared'
    BY <2>1, <2>2, <2>4, <2>5 DEF Declared
  <2> QED BY <2>1, <2>3, <2>6 DEF Seen
<1>2. CASE InterfaceDescription
  <2>1. /\ Consume /\ UNCHANGED <<file, trace, legacy_nanos>> /\ Ready
        /\ linktype' = LinktypeOf(Block) /\ Block.kind = "interface" /\ pos' = pos + 1
    BY <1>2 DEF InterfaceDescription, Consume, LinktypeOf
  <2>2. PacketsAreDecoded'
    BY <1>0, <2>1, NothingDecoded DEF Seen, Packets, PacketBlocks, PacketKinds, Block
  <2>3. pos + 1 \in Declarations
    BY <1>0, <2>1 DEF Declarations, Ready, Block
  <2>4. Plain => \A n \in Declarations : LinktypeOf(file.blocks[n]) = linktype'
    BY <2>1, <2>3 DEF Plain, Block
  <2>5. pos' >= 1 /\ file.blocks[1].kind = "legacy_header" => pos >= 1
    BY <1>0, <2>1 DEF Block
  <2>6. Plain' = Plain /\ Declarations' = Declarations
    BY <2>1, SameFile
  <2>7. Declared'
    BY <2>1, <2>4, <2>5, <2>6 DEF Declared, Seen
  <2> QED BY <2>1, <2>2, <2>7 DEF Seen
<1>3. CASE PacketBlock
  <2>1. /\ Consume /\ UNCHANGED <<file, linktype, legacy_nanos>> /\ Ready
        /\ Block.kind \in PacketKinds
    BY <1>3 DEF PacketBlock
  <2>2. Declared'
    BY <2>1, ConsumeDeclared DEF Seen, PacketKinds
  <2>3. CASE ViewOf(Block.frame, linktype) = None
    <3>1. UNCHANGED trace
      BY <1>3, <2>3 DEF PacketBlock
    <3>2. Plain => pos + 1 \notin Packets
      BY <2>1, <2>3, DeclarationIsRead DEF Seen, Packets, OwnView, Block
    <3>3. PacketsAreDecoded'
      BY <2>1, <3>1, <3>2, NothingDecoded DEF Seen
    <3> QED BY <2>2, <3>1, <3>3 DEF Seen
  <2>4. CASE ViewOf(Block.frame, linktype) # None
    <3> DEFINE p == ParsePacket(ViewOf(Block.frame, linktype),
                                TimeOf(Block, legacy_nanos), Block.origlen)
    <3>1. trace' = Append(trace, p)
      BY <1>3, <2>4 DEF PacketBlock, Table!Ingest
    <3>2. PacketsAreDecoded'
      BY <2>1, <2>4, <3>1, OneDecoded
    <3>3. p \in CapturedPackets
      BY <2>1, <2>4, BlockIsCaptured
    <3> HIDE DEF p
    <3>4. trace' \in Seq(CapturedPackets)
      BY <3>1, <3>3, AppendProperties DEF Seen
    <3> QED BY <2>2, <3>2, <3>4 DEF Seen
  <2> QED BY <2>3, <2>4
<1>4. CASE OtherBlock
  <2>1. /\ Consume /\ UNCHANGED <<file, trace, linktype, legacy_nanos>> /\ Ready
        /\ Block.kind \in {"section", "other"}
    BY <1>4 DEF OtherBlock
  <2>2. Declared'
    BY <2>1, ConsumeDeclared DEF Seen
  <2>3. PacketsAreDecoded'
    BY <2>1, NothingDecoded DEF Seen, Packets, PacketBlocks, PacketKinds, Block
  <2> QED BY <2>1, <2>2, <2>3 DEF Seen
<1>5. CASE Open \/ Eof \/ Incomplete \/ UnexpectedEof \/ ParseError \/ Refill \/ RefillFails
  BY <1>5, SameSeen DEF Open, Eof, Incomplete, UnexpectedEof, ParseError, Refill, RefillFails
<1>6. CASE Convert
  BY <1>6, SameSeen DEF Convert, Table!Finish
<1>7. CASE UNCHANGED vars
  BY <1>7, SameSeen DEF vars
<1> QED BY <1>1, <1>2, <1>3, <1>4, <1>5, <1>6, <1>7 DEF Next

\* For every plain capture, whatever its packets, and however the reads fall, the
\* flow table is given each packet once, in order and rightly sliced, and timed to
\* the microsecond where the file's resolution is one the code reads.
THEOREM DecodedInOrder == Spec => []PacketsAreDecoded
<1>1. Init => Seen
  <2> SUFFICES ASSUME Init PROVE Seen
    OBVIOUS
  <2>1. file \in Captures /\ pos = 0 /\ trace = <<>>
    BY DEF Init, Table!Init
  <2>2. \A n \in DOMAIN file.blocks : n \in Nat /\ n >= 1
    BY <2>1, FileType
  <2>3. PacketsUpTo(0) = {}
    BY <2>2 DEF PacketsUpTo, Packets, PacketBlocks
  <2>4. Rank(0) = 0
    BY <2>3, FS_EmptySet DEF Rank
  <2>5. trace \in Seq(CapturedPackets) /\ Len(trace) = 0
    BY <2>1
  <2>6. Declared
    BY <2>1, <2>2 DEF Declared, Declarations
  <2> QED BY <2>1, <2>3, <2>4, <2>5, <2>6 DEF Seen, PacketsAreDecoded
<1>2. Seen => PacketsAreDecoded
  BY DEF Seen
<1> QED BY <1>1, <1>2, StepSeen, InductiveInvariant, PTL DEF Spec

-----------------------------------------------------------------------------
(* The refinement *)

\* Every step of the loop is a step of the flow table or leaves it alone.
THEOREM DrivesTheFlowTable == Spec => ImplementsFlowTable
<1>1. Init => Table!Init
  BY DEF Init
<1>2. IInv /\ [Next]_vars => [Table!Next]_(Table!vars)
  <2> SUFFICES ASSUME IInv, [Next]_vars PROVE [Table!Next]_(Table!vars)
    OBVIOUS
  <2> USE DEF table, Table!vars
  <2>1. CASE PacketBlock
    <3>1. CASE ViewOf(Block.frame, linktype) = None
      BY <2>1, <3>1 DEF PacketBlock
    <3>2. CASE ViewOf(Block.frame, linktype) # None
      <4> DEFINE p == ParsePacket(ViewOf(Block.frame, linktype),
                                  TimeOf(Block, legacy_nanos), Block.origlen)
      <4>1. p \in CapturedPackets
        BY <2>1, <3>2, BlockIsCaptured DEF PacketBlock
      <4>2. Table!Ingest(p)
        BY <2>1, <3>2 DEF PacketBlock
      <4> QED BY <4>1, <4>2 DEF Table!Next
    <3> QED BY <3>1, <3>2
  <2>2. CASE Convert
    BY <2>2 DEF Convert, Table!Next
  <2>3. CASE UNCHANGED table
    BY <2>3
  <2> QED BY <2>1, <2>2, <2>3 DEF Next, vars, Open, LegacyHeader, InterfaceDescription,
             OtherBlock, Eof, Incomplete, UnexpectedEof, ParseError, Refill, RefillFails
<1> QED BY <1>1, <1>2, InductiveInvariant, PTL DEF Spec, ImplementsFlowTable, Table!Spec

-----------------------------------------------------------------------------
(* What the refinement brings *)

Facts == INSTANCE FlowTable_proofs WITH
  Packets <- CapturedPackets,
  MaxPackets <- MaxBlocks

\* What the loop parses is what the flow table takes for a packet.
LEMMA CapturedArePackets == CapturedPackets \subseteq Table!Packet
<1> SUFFICES ASSUME NEW q \in CapturedPackets PROVE q \in Table!Packet
  OBVIOUS
<1> DEFINE blocks == {b \in UNION {ToSet(f.blocks) : f \in Captures} : b.kind \in PacketKinds}
<1>1. PICK b \in blocks, l \in {0, Ethernet}, n \in BOOLEAN :
        /\ ViewOf(b.frame, l) # None
        /\ q = ParsePacket(ViewOf(b.frame, l), TimeOf(b, n), b.origlen)
  BY DEF CapturedPackets
<1>2. b \in CaptureBlock /\ b.kind \in {"legacy", "enhanced"}
  <2>1. PICK f \in Captures : b \in ToSet(f.blocks)
    BY <1>1
  <2> QED BY <1>1, <2>1, FileType DEF ToSet, PacketKinds
<1> HIDE DEF blocks
<1>3. b.frame \in Frame /\ b.origlen \in Nat
  BY <1>2 DEF CaptureBlock
<1>4. ViewOf(b.frame, l) \in FrameView
  BY <1>1, <1>3 DEF ViewOf, Frame
<1>5. TimeOf(b, n) \in Int
  <2>1. CASE b.kind = "legacy"
    <3>1. b.ts_sec \in Nat /\ b.ts_usec \in Nat
      BY <1>2, <2>1 DEF CaptureBlock
    <3>2. b.ts_usec \div 1000 \in Int
      BY <3>1
    <3> QED BY <2>1, <3>1, <3>2 DEF TimeOf, LegacyTime
  <2>2. CASE b.kind = "enhanced"
    <3>1. b.ts_high \in Nat /\ b.ts_low \in Nat
      BY <1>2, <2>2 DEF CaptureBlock
    <3> QED BY <2>2, <3>1, CaptureAssumption DEF TimeOf, EnhancedTime
  <2> QED BY <1>2, <2>1, <2>2
<1> DEFINE view == ViewOf(b.frame, l)
<1>6. /\ PortsOf(view)[1] \in Nat /\ PortsOf(view)[2] \in Nat
      /\ ProtocolOf(view) \in Nat
  BY <1>4 DEF FrameView, PortsOf, ProtocolOf, Tcp, Udp, Icmp
<1>7. view.src_ip \in Int /\ view.dest_ip \in Int
  BY <1>4 DEF FrameView
<1> HIDE DEF view
<1> QED BY <1>1, <1>3, <1>5, <1>6, <1>7 DEF ParsePacket, Table!Packet, view

\* The flow table of the loop and that of the theorems are one.
LEMMA OneTable == Table!Spec => Facts!Spec
<1>1. \A S : Table!Cardinality(S) = Facts!Cardinality(S)
  BY DEF Table!Cardinality, Facts!Cardinality
<1>2. \A S : Table!SetToSeqs(S) = Facts!SetToSeqs(S)
  BY <1>1 DEF Table!SetToSeqs, Facts!SetToSeqs
<1>3. \A p : Table!MakeFlowKey(p) = Facts!MakeFlowKey(p)
  BY DEF Table!MakeFlowKey, Table!EndpointLeq, Table!Source, Table!Destination,
         Facts!MakeFlowKey, Facts!EndpointLeq, Facts!Source, Facts!Destination
<1>4. \A s, p : Table!Count(s, p) = Facts!Count(s, p)
  BY <1>3 DEF Table!Count, Table!IsForward, Table!Source, Table!Greater,
              Facts!Count, Facts!IsForward, Facts!Source, Facts!Greater
<1>5. \A p : Table!Closes(p) <=> Facts!Closes(p)
  BY <1>3, Zenon DEF Table!Closes, Table!Expired, Facts!Closes, Facts!Expired
<1>6. \A p : Table!Target(p) = Facts!Target(p)
  BY <1>3, <1>5, Zenon DEF Table!Target, Table!Fresh, Facts!Target, Facts!Fresh
<1>7. \A p : Table!Ingest(p) => Facts!Ingest(p)
  BY <1>3, <1>4, <1>5, <1>6, Zenon DEF Table!Ingest, Facts!Ingest
<1>8. \A records : Table!StableSort(records) = Facts!StableSort(records)
  BY Zenon DEF Table!StableSort, Table!Place, Table!Precedes, Table!TupleLess,
               Table!SortKey, Table!Cardinality, Facts!StableSort, Facts!Place,
               Facts!Precedes, Facts!TupleLess, Facts!SortKey, Facts!Cardinality
<1>9. Table!Finish => Facts!Finish
  BY <1>2, <1>8, Zenon DEF Table!Finish, Table!Drained, Facts!Finish, Facts!Drained
<1>10. Table!Init => Facts!Init
  BY DEF Facts!Init, Table!Init
<1>11. [Table!Next]_(Table!vars) => [Facts!Next]_(Facts!vars)
  BY <1>7, <1>9, Zenon DEF Table!Next, Facts!Next, Table!vars, Facts!vars
<1> QED BY <1>10, <1>11, PTL DEF Facts!Spec, Table!Spec

\* Whatever the capture, the capacity and the reads, no record of a conversion
\* runs backwards or outlives the active timeout, two records of a conversation
\* never overlap and only a timeout ever cuts one; no packet parsed is lost or
\* counted twice, and records of packets in time order are their bursts.
THEOREM ConversionsKeepTheTablesPromises ==
  Spec => [](/\ Facts!SpanBounded /\ Facts!RecordsOfAKeyDisjoint /\ Facts!SplitsAreJustified
             /\ Facts!CountersConserved /\ Facts!InOrderRecordsAreBursts)
<1>1. Facts!PacketAssumption /\ Facts!TimeoutAssumption
  BY CapturedArePackets, CaptureAssumption, CaptureTimeouts
     DEF Facts!PacketAssumption, Facts!TimeoutAssumption, Facts!Packet, Table!Packet
<1>2. Facts!Spec => []Facts!IInv
  BY <1>1, Facts!InductiveInvariant, PTL
<1>3. Facts!Spec => []Facts!HistoryInv
  BY <1>1, Facts!HistoryInvariant, PTL
<1>4. Facts!IInv => Facts!SpanBounded /\ Facts!RecordsOfAKeyDisjoint /\ Facts!SplitsAreJustified
  BY DEF Facts!IInv
<1>5. Facts!HistoryInv => Facts!CountersConserved /\ Facts!InOrderRecordsAreBursts
  BY DEF Facts!HistoryInv
<1> QED BY <1>2, <1>3, <1>4, <1>5, OneTable, DrivesTheFlowTable, PTL DEF ImplementsFlowTable

=============================================================================
