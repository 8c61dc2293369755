------------------------- MODULE PcapCaptureProps --------------------------
(***************************************************************************)
(* What the reader loop of pcap_to_parquet promises about a capture file.  *)
(***************************************************************************)
EXTENDS PcapCapture

\* The buffer never holds more than its capacity and never less than nothing.
TypeOK ==
  /\ pos \in 0 .. Len(file.blocks)
  /\ got \in 0 .. file.length
  /\ used \in 0 .. got /\ got - used <= Capacity
  /\ exhausted \in BOOLEAN /\ legacy_nanos \in BOOLEAN
  /\ pc \in {"open", "loop", "refill", "drain", "converted", "failed"}

-----------------------------------------------------------------------------
(* An independent reading of a file: each packet under the interface it     *)
(* names, and its time by what the file says of its resolution.             *)

Interfaces(n) == {m \in 1 .. n : file.blocks[m].kind = "interface"}

Declarations ==
  {n \in DOMAIN file.blocks : file.blocks[n].kind \in {"legacy_header", "interface"}}

\* The block that declares the link type of the n-th one: the header of a legacy
\* file, or the interface that the packet names by its number.
IsDeclaredBy(n, m) ==
  IF file.blocks[n].kind = "legacy"
  THEN m = 1
  ELSE file.blocks[m].kind = "interface" /\ Cardinality(Interfaces(m - 1)) = file.blocks[n].interface

Declaration(n) == file.blocks[CHOOSE m \in 1 .. n - 1 : IsDeclaredBy(n, m)]

\* The upper half of the field is about the frame check sequence.
LinktypeOf(d) == d.linktype % LinktypeValues

OwnLinktype(n) == LinktypeOf(Declaration(n))

PacketBlocks == {n \in DOMAIN file.blocks : file.blocks[n].kind \in PacketKinds}

\* Packets name an interface that comes before them, and interfaces share a
\* link type.
Plain ==
  /\ \A m, n \in Declarations : LinktypeOf(file.blocks[m]) = LinktypeOf(file.blocks[n])
  /\ \A n \in PacketBlocks : \E m \in 1 .. n - 1 : IsDeclaredBy(n, m)

\* Nanoseconds in one unit of the fraction of a second of a legacy file.
FractionUnit == IF file.blocks[1].magic \in {"nsec", "nsec_swapped"} THEN 1 ELSE 1000

Nanoseconds(b) == b.ts_sec * 1000000000 + b.ts_usec * FractionUnit

Ticks(b) == b.ts_high * Word + b.ts_low

\* The time of the packet in the n-th block, in microseconds.
Microseconds(n) ==
  IF file.blocks[n].kind = "legacy"
  THEN Nanoseconds(file.blocks[n]) \div 1000
  ELSE (Ticks(file.blocks[n]) * 1000000) \div Declaration(n).tsresol

\* The resolutions the code reads: microseconds, and nanoseconds of a legacy file
\* in the byte order of the reader.
ResolutionIsRead(n) ==
  IF file.blocks[n].kind = "legacy"
  THEN file.blocks[1].magic # "nsec_swapped"
  ELSE Declaration(n).tsresol = 1000000

\* A count of 64 bits, as a signed integer of as many.
Signed(t) == IF t < (Word * Word) \div 2 THEN t ELSE t - Word * Word

\* The microseconds as an i64; those of a legacy file always fit.
Stamp(n) == IF file.blocks[n].kind = "legacy" THEN Microseconds(n) ELSE Signed(Microseconds(n))

OwnView(n) == ViewOf(file.blocks[n].frame, OwnLinktype(n))

DecodedAt(n, ts) == ParsePacket(OwnView(n), ts, file.blocks[n].origlen)

\* p is the packet of the n-th block: its fields always, its time where the
\* resolution is one the code reads.
IsPacketOf(p, n) ==
  /\ p = DecodedAt(n, p.timestamp)
  /\ ResolutionIsRead(n) => p.timestamp = Stamp(n)

\* The blocks that hold a packet, and the place of each among them.
Packets == {n \in PacketBlocks : OwnView(n) # None}

PacketsUpTo(n) == {m \in Packets : m <= n}

Rank(n) == Cardinality(PacketsUpTo(n))

-----------------------------------------------------------------------------
\* A capture is converted only when every byte of the file was consumed as a
\* whole block: a file that ends inside a block, holds a malformed block or a
\* block that does not fit in the buffer never yields a (partial) output,
\* however the reads are chunked (pcap.rs:125-133).
ConvertedMeansWholeFile ==
  pc = "converted" =>
    /\ used = file.length
    /\ \A n \in 1 .. pos : file.blocks[n].kind # "malformed" /\ file.blocks[n].size <= Capacity

\* In a plain capture the packets ingested are exactly those of the blocks
\* consumed so far, once each, in file order, each under its own interface; and
\* where the file's resolution is one the code reads, at its time in microseconds
\* (pcap.rs:94-123).  Of the other resolutions it says nothing: see
\* TimestampsAreMicroseconds.
PacketsAreDecoded ==
  Plain => Len(trace) = Rank(pos) /\ \A n \in PacketsUpTo(pos) : IsPacketOf(trace[Rank(n)], n)

\* The inductive invariants behind these: what has been read is what the pc says
\* of the end of the file, no block is consumed that was not in the buffer as a
\* whole, well formed; and the link type and the resolution are those of the
\* declarations consumed.
Declared ==
  /\ pos >= 1 /\ file.blocks[1].kind = "legacy_header" =>
       legacy_nanos = (file.blocks[1].magic = "nsec")
  /\ Plain => \A n \in Declarations : n <= pos => linktype = LinktypeOf(file.blocks[n])

IInv ==
  /\ file \in Captures /\ TypeOK
  /\ pc = "open" => got = 0
  /\ exhausted => got = file.length
  /\ pc \in {"drain", "converted"} => exhausted /\ got = used
  /\ \A n \in 1 .. pos : file.blocks[n].kind # "malformed" /\ file.blocks[n].size <= Capacity

\* And what the table has seen.
Seen == trace \in Seq(CapturedPackets) /\ Declared /\ PacketsAreDecoded

\* The loop comes to an end on every file: each turn consumes a block, refills
\* the buffer, or stops.
Terminates == <>(pc \in {"converted", "failed"})

\* Whatever the blocks and the reads are, the loop drives the flow table as
\* module FlowTable describes it: the table sees parsed packets and the end of
\* the capture, one at a time, and nothing else of the loop touches it, so
\* that all that holds of the flow table holds of a conversion.
ImplementsFlowTable == Table!Spec

-----------------------------------------------------------------------------
(* What the documentation says and the code does not do *)

\* "timestamp: i64, // epoch microseconds" (pcap.rs:57): the time a packet is
\* ingested with is its time in microseconds.  The magic number of a nanosecond
\* capture written in the other byte order is not the one pcap.rs:97 compares with.
TimestampsAreMicroseconds ==
  Plain => \A n \in PacketsUpTo(pos) : trace[Rank(n)].timestamp = Microseconds(n)

=============================================================================
