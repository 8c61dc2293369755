------------------------- MODULE NfdumpReaderProps -------------------------
(***************************************************************************)
(* The robustness contract of the nfdump reader (nfdump/mod.rs:17-22) and  *)
(* of its driver (nfcapd.rs:12-14), over the truth of the file.            *)
(***************************************************************************)
EXTENDS NfdumpReader

\* The flow records of the data blocks, by block and place in it, in file order.
Places ==
  UNION {{n} \X {k \in DOMAIN file.blocks[n].records : file.blocks[n].records[k].rtype \in FlowTypes} :
         n \in 1 .. file.data_blocks}

NotAfter(p, q) == p[1] < q[1] \/ (p[1] = q[1] /\ p[2] <= q[2])

UpTo(q) == {p \in Places : NotAfter(p, q)}

\* Which flow of the file the one at a place is.
Rank(q) == Cardinality(UpTo(q))

Parsed(p) == ParseRecord(file.blocks[p[1]].records[p[2]])

\* The counts in the headers are those of the file, and no data block starts
\* where the appendix is said to be, or behind that.
HonestHeaders ==
  /\ file.num_blocks = file.data_blocks
  /\ \A n \in 0 .. file.data_blocks - 1 : ~InAppendix(n)
  /\ \A n \in 1 .. file.data_blocks : file.blocks[n].num_records = Len(file.blocks[n].records)

\* What the first n records of a block take up.
SizeOf(records, n) ==
  SumFunctionOnSet([i \in DOMAIN records |-> records[i].size], 1 .. n)

\* Nothing is missing or damaged, and there is a flow to convert.
Intact ==
  /\ file.version \in {V1, V2} /\ Codec \in {"plain", "lzo", "bz2", "zstd", "lz4"}
  /\ HonestHeaders
  /\ file.length >= Position(file.data_blocks)
  /\ \A n \in 1 .. file.data_blocks :
       LET b == file.blocks[n]
       IN /\ b.decodes /\ b.size <= MaxCompressed /\ b.plain <= MaxDecompressed
          /\ SizeOf(b.records, Len(b.records)) = b.plain
          /\ \A i \in DOMAIN b.records : b.records[i].size >= 1
  /\ Places # {} /\ \A p \in Places : Parsed(p) # None

-----------------------------------------------------------------------------
\* The cursor stays within the decompressed block, whatever sizes the records
\* claim, and no block is held that exceeds the decompression cap.
TypeOK ==
  /\ at \in 0 .. Len(file.blocks)
  /\ remaining_blocks \in 0 .. file.num_blocks /\ records_left \in Nat
  /\ block.length \in 0 .. MaxDecompressed
  /\ block_pos \in 0 .. block.length
  /\ pc \in {"open", "read", "converted", "failed"}

\* No flow is repeated, reordered or passed over: at any time the flows pushed
\* are those of the first flow records, one for one, and all of these parsed,
\* when the headers are honest.
FlowsAreAPrefix ==
  HonestHeaders =>
    /\ Len(flows) <= Cardinality(Places)
    /\ \A p \in Places : Rank(p) <= Len(flows) =>
         Parsed(p) # None /\ flows[Rank(p)] = ToCanonical(Parsed(p))

\* A truncated or damaged file never yields a partial or an empty output: when
\* its headers are honest, a file that converts has a flow, gave all its flows,
\* and all of them parsed, wherever it was cut and whatever record was damaged.
ConvertedMeansComplete ==
  pc = "converted" /\ HonestHeaders =>
    /\ Places # {}
    /\ Len(flows) = Cardinality(Places)
    /\ \A p \in Places : Parsed(p) # None /\ flows[Rank(p)] = ToCanonical(Parsed(p))

\* No flow lasts less than nothing, whatever 64-bit times its record holds;
\* and when they are times whose microseconds fit in 63 bits, the flow starts
\* at its own and ends when it was last seen, or where it starts when that was
\* before; its counters are the record's, each that fits in 63 bits, and the
\* bytes of answers are 0 for a record that counts none (nfcapd.rs:56-72).
UnitsAreRight ==
  /\ \A i \in DOMAIN flows : flows[i].flow_dur >= 0
  /\ HonestHeaders =>
       \A p \in Places : Rank(p) <= Len(flows) =>
         LET f == Parsed(p)
             flow == flows[Rank(p)]
         IN /\ f.first_ms * Thousand < Word \div 2 /\ f.last_ms * Thousand < Word \div 2 =>
                 /\ flow.timestamp = f.first_ms * Thousand
                 /\ flow.flow_dur = IF f.last_ms >= f.first_ms THEN f.last_ms - f.first_ms ELSE 0
            /\ f.bytes < Word \div 2 => flow.fwd_bytes = f.bytes
            /\ f.bwd = None => flow.bwd_bytes = 0
            /\ f.bwd # None /\ f.bwd < Word \div 2 => flow.bwd_bytes = f.bwd

\* The inductive invariant behind these: the cursor only moves by sizes, and
\* only over records of the block, which is the last one loaded; and with
\* honest headers the counters say how much of the data is left, so that the
\* flows are those up to the cursor.
Cursor == <<at, taken>>

CountersAreExact ==
  /\ at <= file.data_blocks
  /\ pc \in {"read", "converted"} => remaining_blocks = file.data_blocks - at
  /\ records_left = Len(block.records) - taken

FlowsAreThoseRead ==
  /\ Len(flows) = Rank(Cursor)
  /\ \A p \in UpTo(Cursor) : Parsed(p) # None /\ flows[Rank(p)] = ToCanonical(Parsed(p))

CanonicalFlows ==
  LET records == UNION {ToSet(b.records) : b \in ToSet(file.blocks)}
  IN {ToCanonical(ParseRecord(r)) :
        r \in {q \in records : q.rtype \in FlowTypes /\ ParseRecord(q) # None}}

OutputIsNotEmpty == pc = "converted" => flows # <<>>

IInv ==
  /\ file \in Files /\ TypeOK
  /\ taken \in 0 .. Len(block.records)
  /\ block.records = IF at = 0 THEN <<>> ELSE file.blocks[at].records
  /\ pc = "open" => at = 0
  /\ flows \in Seq(CanonicalFlows)
  /\ OutputIsNotEmpty
  /\ HonestHeaders => CountersAreExact /\ FlowsAreThoseRead
  /\ HonestHeaders /\ pc = "converted" => at = file.data_blocks /\ taken = Len(block.records)

\* Intact, and within the bounds of the LZ4 buffer.
Convertible ==
  Intact /\ (Codec = "lz4" =>
               \A n \in 1 .. file.data_blocks : file.blocks[n].plain <= Lz4Buffer(Hint))

\* A sound file is never refused, for any codec, blocks that fill the caps and
\* records that fill their block included, when the LZ4 buffer is big enough.
SoundFilesConvert == Convertible => pc # "failed"

\* What keeps a sound file on course: the block held has all the bytes of the
\* file's, and the cursor stands behind the records taken.
CursorIsExact ==
  /\ block.length = IF at = 0 THEN 0 ELSE file.blocks[at].plain
  /\ block_pos = SizeOf(block.records, taken)

SoundInv == CursorIsExact /\ SoundFilesConvert

-----------------------------------------------------------------------------
(* What the documentation says and the code does not do *)

\* "Ok(None) only on a clean, complete read; a corrupt file can never
\* masquerade as a partial success": the reader does not stop before the
\* blocks the header promises.
ConvertedMeansPromisedBlocks == pc = "converted" => remaining_blocks = 0

\* "It is only an allocation hint, never trusted as an exact length": a sound
\* file converts whatever block_size its header carries.
HintIsOnlyAHint == Intact => pc # "failed"

=============================================================================
