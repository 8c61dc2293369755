---------------------------- MODULE NfdumpReader ---------------------------
(***************************************************************************)
(* The nfdump/nfcapd reader (src/nfdump) and the loop that drives it       *)
(* (nfcapd_to_parquet): file header, data blocks, decompression, records,  *)
(* and the flows collected for the writer.                                 *)
(*                                                                         *)
(* A file is its header's claims and the blocks that really follow it,     *)
(* with its first `data_blocks` blocks holding data and the rest the       *)
(* appendix; `length` is how much of it exists.  Lengths count units: a    *)
(* block header is one, and so is the header of a record in a block.  What *)
(* blocks and records claim of themselves is kept apart from what they     *)
(* hold, except that a block's compressed size, when it is within the cap, *)
(* and a record's size, when it is within the block, are true: bytes read  *)
(* off their frame are out of the model.                                   *)
(***************************************************************************)
EXTENDS Integers, SequencesExt

CONSTANTS
  Files,           \* the files that may be opened
  V1Start,         \* units before V1's first block: header and stat record
  HeaderLength,    \* units of the file header
  MaxCompressed,   \* MAX_BLOCK_COMPRESSED
  MaxDecompressed, \* MAX_DECOMPRESSED
  DefaultLz4,      \* DEFAULT_LZ4_BUF
  MinLz4,          \* MIN_LZ4_BUF
  Word,            \* 2^64
  Thousand,        \* milliseconds in a second, microseconds in a millisecond
  None             \* no hint, no extension, a record that does not parse

\* A block within its cap fits the decompressed one, and so does the smallest
\* LZ4 buffer; V1's stat record lies behind the header.
ASSUME BoundsAssumption ==
  /\ {V1Start, HeaderLength, MaxCompressed, MaxDecompressed, DefaultLz4, MinLz4} \subseteq Nat
  /\ MaxCompressed <= MaxDecompressed /\ MinLz4 <= MaxDecompressed
  /\ HeaderLength <= V1Start
  /\ Word \in Nat /\ Word % 2 = 0 /\ 0 < Word /\ Thousand \in Nat \ {0}

V1 == 1
V2 == 2

\* V2 names its codec; V1 has it in the bits 0x19 of its flags, given here as the
\* set of those that are on, and any other combination reads as uncompressed.
CodecOf(f) ==
  IF f.version # V1 THEN f.codec
  ELSE CASE f.flags = {1}  -> "lzo"
         [] f.flags = {8}  -> "bz2"
         [] f.flags = {16} -> "lz4"
         [] OTHER          -> "plain"

\* Counts and sizes are read as unsigned numbers; the bytes of an uncompressed
\* block are its plain bytes.
ASSUME FilesAssumption ==
  \A f \in Files :
    /\ f.num_blocks \in Nat /\ f.block_size \in Nat /\ f.data_blocks \in 0 .. Len(f.blocks)
    /\ f.off_appendix \in Nat /\ f.length \in Nat
    /\ f.blocks \in Seq(ToSet(f.blocks))
    /\ \A b \in ToSet(f.blocks) :
         /\ b.size \in Nat /\ b.plain \in Nat /\ b.num_records \in Nat
         /\ CodecOf(f) = "plain" => b.plain = b.size
         /\ b.records \in Seq(ToSet(b.records))
         /\ \A r \in ToSet(b.records) : r.size \in Nat

VARIABLES
  file,
  at,               \* blocks read; the stream position is Position(at)
  remaining_blocks,
  block,            \* records and length of the current decompressed block
  block_pos,        \* read cursor in the block, in units
  taken,            \* records taken from the block
  records_left,
  flows,            \* flows pushed by the driver
  pc                \* "open", "read", "converted", "failed"

vars == <<file, at, remaining_blocks, block, block_pos, taken, records_left, flows, pc>>

Codec == CodecOf(file)

-----------------------------------------------------------------------------
(* Layout *)

\* Where the data starts, and how far n blocks reach from there.
DataStart(version) == IF version = V1 THEN V1Start ELSE HeaderLength

Extent(blocks, n) ==
  SumFunctionOnSet([i \in DOMAIN blocks |-> 1 + blocks[i].size], 1 .. n)

Position(n) == DataStart(file.version) + Extent(file.blocks, n)

\* V1 has neither an appendix offset nor a size hint.
Hint == IF file.version = V1 THEN None ELSE file.block_size

\* After n blocks the reader is where the header says the appendix starts, or
\* behind that.
InAppendix(n) == file.version = V2 /\ Position(n) >= file.off_appendix

AppendixReached == InAppendix(at)

\* read_exact: n units are there.
Present(n) == Position(at) + n <= file.length

-----------------------------------------------------------------------------
(* Decompression *)

Clamp(n, low, high) == IF n < low THEN low ELSE IF n > high THEN high ELSE n

Lz4Buffer(hint) == Clamp(IF hint = None THEN DefaultLz4 ELSE hint, MinLz4, MaxDecompressed)

\* What the codec writes before its output is looked at: LZO all of it, the
\* streaming decoders up to one unit more than the cap, LZ4 into a buffer.
Produced(codec, b, hint) ==
  CASE codec = "plain" -> b.size
    [] codec = "lzo" -> b.plain
    [] codec \in {"bz2", "zstd"} -> Clamp(b.plain, 0, MaxDecompressed + 1)
    [] codec = "lz4" -> Lz4Buffer(hint)
    [] OTHER -> 0

\* Mutant: the cap on the output of the streaming decoders is forgotten.
DecompressesUncapped(codec, b, hint) ==
  CASE codec = "plain" -> TRUE
    [] codec \in {"lzo", "bz2", "zstd"} -> b.decodes
    [] codec = "lz4" -> b.decodes /\ b.plain <= Lz4Buffer(hint)
    [] OTHER -> FALSE

\* The codec yields the block's plain bytes, all of them, within the bounds.
Decompresses(codec, b, hint) ==
  CASE codec = "plain" -> TRUE
    [] codec \in {"lzo", "bz2", "zstd"} ->
         b.decodes /\ Produced(codec, b, hint) <= MaxDecompressed
    [] codec = "lz4" -> b.decodes /\ b.plain <= Lz4Buffer(hint)
    [] OTHER -> FALSE

-----------------------------------------------------------------------------
(* Records *)

\* The last of the extensions with this id, as each overwrites the one before.
LastOf(extensions, id) ==
  LET places == {i \in DOMAIN extensions : extensions[i].id = id}
  IN IF places = {} THEN None ELSE extensions[Max(places)].value

\* parse_v3_record: the elements counted in the header, each within the
\* record; others may follow.  IPv4 endpoints are preferred to IPv6.
ParseV3(body) ==
  LET read == SubSeq(body.extensions, 1, body.num_elements)
      generic == LastOf(read, "generic")
      ends == IF LastOf(read, "ipv4") # None THEN LastOf(read, "ipv4") ELSE LastOf(read, "ipv6")
  IN IF \/ body.num_elements > Len(body.extensions)
        \/ \E i \in DOMAIN read : ~read[i].fits
        \/ generic = None \/ ends = None
     THEN None
     ELSE [first_ms |-> generic.first, last_ms |-> generic.last, bytes |-> generic.bytes,
           ends |-> ends, bwd |-> LastOf(read, "cnt")]

\* parse_v1_record: fixed fields, times in two parts, no counters of the answers.
ParseV1(body) ==
  IF body.short THEN None
  ELSE [first_ms |-> body.first * Thousand + body.msec_first,
        last_ms |-> body.last * Thousand + body.msec_last,
        bytes |-> body.bytes, ends |-> body.ends, bwd |-> None]

FlowTypes == {"common", "v3"}

ParseRecord(record) ==
  IF record.rtype = "common" THEN ParseV1(record.body) ELSE ParseV3(record.body)

\* Times and counters are read as unsigned numbers.
ASSUME NumbersAssumption ==
  \A f \in Files : \A b \in ToSet(f.blocks) : \A r \in ToSet(b.records) :
    LET parsed == ParseRecord(r)
    IN r.rtype \in FlowTypes /\ parsed # None =>
         /\ parsed.first_ms \in Nat /\ parsed.last_ms \in Nat /\ parsed.bytes \in Nat
         /\ parsed.bwd # None => parsed.bwd \in Nat

\* `as i64`, and what is left of a result that does not fit.
AsSigned(n) == IF n % Word >= Word \div 2 THEN (n % Word) - Word ELSE n % Word

\* Mutant: the duration is the difference of the unsigned times.
ToCanonicalUnsigned(f) ==
  [timestamp |-> AsSigned(AsSigned(f.first_ms) * Thousand),
   flow_dur |-> (f.last_ms - f.first_ms) % Word,
   ends |-> f.ends, fwd_bytes |-> AsSigned(f.bytes),
   bwd_bytes |-> IF f.bwd = None THEN 0 ELSE AsSigned(f.bwd)]

\* Microseconds, and a duration in milliseconds.
ToCanonical(f) ==
  [timestamp |-> AsSigned(AsSigned(f.first_ms) * Thousand),
   flow_dur |-> Max({0, AsSigned(AsSigned(f.last_ms) - AsSigned(f.first_ms))}),
   ends |-> f.ends, fwd_bytes |-> AsSigned(f.bytes),
   bwd_bytes |-> IF f.bwd = None THEN 0 ELSE AsSigned(f.bwd)]

-----------------------------------------------------------------------------
(* Steps of next_flow and its caller *)

Fail ==
  /\ pc' = "failed"
  /\ UNCHANGED <<file, at, remaining_blocks, block, block_pos, taken, records_left, flows>>

\* NfdumpFlowReader::new: the header must be there, V1's stat record need not.
Open ==
  /\ pc = "open"
  /\ IF file.length < HeaderLength \/ file.version \notin {V1, V2}
     THEN Fail
     ELSE /\ pc' = "read"
          /\ remaining_blocks' = file.num_blocks
          /\ UNCHANGED <<file, at, block, block_pos, taken, records_left, flows>>

NeedsBlock == pc = "read" /\ records_left = 0

\* Mutant: a block that is cut off ends the file like its last one.
CleanEndOrCut == \/ remaining_blocks = 0
                 \/ AppendixReached
                 \/ at < Len(file.blocks) /\ ~Present(1 + file.blocks[at + 1].size)

\* load_next_block says the data region is exhausted.
CleanEnd == remaining_blocks = 0 \/ AppendixReached

\* Ok(None) reaches the driver: a file without flows is an error.
EndOfFile ==
  /\ NeedsBlock /\ CleanEnd
  /\ IF flows # <<>>
     THEN /\ pc' = "converted"
          /\ UNCHANGED <<file, at, remaining_blocks, block, block_pos, taken,
                         records_left, flows>>
     ELSE Fail

\* The next block is there in full and within the cap.
Readable ==
  /\ at < Len(file.blocks)
  /\ LET b == file.blocks[at + 1]
     IN Present(1) /\ b.size <= MaxCompressed /\ Present(1 + b.size)

Loadable == Readable /\ Decompresses(Codec, file.blocks[at + 1], Hint)

LoadBlock ==
  /\ NeedsBlock /\ ~CleanEnd /\ Loadable
  /\ LET b == file.blocks[at + 1]
     IN /\ block' = [records |-> b.records,
                     length |-> IF Codec = "plain" THEN b.size ELSE b.plain]
        /\ records_left' = b.num_records
  /\ at' = at + 1
  /\ block_pos' = 0 /\ taken' = 0
  /\ remaining_blocks' = remaining_blocks - 1
  /\ UNCHANGED <<file, flows, pc>>

LoadFails == NeedsBlock /\ ~CleanEnd /\ ~Loadable /\ Fail

Available == block.length - block_pos

\* What lies at the cursor; past the last record there are only loose bytes.
AtRecord == taken < Len(block.records)
Record == block.records[taken + 1]

\* Mutant: a record that fills its block is refused.
FitsStrictly == AtRecord /\ Available >= 1 /\ Record.size >= 1 /\ Record.size < Available

\* read_block_record's three checks.
Fits == AtRecord /\ Available >= 1 /\ Record.size >= 1 /\ Record.size <= Available

IsFlow == Record.rtype \in FlowTypes

Parses == ParseRecord(Record) # None

Advance ==
  /\ block_pos' = block_pos + Record.size
  /\ taken' = taken + 1
  /\ records_left' = records_left - 1
  /\ UNCHANGED <<file, at, remaining_blocks, block, pc>>

NeedsRecord == pc = "read" /\ records_left > 0

\* Mutant: a flow record that does not parse is skipped like a non-flow record.
SkipUnparsed ==
  /\ NeedsRecord /\ Fits /\ ~(IsFlow /\ Parses)
  /\ Advance
  /\ UNCHANGED flows

SkipRecord ==
  /\ NeedsRecord /\ Fits /\ ~IsFlow
  /\ Advance
  /\ UNCHANGED flows

ReadFlow ==
  /\ NeedsRecord /\ Fits /\ IsFlow /\ Parses
  /\ flows' = Append(flows, ToCanonical(ParseRecord(Record)))
  /\ Advance

\* A bad size, a record that does not parse, or more records promised than
\* there are: the driver gives up.
ReadFails == NeedsRecord /\ ~(Fits /\ (IsFlow => Parses)) /\ Fail

-----------------------------------------------------------------------------
Init ==
  /\ file \in Files
  /\ at = 0 /\ remaining_blocks = 0
  /\ block = [records |-> <<>>, length |-> 0]
  /\ block_pos = 0 /\ taken = 0 /\ records_left = 0
  /\ flows = <<>>
  /\ pc = "open"

Next == Open \/ EndOfFile \/ LoadBlock \/ LoadFails \/ SkipRecord \/ ReadFlow \/ ReadFails

Spec == Init /\ [][Next]_vars

=============================================================================
