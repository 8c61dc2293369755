# A TLA+ model of flowprep

flowprep converts network telemetry (packet captures, OCSF events, nfdump
files, flow tables of many vendors) into one canonical parquet table of flows.
It is a sequential command-line program of about 3,200 lines of Rust, tests
included: one thread, no shared state, one conversion per process. What is hard
about it is not concurrency. It is that the input comes from elsewhere, in any
order, cut off anywhere and contradicting itself, and that the documentation
makes one promise over and over: *partial or empty output never looks like
success*. These modules say what that promise means for each reader, and check
and prove it.

Line numbers in the comments and below are those of `src/src/*.rs`.

## 1. Inventory

| component | state | operations | talks to |
|---|---|---|---|
| command line (`main.rs`) | the parsed command, the exit code | dispatch to one of five subcommands, build the timeouts, print the count or the error | every reader, one call each |
| flow aggregation (`pcap.rs` 56-80, 216-277) | `active`: map from key to open flow; `flows`: closed records | `make_flow_key`, `ingest_packet`; the drain and the sort at the end | called per packet by the capture loop |
| capture reader loop (`pcap.rs` 82-214) | the reader's buffer, `linktype`, `legacy_nanos` | open, next block, refill, consume, `parse_packet`, the end of the file | pcap_parser and etherparse (external), the flow aggregation, the writer |
| nfdump container (`nfdump/mod.rs`, `decompress.rs`, `error.rs`) | `remaining_blocks`, the current block, the cursor in it, `records_left` | open V1/V2, load a block, decompress it, take, skip or parse a record | the codecs (external); driven by nfcapd |
| nfcapd driver (`nfcapd.rs`) | the flows collected | loop over `next_flow`, convert units, refuse an empty result | the container, the writer |
| OCSF reader (`ocsf.rs`) | events, flows, a summary | three readings of the text, classify, convert or refuse | serde (external), the writer |
| canonicalize (`canonicalize.rs`) | none between steps: a table in, a table out | sniff the format, read a Zeek preamble, resolve columns, convert timestamps, ports, counters, durations, protocols and labels | arrow (external), the schema, the writer |
| canonical schema (`schema.rs`, `schema.json`) | none | normalize names, resolve columns, protocol numbers, assemble a batch | canonicalize; every other reader for its batch |
| writer (`writer.rs`) | the output file | create (truncates), write, close | every converter, as its last call |

All readers keep every flow in memory and call the writer once, after the last
byte of the input was accepted. That is the design that makes "all or nothing"
possible, and its price is memory that grows with the flows of the file.

### What is hard, and what makes each part correct

* **Order.** Packets arrive out of order, and a flow's gap and age may be
  negative. Records of one conversation must not overlap, must not outlive the
  active timeout, must split only when a timeout says so, and must count every
  packet once. The hash map is drained in a random order that must not show.
* **Truncation and damage.** A capture or an nfdump file ends inside a block, a
  record lies about its size, one event of many is broken: there must be no
  output, while every sound file must still convert.
* **Claims that contradict each other.** An nfdump file says three times where
  its data ends: a block count, an appendix offset and its length.
* **Decisions about a whole column.** One value settles how all slash dates of
  a column are read, and the largest one settles the unit of all numbers.
* **Boundaries.** Gaps of exactly a timeout, records that fill their block,
  blocks that fill a cap, timestamps of 64 bits in two halves, timeouts
  that are checked in one unit and used in another, and floats that are no
  number or too large for an integer.
* **Units.** A capture says in its magic number, in one of four forms, whether
  it counts microseconds or nanoseconds, and in which byte order.
* **Failure and retry.** The writer truncates first. A write that fails, a
  kill, a conversion in place, and the next command on what is left.

`PROJECT.json` lists these as hazards, each at its line, with the properties
that cover it or the reason why none does.

## 2. Modules

Each component has a module of its state and actions (`X`), a module of its
properties (`XProps`), an instance for TLC (`MCX`) and one of theorems
(`X_proofs`). `FiniteSums` holds what the proofs of several components need:
induction, and facts about sums over finite sets.

| module | code | state and actions |
|---|---|---|
| `FlowTable` | `make_flow_key`, `ingest_packet`, the drain and the sort | `active` and `flows` as in the code; `Ingest(p)` is one call of `ingest_packet`, `Finish` the drain for every order the map may yield, with the stable sort after it. `trace` is a history. |
| `PcapCapture` | `pcap_to_parquet`, `parse_packet` | one action per arm of the loop's `match`; `INSTANCE FlowTable` for the flow table, so that a packet block is parsed and ingested in one step. `got`, `used` and `exhausted` are the buffer of pcap_parser, external. The loop is shown to implement `FlowTable`, with the packets any capture can give rise to for `Packets`. |
| `NfdumpReader` | `nfdump/*`, the loop and `to_canonical` of `nfcapd.rs` | the reader's fields under their own names; one action for each way `next_flow` can go on: `LoadBlock`, `SkipRecord`, `ReadFlow`, `EndOfFile` and the two failures. `ReadFlow` converts the record's unsigned 64-bit times and counters as the casts of the code do. |
| `Ocsf` | `parse_events`, the loop of `ocsf_to_parquet`, `to_canonical` | `Parse`, then one action per way an event can go. |
| `Epochs` | the last arm of `timestamp_to_micros` (585-602) | operators only: the unit guessed from the largest number of a column and what a number becomes. Used by the next two. |
| `Timestamps` | `timestamp_to_micros` and its helpers (`canonicalize.rs` 420-604) | the two loops over the column, one value at a time; the decision; the rewriting; the null check of the batch. |
| `Canonicalize` | the rest of `canonicalize.rs`: sniffing, the Zeek preamble and its types, trimming; `resolve_columns` and the divisors of `schema.rs` | a file goes from `probe` (read in one of three formats, or refused) to `resolve` (columns found and converted, or one is missing) to `build` (the batch takes no nulls, or does) to `converted`. `Again` gives the output to canonicalize once more. |
| `Conversion` | `main.rs`, `writer.rs`, `FlowTimeouts::from_secs` | commands one after another on one disk; `Create`, `Write` and `Close` are separate, and between any two calls one may fail or the process be killed. A whole reader is one step, `Read`, which is what the modules above justify. |

### How data is abstracted

* An IP address is its rank among the texts of the addresses: the code compares
  texts. A frame is what the packet slicer would return for it.
* The header of a legacy capture has one of four magic numbers: micro- or
  nanoseconds, in the reader's byte order or the other. A pcapng interface has the
  ticks per second of its `if_tsresol`, which no step reads: the properties know
  them, the code does not. Link types are cut to 16 bits.
* A V1 nfdump file has the set of those bits of its flags that its codec is
  read from; a V2 file names the codec. What a decoder has written when its output
  is measured (`Produced`) is kept apart from whether the block is accepted.
* Lengths of files, blocks and records count units (a header is one unit). A
  size that is claimed is kept apart from what is there.
* Decompression is whether the codec accepts the bytes and how long the result
  is. A JSON text is its layout and its items, each an event or broken.
* A date is three numbers and a shape. A float is an integer, NaN or an infinity,
  so that rounding is left out; a cast to an integer saturates at 64 bits and makes
  NaN a 0 (`Epochs!ToInt64`), which the runs reach by scaling 2^63 down.
* In `Canonicalize` a cell is how it is written (`plain`, `decimal`, `magnitude`
  such as `1.2K`, `nan`, `inf`, `-inf`, a protocol name, a mark of Zeek, `date`,
  `slash`, `junk`), the number it stands for and whether it is padded; a column's name is what
  `normalize_name` leaves of it, and its spelling. What arrow infers for a column
  and what its casts do to a cell are external, modelled from how the code uses
  them. Whole numbers are kept to 64 and to 32 bits, above and below. A date is written
  year first or as a slash date, which is found in a padded cell too; which of
  its numbers is the month is the business of `Timestamps`.
* In `NfdumpReader` 2^64 is `Word` and the thousand of the units is `Thousand`;
  the run scales both down.
* In `Conversion` the signed word and the million are constants and are scaled
  down together, so that the wrap of a release build happens on small numbers
  (`Cargo.toml` does not turn overflow checks on in its release profile).

## 3. Runs

Runs marked *violated* state what a comment or the README says of the program
and show that the code does otherwise; the findings in `PROJECT.json` quote
both.

| run | instance | checks |
|---|---|---|
| `flow_table` | up to 4 packets of sizes that differ with their time, three directions over two conversations, times 0 to 5, timeouts 1 and 2 | types; a record's span is bounded; records of a key are disjoint; splits are justified; counters are conserved; with packets in order, records are exactly the bursts; the drain order is irrelevant |
| `flow_start` (*violated*) | the same | no packet is older than its flow: a late packet is counted but does not move the start |
| `pcap_capture` | legacy captures of up to 4 blocks under four magic numbers, a ping, and pcapng captures of up to 5 under three interfaces, cut at every unit, a buffer of 3 units, every way the reads may fall | a capture converts only when read whole; packets carry their own link type, and their own time where the code reads the file's resolution; the loop implements `FlowTable`; the loop ends |
| `swapped_nanos` (*violated*) | one nanosecond capture in the other byte order | timestamps are microseconds (`pcap.rs:57`): the one magic number the code compares with (`pcap.rs:97`) is not that of this file, and its nanoseconds are taken for microseconds |
| `nfdump_reader` | both layouts, five codecs with their hints or flags, one or two blocks, nine kinds of records, cuts at every unit, counts and offsets off by one | the cursor stays in its block and blocks within the cap; flows are a prefix of the truth; what converts is complete and not empty; what is sound converts; no duration is negative, and times and byte counters that fit are converted exactly |
| `appendix` (*violated*) | the same | no clean end while the header still promises blocks |
| `lz4_hint` (*violated*) | the same | `block_size` is only a hint: it sizes the LZ4 buffer and refuses sound files |
| `ocsf` | texts of up to 3 items of thirteen kinds in every layout, times of both units just below the threshold and on it | success means every close event is in the output; intact texts succeed; times are right on their own side of the threshold; the summary counts each event once and under its own kind |
| `timestamps` | columns of up to 3 values: 20 texts and nulls, or numbers of one of four units around every threshold, negative, null, NaN or infinite | one order for all slash dates; no column that some order explains is refused; numbers of the era become the instants they stand for |
| `canonicalize` | tables of two rows as delimited text, Zeek log and parquet, one column at a time with every unordered pair of up to sixteen cells, or with typed ones; columns missing, repeated, respelled or under another alias; preambles that are short, odd or broken, or that declare a column otherwise; each output canonicalized again | counters that 64 bits hold, ports, durations and protocols are what their cells say, whatever stands beside them; labels keep their classes; sound tables convert; a canonical table is a fixed point |
| `not_a_number` (*violated*) | a counter of `nan`, `inf` or `-inf` | no counter is invented (`canonicalize.rs:657-661`): what is no number becomes 0, and infinity the largest integer |
| `conversion` | 3 commands, 2 paths, in place or not, every failure and kill | a readable table is whole; exit code 0 means the whole table and its count; what is lost is replaced |

**Why the bounds are enough.** Four packets are the fewest that let one
conversation close twice, or close once with a late packet before and after,
while another interleaves. Times reach past twice the active timeout, so that gaps
and ages fall below, on and above both timeouts, in either direction. A buffer of three units with blocks of two makes every block straddle a
read at some chunking, and one block never fit. Two data blocks and an appendix
let each of the three ends of data come first, second or last; a bomb is one
record more than the cap. Three values of a column are enough for evidence
before, between and after ambiguous dates. Two rows are enough for a cell to
change the type of its column and with it the reading of another; fields are
converted one by one, so one column at a time is varied. The `canonicalize` run has no
negative times, whose microseconds TLC's integers do not reach. With a `Word` of
1024 and a `Thousand` of 10, times and counters lie below half the word,
between the halves and past the point where their product wraps. Three commands let a failed one
stand between two others on the same path. All bounds are named constants of
the models or of the `MC` modules; only `MaxPackets` (which
`PcapCapture` sets to its `MaxBlocks`) and `MaxRuns` appear in guards.

**Fairness.** Only `PcapCapture` has a liveness property. It assumes
`WF_vars(Next)`: one thread runs the loop, nothing else is scheduled, and a read
returns. Every other model is a loop over a finite input whose safety is the
question. `CHECK_DEADLOCK` is off because every conversion ends.

Each property has a mutant: a plausible bug in the code, written beside the
definition it would be in, under which the same run finds the property violated.

## 4. Proofs

TLC checks the small instances above. The theorems hold for every value of the
constants under the named assumptions of the modules.

**`FlowTable_proofs`**, from `PacketAssumption` (packets are well typed) and
`TimeoutAssumption` (positive timeouts, the inactive one at most the active):

* `KeyIsBidirectional`: a packet and its answer share a key, and exactly one of
  them is forward unless both endpoints coincide.
* `InductiveInvariant`, and from it `TypeCorrect`, `SpansAreBounded`,
  `OnlyTimeoutsSplit` and `RecordsAreDisjoint`. Disjointness is not inductive alone.
  That a packet which closes a record lies after all of it needs the span bound: where the gap
  is not over the inactive timeout, the age is over the active one, and no record
  is longer than that. That no flow opens behind a closed one needs
  `ClosedKeysHaveOpenFlows`. The sort permutes the records of a key but their
  times are distinct, so the order the invariant speaks of survives it.
* `NoPacketIsLost` and `RecordsAreBursts`, from a second inductive invariant,
  `HistoryInvariant`, which relates the table to the packets it was given. Sums
  are over the set of a key's records and the set of its packets, so that a step
  changes each by one term; the sort of `Finish` moves records and changes no
  sum. `CountersConserved` needs `KeysAreTraced`: a key met for the first time
  has no packet behind it. The bursts need `OpenFlowsReachTheirPackets`: without
  it, a packet in time order might open a record in the middle of earlier ones.
* `DrainOrderNeverShows`: sort keys are distinct, because records of one key
  are disjoint, and a sort by distinct keys does not see the order it began
  with.

**`Conversion_proofs`**, from `WordAssumption` and `NoneAssumption`:

* `TimeoutsThatFit`: `from_secs` gives what `TimeoutAssumption` demands if the
  active timeout in microseconds fits in an `i64`; the run `timeouts` shows that
  the condition is needed. This is what connects the two modules.
* `InductiveInvariant`, `SuccessIsWhole`, `TablesAreWhole`, `LossesAreCovered`:
  for any number of commands, failures and kills. The invariant says that from
  the reader's answer to the report the table in memory is what the input meant
  when the command started, which stays true in place, after the input was
  truncated.

**`Timestamps_proofs`**, from `ThresholdAssumption`, `SpecialAssumption` (NaN, the
infinities and null are no integers and differ), `NullAssumption` and `ColumnsAssumption`:

* `InductiveInvariant`: the flags are the evidence in the rows looked at, and
  `max` is their largest number.
* `SoundColumnsConvert`, `ReadInOneOrder`: the order decided refuses no column
  that some order explains, and reads every date of a column that converts.
* `EpochsAreConverted`: the three thresholds tell the four units apart for every
  column whose largest instant lies in the era they span, 10^14 to 10^17
  microseconds, which is 1973 to 5138. The other values may be anything; a
  column whose largest value lies outside is off by powers of a thousand.

**`PcapCapture_proofs`**, from `CaptureAssumption` (captures are well-formed
sequences of at most `MaxBlocks` blocks) and `CaptureTimeouts`:

* `TypeCorrect`, `WholeFilesOnly`: the invariant says that no block is consumed
  that was not in the buffer as a whole, and that the loop leaves for the drain
  only with the file exhausted and the buffer empty.
* `DecodedInOrder`: packets that name earlier interfaces, all of one link type, reach the
  flow table once each, in file order, under their own link type; and at their own time
  where the code reads the file's resolution, which is the hypothesis
  `ResolutionIsRead`: microseconds, or nanoseconds of a legacy capture in the
  reader's byte order. The time is stated independently of the code, from
  seconds and fractions or from ticks. Without the hypothesis it is false, as the run
  `swapped_nanos` shows. The invariant `Seen` says that the loop's one link type and one
  resolution are those of the declarations consumed, and ranks the packets.
* `DrivesTheFlowTable`: the refinement, one step per action. All but `PacketBlock`
  and `Convert` leave the table alone, and what a packet block is parsed into is
  in `CapturedPackets`.
* `ConversionsKeepTheTablesPromises`: along it the theorems of `FlowTable_proofs`
  hold of every conversion (`OneTable` says that the two instances are one), the
  conservation of the counters and the bursts among them.

**`NfdumpReader_proofs`**, from `BoundsAssumption`, `FilesAssumption` and
`NumbersAssumption` (times and counters are unsigned):

* `TypeCorrect`, `PrefixAlways`, `NoPartialOutput` (what converts is complete and not
  empty). A flow's
  place is its block and its record, and places are ranked in file order; the
  invariant says that the flows are those of the places up to the cursor, each
  at its rank, and that the counters of the reader say how much is left. Honest
  headers are what connects the counters with the file: without them
  `NoPartialOutput` is false, as the run `appendix` shows.
* `SoundFilesAlwaysConvert`: no sound file is refused, whatever its layout and codec.
  The invariant `SoundInv` adds `CursorIsExact`: the block held
  has the bytes the file says, and the cursor stands behind the records taken, as a
  sum of their sizes. So the place of every block and record is a sum over those
  before it, and each check of the reader is a comparison of two sums. The
  assumptions say that V1's stat record lies behind the header, and that the bytes
  of an uncompressed block are its plain bytes.
* `DurationsAreNeverNegative`, `UnitsAlwaysRight`: what the casts and products of
  `to_canonical` make of any 64-bit times, of those that fit, and of the byte
  counters that fit, in every flow collected (lemmas `TimesOfAFlow` and `CountersOfAFlow`).

**`Ocsf_proofs`**, from `TextAssumption` and `InstantAssumption`:
`NothingIsLost`, `IntactTextsAlwaysConvert`, `SummariesAddUp` and
`EitherUnitIsRight`, for texts of any length in the three layouts. The invariant
ranks the close events: the flows are those of the close events up to the i-th,
and all of these were complete. The counters of the summary are those of the kinds of the
first i events, and i is the number of all of them at the end.

**`Canonicalize_proofs`**, from `SchemaAssumption` (a field is the first of its
own aliases, its duration is in seconds then, no label is called like a field,
and the protocol numbers looked up are 32 bits wide), `NullAssumption`,
`FilesAssumption` (columns of one length, texts except in parquet),
`ThresholdAssumption` and `SpecialAssumption`. The aliases, the units, the labels, their number and
their repetitions are arbitrary.

* `ConversionInvariant`: each stage is a function of the file (`IInv`). The file
  is the only thing `Next` may choose, so the properties are about `TableOf(file)`
  and `Canonical(table)`, and the rest is lemmas about these two.
* The reading of a cell. `TableOfFile` says what type and value a cell gets in
  each format; `WaysOfReading` turns it around: every cell is null, typed, a date,
  a mark, or a text that is kept, inferred or declared to be a number, and each of
  these eight cases says what is known of cell, type and value. `CountersRead`,
  `PortsRead`, `DurationsRead` and `ProtocolsRead` each go through them once.
  `CountersRead` is about the cells that stand for a number of 64 bits and those that
  say nothing; for the others the code invents a number, as the run `not_a_number` shows.
* `CanonicalLayout`: by induction over the list of labels, the canonical table is
  the eleven columns followed by labels of the file, each once. `LabelsKept` adds
  that no two texts of a column fall together but a number with and without its
  point.
* `SoundTablesAlwaysConvert`: the contrapositive of the last conjunct of the invariant.
  What is readable is not null in its canonical column, so that the batch is built.
* `FixedPoint`: every canonical column finds itself first (`CanonicalSource`), and a
  value that came out of a conversion goes through it unchanged
  (`SettledStays`). For the timestamps that needs the era: the unit of microseconds
  is guessed only for them.

The proofs corrected what these properties said before; in each case the attempt
failed, a table that TLC had not been given was the reason, and the run now has it.
A column of nothing but dates is one of instants, and its counters, ports and
durations are these numbers. A port written as `0.0`, or in parquet as a padded `0`, is in the file
as zero and is counted as coerced all the same, so the count lies between two
numbers of zeros and is not one of them. Durations are whole seconds only because
the model leaves out fractions. A log that declares a column of names a number makes
them null, labels among them. Of two columns of one label the first is meant, not
one of them. And in the model two arms of a `CASE` overlapped where a field has no
column.

**`FiniteSums`**, lemmas only. The library states induction for an operator, which the
provers cannot instantiate. `NatSetInduction` and `FiniteSetInduction` state it for a set in
the operator's place and follow from the well-foundedness of `<`; the lemmas on
sums, on the least and greatest of a set, and on the list of labels rest on them.

**Only model-checked**: `Terminates`, since liveness under fairness is beyond the
prover. The runs marked *violated* have no theorem, being false. Beyond that,
every property of a passing run is a theorem; `DecodedInOrder`, `NoPartialOutput` and
`CountersRead` carry the hypotheses stated with them.

## 5. Not modelled

* `flow_to_canonical` in `pcap.rs`: the same record in another layout, the
  span divided into seconds.
* `normalize_name`, address formatting and the other handling of strings
  character by character: what they tell apart is modelled, not the characters.
* The codecs, serde, pcap_parser, etherparse, arrow and parquet: modelled where
  the code uses them, as what they answer.
* The alias table: data, pinned by the repository's unit tests.
* The resolution of a pcapng interface (`if_tsresol`) is never read by the code
  (`pcap.rs:114-115` says so); times of captures that declare another than
  microseconds are wrong by its factor. The model has the declaration, and no property
  claims their times.
* The difference of two packet times is exact in the model; the `i64` subtraction of
  `pcap.rs:246-247` wraps for times 2^63 microseconds or more apart, which only
  damaged pcapng timestamps can be.
* Three things the documentation says that the code does not do, and that no
  sequence of steps is needed to see. `pcap.rs:4-6` has both halves of a conversation
  in one record; the type and code of ICMP stand for ports (`pcap.rs:198-201`), so an
  echo request and its reply have two keys: the first record has an empty backward
  side, the second, whose source is not the first endpoint of its key, an empty
  forward side. `decompress.rs:9-12` has each decoder cap its output; LZO is
  decompressed in full and then measured (`decompress.rs:39-41`, `Produced`).
  `pcap.rs:37-38` has `inactive_secs <= active_secs`; that is checked before the
  product with a million, which wraps in a release build (`pcap.rs:50-51`,
  `FromSecs`), so timeouts of 2^63 microseconds or more may come out negative or in
  the other order. `TimeoutsThatFit` is about all the others.
* The allocation of a decoder is at least what it produces; how it grows its buffer is
  the library's.
* Unsigned 64-bit columns of a parquet file, and the rounding of floats: durations are
  whole seconds, and integers above 2^53 are exact in the model where the code's
  floats are not.
* The encryption byte of an nfdump header: the reader has no step for it.
* Memory: `flows` grows with the file by design. Durability below the file
  system's calls: nothing in the code asks for it.
* The end-to-end tests and the benchmark, which were read as statements of
  intent.

## 6. Plan

Done: every component of the table above as a module with its run; the
refinement of `FlowTable` by `PcapCapture`; proofs of every safety property of
the passing runs.

Left, in order of what each would add:

1. `Conversion` over the readers: the step `Read` replaced by a reader's
   own steps. What it assumes of them, all of the input or nothing, is stated and
   proved for each on its own.
2. An abstract specification of a conversion, all rows or none, with the nfdump,
   OCSF and canonicalize readers as refinements of it, as `PcapCapture` is of
   `FlowTable`.
3. `Timestamps` under `Canonicalize`: the instants of dates there to be the
   result of the module that reads them.
