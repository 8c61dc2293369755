-------------------------- MODULE MCNfdumpReader ---------------------------
(***************************************************************************)
(* Small nfdump files: one data block with any two records, perhaps a      *)
(* second block (sound, too large once decompressed, undecodable, or above *)
(* the cap as it is), perhaps an appendix.  Honest files are cut off at    *)
(* every unit; complete ones get headers whose counts or offset are off by *)
(* one, or an unknown layout version.                                      *)
(* Records always fill their block, as the sizes in the reader's model     *)
(* require.                                                                *)
(***************************************************************************)
EXTENDS NfdumpReaderProps

CONSTANT Codecs  \* pairs of a codec and a block_size hint

SmallCodecs == {<<"plain", 0>>, <<"zstd", 0>>, <<"bz2", 0>>, <<"lz4", 0>>, <<"lz4", 3>>,
                <<"lzo", 0>>, <<"unknown", 0>>}

\* The flags by which V1 says what its codec is; there are none for Zstandard, and
\* other combinations say nothing.
FlagsFor(codec) ==
  CASE codec = "plain" -> {{}, {1, 8}}
    [] codec = "lzo" -> {{1}}
    [] codec = "bz2" -> {{8}}
    [] codec = "lz4" -> {{16}}
    [] OTHER -> {}

Extension(id, fits, value) == [id |-> id, fits |-> fits, value |-> value]

V3(num, extensions) ==
  [rtype |-> "v3", size |-> 1,
   body |-> [num_elements |-> num, extensions |-> extensions]]

\* The kinds of record, for flow f: sound ones of both layouts, a non-flow
\* record, and one for each way to be damaged.
Kinds(f) ==
  LET common == [rtype |-> "common", size |-> 1,
                 body |-> [short |-> FALSE, first |-> 1, msec_first |-> f, last |-> 1,
                           msec_last |-> 2, bytes |-> f, ends |-> "v4"]]
      generic == Extension("generic", TRUE, [first |-> f, last |-> 2, bytes |-> f])
      extreme == Extension("generic", TRUE, [first |-> Word - 2, last |-> 3, bytes |-> Word - 1])
      ipv4 == Extension("ipv4", TRUE, "v4")
  IN {common,
      [common EXCEPT !.rtype = "exporter"],
      [common EXCEPT !.body.short = TRUE],
      [common EXCEPT !.size = 0],
      [common EXCEPT !.size = 9],
      V3(3, <<Extension("unknown", TRUE, f), Extension("ipv6", TRUE, "v6"), generic>>),
      V3(3, <<extreme, ipv4, Extension("cnt", TRUE, f)>>),
      V3(1, <<generic, ipv4>>),
      V3(2, <<generic, [ipv4 EXCEPT !.fits = FALSE]>>)}

\* One record of any kind, or one followed by another that is sound, no flow,
\* or short.
Records == {<<>>} \cup {<<r>> : r \in Kinds(1)}
             \cup {<<r, s>> : r \in Kinds(1),
                             s \in {k \in Kinds(2) : k.rtype # "v3" /\ k.size = 1}}

BlockOf(records, size) ==
  [num_records |-> Len(records), size |-> size, plain |-> Len(records),
   decodes |-> TRUE, records |-> records]

\* A second data block.
Second ==
  LET flow == CHOOSE r \in Kinds(3) : r.rtype = "common" /\ ~r.body.short /\ r.size = 1
      sound == BlockOf(<<flow, flow, flow>>, 3)
      large(n) == BlockOf([i \in 1 .. (MaxDecompressed + n) |-> flow], 1)
  IN {sound, large(1), large(2), [sound EXCEPT !.decodes = FALSE], [sound EXCEPT !.size = MaxCompressed + 1]}

Appendix == BlockOf(<<>>, 0)

\* Uncompressed blocks are as long as they say.
DataOf(codec) ==
  {<<BlockOf(r, Len(r))>> : r \in Records}
    \cup {<<BlockOf(r, Len(r)), s>> :
            r \in Records, s \in {t \in Second : codec = "plain" => t.size = t.plain}}

\* A codec and hint with the data it may hold.
Contents == UNION {{<<c[1], c[2], d>> : d \in DataOf(c[1])} : c \in Codecs}

File(version, flags, content, tail) ==
  LET data == content[3]
      start == DataStart(version)
  IN [version |-> version, flags |-> flags, codec |-> content[1], block_size |-> content[2],
      num_blocks |-> Len(data), data_blocks |-> Len(data),
      off_appendix |-> start + Extent(data, Len(data)),
      blocks |-> data \o tail, length |-> start + Extent(data \o tail, Len(data \o tail))]

\* V1 has no size hint.
Whole ==
  LET tails == {<<>>, <<Appendix>>}
  IN {File(V2, {}, c, t) : c \in Contents, t \in tails}
       \cup UNION {{File(V1, b, c, t) : b \in FlagsFor(c[1]), t \in tails} :
                     c \in {d \in Contents : d[2] = 0}}

\* What may be wrong with a whole file: units missing at its end, counts or an
\* appendix offset off by so much, an unknown layout version.
Sound == [cut |-> 0, blocks |-> 0, offset |-> 0, records |-> 0, layout |-> 0]

Changes ==
  {[Sound EXCEPT !.cut = n] : n \in 0 .. 11}
    \cup {[Sound EXCEPT !.blocks = e, !.offset = s] : e \in -1 .. 1, s \in -1 .. 1}
    \cup {[Sound EXCEPT !.records = m] : m \in {-1, 1}}
    \cup {[Sound EXCEPT !.layout = 2]}

Changed(f, c) ==
  [f EXCEPT !.length = Max({0, @ - c.cut}),
            !.num_blocks = @ + c.blocks,
            !.off_appendix = @ + c.offset,
            !.blocks[1].num_records = Max({0, @ + c.records}),
            !.version = @ + c.layout]

AllFiles == {Changed(f, c) : f \in Whole, c \in Changes}

=============================================================================
