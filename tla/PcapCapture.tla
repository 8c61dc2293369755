---------------------------- MODULE PcapCapture ----------------------------
(***************************************************************************)
(* The reader loop of pcap_to_parquet (src/pcap.rs): blocks come out of a  *)
(* bounded buffer that is refilled from the file, packet blocks are parsed *)
(* and ingested into the flow table (module FlowTable), and the end of the *)
(* file drains it.  The outcome is "converted" with the sorted records, or *)
(* "failed" with nothing.                                                  *)
(*                                                                         *)
(* A file is a sequence of blocks and the number of units of it that exist *)
(* on disk: a truncated capture has fewer than its blocks ask for.  The    *)
(* buffer and what the library pcap_parser answers for it (a block, more   *)
(* data wanted, end of file, an error) are external, modelled from how the *)
(* loop uses them.  A frame is what the packet slicer makes of its bytes   *)
(* when asked for Ethernet (`eth`) and when asked for raw IP (`ip`).  A    *)
(* legacy header keeps its magic number as the library hands it on, in the *)
(* byte order of the file; an interface has the ticks per second of its    *)
(* if_tsresol, which the loop never looks at.                              *)
(***************************************************************************)
EXTENDS Integers, SequencesExt

CONSTANTS
  Captures,         \* the files that may be opened
  MaxBlocks,        \* bound: blocks in a file
  Capacity,         \* units the reader's buffer holds
  Word,             \* 2^32: the low half of a pcapng timestamp
  ActiveTimeout,
  InactiveTimeout,
  None              \* what the slicer returns for bytes it cannot read

\* What a frame of an IP packet carries that parse_packet looks at.
FrameView == [src_ip : Int, dest_ip : Int, ip_protocol : Nat,
              transport : {"tcp", "udp", "icmpv4", "other"},
              src_port : Nat, dest_port : Nat, type : Nat, code : Nat]

Frame == [eth : FrameView \cup {None}, ip : FrameView \cup {None}]

\* 0xa1b2_c3d4 and 0xa1b2_3c4d, and each of them with its bytes swapped.
Magic == {"usec", "nsec", "usec_swapped", "nsec_swapped"}

CaptureBlock ==
  [kind : {"legacy_header"}, size : Nat, linktype : Nat, magic : Magic]
    \cup [kind : {"interface"}, size : Nat, linktype : Nat, tsresol : Nat \ {0}]
    \cup [kind : {"legacy"}, size : Nat, ts_sec : Nat, ts_usec : Nat,
          frame : Frame, origlen : Nat]
    \cup [kind : {"enhanced"}, size : Nat, interface : Nat, ts_high : Nat, ts_low : Nat,
          frame : Frame, origlen : Nat]
    \cup [kind : {"section", "other", "malformed"}, size : Nat]

ASSUME CaptureAssumption ==
  /\ Captures \subseteq [blocks : Seq(CaptureBlock), length : Nat]
  /\ \A f \in Captures : Len(f.blocks) \in 1 .. MaxBlocks
  /\ \A f \in Captures : \A n \in DOMAIN f.blocks :
       /\ f.blocks[n].kind = "legacy_header" => n = 1
       /\ f.blocks[n].kind = "legacy" => f.blocks[1].kind = "legacy_header"
       /\ f.blocks[n].kind = "enhanced" => f.blocks[n].ts_high < Word /\ f.blocks[n].ts_low < Word
  /\ Capacity \in Nat /\ MaxBlocks \in Nat
  /\ Word \in Nat /\ Word % 2 = 0

\* What FlowTimeouts::from_secs accepts (see module FlowTable).
ASSUME CaptureTimeouts ==
  /\ ActiveTimeout \in Int /\ InactiveTimeout \in Int
  /\ 0 < InactiveTimeout /\ InactiveTimeout <= ActiveTimeout

VARIABLES
  file,             \* the file being converted
  pos,              \* blocks consumed
  got,              \* units read from the file
  used,             \* units consumed; got - used are in the buffer
  exhausted,        \* the reader has seen the end of the file
  linktype,         \* the one link type of the loop
  legacy_nanos,     \* the one resolution of the loop
  pc,               \* "open", "loop", "refill", "drain", "converted", "failed"
  active, flows, phase, trace   \* the flow table

reader == <<file, got, exhausted>>
table == <<active, flows, phase, trace>>
vars == <<file, pos, got, used, exhausted, linktype, legacy_nanos, pc, table>>

Ethernet == 1
LinktypeValues == 65536   \* of a u16
Icmp == 1
Tcp == 6
Udp == 17

-----------------------------------------------------------------------------
(* One packet *)

\* Ports of a transport; ICMPv4 uses type and code, everything else zeros.
PortsOf(view) ==
  CASE view.transport \in {"tcp", "udp"} -> <<view.src_port, view.dest_port>>
    [] view.transport = "icmpv4" -> <<view.type, view.code>>
    [] OTHER -> <<0, 0>>

ProtocolOf(view) ==
  CASE view.transport = "tcp" -> Tcp
    [] view.transport = "udp" -> Udp
    [] view.transport = "icmpv4" -> Icmp
    [] OTHER -> view.ip_protocol

ViewOf(frame, link) == IF link = Ethernet THEN frame.eth ELSE frame.ip

\* parse_packet for bytes the slicer can read.
ParsePacket(view, ts, origlen) ==
  [timestamp |-> ts, src_ip |-> view.src_ip, dest_ip |-> view.dest_ip,
   src_port |-> PortsOf(view)[1], dest_port |-> PortsOf(view)[2],
   protocol |-> ProtocolOf(view), packet_bytes |-> origlen]

\* Mutant: nanoseconds taken for microseconds.
LegacyTimeRaw(b, nanos) == b.ts_sec * 1000000 + b.ts_usec

LegacyTime(b, nanos) ==
  b.ts_sec * 1000000 + (IF nanos THEN b.ts_usec \div 1000 ELSE b.ts_usec)

\* (ts_high as i64) << 32 | ts_low: two words read as one signed number.
EnhancedTime(b) ==
  (IF b.ts_high >= Word \div 2 THEN b.ts_high - Word ELSE b.ts_high) * Word + b.ts_low

TimeOf(b, nanos) == IF b.kind = "legacy" THEN LegacyTime(b, nanos) ELSE EnhancedTime(b)

PacketKinds == {"legacy", "enhanced"}

\* Every packet some capture can give rise to, under either link type.
CapturedPackets ==
  LET blocks == {b \in UNION {ToSet(f.blocks) : f \in Captures} : b.kind \in PacketKinds}
      readings == {r \in blocks \X {0, Ethernet} \X BOOLEAN : ViewOf(r[1].frame, r[2]) # None}
  IN {ParsePacket(ViewOf(r[1].frame, r[2]), TimeOf(r[1], r[3]), r[1].origlen) :
        r \in readings}

Table == INSTANCE FlowTable WITH
  Packets <- CapturedPackets,
  MaxPackets <- MaxBlocks

-----------------------------------------------------------------------------
(* The block reader *)

Block == file.blocks[pos + 1]

\* The next block lies in the buffer as a whole.
Ready == pos < Len(file.blocks) /\ used + Block.size <= got

Smaller(a, b) == IF a <= b THEN a ELSE b

\* create_reader: one read, and the file's header must be in it.
Open ==
  /\ pc = "open"
  /\ \E n \in 0 .. Smaller(Capacity, file.length) :
       /\ got' = n
       /\ pc' = IF /\ Block.kind \in {"legacy_header", "section"}
                   /\ Block.size <= n
                THEN "loop" ELSE "failed"
  /\ UNCHANGED <<file, pos, used, exhausted, linktype, legacy_nanos, table>>

\* Mutants: the loop forgets reader.consume(offset); it skips a byte too many.
ConsumeNothing == UNCHANGED <<pos, used>>
ConsumePadded == pos' = pos + 1 /\ used' = used + Block.size + 1

Consume == pos' = pos + 1 /\ used' = used + Block.size

LegacyHeader ==
  /\ pc = "loop" /\ Ready /\ Block.kind = "legacy_header"
  /\ linktype' = Block.linktype % LinktypeValues
  /\ legacy_nanos' = (Block.magic = "nsec")
  /\ Consume
  /\ UNCHANGED <<reader, pc, table>>

\* Mutant: every interface begins a flow table of its own.
InterfaceDescriptionAnew ==
  /\ pc = "loop" /\ Ready /\ Block.kind = "interface"
  /\ linktype' = Block.linktype % LinktypeValues
  /\ active' = <<>>
  /\ Consume
  /\ UNCHANGED <<reader, legacy_nanos, pc, flows, phase, trace>>

InterfaceDescription ==
  /\ pc = "loop" /\ Ready /\ Block.kind = "interface"
  /\ linktype' = Block.linktype % LinktypeValues
  /\ Consume
  /\ UNCHANGED <<reader, legacy_nanos, pc, table>>

\* A packet block, legacy or enhanced: parsed under the current link type and
\* ingested, or passed over when the slicer cannot read it.
PacketBlock ==
  /\ pc = "loop" /\ Ready /\ Block.kind \in PacketKinds
  /\ LET view == ViewOf(Block.frame, linktype)
     IN IF view = None
        THEN UNCHANGED table
        ELSE Table!Ingest(ParsePacket(view, TimeOf(Block, legacy_nanos), Block.origlen))
  /\ Consume
  /\ UNCHANGED <<reader, linktype, legacy_nanos, pc>>

\* Section headers, simple packets, statistics: consumed without effect.
OtherBlock ==
  /\ pc = "loop" /\ Ready /\ Block.kind \in {"section", "other"}
  /\ Consume
  /\ UNCHANGED <<reader, linktype, legacy_nanos, pc, table>>

\* PcapError::Eof: the file has ended and the buffer is empty.
Eof ==
  /\ pc = "loop" /\ exhausted /\ got = used
  /\ pc' = "drain"
  /\ UNCHANGED <<reader, pos, used, linktype, legacy_nanos, table>>

\* PcapError::Incomplete: the block needs more data and there may be some.
Incomplete ==
  /\ pc = "loop" /\ ~Ready /\ ~exhausted
  /\ pc' = "refill"
  /\ UNCHANGED <<reader, pos, used, linktype, legacy_nanos, table>>

\* Mutant: the end of the file inside a block is taken for its end.
UnexpectedEofAccepted ==
  /\ pc = "loop" /\ exhausted /\ ~Ready /\ got > used
  /\ pc' = "drain"
  /\ UNCHANGED <<reader, pos, used, linktype, legacy_nanos, table>>

\* Any other error: the file ends inside a block, or a block is malformed.
UnexpectedEof ==
  /\ pc = "loop" /\ exhausted /\ ~Ready /\ got > used
  /\ pc' = "failed"
  /\ UNCHANGED <<reader, pos, used, linktype, legacy_nanos, table>>

ParseError ==
  /\ pc = "loop" /\ Ready /\ Block.kind = "malformed"
  /\ pc' = "failed"
  /\ UNCHANGED <<reader, pos, used, linktype, legacy_nanos, table>>

\* refill with room in the buffer: the read returns some data, or none at the
\* end of the file.
Refill ==
  /\ pc = "refill" /\ got - used < Capacity
  /\ IF got = file.length
     THEN exhausted' = TRUE /\ got' = got
     ELSE /\ \E n \in 1 .. Smaller(Capacity - (got - used), file.length - got) :
               got' = got + n
          /\ UNCHANGED exhausted
  /\ pc' = "loop"
  /\ UNCHANGED <<file, pos, used, linktype, legacy_nanos, table>>

\* refill fails: the buffer is full with part of one block, or the read fails.
RefillFails ==
  /\ pc = "refill"
  /\ pc' = "failed"
  /\ UNCHANGED <<reader, pos, used, linktype, legacy_nanos, table>>

\* The end of the loop: drain, sort and hand the records to the writer.
Convert ==
  /\ pc = "drain"
  /\ Table!Finish
  /\ pc' = "converted"
  /\ UNCHANGED <<reader, pos, used, linktype, legacy_nanos>>

-----------------------------------------------------------------------------
Init ==
  /\ file \in Captures
  /\ pos = 0 /\ got = 0 /\ used = 0 /\ exhausted = FALSE
  /\ linktype = Ethernet /\ legacy_nanos = FALSE
  /\ pc = "open"
  /\ Table!Init

Next ==
  \/ Open \/ LegacyHeader \/ InterfaceDescription \/ PacketBlock \/ OtherBlock
  \/ Eof \/ Incomplete \/ UnexpectedEof \/ ParseError \/ Refill \/ RefillFails \/ Convert

\* One thread runs the loop to its end; a read returns.
Spec == Init /\ [][Next]_vars /\ WF_vars(Next)

=============================================================================
