--------------------------- MODULE MCPcapCapture ---------------------------
(***************************************************************************)
(* Small capture files: every sequence of a few blocks after a legacy or a *)
(* section header, cut off at every unit.  The buffer holds three units, a *)
(* packet block is two, so blocks straddle reads; one block never fits.    *)
(***************************************************************************)
EXTENDS PcapCaptureProps

View(src, dest, transport, a, b) ==
  [src_ip |-> src, dest_ip |-> dest, ip_protocol |-> 50, transport |-> transport,
   src_port |-> a, dest_port |-> b, type |-> a, code |-> b]

\* An Ethernet frame, its answer, and bytes that are an IP packet as they are.
Request == [eth |-> View(1, 2, "tcp", 7, 3), ip |-> None]
Answer  == [eth |-> View(2, 1, "tcp", 3, 7), ip |-> None]
Raw     == [eth |-> None, ip |-> View(2, 1, "other", 0, 0)]

EchoRequest == [eth |-> View(1, 2, "icmpv4", 8, 0), ip |-> None]
EchoReply   == [eth |-> View(2, 1, "icmpv4", 0, 0), ip |-> None]

Header(link, magic) ==
  [kind |-> "legacy_header", size |-> 1, linktype |-> link, magic |-> magic]
Legacy(size, sec, frac, frame) ==
  [kind |-> "legacy", size |-> size, ts_sec |-> sec, ts_usec |-> frac,
   frame |-> frame, origlen |-> 60]
Section == [kind |-> "section", size |-> 1]
Interface(link, tsresol) ==
  [kind |-> "interface", size |-> 1, linktype |-> link, tsresol |-> tsresol]
Enhanced(interface, high, low, frame) ==
  [kind |-> "enhanced", size |-> 2, interface |-> interface, ts_high |-> high,
   ts_low |-> low, frame |-> frame, origlen |-> 60]
Simple == [kind |-> "other", size |-> 1]
Broken == [kind |-> "malformed", size |-> 1]

UpTo(S, n) == UNION {[1 .. m -> S] : m \in 0 .. n}

Length(blocks) == FoldFunction(LAMBDA b, sum : b.size + sum, 0, blocks)

CutAnywhere(contents) ==
  UNION {{[blocks |-> c, length |-> n] : n \in 0 .. Length(c)} : c \in contents}

LegacyContents ==
  {<<h>> \o c :
     h \in {Header(1, "usec"), Header(LinktypeValues + 1, "nsec"),
            Header(101, "usec_swapped"), Header(1, "nsec_swapped")},
     c \in UpTo({Legacy(2, 0, 900, Request), Legacy(2, 1, 999999, Answer),
                 Legacy(2, 1, 1500, Raw), Legacy(Capacity + 1, 1, 0, Request), Broken},
                MaxBlocks - 2)}

\* A packet names an interface that comes before it.
WellFormed(c) ==
  \A n \in DOMAIN c : c[n].kind = "enhanced" =>
    c[n].interface < Cardinality({m \in 1 .. n : c[m].kind = "interface"})

NgContents ==
  {<<Section>> \o c : c \in
     {d \in UpTo({Interface(1, 1000000), Interface(LinktypeValues + 1, 1000),
                  Interface(101, 1000000), Enhanced(0, Word \div 2 - 1, Word - 1, Request),
                  Enhanced(1, Word \div 2, 0, Raw), Simple}, MaxBlocks - 1) : WellFormed(d)}}

\* A ping and its answer, whose types differ and with them their flow keys.
Ping == <<Header(1, "usec"), Legacy(2, 0, 0, EchoRequest), Legacy(2, 0, 9, EchoReply)>>

Files == CutAnywhere(LegacyContents \cup NgContents \cup {Ping})

\* A nanosecond capture written on a machine of the other byte order.
SwappedFiles ==
  LET c == <<Header(1, "nsec_swapped"), Legacy(2, 0, 500, Request), Legacy(2, 1, 1500, Answer)>>
  IN {[blocks |-> c, length |-> Length(c)]}

=============================================================================
