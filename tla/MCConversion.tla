---------------------------- MODULE MCConversion ----------------------------
(***************************************************************************)
(* Three commands on two paths, in place or not: a capture, a capture with *)
(* no packets, an nfdump file and a damaged one.  Word and Million are     *)
(* scaled down together: eight microseconds fit in a signed word, three in *)
(* a second.                                                               *)
(***************************************************************************)
EXTENDS ConversionProps

Source(format, rows, sound) == [format |-> format, rows |-> rows, sound |-> sound]

SmallSources == {Source("pcap", 2, TRUE), Source("pcap", 0, TRUE),
                 Source("nfcapd", 1, TRUE), Source("nfcapd", 1, FALSE)}

=============================================================================
