------------------------------- MODULE MCOcsf -------------------------------
(***************************************************************************)
(* Texts of up to three items in every layout.  Times in milliseconds and  *)
(* in microseconds lie just below the threshold and on it.                 *)
(***************************************************************************)
EXTENDS OcsfProps

Traffic == [bytes_in |-> 5, bytes_out |-> None, packets_in |-> 1, packets_out |-> None]

Name(word, number) == [word |-> word, number |-> number]

\* A close event of the standard's shape, at an instant in milliseconds.
Standard(at) ==
  [class_uid |-> NetworkActivity, activity_id |-> Close, activity_name |-> None,
   at |-> at, time |-> at \div 1000, duration |-> 2,
   src_ip |-> "a", dest_ip |-> "b", src_port |-> 9, dest_port |-> None,
   traffic |-> Traffic, bytes_from_client |-> 7, bytes_from_server |-> 8,
   protocol_num |-> None, protocol_name |-> Name("tcp", None)]

Kinds ==
  LET e == Standard(3000)
  IN {e, Bad,
      [e EXCEPT !.at = 1000 * (Threshold - 1), !.time = Threshold - 1],
      [e EXCEPT !.at = 1000 * Threshold, !.time = Threshold],
      [e EXCEPT !.at = Threshold - 1, !.time = Threshold - 1],
      [e EXCEPT !.at = Threshold, !.time = Threshold],
      [e EXCEPT !.activity_id = None, !.activity_name = "closed", !.class_uid = None,
                !.traffic = None, !.protocol_name = Name("arp", None)],
      [e EXCEPT !.traffic = None, !.bytes_from_client = None,
                !.protocol_name = Name("number", MaxInt32)],
      [e EXCEPT !.protocol_name = Name("number", -MaxInt32 - 2)],
      [e EXCEPT !.activity_id = 1, !.activity_name = "opened"],
      [e EXCEPT !.class_uid = 3002],
      [e EXCEPT !.src_ip = None],
      [e EXCEPT !.time = None]}

Text(layout, items) == [layout |-> layout, items |-> items]

SmallTexts ==
  {Text("blank", <<>>)}
    \cup {Text("array", s) : s \in SeqOf(Kinds, 3)}
    \cup {Text("object", <<e>>) : e \in Kinds}
    \cup {Text("lines", s) : s \in SeqOf(Kinds, 3) \ {<<>>}}

=============================================================================
