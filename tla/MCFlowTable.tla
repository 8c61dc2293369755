---------------------------- MODULE MCFlowTable ----------------------------
(***************************************************************************)
(* A small instance of FlowTable.  Three senders on two addresses give a   *)
(* conversation seen in both directions between two ports of one address   *)
(* (so that the port decides the direction), and a second conversation     *)
(* with another address.  Packets of different times differ in size.       *)
(***************************************************************************)
EXTENDS FlowTableProps

CONSTANTS MaxTime, PacketSize  \* the latest time; the bytes of a packet of time 0

Client == <<1, 1>>
Server == <<1, 2>>
Other  == <<2, 1>>

Directions == {<<Client, Server>>, <<Server, Client>>, <<Client, Other>>}

Traffic ==
  {[timestamp |-> t, src_ip |-> d[1][1], src_port |-> d[1][2],
    dest_ip |-> d[2][1], dest_port |-> d[2][2], protocol |-> 6, packet_bytes |-> PacketSize + t] :
     t \in 0 .. MaxTime, d \in Directions}

=============================================================================
