---------------------------- MODULE MCForwarding ----------------------------
(* Small instances of Forwarding for TLC. *)
EXTENDS Forwarding, TLC

TcpKey == [proto |-> "tcp", port |-> 1]
UdpKey == [proto |-> "udp", port |-> 1]

BothKeys == {TcpKey, UdpKey}

\* A port that is TCP for one service or the other, or UDP, or not there.
PortTables ==
  {[k \in BothKeys |-> IF k = TcpKey THEN s ELSE NoService] : s \in Names}
    \cup {[k \in BothKeys |-> IF k = UdpKey THEN "db" ELSE NoService]}

FewChanges == [edit |-> 3, pool |-> 2]
=============================================================================
