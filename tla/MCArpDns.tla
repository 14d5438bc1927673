------------------------------ MODULE MCArpDns ------------------------------
(* EthArp and DnsClient for TLC: tables of two entries, four neighbours (two  *)
(* addresses on each of two interfaces) and three names, so that both recycle *)
(* entries.                                                                   *)
EXTENDS EthArp, DnsClient, TLC

\* Addresses; names; Ethernet addresses or callers; interfaces or identifiers.
CONSTANTS x1, x2, n1, n2, n3, y1, y2, z1, z2

\* The two share no state: in each behaviour one of them runs and the other rests.
VARIABLE part

Init ==
    /\ ArpInit /\ DnsInit
    /\ part \in {"arp", "dns"} /\ (part = "dns" => steady)

Next ==
    \/ part = "arp" /\ ArpNext /\ UNCHANGED <<part, d>>
    \/ part = "dns" /\ DnsNext /\ UNCHANGED <<part, arp_vars>>

Spec == Init /\ [][Next]_<<part, arp_vars, d>>

Symmetry == Permutations(Ips) \cup Permutations(Eths) \cup Permutations(Netifs)
=============================================================================
