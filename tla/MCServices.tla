---------------------------- MODULE MCServices --------------------------
(***************************************************************************)
(* IrcClient, TftpServer, Timeouts and DescriptorSearch for TLC: one       *)
(* connection; a client that writes a file and one that reads one; a clock *)
(* of 8 ticks; all short configurations.                                   *)
(***************************************************************************)
EXTENDS MCIrcClient, TftpServer, Timeouts, DescriptorSearch

CONSTANTS wr, rd

OneCyclic == [arp |-> 3]

\* Two interfaces, one with two settings, and endpoints of each kind.
SmallAlphabet ==
    {InterfaceDescriptor(0, 0), InterfaceDescriptor(1, 0), InterfaceDescriptor(1, 1),
     EndpointDescriptor("bulk", 129), EndpointDescriptor("bulk", 2),
     EndpointDescriptor("bulk", 131), EndpointDescriptor("interrupt", 132),
     EthernetDescriptor, UnionDescriptor(<<1>>)}

-----------------------------------------------------------------------------
\* The four share no state: in each behaviour one of them runs and the others rest.
VARIABLE part

AnyInit ==
    /\ Init /\ TftpInit /\ TimersInit /\ SearchInit
    /\ part \in {"irc", "tftp", "timers", "search"} /\ (part # "tftp" => lossy)

AnyNext ==
    /\ UNCHANGED part
    /\ \/ part = "irc" /\ Next /\ UNCHANGED <<tftp_vars, timer_vars, search_vars>>
       \/ part = "tftp" /\ TftpNext /\ UNCHANGED <<vars, timer_vars, search_vars>>
       \/ part = "timers" /\ TimersNext /\ UNCHANGED <<vars, tftp_vars, search_vars>>
       \/ part = "search" /\ SearchNext /\ UNCHANGED <<vars, tftp_vars, timer_vars>>

AnySpec == AnyInit /\ [][AnyNext]_<<part, vars, tftp_vars, timer_vars, search_vars>>
=============================================================================
