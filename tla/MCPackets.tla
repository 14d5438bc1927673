----------------------------- MODULE MCPackets ------------------------------
(***************************************************************************)
(* PacketQueue, Pbuf and IpFragments for TLC: a ring of three slots for    *)
(* three pbufs; two datagrams, of five and of six bytes, with headers of   *)
(* one byte and offsets in units of two.                                   *)
(***************************************************************************)
EXTENDS PacketQueue, Pbuf, IpFragments, TLC

CONSTANTS p1, p2, p3, i1, i2

\* A path with an MTU of 4 marks a fragment of the first too early, none of the second.
FiveAndSix == (i1 :> 5) @@ (i2 :> 6)

\* The three share no state: in each behaviour one of them runs and the others rest.
VARIABLE part

Resting ==
    queue = [first |-> 0, last |-> -1, elems |-> [s \in Slots |-> NULL]]

PacketsInit ==
    /\ Init /\ PbufInit /\ FragInit
    /\ part \in {"queue", "pbuf", "frag"}
    /\ part = "queue" \/ Resting

PacketsNext ==
    /\ UNCHANGED part
    /\ \/ part = "queue" /\ Next /\ UNCHANGED <<pbuf_vars, frag_vars>>
       \/ part = "pbuf" /\ PbufNext /\ UNCHANGED <<vars, frag_vars>>
       \/ part = "frag" /\ FragNext /\ UNCHANGED <<vars, pbuf_vars>>

PacketsSpec == PacketsInit /\ [][PacketsNext]_<<part, vars, pbuf_vars, frag_vars>>

Symmetry == Permutations(Pbufs)
=============================================================================
