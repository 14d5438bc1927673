---------------------------- MODULE IpFragments -----------------------------
(***************************************************************************)
(* Fragmentation and reassembly of IPv4 datagrams:                         *)
(* src/src/lwIP/core/ipv4/ip4_frag.c, two hosts that run it, and a network *)
(* between them that loses, repeats and reorders the fragments.            *)
(*                                                                         *)
(* A datagram is its identification and the length of its payload; an      *)
(* identification is not used for a second payload while the first is      *)
(* being reassembled. ip4_frag is given whole datagrams, since nothing is  *)
(* forwarded. Another host may send fragments that reach further than a    *)
(* datagram can; other than that the headers are well formed.              *)
(***************************************************************************)
EXTENDS Integers, Sequences, FiniteSets, FiniteSetsExt, SequencesExt

CONSTANTS
    NoDatagram,         \* what ip4_reass returns when the datagram is not complete
    Ids,
    LenOf,              \* the length of each datagram's payload
    Mtus,               \* the MTUs a datagram is fragmented for, one for each path
    IP_HLEN, Unit,      \* the header's length; fragment offsets count units (8 bytes)
    U16_MAX,            \* lengths are u16_t: 0xFFFF
    PBUF_POOL_BUFSIZE,  \* the bytes of a packet one pbuf holds
    IP_REASS_MAX_PBUFS, IP_REASS_MAXAGE,
    MemoryFails         \* whether an allocation may fail

ASSUME IpFragmentsAssumption ==
    /\ LenOf \in [Ids -> Nat \ {0}]
    /\ U16_MAX \in Nat /\ \A id \in Ids : LenOf[id] + IP_HLEN <= U16_MAX
    /\ IP_HLEN \in Nat /\ Unit \in Nat \ {0} /\ PBUF_POOL_BUFSIZE \in Nat \ {0}
    /\ \A m \in Mtus : m \in Nat /\ m >= IP_HLEN + Unit
    /\ IP_REASS_MAX_PBUFS \in Nat \ {0} /\ IP_REASS_MAXAGE \in Nat

VARIABLES
    net,                \* the fragments sent: each may arrive never, once or often
    reassdatagrams,     \* the datagrams being reassembled, the newest first
    ip_reass_pbufcount,
    returned            \* what the last ip4_reass returned

frag_vars == <<net, reassdatagrams, ip_reass_pbufcount, returned>>

FragInit ==
    /\ net = {}
    /\ reassdatagrams = <<>>
    /\ ip_reass_pbufcount = 0
    /\ returned = NoDatagram

-----------------------------------------------------------------------------
\* The bytes a fragment has of its datagram.
Helper(f) == [start |-> f.offset * Unit, end |-> f.offset * Unit + f.len]

\* Whether the fragment ends where no datagram can: its end, or the length of the whole
\* datagram, does not fit a u16_t.
TooLong(f) ==
    \/ Helper(f).end > U16_MAX
    \/ ~f.mf /\ Helper(f).end > U16_MAX - IP_HLEN

\* The fragments of another host that reach too far.
Strays ==
    {f \in [id : Ids, offset : {U16_MAX \div Unit}, len : 1 .. Unit, mf : BOOLEAN] : TooLong(f)}

\* Whether a datagram's fragment that starts with `left' bytes to go is marked as its last.
LastFragment(left, mtu) == left <= mtu - IP_HLEN

FragSize(left, mtu) == Min({left, ((mtu - IP_HLEN) \div Unit) * Unit})

\* The fragments of the rest of a datagram: a sequence, in the order they are sent.
RECURSIVE Fragments(_, _, _, _)
Fragments(id, ofo, left, mtu) ==
    IF left = 0 THEN <<>>
    ELSE <<[id |-> id, offset |-> ofo, len |-> FragSize(left, mtu), mf |-> ~LastFragment(left, mtu)]>>
         \o Fragments(id, ofo + (mtu - IP_HLEN) \div Unit, left - FragSize(left, mtu), mtu)

\* ip4_frag: the fragments are sent until no pbuf can be allocated for one.
ip4_frag(id, mtu) ==
    LET fragments == Fragments(id, 0, LenOf[id], mtu) IN
    /\ LenOf[id] + IP_HLEN > mtu
    /\ \E n \in IF MemoryFails THEN 0 .. Len(fragments) ELSE {Len(fragments)} :
        net' = net \cup {fragments[k] : k \in 1 .. n}
    /\ returned' = NoDatagram
    /\ UNCHANGED <<reassdatagrams, ip_reass_pbufcount>>

-----------------------------------------------------------------------------
Clen(len) == (len + IP_HLEN + PBUF_POOL_BUFSIZE - 1) \div PBUF_POOL_BUFSIZE

\* The pbufs of a datagram being reassembled.
PbufsOf(r) == FoldSeq(LAMBDA h, n : n + Clen(h.end - h.start), 0, r.p)

TotalPbufs(rs) == FoldSeq(LAMBDA r, n : n + PbufsOf(r), 0, rs)

\* Mutant of Others: the datagram the new fragment belongs to may be freed.
OthersM(rs, id) == DOMAIN rs
Others(rs, id) == {i \in DOMAIN rs : rs[i].id # id}

\* ip_reass_remove_oldest_datagram: what is left, and the number of pbufs freed.
RECURSIVE ip_reass_remove_oldest_datagram(_, _, _)
ip_reass_remove_oldest_datagram(rs, id, needed) ==
    IF Others(rs, id) = {} THEN [rs |-> rs, freed |-> 0]
    ELSE LET oldest == Max({i \in Others(rs, id) :
                              \A j \in Others(rs, id) : rs[i].timer <= rs[j].timer})
             freed == PbufsOf(rs[oldest])
             rest == RemoveAt(rs, oldest)
         IN  IF freed < needed /\ Others(rest, id) # {}
             THEN LET more == ip_reass_remove_oldest_datagram(rest, id, needed - freed)
                  IN  [more EXCEPT !.freed = @ + freed]
             ELSE [rs |-> rest, freed |-> freed]

\* Mutant of RoomFor: the new fragment is not counted.
RoomForM(count, clen) == count <= IP_REASS_MAX_PBUFS
RoomFor(count, clen) == count + clen <= IP_REASS_MAX_PBUFS

NewDatagram(f) ==
    [id |-> f.id, iphdr |-> f.offset, p |-> <<>>, last |-> FALSE, datagram_len |-> 0,
     timer |-> IP_REASS_MAXAGE]

\* ip_reass_enqueue_new_datagram: the lists it may leave, with the new datagram at the
\* front if it could be allocated, at once or after others were freed.
ip_reass_enqueue_new_datagram(rs, f, clen) ==
    LET oldest == ip_reass_remove_oldest_datagram(rs, f.id, clen) IN
    {<<NewDatagram(f)>> \o rs}
        \cup IF ~MemoryFails THEN {}
             ELSE {oldest.rs}
                  \cup (IF oldest.freed >= clen THEN {<<NewDatagram(f)>> \o oldest.rs} ELSE {})

\* The header of the first fragment replaces another.
FirstHeader(r, f) == IF f.offset = 0 THEN 0 ELSE r.iphdr

HeaderTaken(r, f) == [r EXCEPT !.iphdr = FirstHeader(r, f)]

\* Mutant of Overlaps: only a fragment that starts where another does is dropped.
OverlapsM(h, p) == \E k \in DOMAIN p : p[k].start = h.start
\* Whether a fragment must be dropped.
Overlaps(h, p) == \E k \in DOMAIN p : h.start < p[k].end /\ p[k].start < h.end

\* The list with the fragment in its place.
Chained(h, p) ==
    LET before == Cardinality({k \in DOMAIN p : p[k].start < h.start})
    IN  InsertAt(p, before + 1, h)

\* Whether all fragments are there, the last of them received now or before.
Finished(p, last, h) ==
    /\ last
    /\ p[1].start = 0
    /\ \A k \in 1 .. Len(p) - 1 : p[k].end = p[k + 1].start

\* nullreturn_ipr: an entry made for a fragment that is dropped is removed.
Dropped(rs, i, r) == IF r.p = <<>> THEN RemoveAt(rs, i) ELSE [rs EXCEPT ![i] = r]

\* The end of ip4_reass: the fragment f comes to the datagram rs[i].
Enqueue(rs, count, i, f) ==
    LET h == Helper(f)
        r == HeaderTaken(rs[i], f)
        drop == TooLong(f) \/ Overlaps(h, r.p)
        p == Chained(h, r.p)
        chained == [r EXCEPT !.p = p, !.last = @ \/ ~f.mf,
                             !.datagram_len = IF f.mf THEN @ ELSE h.end]
    IN  CASE drop ->
                /\ reassdatagrams' = Dropped(rs, i, r)
                /\ ip_reass_pbufcount' = count
                /\ returned' = NoDatagram
          [] ~drop /\ Finished(p, chained.last, h) ->
                /\ reassdatagrams' = RemoveAt(rs, i)
                /\ ip_reass_pbufcount' = count + Clen(f.len) - PbufsOf(chained)
                /\ returned' = chained
          [] OTHER ->
                /\ reassdatagrams' = [rs EXCEPT ![i] = chained]
                /\ ip_reass_pbufcount' = count + Clen(f.len)
                /\ returned' = NoDatagram

\* A fragment arrives; the network may deliver it again, and one it loses never arrives.
ip4_reass(f) ==
    LET clen == Clen(f.len)
        full == ~RoomFor(ip_reass_pbufcount, clen)
        oldest == IF full THEN ip_reass_remove_oldest_datagram(reassdatagrams, f.id, clen)
                  ELSE [rs |-> reassdatagrams, freed |-> 0]
        count == ip_reass_pbufcount - oldest.freed
        i == SelectInSeq(oldest.rs, LAMBDA r : r.id = f.id)
    IN  /\ UNCHANGED net
        /\ IF full /\ (oldest.freed = 0 \/ ~RoomFor(count, clen))
           THEN /\ reassdatagrams' = oldest.rs
                /\ ip_reass_pbufcount' = count
                /\ returned' = NoDatagram
           ELSE IF i # 0 THEN Enqueue(oldest.rs, count, i, f)
           ELSE \E rs \in ip_reass_enqueue_new_datagram(oldest.rs, f, clen) :
                LET freed == TotalPbufs(oldest.rs) - TotalPbufs(rs) IN
                IF rs # <<>> /\ Head(rs).id = f.id
                THEN Enqueue(rs, count - freed, 1, f)
                ELSE /\ reassdatagrams' = rs
                     /\ ip_reass_pbufcount' = count - freed
                     /\ returned' = NoDatagram

Aged(r) == [r EXCEPT !.timer = @ - 1]

\* Every second.
ip_reass_tmr ==
    LET kept == SelectSeq(reassdatagrams, LAMBDA r : r.timer > 0) IN
    /\ reassdatagrams' = [i \in DOMAIN kept |-> Aged(kept[i])]
    /\ ip_reass_pbufcount' = ip_reass_pbufcount - (TotalPbufs(reassdatagrams) - TotalPbufs(kept))
    /\ returned' = NoDatagram
    /\ UNCHANGED net

FragNext ==
    \/ \E id \in Ids, mtu \in Mtus : ip4_frag(id, mtu)
    \/ \E f \in net \cup Strays : ip4_reass(f)
    \/ ip_reass_tmr

FragSpec == FragInit /\ [][FragNext]_frag_vars

-----------------------------------------------------------------------------
\* Fragments follow each other without a hole, from the first on.
Contiguous(p) ==
    p[1].start = 0 /\ \A k \in 1 .. Len(p) - 1 : p[k].end = p[k + 1].start

\* The pbufs counted are the ones waiting, and not more than IP_REASS_MAX_PBUFS, after
\* fragments were dropped and datagrams returned, timed out or freed for another: the
\* assertions "ip_reass_pbufcount >= pbufs_freed" and "ip_reass_pbufcount >= clen".
PbufsCounted ==
    /\ ip_reass_pbufcount = TotalPbufs(reassdatagrams)
    /\ ip_reass_pbufcount <= IP_REASS_MAX_PBUFS

\* Where ip4_frag marks a fragment as the last too early: it takes a whole number of units,
\* but compares what is left with the MTU. There is such an end only when an MTU without
\* the header is no multiple of the unit, and at most that remainder comes behind it.
EarlyEnds(id) ==
    {e \in 1 .. LenOf[id] - 1 : \E mtu \in Mtus :
        /\ e % (((mtu - IP_HLEN) \div Unit) * Unit) = 0
        /\ LenOf[id] - e <= (mtu - IP_HLEN) % Unit}

\* What ip4_reass returns has no hole and comes behind the header of its first fragment, and
\* is the datagram that was sent, all of its payload, unless ip4_frag marked a fragment as
\* the last too early: then it may end there, or have that length in its header. No datagram
\* that is complete is left waiting, whichever fragment completes it; one that waits has a
\* fragment (the timer reads its first pbuf), also after its only fragment was dropped,
\* and its fragments do not overlap; and no datagram has two entries.
ReassemblySound ==
    /\ returned # NoDatagram =>
        LET end == returned.p[Len(returned.p)].end IN
        /\ returned.iphdr = 0 /\ Contiguous(returned.p)
        /\ returned.datagram_len \in {LenOf[returned.id]} \cup EarlyEnds(returned.id)
        /\ end \in {LenOf[returned.id], returned.datagram_len}
    /\ \A i \in DOMAIN reassdatagrams :
        LET r == reassdatagrams[i] IN
        /\ r.p # <<>>
        /\ \A k \in 1 .. Len(r.p) - 1 : r.p[k].end <= r.p[k + 1].start
        /\ ~(Contiguous(r.p) /\ r.p[Len(r.p)].end = LenOf[r.id])
        /\ \A j \in DOMAIN reassdatagrams : reassdatagrams[j].id = r.id => i = j

\* Room for a fragment is not made by freeing the fragments of its own datagram: an entry
\* that loses some, and is not returned, loses them to another datagram or to the timer.
\* And no datagram is reassembled for ever: no fragment of it, repeated or new, starts its
\* wait again, and every ip_reass_tmr shortens the wait or ends it.
FragmentsWait ==
    [][\A i \in DOMAIN reassdatagrams :
        LET r == reassdatagrams[i]
            after == {j \in DOMAIN reassdatagrams' : reassdatagrams'[j].id = r.id}
        IN  /\ \/ returned' # NoDatagram
               \/ \E j \in after : Len(reassdatagrams'[j].p) >= Len(r.p)
               \/ \A f \in net \cup Strays : f.id = r.id => ~ip4_reass(f)
            /\ \A j \in after :
                  \/ reassdatagrams'[j].timer < r.timer
                  \/ reassdatagrams'[j].timer = r.timer /\ ~ip_reass_tmr]_frag_vars
=============================================================================
