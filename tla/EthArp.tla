------------------------------- MODULE EthArp -------------------------------
(***************************************************************************)
(* The ARP cache of src/src/lwIP/core/ipv4/etharp.c, built as lwipopts.h   *)
(* says: no static entries, one queued packet for each pending entry, the  *)
(* interface compared (ARP_QUEUEING 0, ETHARP_TABLE_MATCH_NETIF 1).        *)
(*                                                                         *)
(* A packet is the address of its next hop; a frame of the last step also  *)
(* has the Ethernet address it was sent to.                                *)
(***************************************************************************)
EXTENDS Integers, FiniteSetsExt

CONSTANTS
    NULL,
    Ips, Eths, Netifs,
    ARP_TABLE_SIZE, ARP_MAXAGE, ARP_MAXPENDING,
    Unicast,            \* ARP_AGE_REREQUEST_USED_UNICAST
    Broadcast,          \* ARP_AGE_REREQUEST_USED_BROADCAST
    Steadies            \* the values steady may have

ASSUME EthArpAssumption ==
    /\ ARP_TABLE_SIZE \in Nat \ {0}
    /\ ARP_MAXPENDING \in Nat /\ ARP_MAXPENDING >= 2
    /\ Steadies \subseteq BOOLEAN
    /\ ARP_MAXAGE \in Nat /\ Unicast \in Nat /\ Broadcast \in Nat
    /\ 2 <= Unicast /\ Unicast <= Broadcast /\ Broadcast < ARP_MAXAGE

VARIABLES
    steady,     \* whether every stable entry is used and every request answered between
                \* two ticks; if not, there may also be no memory for a pbuf
    arp_table,
    cached,     \* etharp_cached_entry
    frames,     \* packets sent in the last step
    asked,      \* <<netif, ip>> requested and not answered since, when use is steady
    used,       \* entries used since the last tick, when use is steady
    since,      \* ticks since each stable entry was last requested again
    known       \* the Ethernet address last announced for each address

arp_vars == <<steady, arp_table, cached, frames, asked, used, since, known>>

Index == 1 .. ARP_TABLE_SIZE
Stable == {"STABLE", "REREQUESTING_1", "REREQUESTING_2"}
Fresh(ip, netif) ==
    [state |-> "EMPTY", ip |-> ip, eth |-> NULL, netif |-> netif, ctime |-> 0, q |-> NULL]
Empty == Fresh(NULL, NULL)

ArpInit ==
    /\ steady \in Steadies
    /\ arp_table = [i \in Index |-> Empty]
    /\ cached = 1
    /\ frames = {} /\ asked = {} /\ used = {}
    /\ since = [i \in Index |-> 2]
    /\ known = [n \in Netifs |-> [a \in Ips |-> NULL]]

-----------------------------------------------------------------------------
\* Mutant of Matching: an entry that is stable already is not found.
MatchingM(ip, netif) ==
    {i \in Index : arp_table[i].state = "PENDING" /\ arp_table[i].ip = ip
                   /\ arp_table[i].netif = netif}
Matching(ip, netif) ==
    {i \in Index : arp_table[i].state # "EMPTY" /\ arp_table[i].ip = ip
                   /\ arp_table[i].netif = netif}

\* The last of the oldest entries of a set.
Oldest(S) ==
    Max({i \in S : \A j \in S : arp_table[j].ctime <= arp_table[i].ctime})

\* The entry to recycle: an empty one, the oldest stable one, the oldest pending one
\* without a packet, the oldest pending one.
Candidate ==
    LET empty == {i \in Index : arp_table[i].state = "EMPTY"}
        stable == {i \in Index : arp_table[i].state \in Stable}
        idle == {i \in Index : arp_table[i].state = "PENDING" /\ arp_table[i].q = NULL}
    IN  IF empty # {} THEN Min(empty)
        ELSE IF stable # {} THEN Oldest(stable)
        ELSE IF idle # {} THEN Oldest(idle)
        ELSE Oldest(Index)

\* etharp_find_entry with ETHARP_FLAG_TRY_HARD. A recycled entry is emptied, its packet
\* freed.
etharp_find_entry(ip, netif) ==
    IF Matching(ip, netif) # {} THEN Min(Matching(ip, netif)) ELSE Candidate

Found(ip, netif) ==
    LET i == etharp_find_entry(ip, netif) IN
    IF i \in Matching(ip, netif) THEN arp_table[i]
    ELSE Fresh(ip, netif)

\* What etharp_raw may return: a request is sent unless there is no memory.
RawResults == {TRUE} \cup (IF steady THEN {} ELSE {FALSE})

Request(addrs) == asked' = IF steady THEN asked \cup addrs ELSE {}

\* What is known of the use of entry i is forgotten when e replaces it.
Replace(i, e) ==
    LET kept == e.ip = arp_table[i].ip /\ e.netif = arp_table[i].netif IN
    /\ since' = [since EXCEPT ![i] = IF kept THEN @ ELSE 2]
    /\ used' = IF kept THEN used ELSE used \ {i}

-----------------------------------------------------------------------------
Updated(e, eth) == [e EXCEPT !.state = "STABLE", !.eth = eth, !.ctime = 0, !.q = NULL]

\* The end of etharp_update_arp_entry: the packet queued is sent.
Update(i, e, eth) ==
    /\ arp_table' = [arp_table EXCEPT ![i] = Updated(e, eth)]
    /\ frames' = IF e.q = NULL THEN {} ELSE {[hop |-> e.q, eth |-> eth, netif |-> e.netif]}

\* An ARP packet of a neighbour. One for another host only updates an entry.
etharp_input(netif, ip, eth, for_us) ==
    /\ known' = [known EXCEPT ![netif][ip] = eth]
    /\ asked' = asked \ {<<netif, ip>>}
    /\ IF for_us \/ Matching(ip, netif) # {}
       THEN LET i == etharp_find_entry(ip, netif) IN
            /\ Update(i, Found(ip, netif), eth)
            /\ Replace(i, Found(ip, netif))
       ELSE frames' = {} /\ UNCHANGED <<arp_table, since, used>>
    /\ UNCHANGED <<steady, cached>>

\* Mutant of AboutToExpire: the entry is requested again only once it is too old.
AboutToExpireM(e) == e.state = "STABLE" /\ e.ctime >= ARP_MAXAGE
\* An entry about to expire is requested again, once every two ticks.
AboutToExpire(e) == e.state = "STABLE" /\ e.ctime >= Unicast

\* etharp_output_to_arp_index: the frame is sent whether the request could be or not.
etharp_output_to_arp_index(netif, ip, i) ==
    LET e == arp_table[i] IN
    /\ frames' = {[hop |-> ip, eth |-> e.eth, netif |-> netif]}
    /\ used' = IF steady THEN used \cup {i} ELSE {}
    /\ IF AboutToExpire(e)
       THEN \E sent \in RawResults :
                /\ Request(IF sent THEN {<<netif, ip>>} ELSE {})
                /\ arp_table' = IF sent THEN [arp_table EXCEPT ![i].state = "REREQUESTING_1"]
                                ELSE arp_table
                /\ since' = IF sent THEN [since EXCEPT ![i] = 0] ELSE since
       ELSE Request({}) /\ UNCHANGED <<arp_table, since>>

Queued(e, q) == [e EXCEPT !.state = "PENDING", !.q = q]

\* Queues the packet on the pending entry i, freeing the one before. It may have to be
\* copied, and there may be no memory for that.
Queue(i, e, ip) ==
    \E q \in {ip} \cup (IF steady THEN {} ELSE {e.q}) :
        arp_table' = [arp_table EXCEPT ![i] = Queued(e, q)]

\* etharp_query of a packet: reached only when no entry for its next hop is stable.
etharp_query(netif, ip) ==
    LET i == etharp_find_entry(ip, netif)
        e == Found(ip, netif)
    IN  /\ Queue(i, e, ip)
        /\ IF e.state = "EMPTY"
           THEN Request({<<netif, ip>>}) ELSE Request({})
        /\ Replace(i, e)
        /\ frames' = {}
        /\ UNCHANGED cached

\* Mutant of Usable: the cached entry is taken if it is stable.
UsableM(i, ip, netif) ==
    arp_table[i].state \in Stable /\ arp_table[i].netif = netif
    /\ (i = cached \/ arp_table[i].ip = ip)
Usable(i, ip, netif) ==
    arp_table[i].state \in Stable /\ arp_table[i].netif = netif /\ arp_table[i].ip = ip

\* etharp_output of a packet with a unicast next hop. The frame's hop is the packet's.
etharp_output(netif, ip) ==
    LET stable == {i \in Index : Usable(i, ip, netif)}
        i == IF cached \in stable THEN cached ELSE Min(stable)
    IN  /\ IF stable = {} THEN etharp_query(netif, ip)
           ELSE cached' = i /\ etharp_output_to_arp_index(netif, ip, i)
        /\ UNCHANGED <<steady, known>>

-----------------------------------------------------------------------------
Expired(e) ==
    e.ctime + 1 >= ARP_MAXAGE \/ (e.state = "PENDING" /\ e.ctime + 1 >= ARP_MAXPENDING)

Ticked(e) ==
    [e EXCEPT !.ctime = @ + 1,
              !.state = IF @ = "REREQUESTING_1" THEN "REREQUESTING_2"
                        ELSE IF @ = "REREQUESTING_2" THEN "STABLE" ELSE @]

Aged(e) == IF e.state = "EMPTY" THEN e ELSE IF Expired(e) THEN Empty ELSE Ticked(e)

\* Every second. The addresses still pending are requested again.
etharp_tmr ==
    LET pending == {<<arp_table[i].netif, arp_table[i].ip>> :
                        i \in {j \in Index : arp_table[j].state = "PENDING" /\ ~Expired(arp_table[j])}}
    IN  /\ steady => /\ asked = {}
                     /\ \A i \in Index : arp_table[i].state \in Stable => i \in used
        /\ arp_table' = [i \in Index |-> Aged(arp_table[i])]
        /\ Request(pending)
        /\ since' = [i \in Index |-> IF Aged(arp_table[i]) = Empty \/ since[i] = 2 THEN 2
                                     ELSE since[i] + 1]
        /\ frames' = {}
        /\ used' = {}
        /\ UNCHANGED <<steady, cached, known>>

ArpNext ==
    \/ \E n \in Netifs, a \in Ips : etharp_output(n, a)
    \/ \E n \in Netifs, a \in Ips, e \in Eths, us \in BOOLEAN : etharp_input(n, a, e, us)
    \/ etharp_tmr

ArpSpec == ArpInit /\ [][ArpNext]_arp_vars

-----------------------------------------------------------------------------
ArpEntry ==
    [state : {"EMPTY", "PENDING"} \cup Stable, ip : Ips \cup {NULL}, eth : Eths \cup {NULL},
     netif : Netifs \cup {NULL}, ctime : Nat, q : Ips \cup {NULL}]

ArpTypeOK ==
    /\ steady \in BOOLEAN
    /\ arp_table \in [Index -> ArpEntry]
    /\ since \in [Index -> 0 .. 2]
    /\ known \in [Netifs -> [Ips -> Eths \cup {NULL}]]
    /\ \A i \in Index :
        arp_table[i].state # "EMPTY" => arp_table[i].ip \in Ips /\ arp_table[i].netif \in Netifs

\* No address has two entries for one interface, whether they were created by a packet to
\* send or by a request received: an answer would update only one of them.
EntriesUnique ==
    \A i, j \in Index :
        /\ arp_table[i].state # "EMPTY" /\ arp_table[j].state # "EMPTY"
        /\ arp_table[i].ip = arp_table[j].ip /\ arp_table[i].netif = arp_table[j].netif
        => i = j

\* A packet leaves for the Ethernet address its next hop announced last on that interface,
\* though etharp_cached_entry still names an entry that has expired, or has been
\* recycled for another address, since it was set.
FramesToNextHop ==
    \A f \in frames : f.eth = known[f.netif][f.hop]

EntryStep(i) ==
    LET e == arp_table[i]  f == arp_table'[i] IN
    /\ e.state \in Stable /\ e.state # "REREQUESTING_1" /\ f.state = "REREQUESTING_1"
       => since[i] = 2
    /\ steady /\ e.state \in Stable => f.state # "EMPTY"
    /\ /\ e.state = "PENDING" /\ f.state = "PENDING"
       /\ e.ip = f.ip /\ e.netif = f.netif
       => f.ctime >= e.ctime

\* What a step may do to an entry. An address in use is requested again at most once every
\* two ticks of etharp_tmr, however often packets are sent to it ("Don't send more than
\* one request every 2 seconds"). When packets are sent to every neighbour in each second
\* and it answers the requests, its entry does not expire: it is requested again early
\* enough (only etharp_tmr empties a stable entry). And an address that does not answer
\* is given up after ARP_MAXPENDING ticks, although new packets for it keep replacing the
\* one queued: nothing makes its entry younger.
EntryLife == [][\A i \in Index : EntryStep(i)]_arp_vars

\* What makes the three inductive: a stable entry has the address announced last and no
\* packet, one waiting on a pending entry is for its address, a request is followed by
\* two ticks or by an answer that makes the entry young, and under steady use an entry
\* that was used in this second is young, or a request for it is under way.
EntryInv(i) ==
    LET e == arp_table[i] IN
    /\ e.state = "PENDING" => e.q \in {NULL, e.ip}
    /\ e.state \in Stable => e.q = NULL /\ e.eth = known[e.netif][e.ip]
    /\ e.state = "STABLE" => since[i] = 2 \/ e.ctime <= since[i]
    /\ e.state = "REREQUESTING_2" => since[i] >= 1
    /\ steady =>
        /\ e.state # "REREQUESTING_2"
        /\ e.state = "REREQUESTING_1" => <<e.netif, e.ip>> \in asked
        /\ e.state = "STABLE" /\ i \in used => e.ctime < Unicast

ArpInv == ArpTypeOK /\ EntriesUnique /\ FramesToNextHop /\ \A i \in Index : EntryInv(i)
=============================================================================
