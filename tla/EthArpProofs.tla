---------------------------- MODULE EthArpProofs ----------------------------
(***************************************************************************)
(* Proofs about EthArp for every size of the table, every number of        *)
(* neighbours and interfaces, and every choice of the ages.                *)
(***************************************************************************)
EXTENDS EthArp, WellFoundedInduction, TLAPS

\* The scans of etharp_find_entry and etharp_output, which take the first entry that
\* fits, find one when there is one.
LEMMA MinIsFirst ==
    ASSUME NEW S, S \subseteq Index, S # {}
    PROVE  Min(S) \in S
<1>1. S \subseteq Nat
  BY EthArpAssumption DEF Index
<1>2. PICK x \in S : \A y \in S : ~(<<y, x>> \in OpToRel(<, Nat))
  BY <1>1, NatLessThanWellFounded, WFMin
<1>3. \A y \in S : ~(y < x)
  BY <1>1, <1>2, Zenon DEF OpToRel
<1>4. \A y \in S : x <= y
  BY <1>1, <1>3
<1> QED
  BY <1>4 DEF Min

\* etharp_find_entry gives the entry of the address if there is one, else a new one; no
\* other entry is for that address.
LEMMA FindEntry ==
    ASSUME ArpInv, NEW ip \in Ips, NEW netif \in Netifs
    PROVE  LET i == etharp_find_entry(ip, netif)
               e == Found(ip, netif)
           IN  /\ \/ i \in Matching(ip, netif) /\ e = arp_table[i]
                  \/ Matching(ip, netif) = {} /\ e = Fresh(ip, netif)
               /\ e \in ArpEntry /\ e.ip = ip /\ e.netif = netif /\ e.q \in {NULL, ip}
               /\ \A j \in Index \ {i} : arp_table[j].state # "EMPTY" =>
                      ~(arp_table[j].ip = ip /\ arp_table[j].netif = netif)
<1> DEFINE i == etharp_find_entry(ip, netif)
           e == Found(ip, netif)
<1>1. CASE Matching(ip, netif) # {}
  <2>1. i \in Matching(ip, netif)
    BY <1>1, MinIsFirst DEF etharp_find_entry, Matching
  <2>2. i \in Index /\ e = arp_table[i] /\ e.state # "EMPTY" /\ e.ip = ip /\ e.netif = netif
    BY <2>1 DEF Found, Matching
  <2>3. e \in ArpEntry
    BY <2>2 DEF ArpInv, ArpTypeOK
  <2>4. e.q \in {NULL, ip}
    BY <2>2, <2>3 DEF ArpInv, EntryInv, ArpEntry
  <2>5. ASSUME NEW j \in Index \ {i}, arp_table[j].state # "EMPTY"
        PROVE  ~(arp_table[j].ip = ip /\ arp_table[j].netif = netif)
    BY <2>2, <2>5 DEF ArpInv, EntriesUnique
  <2> QED
    BY <2>1, <2>2, <2>3, <2>4, <2>5
<1>2. CASE Matching(ip, netif) = {}
  <2>1. e = Fresh(ip, netif)
    BY <1>2 DEF Found
  <2>2. e \in ArpEntry /\ e.ip = ip /\ e.netif = netif /\ e.q = NULL
    BY <2>1 DEF Fresh, ArpEntry
  <2> QED
    BY <1>2, <2>1, <2>2 DEF Matching
<1> QED
  BY <1>1, <1>2

-----------------------------------------------------------------------------
LEMMA InitInv == ArpInit => ArpInv
<1> SUFFICES ASSUME ArpInit PROVE ArpInv
  OBVIOUS
<1>1. ArpTypeOK
  BY EthArpAssumption DEF ArpInit, ArpTypeOK, ArpEntry, Empty, Fresh
<1> QED
  BY <1>1 DEF ArpInit, ArpInv, EntryInv, EntriesUnique, FramesToNextHop, Empty, Fresh, Stable

\* The entries after an ARP packet: a new one is young, has the address announced and no
\* packet.
LEMMA UpdateEntry ==
    ASSUME NEW e \in ArpEntry, NEW eth \in Eths
    PROVE  LET f == Updated(e, eth) IN
           /\ f \in ArpEntry /\ f.state = "STABLE" /\ f.ip = e.ip /\ f.netif = e.netif
           /\ f.eth = eth /\ f.ctime = 0 /\ f.q = NULL
BY Zenon DEF Updated, ArpEntry, Stable

\* A packet is queued on an entry, which keeps its age.
LEMMA QueueEntry ==
    ASSUME NEW e \in ArpEntry, NEW q \in Ips \cup {NULL}
    PROVE  LET f == Queued(e, q) IN
           /\ f \in ArpEntry /\ f.state = "PENDING" /\ f.ip = e.ip /\ f.netif = e.netif
           /\ f.ctime = e.ctime /\ f.q = q
BY Zenon DEF Queued, ArpEntry

\* What etharp_tmr does to an entry.
LEMMA AgedEntry ==
    ASSUME NEW e \in ArpEntry
    PROVE  LET f == Aged(e) IN
           \/ f = Empty
           \/ f = e /\ e.state = "EMPTY"
           \/ /\ f \in ArpEntry /\ ~Expired(e)
              /\ f.ip = e.ip /\ f.netif = e.netif /\ f.eth = e.eth /\ f.q = e.q
              /\ f.ctime = e.ctime + 1
              /\ f.state = IF e.state = "REREQUESTING_1" THEN "REREQUESTING_2"
                           ELSE IF e.state = "REREQUESTING_2" THEN "STABLE" ELSE e.state
<1> DEFINE t == e.ctime + 1
           s == IF e.state = "REREQUESTING_1" THEN "REREQUESTING_2"
                ELSE IF e.state = "REREQUESTING_2" THEN "STABLE" ELSE e.state
           f == [e EXCEPT !.ctime = t, !.state = s]
<1>1. t \in Nat /\ s \in {"EMPTY", "PENDING"} \cup Stable
  BY DEF ArpEntry, Stable
<1>2. Ticked(e) = f
  BY DEF Ticked
<1> HIDE DEF t, s
<1>3. /\ f \in ArpEntry /\ f.ctime = t /\ f.state = s
      /\ f.ip = e.ip /\ f.netif = e.netif /\ f.eth = e.eth /\ f.q = e.q
  BY <1>1, Zenon DEF ArpEntry
<1> HIDE DEF f
<1> QED
  BY <1>2, <1>3 DEF Aged, t, s

\* What is remembered of the use of the other entries stays.
LEMMA ReplaceKeeps ==
    ASSUME since \in [Index -> 0 .. 2], NEW i, NEW e, Replace(i, e)
    PROVE  /\ since' \in [Index -> 0 .. 2] /\ \A j \in Index \ {i} : since'[j] = since[j]
           /\ used' \subseteq used
<1> DEFINE kept == e.ip = arp_table[i].ip /\ e.netif = arp_table[i].netif
           n == IF kept THEN since[i] ELSE 2
<1>1. since' = [since EXCEPT ![i] = n] /\ used' \subseteq used
  BY DEF Replace
<1>2. i \in Index => n \in 0 .. 2
  OBVIOUS
<1> HIDE DEF n
<1> QED
  BY <1>1, <1>2

\* A change of one entry leaves one entry for each address if the new one is for an
\* address that no other entry has.
LEMMA UniqueKept ==
    ASSUME EntriesUnique, NEW i, NEW f,
           \A j \in Index : arp_table'[j] = IF j = i THEN f ELSE arp_table[j],
           \A j \in Index \ {i} : arp_table[j].state # "EMPTY" =>
                ~(arp_table[j].ip = f.ip /\ arp_table[j].netif = f.netif)
    PROVE  EntriesUnique'
<1> SUFFICES ASSUME NEW j \in Index, NEW k \in Index,
                    arp_table'[j].state # "EMPTY", arp_table'[k].state # "EMPTY",
                    arp_table'[j].ip = arp_table'[k].ip,
                    arp_table'[j].netif = arp_table'[k].netif
             PROVE  j = k
  BY DEF EntriesUnique
<1>1. CASE j # i /\ k # i
  BY <1>1 DEF EntriesUnique
<1>2. CASE j = i /\ k # i
  BY <1>2
<1>3. CASE j # i /\ k = i
  BY <1>3
<1> QED
  BY <1>1, <1>2, <1>3

\* So does a change that gives no entry another address.
LEMMA SameAddresses ==
    ASSUME EntriesUnique,
           \A j \in Index : arp_table'[j].state # "EMPTY" =>
                /\ arp_table[j].state # "EMPTY" /\ arp_table'[j].ip = arp_table[j].ip
                /\ arp_table'[j].netif = arp_table[j].netif
    PROVE  EntriesUnique'
<1> SUFFICES ASSUME NEW j \in Index, NEW k \in Index,
                    arp_table'[j].state # "EMPTY", arp_table'[k].state # "EMPTY",
                    arp_table'[j].ip = arp_table'[k].ip,
                    arp_table'[j].netif = arp_table'[k].netif
             PROVE  j = k
  BY DEF EntriesUnique
<1>1. /\ arp_table[j].state # "EMPTY" /\ arp_table[k].state # "EMPTY"
      /\ arp_table[j].ip = arp_table[k].ip /\ arp_table[j].netif = arp_table[k].netif
  OBVIOUS
<1> QED
  BY <1>1 DEF EntriesUnique

\* An entry that does not change keeps its invariant if what is known of its address
\* stays, and no request for it is answered.
LEMMA EntryKept ==
    ASSUME NEW j \in Index, EntryInv(j), steady' = steady,
           arp_table'[j] = arp_table[j], since'[j] = since[j],
           j \in used' => j \in used,
           NEW ip, ip = arp_table[j].ip, NEW netif, netif = arp_table[j].netif,
           arp_table[j].state # "EMPTY" =>
                /\ known'[netif][ip] = known[netif][ip]
                /\ steady /\ <<netif, ip>> \in asked => <<netif, ip>> \in asked'
    PROVE  EntryInv(j)'
BY DEF EntryInv, Stable

LEMMA SameEntryStep ==
    ASSUME ArpInv, NEW j \in Index, arp_table'[j] = arp_table[j]
    PROVE  EntryStep(j)
<1>1. arp_table[j].ctime \in Nat
  BY DEF ArpInv, ArpTypeOK, ArpEntry
<1> QED
  BY <1>1 DEF EntryStep, Stable

-----------------------------------------------------------------------------
\* An announcement keeps the invariant: it changes what is known of an address only
\* together with the one entry the address has.
LEMMA InputStep ==
    ASSUME ArpInv, NEW netif \in Netifs, NEW ip \in Ips, NEW eth \in Eths,
           NEW for_us \in BOOLEAN, etharp_input(netif, ip, eth, for_us)
    PROVE  ArpInv' /\ \A j \in Index : EntryStep(j)
<1> DEFINE i == etharp_find_entry(ip, netif)
           e == Found(ip, netif)
           f == Updated(e, eth)
<1>1. /\ arp_table \in [Index -> ArpEntry] /\ since \in [Index -> 0 .. 2]
      /\ steady \in BOOLEAN /\ known \in [Netifs -> [Ips -> Eths \cup {NULL}]]
  BY DEF ArpInv, ArpTypeOK
<1>2. steady' = steady /\ asked' = asked \ {<<netif, ip>>}
  BY DEF etharp_input
<1>3. /\ known' \in [Netifs -> [Ips -> Eths \cup {NULL}]]
      /\ known'[netif][ip] = eth
      /\ \A n \in Netifs, a \in Ips : ~(n = netif /\ a = ip) => known'[n][a] = known[n][a]
  BY <1>1 DEF etharp_input
<1>4. CASE for_us \/ Matching(ip, netif) # {}
  <2>1. /\ e \in ArpEntry /\ e.ip = ip /\ e.netif = netif /\ e.q \in {NULL, ip}
        /\ \A j \in Index \ {i} : arp_table[j].state # "EMPTY" =>
                ~(arp_table[j].ip = ip /\ arp_table[j].netif = netif)
    BY FindEntry
  <2>2. /\ f \in ArpEntry /\ f.state = "STABLE" /\ f.ip = ip /\ f.netif = netif
        /\ f.eth = eth /\ f.ctime = 0 /\ f.q = NULL
    BY <2>1, UpdateEntry
  <2>3. Update(i, e, eth) /\ Replace(i, e)
    BY <1>4 DEF etharp_input
  <2>4. /\ arp_table' = [arp_table EXCEPT ![i] = f]
        /\ frames' = IF e.q = NULL THEN {} ELSE {[hop |-> e.q, eth |-> eth, netif |-> e.netif]}
    BY <2>3 DEF Update
  <2>5. /\ since' \in [Index -> 0 .. 2] /\ \A j \in Index \ {i} : since'[j] = since[j]
        /\ used' \subseteq used
    BY <1>1, <2>3, ReplaceKeeps
  <2> HIDE DEF i, e, f
  <2>6. /\ arp_table' \in [Index -> ArpEntry]
        /\ \A j \in Index : arp_table'[j] = IF j = i THEN f ELSE arp_table[j]
    BY <1>1, <2>2, <2>4
  <2>7. ArpTypeOK'
    BY <1>1, <1>2, <1>3, <2>2, <2>5, <2>6 DEF ArpInv, ArpTypeOK
  <2>8. EntriesUnique'
    BY <2>1, <2>2, <2>6, UniqueKept DEF ArpInv
  <2>9. FramesToNextHop'
    BY <1>3, <2>1, <2>4 DEF FramesToNextHop
  <2>10. ASSUME NEW j \in Index PROVE EntryInv(j)'
    <3>1. CASE j = i
      BY <1>2, <1>3, <2>2, <2>5, <2>6, <3>1, EthArpAssumption DEF EntryInv, Stable
    <3>2. CASE j # i
      <4>1. /\ arp_table'[j] = arp_table[j] /\ since'[j] = since[j]
            /\ arp_table[j].state # "EMPTY" =>
                  /\ arp_table[j].ip \in Ips /\ arp_table[j].netif \in Netifs
                  /\ ~(arp_table[j].ip = ip /\ arp_table[j].netif = netif)
        BY <2>1, <2>5, <2>6, <3>2 DEF ArpInv, ArpTypeOK
      <4> DEFINE g == arp_table[j]
      <4>2. g.state # "EMPTY" =>
                /\ known'[g.netif][g.ip] = known[g.netif][g.ip]
                /\ <<g.netif, g.ip>> \in asked => <<g.netif, g.ip>> \in asked'
        BY <1>2, <1>3, <4>1
      <4>3. EntryInv(j) /\ (j \in used' => j \in used)
        BY <2>5 DEF ArpInv
      <4> QED
        BY <1>2, <4>1, <4>2, <4>3, EntryKept
    <3> QED
      BY <3>1, <3>2
  <2>11. ASSUME NEW j \in Index PROVE EntryStep(j)
    <3>1. CASE j = i
      BY <2>2, <2>6, <3>1 DEF EntryStep
    <3>2. CASE j # i
      BY <2>6, <3>2, SameEntryStep
    <3> QED
      BY <3>1, <3>2
  <2> QED
    BY <2>7, <2>8, <2>9, <2>10, <2>11 DEF ArpInv
<1>5. CASE ~(for_us \/ Matching(ip, netif) # {})
  <2>1. frames' = {} /\ UNCHANGED <<arp_table, since, used>>
    BY <1>5 DEF etharp_input
  <2>2. \A j \in Index : arp_table[j].state # "EMPTY" =>
            /\ arp_table[j].ip \in Ips /\ arp_table[j].netif \in Netifs
            /\ ~(arp_table[j].ip = ip /\ arp_table[j].netif = netif)
    BY <1>5 DEF Matching, ArpInv, ArpTypeOK
  <2>3. ArpTypeOK' /\ EntriesUnique' /\ FramesToNextHop'
    BY <1>2, <1>3, <2>1 DEF ArpInv, ArpTypeOK, EntriesUnique, FramesToNextHop
  <2>4. ASSUME NEW j \in Index PROVE EntryInv(j)' /\ EntryStep(j)
    <3>1. EntryInv(j)'
      <4> DEFINE g == arp_table[j]
      <4>1. g.state # "EMPTY" =>
                /\ known'[g.netif][g.ip] = known[g.netif][g.ip]
                /\ <<g.netif, g.ip>> \in asked => <<g.netif, g.ip>> \in asked'
        BY <1>2, <1>3, <2>2
      <4>2. EntryInv(j)
        BY DEF ArpInv
      <4> QED
        BY <1>2, <2>1, <4>1, <4>2, EntryKept
    <3>2. EntryStep(j)
      BY <2>1, SameEntryStep
    <3> QED
      BY <3>1, <3>2
  <2> QED
    BY <2>3, <2>4 DEF ArpInv
<1> QED
  BY <1>4, <1>5

\* A packet for an address that is not stable is queued on the one entry of the address.
LEMMA QueryStep ==
    ASSUME ArpInv, NEW netif \in Netifs, NEW ip \in Ips,
           \A i \in Index : ~Usable(i, ip, netif),
           etharp_query(netif, ip), UNCHANGED <<steady, known>>
    PROVE  ArpInv' /\ \A j \in Index : EntryStep(j)
<1> DEFINE i == etharp_find_entry(ip, netif)
           e == Found(ip, netif)
<1>1. /\ arp_table \in [Index -> ArpEntry] /\ since \in [Index -> 0 .. 2]
      /\ steady \in BOOLEAN /\ known \in [Netifs -> [Ips -> Eths \cup {NULL}]]
  BY DEF ArpInv, ArpTypeOK
<1>2. /\ e \in ArpEntry /\ e.ip = ip /\ e.netif = netif /\ e.q \in {NULL, ip}
      /\ \A j \in Index \ {i} : arp_table[j].state # "EMPTY" =>
              ~(arp_table[j].ip = ip /\ arp_table[j].netif = netif)
      /\ \/ i \in Index /\ e = arp_table[i]
         \/ Matching(ip, netif) = {}
  BY FindEntry DEF Matching
<1>3. PICK q \in {ip, e.q} : arp_table' = [arp_table EXCEPT ![i] = Queued(e, q)]
  <2>1. Queue(i, e, ip)
    BY DEF etharp_query
  <2> HIDE DEF i, e
  <2> QED
    BY <2>1 DEF Queue
<1>4. /\ frames' = {} /\ steady' = steady /\ known' = known /\ Replace(i, e)
      /\ steady => asked \subseteq asked'
  BY DEF etharp_query, Request
<1>5. /\ since' \in [Index -> 0 .. 2] /\ \A j \in Index \ {i} : since'[j] = since[j]
      /\ used' \subseteq used
  BY <1>1, <1>4, ReplaceKeeps
<1> DEFINE f == Queued(e, q)
<1>6. /\ f \in ArpEntry /\ f.state = "PENDING" /\ f.ip = ip /\ f.netif = netif
      /\ f.ctime = e.ctime /\ f.q \in {NULL, ip}
  <2>1. q \in Ips \cup {NULL}
    BY <1>2
  <2> HIDE DEF e
  <2> QED
    BY <1>2, <2>1, QueueEntry
<1> HIDE DEF i, e, f
<1>7. /\ arp_table' \in [Index -> ArpEntry]
      /\ \A j \in Index : arp_table'[j] = IF j = i THEN f ELSE arp_table[j]
  BY <1>1, <1>3, <1>6 DEF f
<1>8. ArpTypeOK'
  BY <1>1, <1>4, <1>5, <1>6, <1>7 DEF ArpInv, ArpTypeOK
<1>9. EntriesUnique' /\ FramesToNextHop'
  <2>1. EntriesUnique'
    <3>1. \A j \in Index \ {i} : arp_table[j].state # "EMPTY" =>
              ~(arp_table[j].ip = f.ip /\ arp_table[j].netif = f.netif)
      BY <1>2, <1>6
    <3>2. EntriesUnique
      BY DEF ArpInv
    <3> QED
      BY <1>7, <3>1, <3>2, UniqueKept
  <2> QED
    BY <1>4, <2>1 DEF FramesToNextHop
<1>10. ASSUME NEW j \in Index PROVE EntryInv(j)'
  <2>1. CASE j = i
    BY <1>6, <1>7, <2>1 DEF EntryInv, Stable
  <2>2. CASE j # i
    <3>1. arp_table'[j] = arp_table[j] /\ since'[j] = since[j] /\ (j \in used' => j \in used)
      BY <1>5, <1>7, <2>2
    <3>2. EntryInv(j)
      BY DEF ArpInv
    <3> QED
      BY <1>4, <3>1, <3>2, EntryKept
  <2> QED
    BY <2>1, <2>2
<1>11. ASSUME NEW j \in Index PROVE EntryStep(j)
  <2>1. arp_table[j].ctime \in Nat
    BY <1>1 DEF ArpEntry
  <2>2. CASE j = i /\ e = arp_table[j]
    <3>1. arp_table'[j].state = "PENDING" /\ arp_table'[j].ctime = arp_table[j].ctime
      BY <1>6, <1>7, <2>2
    <3>2. arp_table'[j].ctime >= arp_table[j].ctime
      BY <2>1, <3>1
    <3> QED
      BY <3>1, <3>2 DEF EntryStep
  <2>3. CASE j = i /\ Matching(ip, netif) = {}
    <3>1. arp_table'[j].state = "PENDING" /\ arp_table'[j].ip = ip /\ arp_table'[j].netif = netif
      BY <1>6, <1>7, <2>3
    <3>2. ~(arp_table[j].state = "PENDING" /\ arp_table[j].ip = ip /\ arp_table[j].netif = netif)
      BY <2>3 DEF Matching
    <3> QED
      BY <3>1, <3>2 DEF EntryStep
  <2>4. CASE j # i
    BY <1>7, <2>4, SameEntryStep
  <2> QED
    BY <1>2, <2>2, <2>3, <2>4
<1> QED
  BY <1>8, <1>9, <1>10, <1>11 DEF ArpInv

\* A packet sent through a stable entry, which may be requested again.
LEMMA SendStep ==
    ASSUME ArpInv, NEW netif \in Netifs, NEW ip \in Ips, NEW i \in Index,
           Usable(i, ip, netif),
           etharp_output_to_arp_index(netif, ip, i), UNCHANGED <<steady, known>>
    PROVE  ArpInv' /\ \A j \in Index : EntryStep(j)
<1> DEFINE e == arp_table[i]
           again == [e EXCEPT !.state = "REREQUESTING_1"]
<1>1. /\ arp_table \in [Index -> ArpEntry] /\ since \in [Index -> 0 .. 2]
      /\ steady \in BOOLEAN /\ known \in [Netifs -> [Ips -> Eths \cup {NULL}]]
      /\ e \in ArpEntry /\ e.ctime \in Nat
  BY DEF ArpInv, ArpTypeOK, ArpEntry
<1>2. e.state \in Stable /\ e.ip = ip /\ e.netif = netif /\ e.eth = known[netif][ip]
  BY DEF Usable, ArpInv, EntryInv
<1>3. FramesToNextHop'
  BY <1>2 DEF etharp_output_to_arp_index, FramesToNextHop
<1>4. steady => asked \subseteq asked' /\ used' = used \cup {i}
  BY DEF etharp_output_to_arp_index, Request
<1>5. CASE UNCHANGED <<arp_table, since>> /\ (steady => ~AboutToExpire(e))
  <2>1. ArpTypeOK' /\ EntriesUnique'
    BY <1>5 DEF ArpInv, ArpTypeOK, EntriesUnique
  <2>2. ASSUME NEW j \in Index PROVE EntryInv(j)'
    <3>1. CASE j = i
      <4>1. EntryInv(i) /\ (steady => asked \subseteq asked' /\ used' = used \cup {i})
        BY <1>4 DEF ArpInv
      <4>2. steady /\ e.state = "STABLE" => e.ctime < Unicast
        BY <1>1, <1>5, EthArpAssumption DEF AboutToExpire
      <4> QED
        BY <1>5, <3>1, <4>1, <4>2 DEF EntryInv
    <3>2. CASE j # i
      <4>1. EntryInv(j) /\ (steady => asked \subseteq asked' /\ (j \in used' => j \in used))
        BY <1>4, <3>2 DEF ArpInv
      <4> QED
        BY <1>5, <4>1 DEF EntryInv
    <3> QED
      BY <3>1, <3>2
  <2>3. ASSUME NEW j \in Index PROVE EntryStep(j)
    BY <1>5, SameEntryStep
  <2> QED
    BY <1>3, <2>1, <2>2, <2>3 DEF ArpInv
<1>6. CASE /\ e.state = "STABLE" /\ e.ctime >= Unicast
           /\ arp_table' = [arp_table EXCEPT ![i] = again]
           /\ since' = [since EXCEPT ![i] = 0]
           /\ steady => <<netif, ip>> \in asked'
  <2>1. /\ again \in ArpEntry /\ again.state = "REREQUESTING_1" /\ again.ip = ip
        /\ again.netif = netif /\ again.eth = e.eth /\ again.q = e.q /\ again.ctime = e.ctime
    BY <1>1, <1>2 DEF ArpEntry, Stable
  <2> HIDE DEF again
  <2>2. /\ arp_table' \in [Index -> ArpEntry]
        /\ \A j \in Index : arp_table'[j] = IF j = i THEN again ELSE arp_table[j]
        /\ since' \in [Index -> 0 .. 2]
        /\ \A j \in Index : since'[j] = IF j = i THEN 0 ELSE since[j]
    BY <1>1, <1>6, <2>1
  <2>3. ArpTypeOK'
    BY <1>1, <2>1, <2>2 DEF ArpInv, ArpTypeOK
  <2>4. EntriesUnique'
    <3>1. ASSUME NEW j \in Index
          PROVE  /\ arp_table'[j].ip = arp_table[j].ip /\ arp_table'[j].netif = arp_table[j].netif
                 /\ arp_table'[j].state # "EMPTY" => arp_table[j].state # "EMPTY"
      BY <1>2, <1>6, <2>1, <2>2
    <3>2. EntriesUnique
      BY DEF ArpInv
    <3> QED
      BY <3>1, <3>2, SameAddresses
  <2>5. ASSUME NEW j \in Index PROVE EntryInv(j)'
    <3>1. CASE j = i
      <4>1. EntryInv(i)
        BY DEF ArpInv
      <4>2. e.q = NULL /\ e.eth = known[netif][ip]
        BY <1>2, <4>1 DEF EntryInv
      <4>3. arp_table'[j] = again
        BY <2>2, <3>1
      <4> QED
        BY <1>6, <2>1, <4>2, <4>3 DEF EntryInv, Stable
    <3>2. CASE j # i
      <4>1. /\ arp_table'[j] = arp_table[j] /\ since'[j] = since[j] /\ EntryInv(j)
            /\ steady => asked \subseteq asked' /\ (j \in used' => j \in used)
        BY <1>4, <2>2, <3>2 DEF ArpInv
      <4> QED
        BY <4>1 DEF EntryInv
    <3> QED
      BY <3>1, <3>2
  <2>6. ASSUME NEW j \in Index PROVE EntryStep(j)
    <3>1. since[i] = 2
      <4>1. since[i] \in 0 .. 2 /\ (since[i] = 2 \/ e.ctime <= since[i])
        BY <1>1, <1>6 DEF ArpInv, EntryInv
      <4> QED
        BY <1>1, <1>6, <4>1, EthArpAssumption
    <3>2. CASE j = i
      BY <1>6, <2>1, <2>2, <3>1, <3>2 DEF EntryStep
    <3>3. CASE j # i
      BY <2>2, <3>3, SameEntryStep
    <3> QED
      BY <3>2, <3>3
  <2> QED
    BY <1>3, <2>3, <2>4, <2>5, <2>6 DEF ArpInv
<1>7. \/ UNCHANGED <<arp_table, since>> /\ (steady => ~AboutToExpire(e))
      \/ /\ e.state = "STABLE" /\ e.ctime >= Unicast
         /\ arp_table' = [arp_table EXCEPT ![i] = again]
         /\ since' = [since EXCEPT ![i] = 0]
         /\ steady => <<netif, ip>> \in asked'
  <2>1. CASE ~AboutToExpire(e)
    BY <2>1 DEF etharp_output_to_arp_index
  <2>2. CASE AboutToExpire(e)
    <3>1. PICK sent \in RawResults :
              /\ Request(IF sent THEN {<<netif, ip>>} ELSE {})
              /\ arp_table' = IF sent THEN [arp_table EXCEPT ![i].state = "REREQUESTING_1"]
                              ELSE arp_table
              /\ since' = IF sent THEN [since EXCEPT ![i] = 0] ELSE since
      BY <2>2 DEF etharp_output_to_arp_index
    <3>2. CASE sent = TRUE
      BY <2>2, <3>1, <3>2 DEF AboutToExpire, Request
    <3>3. CASE sent = FALSE
      BY <1>1, <3>1, <3>3 DEF RawResults
    <3> QED
      BY <3>1, <3>2, <3>3 DEF RawResults
  <2> QED
    BY <2>1, <2>2
<1> QED
  BY <1>5, <1>6, <1>7

\* etharp_output uses an entry of the packet's next hop, or asks for it.
LEMMA OutputStep ==
    ASSUME ArpInv, NEW netif \in Netifs, NEW ip \in Ips, etharp_output(netif, ip)
    PROVE  ArpInv' /\ \A j \in Index : EntryStep(j)
<1> DEFINE stable == {i \in Index : Usable(i, ip, netif)}
           i == IF cached \in stable THEN cached ELSE Min(stable)
<1>1. UNCHANGED <<steady, known>>
  BY DEF etharp_output
<1>2. CASE stable = {}
  <2>1. etharp_query(netif, ip)
    BY <1>2 DEF etharp_output
  <2> QED
    BY <1>1, <1>2, <2>1, QueryStep
<1>3. CASE stable # {}
  <2>1. i \in Index /\ Usable(i, ip, netif)
    BY <1>3, MinIsFirst
  <2>2. etharp_output_to_arp_index(netif, ip, i)
    BY <1>3 DEF etharp_output
  <2> HIDE DEF i
  <2> QED
    BY <1>1, <2>1, <2>2, SendStep
<1> QED
  BY <1>2, <1>3

\* A second passes: entries grow older by one, and under steady use none is old.
LEMMA TickStep ==
    ASSUME ArpInv, etharp_tmr
    PROVE  ArpInv' /\ \A j \in Index : EntryStep(j)
<1>1. /\ arp_table \in [Index -> ArpEntry] /\ since \in [Index -> 0 .. 2]
      /\ steady \in BOOLEAN /\ known \in [Netifs -> [Ips -> Eths \cup {NULL}]]
  BY DEF ArpInv, ArpTypeOK
<1>2. /\ arp_table' = [j \in Index |-> Aged(arp_table[j])]
      /\ since' = [j \in Index |-> IF Aged(arp_table[j]) = Empty \/ since[j] = 2 THEN 2
                                   ELSE since[j] + 1]
      /\ frames' = {} /\ used' = {} /\ steady' = steady /\ known' = known
  BY DEF etharp_tmr
<1>3. steady => /\ asked = {}
                /\ \A j \in Index : arp_table[j].state \in Stable => j \in used
  BY DEF etharp_tmr
<1>4. Empty \in ArpEntry /\ Empty.state = "EMPTY"
  BY DEF Empty, Fresh, ArpEntry
<1>5. ASSUME NEW j \in Index
      PROVE  LET e == arp_table[j]  f == arp_table'[j] IN
             /\ e \in ArpEntry /\ f \in ArpEntry
             /\ since'[j] \in 0 .. 2
             /\ f.state # "EMPTY" =>
                   /\ e.state # "EMPTY" /\ ~Expired(e)
                   /\ f.ip = e.ip /\ f.netif = e.netif /\ f.eth = e.eth /\ f.q = e.q
                   /\ f.ctime = e.ctime + 1
                   /\ f.state = IF e.state = "REREQUESTING_1" THEN "REREQUESTING_2"
                                ELSE IF e.state = "REREQUESTING_2" THEN "STABLE" ELSE e.state
                   /\ since'[j] = IF since[j] = 2 THEN 2 ELSE since[j] + 1
  <2> DEFINE e == arp_table[j]
             f == Aged(e)
  <2>1. e \in ArpEntry /\ since[j] \in 0 .. 2
    BY <1>1
  <2>2. /\ arp_table'[j] = f
        /\ since'[j] = IF f = Empty \/ since[j] = 2 THEN 2 ELSE since[j] + 1
    BY <1>2
  <2>3. \/ f = Empty
        \/ f = e /\ e.state = "EMPTY"
        \/ /\ f \in ArpEntry /\ ~Expired(e)
           /\ f.ip = e.ip /\ f.netif = e.netif /\ f.eth = e.eth /\ f.q = e.q
           /\ f.ctime = e.ctime + 1
           /\ f.state = IF e.state = "REREQUESTING_1" THEN "REREQUESTING_2"
                        ELSE IF e.state = "REREQUESTING_2" THEN "STABLE" ELSE e.state
    BY <2>1, AgedEntry
  <2> HIDE DEF e, f
  <2>4. f.state # "EMPTY" => f # Empty /\ f \in ArpEntry /\ e.state # "EMPTY"
    BY <1>4, <2>3
  <2>5. e \in ArpEntry /\ f \in ArpEntry /\ since'[j] \in 0 .. 2
    BY <1>4, <2>1, <2>2, <2>3
  <2> QED
    BY <1>4, <2>2, <2>3, <2>4, <2>5 DEF e
<1>6. ArpTypeOK'
  <2>1. arp_table' \in [Index -> ArpEntry] /\ since' \in [Index -> 0 .. 2]
    BY <1>2, <1>5
  <2> QED
    BY <1>1, <1>2, <1>5, <2>1 DEF ArpInv, ArpTypeOK
<1>7. EntriesUnique' /\ FramesToNextHop'
  <2>1. ASSUME NEW j \in Index, arp_table'[j].state # "EMPTY"
        PROVE  /\ arp_table[j].state # "EMPTY" /\ arp_table'[j].ip = arp_table[j].ip
               /\ arp_table'[j].netif = arp_table[j].netif
    BY <1>5, <2>1
  <2>2. EntriesUnique
    BY DEF ArpInv
  <2>3. EntriesUnique'
    BY <2>1, <2>2, SameAddresses
  <2> QED
    BY <1>2, <2>3 DEF FramesToNextHop
<1>8. ASSUME NEW j \in Index PROVE EntryInv(j)'
  <2>1. arp_table[j].ctime \in Nat /\ since[j] \in 0 .. 2 /\ EntryInv(j)
    BY <1>1 DEF ArpInv, ArpEntry
  <2>2. CASE arp_table'[j].state = "EMPTY"
    BY <2>2 DEF EntryInv, Stable
  <2>3. CASE arp_table'[j].state # "EMPTY"
    <3> DEFINE e == arp_table[j]
               f == arp_table'[j]
    <3>1. /\ f.ip = e.ip /\ f.netif = e.netif /\ f.eth = e.eth /\ f.q = e.q
          /\ f.ctime = e.ctime + 1
          /\ f.state = IF e.state = "REREQUESTING_1" THEN "REREQUESTING_2"
                       ELSE IF e.state = "REREQUESTING_2" THEN "STABLE" ELSE e.state
          /\ since'[j] = IF since[j] = 2 THEN 2 ELSE since[j] + 1
      BY <1>5, <2>3
    <3>2. /\ e.ctime \in Nat /\ since[j] \in 0 .. 2
          /\ e.state = "PENDING" => e.q \in {NULL, e.ip}
          /\ e.state \in Stable => e.q = NULL /\ e.eth = known[e.netif][e.ip]
          /\ e.state = "STABLE" => since[j] = 2 \/ e.ctime <= since[j]
          /\ e.state = "REREQUESTING_2" => since[j] >= 1
      BY <2>1 DEF EntryInv
    <3>3. steady => e.state \notin {"REREQUESTING_1", "REREQUESTING_2"}
      BY <1>3, <2>1 DEF EntryInv
    <3> HIDE DEF e, f
    <3>4. /\ f.state = "PENDING" => f.q \in {NULL, f.ip}
          /\ f.state \in Stable => f.q = NULL /\ f.eth = known'[f.netif][f.ip]
      BY <1>2, <3>1, <3>2 DEF Stable
    <3>5. /\ f.state = "STABLE" => since'[j] = 2 \/ f.ctime <= since'[j]
          /\ f.state = "REREQUESTING_2" => since'[j] >= 1
      BY <3>1, <3>2
    <3>6. steady' => f.state \notin {"REREQUESTING_1", "REREQUESTING_2"} /\ j \notin used'
      BY <1>2, <3>1, <3>3
    <3> QED
      BY <3>4, <3>5, <3>6 DEF EntryInv, f
  <2> QED
    BY <2>2, <2>3
<1>9. ASSUME NEW j \in Index PROVE EntryStep(j)
  <2>1. arp_table[j].ctime \in Nat /\ EntryInv(j)
    BY <1>1 DEF ArpInv, ArpEntry
  <2>2. ASSUME steady, arp_table[j].state \in Stable PROVE arp_table'[j].state # "EMPTY"
    <3>1. arp_table[j].state = "STABLE" /\ arp_table[j].ctime < Unicast
      BY <1>3, <2>1, <2>2 DEF EntryInv, Stable
    <3>2. ~Expired(arp_table[j])
      BY <2>1, <3>1, EthArpAssumption DEF Expired
    <3>3. arp_table'[j] = Ticked(arp_table[j])
      BY <1>2, <3>1, <3>2 DEF Aged
    <3>4. Ticked(arp_table[j]).state = "STABLE"
      BY <1>1, <3>1, Zenon DEF Ticked, ArpEntry
    <3> QED
      BY <3>3, <3>4
  <2> QED
    <3>1. arp_table'[j].state # "EMPTY" =>
              /\ arp_table'[j].ctime = arp_table[j].ctime + 1
              /\ arp_table'[j].state # "REREQUESTING_1"
      BY <1>5
    <3> QED
      BY <2>1, <2>2, <3>1 DEF EntryStep
<1> QED
  BY <1>6, <1>7, <1>8, <1>9 DEF ArpInv

-----------------------------------------------------------------------------
LEMMA NextStep ==
    ASSUME ArpInv, ArpNext
    PROVE  ArpInv' /\ \A j \in Index : EntryStep(j)
BY InputStep, OutputStep, TickStep DEF ArpNext

LEMMA StutterInv ==
    ASSUME ArpInv, UNCHANGED arp_vars
    PROVE  ArpInv'
BY DEF ArpInv, ArpTypeOK, EntriesUnique, FramesToNextHop, EntryInv, arp_vars

LEMMA ArpInvariant == ArpSpec => []ArpInv
<1>1. ArpInv /\ [ArpNext]_arp_vars => ArpInv'
  BY NextStep, StutterInv
<1> QED
  BY InitInv, <1>1, PTL DEF ArpSpec

\* No two entries of the table are for one address of one interface, although packets to
\* send and packets received create entries, and full tables recycle them.
THEOREM ArpEntriesUnique == ArpSpec => []EntriesUnique
<1>1. ArpInv => EntriesUnique
  BY DEF ArpInv
<1> QED
  BY ArpInvariant, <1>1, PTL

\* etharp_output, with its cached index, and the packet queued on a pending entry reach the
\* Ethernet address the next hop announced last.
THEOREM ArpFramesToNextHop == ArpSpec => []FramesToNextHop
<1>1. ArpInv => FramesToNextHop
  BY DEF ArpInv
<1> QED
  BY ArpInvariant, <1>1, PTL

\* etharp_tmr and the requests for entries about to expire: an entry in steady use does not
\* expire, is not requested twice within two ticks, and one that is pending only ages.
THEOREM ArpEntryLife == ArpSpec => EntryLife
<1>1. ArpInv /\ [ArpNext]_arp_vars => [\A i \in Index : EntryStep(i)]_arp_vars
  BY NextStep
<1> QED
  BY ArpInvariant, <1>1, PTL DEF ArpSpec, EntryLife
=============================================================================
