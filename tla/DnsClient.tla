------------------------------ MODULE DnsClient ------------------------------
(***************************************************************************)
(* The DNS client of src/src/lwIP/core/dns.c, as irc_init and the HTTP     *)
(* client use it: dns_gethostbyname, the timer dns_tmr and the answers     *)
(* dns_recv gets from servers that may be late or silent, over a network   *)
(* that loses and repeats packets.                                         *)
(*                                                                         *)
(* lwIP runs in one thread: every call is one step. A call of a found      *)
(* callback may ask for a name in turn, before the function that called it *)
(* goes on; so each function of dns.c is an operator that takes the static *)
(* variables d and gives the set of values they may have when it returns.  *)
(***************************************************************************)
EXTENDS Integers, FiniteSets, FiniteSetsExt

CONSTANTS
    NONE,               \* the null pointer
    Callers,            \* callback arguments: at most one request each
    Names,
    Entries,            \* DNS_TABLE_SIZE, DNS_MAX_REQUESTS and DNS_MAX_SOURCE_PORTS
    Servers,            \* number of servers set, at most DNS_MAX_SERVERS
    Txids,
    DNS_MAX_RETRIES,
    Ttls,               \* lifetimes in answers, in timer ticks
    SeqMod,             \* 2^8: dns_seqno is a u8_t
    PcbFails,           \* whether udp_new may fail
    Reask,              \* whether a callback may ask for a name
    MaxQueries          \* bound on the queries under way

ASSUME DnsAssumption ==
    /\ Entries \in Nat \ {0} /\ Servers \in Nat \ {0}
    /\ Cardinality(Txids) >= Entries
    /\ DNS_MAX_RETRIES \in Nat /\ DNS_MAX_RETRIES >= 2

VARIABLE
    d           \* dns_table, dns_requests, dns_pcbs, dns_last_pcb_idx; the queries
                \* sent; the name each caller waits for; and the
                \* callbacks made in the last step

Slots == 1 .. Entries
NoPcb == 0              \* DNS_MAX_SOURCE_PORTS as an index

\* The fields of an entry that is not used are not read. age is dns_seqno - seqno, which
\* dns_enqueue compares.
Unused ==
    [state |-> "UNUSED", name |-> NONE, ipaddr |-> NONE, ttl |-> 0, txid |-> NONE,
     server_idx |-> 0, tmr |-> 0, retries |-> 0, age |-> 0, pcb_idx |-> NoPcb]
NoRequest == [found |-> NONE, dns_table_idx |-> 0]

DnsInit ==
    d = [table |-> [i \in Slots |-> Unused], requests |-> [i \in Slots |-> NoRequest],
         pcbs |-> [i \in Slots |-> FALSE], last_pcb_idx |-> 1, queries |-> {},
         waits |-> [c \in Callers |-> NONE], heard |-> {}]

-----------------------------------------------------------------------------
\* A query leaves; it may be lost at once, or never leave for lack of memory (Lose).
dns_send(s, i) ==
    LET e == s.table[i]
        query == [txid |-> e.txid, name |-> e.name, server |-> e.server_idx]
    IN  IF Cardinality(s.queries \cup {query}) > MaxQueries THEN {s}
        ELSE {[s EXCEPT !.queries = @ \cup {query}]}

dns_create_txid(s) ==
    {t \in Txids : \A i \in Slots : ~(s.table[i].state = "ASKING" /\ s.table[i].txid = t)}

dns_backupserver_available(e) == e.server_idx + 1 < Servers

\* The case DNS_STATE_NEW of dns_check_entry.
CheckNew(s, i) ==
    UNION {dns_send([s EXCEPT !.table[i] =
                        [@ EXCEPT !.txid = t, !.state = "ASKING", !.server_idx = 0,
                                  !.tmr = 1, !.retries = 0]], i) : t \in dns_create_txid(s)}

\* dns_alloc_pcb: a new pcb, or else the next one in use, or none.
dns_alloc_pcb(s, i) ==
    LET free == {p \in Slots : ~s.pcbs[p]}
        used == Slots \ free
        after(p) == IF p > s.last_pcb_idx THEN p ELSE p + Entries
        next == CHOOSE p \in used : \A q \in used : after(p) <= after(q)
        take(p) == [s EXCEPT !.pcbs[p] = TRUE, !.last_pcb_idx = p, !.table[i].pcb_idx = p]
    IN  (IF free # {} THEN {take(Min(free))} ELSE {})
        \cup (IF free = {} \/ PcbFails
              THEN {IF used # {} THEN take(next) ELSE [s EXCEPT !.table[i].pcb_idx = NoPcb]}
              ELSE {})

Asking(s, name) == {i \in Slots : s.table[i].state = "ASKING" /\ s.table[i].name = name}
FreeRequests(s) == {r \in Slots : s.requests[r].found = NONE}

\* The entry to use: an unused one, or the oldest completed one.
EntryToUse(s) ==
    LET unused == {i \in Slots : s.table[i].state = "UNUSED"}
        done == {i \in Slots : s.table[i].state = "DONE" /\ s.table[i].age > 0}
        oldest == {i \in done : \A j \in done : s.table[j].age <= s.table[i].age}
    IN  IF unused # {} THEN Min(unused) ELSE IF done # {} THEN Min(oldest) ELSE 0

\* ERR_MEM.
Refuse(s) == {s}

\* Waits for the answer: ERR_INPROGRESS.
Enqueued(s, c, name, r, i) ==
    [s EXCEPT !.requests[r] = [found |-> c, dns_table_idx |-> i], !.waits[c] = name]

\* The rest of dns_enqueue, with the entry i and the request r.
FillEntry(s, c, name, i, r) ==
    LET filled == [Enqueued(s, c, name, r, i) EXCEPT
                      !.table[i] = [Unused EXCEPT !.state = "NEW", !.name = name]]
        age(t, j) == IF j = i THEN 1 ELSE (t.table[j].age + 1) % SeqMod
        aged(t) == [t EXCEPT !.table = [j \in Slots |->
                       IF t.table[j].state = "UNUSED" THEN Unused
                       ELSE [t.table[j] EXCEPT !.age = age(t, j)]]]
    IN  UNION {IF t.table[i].pcb_idx = NoPcb
               THEN Refuse([s EXCEPT !.table[i] = Unused])
               ELSE CheckNew(aged(t), i) : t \in dns_alloc_pcb(filled, i)}

dns_enqueue(s, c, name) ==
    LET i == EntryToUse(s) IN
    IF Asking(s, name) # {} /\ FreeRequests(s) # {}
    THEN {Enqueued(s, c, name, Min(FreeRequests(s)), Min(Asking(s, name)))}
    ELSE IF i = 0 \/ FreeRequests(s) = {} THEN Refuse(s)
    ELSE FillEntry(s, c, name, i, Min(FreeRequests(s)))

Told(c, asking, name, addr) ==
    [caller |-> c, asked |-> asking, told |-> name, addr |-> addr]

\* dns_gethostbyname: answered from the table, or enqueued.
dns_gethostbyname(s, c, name) ==
    LET cached == {i \in Slots : s.table[i].state = "DONE" /\ s.table[i].name = name}
    IN  IF cached # {}
        THEN {[s EXCEPT !.heard = @ \cup {Told(c, name, name, s.table[Min(cached)].ipaddr)}]}
        ELSE dns_enqueue(s, c, name)

-----------------------------------------------------------------------------
\* The found callback of request r. It is called while the request is still in place.
Callback(s, r, name, addr) ==
    LET c == s.requests[r].found
        heard == [s EXCEPT !.heard = @ \cup {Told(c, s.waits[c], name, addr)},
                           !.waits[c] = NONE]
    IN  {[t EXCEPT !.requests[r] = NoRequest] :
            t \in {heard} \cup (IF Reask THEN UNION {dns_gethostbyname(heard, c, n) : n \in Names}
                               ELSE {})}

\* The loop of dns_call_found over the requests.
CallRequests(s, idx, addr) ==
    LET after[r \in 0 .. Entries] ==
            IF r = 0 THEN {s}
            ELSE UNION {IF t.requests[r].found # NONE /\ t.requests[r].dns_table_idx = idx
                        THEN Callback(t, r, t.table[idx].name, addr) ELSE {t} : t \in after[r - 1]}
    IN  after[Entries]

\* Mutant of ClosePcb: the pcb is closed whoever uses it.
ClosePcbM(s, idx) ==
    IF s.table[idx].pcb_idx = NoPcb THEN s
    ELSE [s EXCEPT !.pcbs[s.table[idx].pcb_idx] = FALSE, !.table[idx].pcb_idx = NoPcb]
\* The end of dns_call_found: the pcb is closed unless another request uses it.
ClosePcb(s, idx) ==
    LET pcb == s.table[idx].pcb_idx
        shared == \E i \in Slots \ {idx} :
                      s.table[i].state = "ASKING" /\ s.table[i].pcb_idx = pcb
    IN  IF shared \/ pcb = NoPcb THEN [s EXCEPT !.table[idx].pcb_idx = NoPcb]
        ELSE [s EXCEPT !.pcbs[pcb] = FALSE, !.table[idx].pcb_idx = NoPcb]

dns_call_found(s, idx, addr) == {ClosePcb(t, idx) : t \in CallRequests(s, idx, addr)}

\* A request that failed: the callbacks are called, then the entry is flushed.
Fail(s, i) == {[t EXCEPT !.table[i] = Unused] : t \in dns_call_found(s, i, NONE)}

\* The case DNS_STATE_ASKING: the timer has run out, and the server may have to change.
Retry(s, i) ==
    LET e == s.table[i] IN
    IF e.retries + 1 # DNS_MAX_RETRIES
    THEN dns_send([s EXCEPT !.table[i].retries = @ + 1, !.table[i].tmr = e.retries + 1], i)
    ELSE IF dns_backupserver_available(e)
    THEN dns_send([s EXCEPT !.table[i] = [@ EXCEPT !.server_idx = @ + 1, !.tmr = 1, !.retries = 0]], i)
    ELSE Fail(s, i)

\* Mutant of dns_check_entry: the wait for a retry never ends.
dns_check_entryM(s, i) ==
    LET e == s.table[i] IN
    CASE e.state = "UNUSED" -> {s}
      [] e.state = "NEW" -> CheckNew(s, i)
      [] e.state = "ASKING" /\ e.tmr > 1 -> {s}
      [] e.state = "ASKING" /\ e.tmr = 1 -> Retry(s, i)
      [] e.state = "DONE" ->
            {[s EXCEPT !.table[i] = IF e.ttl <= 1 THEN Unused ELSE [@ EXCEPT !.ttl = @ - 1]]}
dns_check_entry(s, i) ==
    LET e == s.table[i] IN
    CASE e.state = "UNUSED" -> {s}
      [] e.state = "NEW" -> CheckNew(s, i)
      [] e.state = "ASKING" /\ e.tmr > 1 -> {[s EXCEPT !.table[i].tmr = @ - 1]}
      [] e.state = "ASKING" /\ e.tmr = 1 -> Retry(s, i)
      [] e.state = "DONE" ->
            {[s EXCEPT !.table[i] = IF e.ttl <= 1 THEN Unused ELSE [@ EXCEPT !.ttl = @ - 1]]}

\* dns_check_entries goes through the table.
dns_check_entries(s) ==
    LET after[i \in 0 .. Entries] ==
            IF i = 0 THEN {s} ELSE UNION {dns_check_entry(t, i) : t \in after[i - 1]}
    IN  after[Entries]

\* An answer with an address. With no lifetime it is not kept, unless a callback has
\* reused the entry.
dns_correct_response(s, i, addr, ttl) ==
    LET done == [s EXCEPT !.table[i] = [@ EXCEPT !.state = "DONE", !.ttl = ttl, !.ipaddr = addr]]
    IN  {IF ttl = 0 /\ t.table[i].state = "DONE" THEN [t EXCEPT !.table[i] = Unused] ELSE t :
            t \in dns_call_found(done, i, addr)}

\* Mutant of Matches: the name in the answer is not compared.
MatchesM(e, query) == e.server_idx = query.server
\* The answer comes from the server asked and repeats the question.
Matches(e, query) == e.server_idx = query.server /\ e.name = query.name

\* dns_recv of an answer to the query: an address (the name itself), or "error", an error
\* code, or "none", no address.
dns_recv(s, query, kind, ttl) ==
    LET found == {i \in Slots : s.table[i].state = "ASKING" /\ s.table[i].txid = query.txid}
        i == Min(found)
    IN  IF found = {} THEN {s}
        ELSE IF ~Matches(s.table[i], query) THEN {s}
        ELSE IF kind = "address" THEN dns_correct_response(s, i, query.name, ttl)
        ELSE IF kind = "error" /\ dns_backupserver_available(s.table[i])
        THEN dns_check_entry([s EXCEPT !.table[i].retries = DNS_MAX_RETRIES - 1,
                                       !.table[i].tmr = 1], i)
        ELSE Fail(s, i)

-----------------------------------------------------------------------------
Quiet == [d EXCEPT !.heard = {}]

Ask(c, name) ==
    /\ d.waits[c] = NONE
    /\ d' \in dns_gethostbyname(Quiet, c, name)

dns_tmr == d' \in dns_check_entries(Quiet)

\* A server answers a query, which stays until Lose: the network may repeat it, or the
\* answer.
Answer(query, kind, ttl) == d' \in dns_recv(Quiet, query, kind, ttl)

Lose(query) == d' = [Quiet EXCEPT !.queries = @ \ {query}]

DnsNext ==
    \/ \E c \in Callers, name \in Names : Ask(c, name)
    \/ dns_tmr
    \/ \E query \in d.queries :
          \/ \E ttl \in Ttls : Answer(query, "address", ttl)
          \/ \E kind \in {"error", "none"} : Answer(query, kind, 0)
          \/ Lose(query)

DnsSpec == DnsInit /\ [][DnsNext]_d

-----------------------------------------------------------------------------
(* Properties *)

\* Exactly the callers that were told ERR_INPROGRESS and not called back yet have a
\* request, one each, and it hangs on the entry that asks for their name: so each is
\* called back once, and none is forgotten when the entry goes (dns_enqueue: "a callback
\* function to be called on success, failure or timeout"). A callback, or the return of
\* dns_gethostbyname, gives the address of the name asked for or none, however late the
\* answer and whatever its identifier was used for before.
CallersAnswered ==
    /\ \A c \in Callers :
          Cardinality({r \in Slots : d.requests[r].found = c}) = IF d.waits[c] = NONE THEN 0 ELSE 1
    /\ \A r \in Slots : d.requests[r].found # NONE =>
          d.requests[r].dns_table_idx \in Asking(d, d.waits[d.requests[r].found])
    /\ \A h \in d.heard : h.told = h.asked /\ h.addr \in {NONE, h.asked}

\* Of two queries under way, neither the identifiers nor the names are the same
\* (dns_create_txid, LWIP_DNS_SECURE_NO_MULTIPLE_OUTSTANDING), and a pcb is open exactly as
\* long as a query uses it, though queries may share one (dns_call_found: "close the pcb
\* used unless other request are using it").
QueriesSound ==
    LET asking == {i \in Slots : d.table[i].state = "ASKING"} IN
    /\ \A i, j \in asking :
          i # j => d.table[i].txid # d.table[j].txid /\ d.table[i].name # d.table[j].name
    /\ {p \in Slots : d.pcbs[p]} = {d.table[i].pcb_idx : i \in asking}

\* How far a query has come: through the servers, their retries, and the wait for the
\* next one.
Progress(e) ==
    (e.server_idx * DNS_MAX_RETRIES + e.retries) * DNS_MAX_RETRIES + (DNS_MAX_RETRIES - e.tmr)

\* A query that no server answers ends: every dns_tmr takes it further, nothing takes it
\* back, and how far it can come is bounded (dns_check_entry).
QueriesProgress ==
    [][\A i \in Slots :
        d.table[i].state = "ASKING" /\ d'.table[i].state = "ASKING" =>
            /\ Progress(d'.table[i]) >= Progress(d.table[i])
            /\ Progress(d'.table[i]) = Progress(d.table[i]) => ~dns_tmr]_d

=============================================================================
