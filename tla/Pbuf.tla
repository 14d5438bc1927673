-------------------------------- MODULE Pbuf --------------------------------
(***************************************************************************)
(* The packet buffers of src/src/lwIP/core/pbuf.c: their chains, lengths   *)
(* and reference counts, used by callers that keep its rules, and the ECM  *)
(* driver that sends them.                                                 *)
(*                                                                         *)
(* A caller works on the head of a chain, and changes the shape of a chain *)
(* only when nobody else refers into it. The bytes are left out; `room' is *)
(* the space between the struct and the payload, 0 where the payload is    *)
(* somewhere else.                                                         *)
(***************************************************************************)
EXTENDS Integers, Sequences, FiniteSets, FiniteSetsExt, Functions

CONSTANTS
    NoPbuf,         \* the null pointer
    Pbufs,          \* the pbufs there is memory for
    MaxLen,         \* bound: the longest packet allocated
    BufSize,        \* what a pbuf of the pool holds
    Room,           \* the space pbuf_alloc leaves for headers
    Modulus,        \* lengths are u16_t: 65536
    MaxRef,         \* bound: references to one pbuf
    MaxOutput,      \* bound: transfers at a time
    MaxRefused      \* bound: transfers refused

ASSUME PbufAssumption ==
    /\ NoPbuf \notin Pbufs /\ IsFiniteSet(Pbufs)
    /\ MaxLen \in Nat /\ MaxLen < Modulus /\ Modulus \in Nat
    /\ BufSize \in Nat \ {0} /\ Room \in Nat /\ MaxRef \in Nat /\ MaxOutput \in Nat
    /\ MaxRefused \in Nat

VARIABLES
    heap,           \* each pbuf, NoPbuf when it is not allocated
    held,           \* the references callers have to each
    output,         \* the pbufs whose payload a transfer of the driver has
    leaked          \* history: the references the driver took for transfers it did not get

pbuf_vars == <<heap, held, output, leaked>>

Free == {p \in Pbufs : heap[p] = NoPbuf}
Allocated == Pbufs \ Free

\* The chain that starts at p.
RECURSIVE Chain(_, _)
Chain(h, p) == IF p = NoPbuf THEN <<>> ELSE <<p>> \o Chain(h, h[p].next)

InChain(h, p) == Range(Chain(h, p))
LastOf(h, p) == CHOOSE q \in InChain(h, p) : h[q].next = NoPbuf
SumOfLen(h, p) == MapThenSumSet(LAMBDA q : h[q].len, InChain(h, p))

\* The pointers to p inside pbufs: next, and the original of a pbuf that ip4_frag made.
Pointers(h, p) ==
    Cardinality({q \in Pbufs : h[q] # NoPbuf /\ h[q].next = p})
        + Cardinality({q \in Pbufs : h[q] # NoPbuf /\ h[q].original = p})

\* p is the head of a chain and a caller has it.
IsHead(p) ==
    /\ p \in Allocated /\ held[p] > 0
    /\ \A q \in Allocated : heap[q].next # p

\* Nobody else refers into the chain of p.
Unshared(p) ==
    \A q \in InChain(heap, p) \ {p} : heap[q].ref = 1

PbufInit ==
    /\ heap = [p \in Pbufs |-> NoPbuf]
    /\ held = [p \in Pbufs |-> 0]
    /\ output = {}
    /\ leaked = [p \in Pbufs |-> 0]

-----------------------------------------------------------------------------
\* pbuf_init_alloced_pbuf
New(next, len, tot_len, room) ==
    [next |-> next, len |-> len, tot_len |-> tot_len, ref |-> 1, room |-> room,
     contiguous |-> TRUE, original |-> NoPbuf]

\* The bytes of each pbuf of the pool: space for headers only in the first.
PoolLen(rem, first) == Min({rem, IF first THEN BufSize - Room ELSE BufSize})

\* pbuf_alloc with PBUF_POOL: the pbufs ps are allocated one after the other, for as long
\* as there are any.
RECURSIVE AllocPool(_, _, _, _)
AllocPool(h, ps, rem, first) ==
    IF ps = <<>> THEN h
    ELSE LET qlen == PoolLen(rem, first)
             next == IF Len(ps) > 1 THEN ps[2] ELSE NoPbuf
             h2 == [h EXCEPT ![Head(ps)] = New(next, qlen, rem, IF first THEN Room ELSE 0)]
         IN  AllocPool(h2, Tail(ps), rem - qlen, FALSE)

\* The number of pbufs a packet takes.
RECURSIVE PoolCount(_, _)
PoolCount(rem, first) ==
    IF rem - PoolLen(rem, first) > 0 THEN 1 + PoolCount(rem - PoolLen(rem, first), FALSE) ELSE 1

pbuf_alloc_ram(p, length) ==
    /\ p \in Free
    /\ heap' = [heap EXCEPT ![p] = New(NoPbuf, length, length, Room)]
    /\ held' = [held EXCEPT ![p] = 1]
    /\ UNCHANGED <<output, leaked>>

\* A pbuf of ip4_frag: it refers to bytes of another, and holds a reference to it.
pbuf_alloced_custom(p, original, length) ==
    /\ p \in Free /\ IsHead(original) /\ heap[original].contiguous
    /\ length <= heap[original].len
    /\ heap[original].ref < MaxRef
    /\ heap' = [heap EXCEPT ![original].ref = @ + 1,
                            ![p] = [New(NoPbuf, length, length, 0)
                                        EXCEPT !.contiguous = FALSE, !.original = original]]
    /\ held' = [held EXCEPT ![p] = 1]
    /\ UNCHANGED <<output, leaked>>

\* Mutant of pbuf_free: only the head of the chain is looked at.
pbuf_freeM(h, p) ==
    IF p = NoPbuf THEN h
    ELSE IF h[p].ref > 1 THEN [h EXCEPT ![p].ref = @ - 1]
    ELSE [h EXCEPT ![p] = NoPbuf]
\* The heap after pbuf_free: the pbufs whose count comes to 0 are freed, from the head.
\* The pbuf of ip4_frag gives its reference back first.
RECURSIVE FreeFrom(_, _)
FreeFrom(h, p) ==
    IF p = NoPbuf THEN h
    ELSE IF h[p].ref > 1 THEN [h EXCEPT ![p].ref = @ - 1]
    ELSE FreeFrom(FreeFrom([h EXCEPT ![p] = NoPbuf], h[p].original), h[p].next)
pbuf_free(h, p) == FreeFrom(h, p)

\* Memory is taken in some order; when it runs out the chain so far is freed again.
pbuf_alloc_pool(length) ==
    LET count == PoolCount(length, TRUE) IN
    /\ \E got \in 0 .. count : \E ps \in [1 .. got -> Free] :
        /\ IsInjective(ps)
        /\ LET chain == AllocPool(heap, ps, length, TRUE) IN
           IF got = count
           THEN heap' = chain /\ held' = [held EXCEPT ![ps[1]] = 1]
           ELSE heap' = pbuf_free(chain, IF got = 0 THEN NoPbuf ELSE ps[1]) /\ UNCHANGED held
    /\ UNCHANGED <<output, leaked>>

Release(p) ==
    /\ held[p] > 0
    /\ heap' = pbuf_free(heap, p)
    /\ held' = [held EXCEPT ![p] = @ - 1]
    /\ UNCHANGED <<output, leaked>>

pbuf_ref(p) ==
    /\ held[p] > 0
    /\ heap[p].ref < MaxRef
    /\ heap' = [heap EXCEPT ![p].ref = @ + 1]
    /\ held' = [held EXCEPT ![p] = @ + 1]
    /\ UNCHANGED <<output, leaked>>

-----------------------------------------------------------------------------
\* pbuf_cat: every total of the first chain grows, and may overflow.
Joined(h, t) ==
    LET chain == InChain(heap, h) IN
    [q \in Pbufs |->
        IF q \notin chain THEN heap[q]
        ELSE [heap[q] EXCEPT !.tot_len = (@ + heap[t].tot_len) % Modulus,
                             !.next = IF q = LastOf(heap, h) THEN t ELSE @]]

\* The two are chains of their own, and no packet comes behind what it is a fragment of.
MayJoin(h, t) ==
    /\ IsHead(h) /\ IsHead(t) /\ h # t
    /\ Unshared(h)
    /\ InChain(heap, h) \cap InChain(heap, t) = {}
    /\ \A q \in InChain(heap, t) : heap[q].original \notin InChain(heap, h)

\* The caller's reference to t becomes the chain's.
pbuf_cat(h, t) ==
    /\ MayJoin(h, t)
    /\ heap' = Joined(h, t)
    /\ held' = [held EXCEPT ![t] = @ - 1]
    /\ UNCHANGED <<output, leaked>>

\* The caller keeps its reference to t.
pbuf_chain(h, t) ==
    /\ MayJoin(h, t) /\ heap[t].ref < MaxRef
    /\ heap' = [Joined(h, t) EXCEPT ![t].ref = @ + 1]
    /\ UNCHANGED <<held, output, leaked>>

\* The tail is freed unless somebody else refers to it.
pbuf_dechain(p) ==
    /\ IsHead(p) /\ heap[p].next # NoPbuf
    /\ LET q == heap[p].next IN
       heap' = pbuf_free([heap EXCEPT ![p].next = NoPbuf, ![p].tot_len = heap[p].len,
                                      ![q].tot_len = (heap[p].tot_len - heap[p].len) % Modulus], q)
    /\ UNCHANGED <<held, output, leaked>>

\* Whether q stays whole, and the packet ends behind it.
Stays(h, q, rem_len) == rem_len > h[q].len

\* The chain of q is cut after rem_len bytes, the rest of it freed.
RECURSIVE Cut(_, _, _, _)
Cut(h, q, rem_len, shrink) ==
    IF Stays(h, q, rem_len)
    THEN Cut([h EXCEPT ![q].tot_len = (@ - shrink) % Modulus], h[q].next, rem_len - h[q].len, shrink)
    ELSE pbuf_free([h EXCEPT ![q].len = rem_len, ![q].tot_len = rem_len, ![q].next = NoPbuf],
                   h[q].next)

pbuf_realloc(p, new_len) ==
    /\ IsHead(p) /\ new_len < heap[p].tot_len /\ Unshared(p)
    /\ heap' = Cut(heap, p, new_len, heap[p].tot_len - new_len)
    /\ UNCHANGED <<held, output, leaked>>

HeaderFits(p, n) ==
    /\ (n + heap[p].tot_len) % Modulus >= n
    /\ heap[p].contiguous /\ heap[p].room >= n

pbuf_add_header(p, n) ==
    /\ IsHead(p) /\ HeaderFits(p, n)
    /\ heap' = [heap EXCEPT ![p].room = @ - n, ![p].len = (@ + n) % Modulus,
                            ![p].tot_len = (@ + n) % Modulus]
    /\ UNCHANGED <<held, output, leaked>>

HeaderRemoved(h, p, n) ==
    [h EXCEPT ![p].room = IF h[p].contiguous THEN @ + n ELSE @,
              ![p].len = @ - n, ![p].tot_len = (@ - n) % Modulus]

pbuf_remove_header(p, n) ==
    /\ IsHead(p) /\ n <= heap[p].len
    /\ heap' = HeaderRemoved(heap, p, n)
    /\ UNCHANGED <<held, output, leaked>>

\* What pbuf_free_header leaves, and its new head.
RECURSIVE HeaderFreed(_, _, _)
HeaderFreed(h, p, n) ==
    IF n = 0 \/ p = NoPbuf THEN [heap |-> h, head |-> p]
    ELSE IF n >= h[p].len
         THEN HeaderFreed(pbuf_free([h EXCEPT ![p].next = NoPbuf], p), h[p].next, n - h[p].len)
         ELSE [heap |-> HeaderRemoved(h, p, n), head |-> p]

\* The caller has the only reference, and gets one to the new head.
pbuf_free_header(p, n) ==
    LET freed == HeaderFreed(heap, p, n) IN
    /\ IsHead(p) /\ Unshared(p) /\ heap[p].ref = 1
    /\ heap' = freed.heap
    /\ held' = [q \in Pbufs |-> IF q = freed.head THEN 1 ELSE IF q = p THEN 0 ELSE held[q]]
    /\ UNCHANGED <<output, leaked>>

\* One pbuf with all the bytes of a chain.
pbuf_clone(p, q) ==
    /\ IsHead(p) /\ q \in Free
    /\ heap' = [heap EXCEPT ![q] = New(NoPbuf, heap[p].tot_len, heap[p].tot_len, Room)]
    /\ held' = [held EXCEPT ![q] = 1]
    /\ UNCHANGED <<output, leaked>>

-----------------------------------------------------------------------------
\* The driver keeps a reference while the transfer has the payload; it keeps it as well
\* when usb_ScheduleTransfer refuses the transfer, and then nobody gives it back.
ecm_netif_output(p) ==
    /\ IsHead(p) /\ p \notin output
    /\ heap[p].ref < MaxRef
    /\ heap' = [heap EXCEPT ![p].ref = @ + 1]
    /\ \/ /\ Cardinality(output) < MaxOutput
          /\ output' = output \cup {p}
          /\ UNCHANGED leaked
       \/ /\ SumFunction(leaked) < MaxRefused
          /\ leaked' = [leaked EXCEPT ![p] = @ + 1]
          /\ UNCHANGED output
    /\ UNCHANGED held

ecm_write_callback(p) ==
    /\ p \in output
    /\ heap' = pbuf_free(heap, p)
    /\ output' = output \ {p}
    /\ UNCHANGED <<held, leaked>>

PbufNext ==
    \/ \E n \in 1 .. MaxLen : pbuf_alloc_pool(n)
    \/ \E p \in Pbufs, n \in 1 .. MaxLen : \/ pbuf_alloc_ram(p, n)
                                           \/ pbuf_realloc(p, n - 1)
                                           \/ pbuf_add_header(p, n)
                                           \/ pbuf_remove_header(p, n)
                                           \/ pbuf_free_header(p, n)
    \/ \E p, q \in Pbufs : \/ pbuf_cat(p, q)
                           \/ pbuf_chain(p, q)
                           \/ pbuf_clone(p, q)
                           \/ \E n \in 1 .. MaxLen : pbuf_alloced_custom(p, q, n)
    \/ \E p \in Pbufs : \/ pbuf_ref(p)
                        \/ Release(p)
                        \/ pbuf_dechain(p)
                        \/ ecm_netif_output(p)
                        \/ ecm_write_callback(p)

PbufSpec == PbufInit /\ [][PbufNext]_pbuf_vars

-----------------------------------------------------------------------------
\* "The reference counter of a pbuf equals the number of pointers that refer to the pbuf":
\* the callers', the transfer's, the next pointers and the fragments made of it. So nothing
\* is freed that somebody has, and nothing that nobody has stays allocated, but for what the
\* driver keeps when a transfer is refused. And the head's total is the length of the packet,
\* a pbuf's the length of the rest of it, however it was joined, cut or shared: as a u16_t,
\* since pbuf_cat does not check it for overflow.
ChainsSound ==
    /\ \A p \in Pbufs :
        LET refs == held[p] + leaked[p] + Pointers(heap, p) + IF p \in output THEN 1 ELSE 0
        IN  IF heap[p] = NoPbuf THEN refs = 0 ELSE heap[p].ref = refs /\ refs > 0
    /\ \A p \in Allocated : heap[p].tot_len = SumOfLen(heap, p) % Modulus
=============================================================================
