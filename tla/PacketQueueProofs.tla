------------------------- MODULE PacketQueueProofs -------------------------
(***************************************************************************)
(* Proofs about PacketQueue for every ring size an int8_t index allows and *)
(* every set of pointers.                                                  *)
(***************************************************************************)
EXTENDS PacketQueue, SequenceTheorems, TLAPS

\* The index update of queue_add and queue_get (queue.c:15-16, 35-36) steps
\* cyclically through the slots, although the sum is stored in an int8_t
\* before the remainder is taken; -1 (the empty queue) steps to slot 0.
LEMMA NextIndexCyclic ==
    ASSUME NEW i \in Slots \cup {-1}
    PROVE  /\ NextIndex(i) = IF i = QUEUE_NUM_ELEMS - 1 THEN 0 ELSE i + 1
           /\ NextIndex(i) \in Slots
<1> DEFINE N == QUEUE_NUM_ELEMS
<1>1. N \in Nat /\ 1 <= N /\ N <= 128
  BY QueueAssumption
<1>2. i \in Int /\ -1 <= i /\ i < N
  BY <1>1 DEF Slots
<1>3. CASE i = 127
  <2>1. N = 128
    BY <1>1, <1>2, <1>3
  <2>2. NextIndex(i) = 0
    BY <1>3, <2>1 DEF NextIndex, CRem, Int8
  <2> QED
    BY <1>3, <2>1, <2>2 DEF Slots
<1>4. CASE i # 127
  <2>1. Int8(i + 1) = i + 1
    BY <1>1, <1>2, <1>4 DEF Int8
  <2>2. NextIndex(i) = (i + 1) % N
    BY <1>2, <2>1 DEF NextIndex, CRem
  <2>3. CASE i = N - 1
    <3>1. N % N = 0
      BY <1>1
    <3> QED
      BY <1>1, <2>2, <2>3, <3>1 DEF Slots
  <2>4. CASE i # N - 1
    <3>1. i + 1 \in 0 .. N - 1
      BY <1>1, <1>2, <2>4
    <3>2. (i + 1) % N = i + 1
      BY <1>1, <3>1
    <3> QED
      BY <2>2, <2>4, <3>1, <3>2 DEF Slots
  <2> QED
    BY <2>3, <2>4
<1> QED
  BY <1>3, <1>4

-----------------------------------------------------------------------------

\* The guard of queue_add (queue.c:9-12) recognises exactly the rings that
\* hold QUEUE_NUM_ELEMS elements, wrapped or not.
LEMMA FullIsCapacity ==
    ASSUME NEW q, WellFormed(q)
    PROVE  /\ QueueLen(q) \in 0 .. QUEUE_NUM_ELEMS
           /\ queue_full(q) <=> QueueLen(q) = QUEUE_NUM_ELEMS
           /\ queue_empty(q) <=> QueueLen(q) = 0
<1> DEFINE N == QUEUE_NUM_ELEMS
<1>1. N \in Nat /\ 1 <= N
  BY QueueAssumption
<1>2. /\ q.first \in 0 .. N - 1 /\ q.last \in -1 .. N - 1
      /\ q.last = -1 => q.first = 0
  BY <1>1 DEF WellFormed, Slots, queue_empty
<1>3. CASE q.last = -1
  BY <1>1, <1>2, <1>3 DEF QueueLen, queue_full, queue_empty
<1>4. CASE q.last # -1 /\ q.first <= q.last
  BY <1>1, <1>2, <1>4 DEF QueueLen, queue_full, queue_empty
<1>5. CASE q.last # -1 /\ ~(q.first <= q.last)
  BY <1>1, <1>2, <1>5 DEF QueueLen, queue_full, queue_empty
<1> QED
  BY <1>3, <1>4, <1>5

\* A well-formed ring holds a sequence of queued pointers.
LEMMA ContentsSeq ==
    ASSUME NEW q, WellFormed(q)
    PROVE  /\ Contents(q) \in Seq(Elems)
           /\ Len(Contents(q)) = QueueLen(q)
<1>1. QueueLen(q) \in Nat
  BY FullIsCapacity, QueueAssumption
<1> QED
  BY <1>1 DEF Contents, WellFormed

\* queue_add on a ring that is not full writes the new pointer behind the
\* queued ones and disturbs none of them.
LEMMA PushAppends ==
    ASSUME NEW q, WellFormed(q), ~queue_full(q), NEW e \in Elems
    PROVE  /\ WellFormed(queue_push(q, e))
           /\ Contents(queue_push(q, e)) = Append(Contents(q), e)
<1> DEFINE N == QUEUE_NUM_ELEMS
           r == queue_push(q, e)
           k == QueueLen(q)
<1>1. /\ N \in 1 .. 128
      /\ q.first \in 0 .. N - 1
      /\ q.last \in -1 .. N - 1
      /\ q.last = -1 => q.first = 0
      /\ ~(q.first = q.last + 1 /\ q.last # -1)
      /\ ~(q.first = 0 /\ q.last = N - 1)
  BY QueueAssumption DEF WellFormed, Slots, queue_empty, queue_full
<1>2. k \in 0 .. N - 1
  BY FullIsCapacity, QueueAssumption
<1>3. /\ r.first = q.first
      /\ r.last = (IF q.last = N - 1 THEN 0 ELSE q.last + 1)
      /\ r.last \in 0 .. N - 1
  BY <1>1, NextIndexCyclic DEF queue_push, WellFormed, Slots
<1>4. /\ q.elems \in [0 .. N - 1 -> Elems \cup {NULL}]
      /\ r.elems = [q.elems EXCEPT ![r.last] = e]
      /\ r \in [first : Slots, last : Slots \cup {-1},
                elems : [Slots -> Elems \cup {NULL}]]
  BY <1>1, NextIndexCyclic DEF queue_push, WellFormed, Slots
<1> HIDE DEF r
<1>5. QueueLen(r) = k + 1
  BY <1>1, <1>2, <1>3 DEF QueueLen, queue_empty
<1>6. SlotAt(r, k) = r.last
  BY <1>1, <1>2, <1>3 DEF SlotAt, QueueLen, queue_empty
<1>7. \A i \in 0 .. k - 1 : /\ SlotAt(r, i) = SlotAt(q, i)
                            /\ SlotAt(r, i) \in 0 .. N - 1
                            /\ SlotAt(r, i) # r.last
  BY <1>1, <1>2, <1>3 DEF SlotAt, QueueLen, queue_empty
<1>8. r.elems[r.last] = e
  BY <1>3, <1>4
<1>9. \A i \in 1 .. k : r.elems[SlotAt(r, i - 1)] = q.elems[SlotAt(q, i - 1)]
  <2> SUFFICES ASSUME NEW i \in 1 .. k
               PROVE  r.elems[SlotAt(r, i - 1)] = q.elems[SlotAt(q, i - 1)]
    OBVIOUS
  <2>1. i - 1 \in 0 .. k - 1
    BY <1>2
  <2> QED
    BY <1>4, <1>7, <2>1
<1>10. WellFormed(r)
  <2>1. \A i \in 1 .. k + 1 : r.elems[SlotAt(r, i - 1)] \in Elems
    <3> SUFFICES ASSUME NEW i \in 1 .. k + 1
                 PROVE  r.elems[SlotAt(r, i - 1)] \in Elems
      OBVIOUS
    <3>1. CASE i = k + 1
      BY <1>2, <1>6, <1>8, <3>1
    <3>2. CASE i \in 1 .. k
      BY <1>9, <3>2 DEF WellFormed
    <3> QED
      BY <1>1, <1>2, <3>1, <3>2
  <2> QED
    BY <1>3, <1>4, <1>5, <2>1 DEF WellFormed, queue_empty
<1>11. /\ Contents(q) \in Seq(Elems)
       /\ Len(Contents(q)) = k
       /\ Contents(r) \in Seq(Elems)
       /\ Len(Contents(r)) = k + 1
  BY <1>5, <1>10, ContentsSeq
<1>12. \A i \in 1 .. k + 1 : Contents(r)[i] = Append(Contents(q), e)[i]
  <2> SUFFICES ASSUME NEW i \in 1 .. k + 1
               PROVE  Contents(r)[i] = Append(Contents(q), e)[i]
    OBVIOUS
  <2>1. CASE i = k + 1
    BY <1>2, <1>5, <1>6, <1>8, <1>11, <2>1 DEF Contents
  <2>2. CASE i \in 1 .. k
    <3>1. Contents(r)[i] = r.elems[SlotAt(r, i - 1)]
      BY <1>5 DEF Contents
    <3>2. Contents(q)[i] = q.elems[SlotAt(q, i - 1)]
      BY <2>2 DEF Contents
    <3> QED
      BY <1>2, <1>9, <1>11, <2>2, <3>1, <3>2
  <2>3. i = k + 1 \/ i \in 1 .. k
    BY <1>1, <1>2
  <2> QED
    BY <2>1, <2>2, <2>3
<1>13. Contents(r) = Append(Contents(q), e)
  <2>1. /\ Append(Contents(q), e) \in Seq(Elems)
        /\ Len(Append(Contents(q), e)) = k + 1
    BY <1>11
  <2> HIDE DEF k
  <2> QED
    BY <1>11, <1>12, <2>1, SeqEqual
<1> QED
  BY <1>10, <1>13 DEF r

\* queue_init empties the ring whatever it held.
LEMMA ResetEmpties ==
    ASSUME NEW q,
           q \in [first : Slots, last : Slots \cup {-1},
                  elems : [Slots -> Elems \cup {NULL}]]
    PROVE  /\ WellFormed(queue_init(q))
           /\ Contents(queue_init(q)) = << >>
<1>0. 0 \in Slots
  BY QueueAssumption DEF Slots
<1>1. /\ queue_init(q).first = 0 /\ queue_init(q).last = -1
      /\ queue_init(q) \in [first : Slots, last : Slots \cup {-1},
                            elems : [Slots -> Elems \cup {NULL}]]
  BY <1>0 DEF queue_init
<1>2. QueueLen(queue_init(q)) = 0
  BY <1>1 DEF QueueLen, queue_empty
<1>3. WellFormed(queue_init(q))
  BY <1>1, <1>2 DEF WellFormed
<1> QED
  BY <1>2, <1>3, ContentsSeq

\* queue_get on a ring that is not empty hands out the oldest pointer and
\* leaves the others as they were, also when it rewinds the indices.
LEMMA PopTakesHead ==
    ASSUME NEW q, WellFormed(q), ~queue_empty(q)
    PROVE  /\ WellFormed(queue_pop(q))
           /\ q.elems[q.first] = Head(Contents(q))
           /\ Contents(queue_pop(q)) = Tail(Contents(q))
<1> DEFINE N == QUEUE_NUM_ELEMS
           r == queue_pop(q)
           k == QueueLen(q)
<1>1. /\ N \in 1 .. 128
      /\ q.first \in 0 .. N - 1
      /\ q.last \in 0 .. N - 1
  BY QueueAssumption DEF WellFormed, Slots, queue_empty
<1>2. k \in 1 .. N
  BY FullIsCapacity, QueueAssumption
<1>3. /\ Contents(q) \in Seq(Elems)
      /\ Len(Contents(q)) = k
  BY ContentsSeq
<1>4. q.elems[q.first] = Head(Contents(q))
  BY <1>1, <1>2, <1>3 DEF Contents, SlotAt
<1>5. CASE q.first = q.last
  <2>1. k = 1
    BY <1>1, <1>5 DEF QueueLen, queue_empty
  <2>2. r = queue_init(q)
    BY <1>5 DEF queue_pop
  <2>3. WellFormed(r) /\ Contents(r) = << >>
    BY <2>2, ResetEmpties DEF WellFormed
  <2> HIDE DEF k
  <2>4. Tail(Contents(q)) = << >>
    <3>1. Tail(Contents(q)) \in Seq(Elems) /\ Len(Tail(Contents(q))) = 0
      BY <1>3, <2>1, HeadTailProperties, SMTT(30)
    <3> QED
      BY <3>1, EmptySeq
  <2> QED
    BY <1>4, <2>3, <2>4
<1>6. CASE q.first # q.last
  <2>1. /\ r.first = (IF q.first = N - 1 THEN 0 ELSE q.first + 1)
        /\ r.last = q.last
        /\ r.first \in 0 .. N - 1
    BY <1>1, <1>6, NextIndexCyclic DEF queue_pop, WellFormed, Slots
  <2>1a. /\ r.elems = q.elems
        /\ r \in [first : Slots, last : Slots \cup {-1},
                  elems : [Slots -> Elems \cup {NULL}]]
    BY <1>1, <1>6, NextIndexCyclic DEF queue_pop, WellFormed, Slots
  <2> HIDE DEF r
  <2>2. QueueLen(r) = k - 1
    BY <1>1, <1>2, <1>6, <2>1 DEF QueueLen, queue_empty
  <2>3. \A i \in 1 .. k - 1 : SlotAt(r, i - 1) = SlotAt(q, i)
    BY <1>1, <1>2, <1>6, <2>1 DEF SlotAt, QueueLen, queue_empty
  <2>4. \A i \in 1 .. k - 1 : q.elems[SlotAt(q, i)] \in Elems
    <3> SUFFICES ASSUME NEW i \in 1 .. k - 1
                 PROVE  q.elems[SlotAt(q, i)] \in Elems
      OBVIOUS
    <3>1. i + 1 \in 1 .. k /\ (i + 1) - 1 = i
      BY <1>2
    <3> QED
      BY <3>1 DEF WellFormed
  <2>5. WellFormed(r)
    BY <1>1, <2>1, <2>1a, <2>2, <2>3, <2>4 DEF WellFormed, queue_empty
  <2>6. /\ Contents(r) \in Seq(Elems)
        /\ Len(Contents(r)) = k - 1
    BY <2>2, <2>5, ContentsSeq
  <2>7. \A i \in 1 .. k - 1 : Contents(r)[i] = Contents(q)[i + 1]
    <3> SUFFICES ASSUME NEW i \in 1 .. k - 1
                 PROVE  Contents(r)[i] = Contents(q)[i + 1]
      OBVIOUS
    <3>1. i + 1 \in 1 .. k /\ (i + 1) - 1 = i
      BY <1>2
    <3>2. Contents(q)[i + 1] = q.elems[SlotAt(q, i)]
      BY <3>1 DEF Contents
    <3>3. Contents(r)[i] = r.elems[SlotAt(r, i - 1)]
      BY <2>2 DEF Contents
    <3> QED
      BY <2>1a, <2>3, <3>2, <3>3
  <2>8. Contents(r) = Tail(Contents(q))
    <3>1. /\ Tail(Contents(q)) \in Seq(Elems)
          /\ Len(Tail(Contents(q))) = k - 1
          /\ \A i \in 1 .. k - 1 : Tail(Contents(q))[i] = Contents(q)[i + 1]
      BY <1>2, <1>3
    <3> HIDE DEF k
    <3> QED
      BY <2>6, <2>7, <3>1, SeqEqual
  <2> QED
    BY <1>4, <2>5, <2>8 DEF r
<1> QED
  BY <1>5, <1>6

-----------------------------------------------------------------------------

\* The initial ring is well formed and empty, whatever its slots hold.
LEMMA InitEmpty == Init => QueueInv /\ Contents(queue) = << >>
<1> SUFFICES ASSUME Init PROVE QueueInv /\ Contents(queue) = << >>
  OBVIOUS
<1>1. /\ queue.first = 0 /\ queue.last = -1
      /\ queue \in [first : Slots, last : Slots \cup {-1},
                    elems : [Slots -> Elems \cup {NULL}]]
  BY QueueAssumption DEF Init, Slots
<1>2. QueueLen(queue) = 0
  BY <1>1 DEF QueueLen, queue_empty
<1>3. WellFormed(queue)
  BY <1>1, <1>2 DEF WellFormed
<1> QED
  BY <1>2, <1>3, ContentsSeq, EmptySeq DEF QueueInv

\* Every call keeps the ring well formed.
LEMMA QueueInvStep == QueueInv /\ [Next]_vars => QueueInv'
<1> SUFFICES ASSUME QueueInv, [Next]_vars PROVE QueueInv'
  OBVIOUS
<1>1. ASSUME NEW e \in Elems, queue_add(e) PROVE QueueInv'
  BY <1>1, PushAppends DEF QueueInv, queue_add
<1>2. CASE queue_get
  BY <1>2, PopTakesHead DEF QueueInv, queue_get
<1>3. CASE queue_reset
  BY <1>3, ResetEmpties DEF QueueInv, queue_reset, WellFormed
<1>4. CASE UNCHANGED vars
  BY <1>4 DEF QueueInv, vars
<1> QED
  BY <1>1, <1>2, <1>3, <1>4 DEF Next

\* QueueInv holds in every reachable state, for every ring size up to the
\* 128 slots an int8_t index can address.
THEOREM QueueSafety == Spec => []QueueInv
<1>1. Init => QueueInv
  BY InitEmpty
<1> QED
  BY <1>1, QueueInvStep, PTL DEF Spec

\* A call on a well-formed ring is the same call on the abstract queue.
LEMMA FifoStep == QueueInv /\ [Next]_vars => [Fifo!Next]_(Fifo!vars)
<1> SUFFICES ASSUME QueueInv, [Next]_vars PROVE [Fifo!Next]_(Fifo!vars)
  OBVIOUS
<1>0. WellFormed(queue)
  BY DEF QueueInv
<1>1. ASSUME NEW e \in Elems, queue_add(e) PROVE Fifo!Add(e)
  <2>1. CASE queue_full(queue)
    <3>1. Len(Contents(queue)) = QUEUE_NUM_ELEMS
      BY <1>0, <2>1, FullIsCapacity, ContentsSeq
    <3> QED
      BY <1>1, <2>1, <3>1 DEF queue_add, Fifo!Add
  <2>2. CASE ~queue_full(queue)
    <3>1. Len(Contents(queue)) < QUEUE_NUM_ELEMS
      BY <1>0, <2>2, FullIsCapacity, ContentsSeq, QueueAssumption
    <3>2. Contents(queue)' = Append(Contents(queue), e)
      BY <1>0, <1>1, <2>2, PushAppends DEF queue_add
    <3> QED
      BY <1>1, <2>2, <3>1, <3>2 DEF queue_add, Fifo!Add
  <2> QED
    BY <2>1, <2>2
<1>2. CASE queue_get
  <2>1. CASE queue_empty(queue)
    <3>1. Contents(queue) = << >>
      BY <1>0, <2>1, FullIsCapacity, ContentsSeq, EmptySeq
    <3> QED
      BY <1>2, <2>1, <3>1 DEF queue_get, Fifo!Get, Fifo!Next
  <2>2. CASE ~queue_empty(queue)
    <3>1. Contents(queue) # << >>
      BY <1>0, <2>2, FullIsCapacity, ContentsSeq, EmptySeq
    <3>2. /\ Contents(queue)' = Tail(Contents(queue))
          /\ ret' = <<"queue_get", Head(Contents(queue))>>
      BY <1>0, <1>2, <2>2, PopTakesHead DEF queue_get
    <3> QED
      BY <3>1, <3>2 DEF Fifo!Get, Fifo!Next
  <2> QED
    BY <2>1, <2>2
<1>3. CASE queue_reset
  <2>1. Contents(queue)' = << >>
    BY <1>0, <1>3, ResetEmpties DEF queue_reset, WellFormed
  <2> QED
    BY <1>3, <2>1 DEF queue_reset, Fifo!Clear, Fifo!Next
<1>4. CASE UNCHANGED vars
  BY <1>4 DEF vars, Fifo!vars
<1> QED
  BY <1>1, <1>2, <1>3, <1>4 DEF Next, Fifo!Next

\* queue.c implements the bounded FIFO of queue.h for every ring size up to
\* 128 and every set of pointers.
THEOREM QueueImplementsFifo == Spec => ImplementsFifo
<1>1. Init => Fifo!Init
  BY InitEmpty DEF Init, Fifo!Init
<1> QED
  BY <1>1, QueueSafety, FifoStep, PTL DEF Spec, ImplementsFifo, Fifo!Spec
=============================================================================
