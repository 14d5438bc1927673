---------------------------- MODULE PacketQueue ----------------------------
(***************************************************************************)
(* The ring buffer of src/src/queue.c that carries received frames from    *)
(* the USB read callback to the main loop.  Both ends run on the one       *)
(* thread of the program, so each call is one step.                        *)
(***************************************************************************)
EXTENDS Integers, Sequences

CONSTANTS
    QUEUE_NUM_ELEMS,  \* slots of the ring; 16 in queue.h
    Elems,            \* the pbuf pointers the read callback may queue
    NULL              \* the null pointer

\* The indices are int8_t: 128 slots are the most they can address.
ASSUME QueueAssumption ==
    /\ QUEUE_NUM_ELEMS \in 1..128
    /\ NULL \notin Elems

Slots == 0 .. QUEUE_NUM_ELEMS - 1

VARIABLES
    queue,  \* the queue_t: [first, last, elems]
    ret     \* the last call made and the value it returned

vars == <<queue, ret>>

-----------------------------------------------------------------------------
(* Arithmetic of the index updates: the sum is stored back into an int8_t, *)
(* and the remainder of C keeps the sign of its dividend.                  *)

Int8(x) == ((x + 128) % 256) - 128

CRem(a, n) == IF a >= 0 THEN a % n ELSE -((-a) % n)

NextIndex(i) == CRem(Int8(i + 1), QUEUE_NUM_ELEMS)

-----------------------------------------------------------------------------
(* The three functions of queue.c, as operators on the structure.          *)

queue_empty(q) == q.last = -1

\* Mutant of queue_full: a full ring that has not wrapped is not noticed.
queue_full_wrapped_only(q) == q.first = q.last + 1 /\ ~queue_empty(q)

queue_full(q) ==
    \/ q.first = q.last + 1 /\ ~queue_empty(q)
    \/ q.first = 0 /\ q.last = QUEUE_NUM_ELEMS - 1

queue_init(q) == [q EXCEPT !.first = 0, !.last = -1]

queue_push(q, e) ==
    [q EXCEPT !.last = NextIndex(q.last), !.elems[NextIndex(q.last)] = e]

\* Mutant of queue_pop: removing the last element does not rewind.
queue_pop_no_rewind(q) == [q EXCEPT !.first = NextIndex(q.first)]

queue_pop(q) ==
    IF q.first = q.last THEN queue_init(q)
                        ELSE [q EXCEPT !.first = NextIndex(q.first)]

-----------------------------------------------------------------------------

\* QUEUE_INITIALIZER, or queue_init on a queue_t whose slots hold anything.
Init ==
    /\ \E garbage \in [Slots -> Elems \cup {NULL}] :
           queue = [first |-> 0, last |-> -1, elems |-> garbage]
    /\ ret = <<"queue_init", NULL>>

queue_add(e) ==
    \/ /\ queue_full(queue)
       /\ ret' = <<"queue_add", FALSE>>
       /\ UNCHANGED queue
    \/ /\ ~queue_full(queue)
       /\ queue' = queue_push(queue, e)
       /\ ret' = <<"queue_add", TRUE>>

queue_get ==
    \/ /\ queue_empty(queue)
       /\ ret' = <<"queue_get", NULL>>
       /\ UNCHANGED queue
    \/ /\ ~queue_empty(queue)
       /\ ret' = <<"queue_get", queue.elems[queue.first]>>
       /\ queue' = queue_pop(queue)

queue_reset ==
    /\ queue' = queue_init(queue)
    /\ ret' = <<"queue_init", NULL>>

Next == (\E e \in Elems : queue_add(e)) \/ queue_get \/ queue_reset

Spec == Init /\ [][Next]_vars

-----------------------------------------------------------------------------
(* The abstract queue the ring stands for.                                 *)

\* The slot i places after first.
SlotAt(q, i) ==
    IF q.first + i < QUEUE_NUM_ELEMS THEN q.first + i
                                     ELSE q.first + i - QUEUE_NUM_ELEMS

QueueLen(q) ==
    IF queue_empty(q) THEN 0
    ELSE IF q.first <= q.last THEN q.last - q.first + 1
    ELSE q.last - q.first + 1 + QUEUE_NUM_ELEMS

Contents(q) == [i \in 1 .. QueueLen(q) |-> q.elems[SlotAt(q, i - 1)]]

Fifo == INSTANCE BoundedFifo
            WITH Capacity <- QUEUE_NUM_ELEMS, contents <- Contents(queue)

-----------------------------------------------------------------------------

WellFormed(q) ==
    /\ q \in [first : Slots, last : Slots \cup {-1},
              elems : [Slots -> Elems \cup {NULL}]]
    /\ queue_empty(q) => q.first = 0
    /\ \A i \in 1 .. QueueLen(q) : q.elems[SlotAt(q, i - 1)] \in Elems

\* The structure stays well formed under every sequence of calls: both
\* indices address a slot (so elems is never accessed out of bounds), an
\* empty queue has been rewound to slot 0 (queue.c:40-43), and every slot
\* between first and last holds a pointer that was added, never leftover
\* memory.
QueueInv == WellFormed(queue)

\* queue.c implements the bounded first-in first-out buffer queue.h
\* announces: nothing is lost, duplicated or reordered, queue_add refuses
\* exactly when QUEUE_NUM_ELEMS elements are queued, and queue_get returns
\* NULL exactly when none is (queue.h:17-20).
ImplementsFifo == Fifo!Spec
=============================================================================
