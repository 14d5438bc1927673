---------------------------- MODULE BoundedFifo ----------------------------
(***************************************************************************)
(* What src/src/queue.h promises of a queue_t: a first-in first-out buffer *)
(* of at most Capacity elements.  Adding to a full queue is refused and    *)
(* changes nothing; getting from an empty one returns NULL.                *)
(***************************************************************************)
EXTENDS Naturals, Sequences

CONSTANTS
    Capacity,  \* number of elements the queue can hold
    Elems,     \* the pointers that may be queued
    NULL       \* the null pointer, never queued

VARIABLES
    contents,  \* the queued elements, oldest first
    ret        \* the last call made and the value it returned

vars == <<contents, ret>>

Init ==
    /\ contents = <<>>
    /\ ret = <<"queue_init", NULL>>

Add(e) ==
    \/ /\ Len(contents) < Capacity
       /\ contents' = Append(contents, e)
       /\ ret' = <<"queue_add", TRUE>>
    \/ /\ Len(contents) = Capacity
       /\ ret' = <<"queue_add", FALSE>>
       /\ UNCHANGED contents

Get ==
    \/ /\ contents = <<>>
       /\ ret' = <<"queue_get", NULL>>
       /\ UNCHANGED contents
    \/ /\ contents # <<>>
       /\ ret' = <<"queue_get", Head(contents)>>
       /\ contents' = Tail(contents)

Clear ==
    /\ contents' = <<>>
    /\ ret' = <<"queue_init", NULL>>

Next == (\E e \in Elems : Add(e)) \/ Get \/ Clear

Spec == Init /\ [][Next]_vars
=============================================================================
