----------------------------- MODULE LossyLink -----------------------------
(***************************************************************************)
(* What a network interface promises lwIP about the frames it receives:    *)
(* the n-th frame of the link is either lost or kept; the kept ones are    *)
(* handed over in the order of their arrival, each at most once, and each  *)
(* of them eventually.                                                     *)
(***************************************************************************)
EXTENDS Naturals, Sequences

VARIABLES
    arrived,   \* number of frames the device has sent so far
    waiting,   \* the frames kept and not yet handed over, oldest first
    delivered  \* the frame handed over last, 0 before the first

vars == <<arrived, waiting, delivered>>

Init == arrived = 0 /\ waiting = <<>> /\ delivered = 0

Lose ==
    /\ arrived' = arrived + 1
    /\ UNCHANGED <<waiting, delivered>>

Keep ==
    /\ arrived' = arrived + 1
    /\ waiting' = Append(waiting, arrived + 1)
    /\ UNCHANGED delivered

Deliver ==
    /\ waiting # <<>>
    /\ delivered' = Head(waiting)
    /\ waiting' = Tail(waiting)
    /\ UNCHANGED arrived

Next == Lose \/ Keep \/ Deliver

Spec == Init /\ [][Next]_vars /\ WF_vars(Deliver)
=============================================================================
