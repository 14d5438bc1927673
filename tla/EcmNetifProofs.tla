--------------------------- MODULE EcmNetifProofs ---------------------------
(***************************************************************************)
(* Proofs about EcmNetif for every queue size, heap and number of frames.  *)
(***************************************************************************)
EXTENDS EcmNetif, SequenceTheorems, FiniteSetTheorems, TLAPS

(* The receive side.                                                       *)

\* Every allocated read buffer is the one read_data names.
OwnsHeap(s) == s.heap = {s.read_data} \ {NULL, WILD}

\* A read added to the endpoint, and one taken off.
LEMMA OneRead ==
    ASSUME NEW q \in Seq(Bufs), NEW b \in Bufs
    PROVE  /\ Append(q, b) # << >>
           /\ q = << >> => Append(q, b) = <<b>>
           /\ q = <<b>> => Tail(q) = << >>
<1>1. Append(q, b) # << >>
  <2>1. Len(Append(q, b)) = Len(q) + 1 /\ Len(q) \in Nat
    BY AppendProperties, LenProperties
  <2>2. Len(Append(q, b)) # 0
    BY <2>1
  <2>3. Len(<< >>) = 0
    OBVIOUS
  <2> QED
    BY <2>2, <2>3, Zenon
<1>2. ASSUME q = << >> PROVE Append(q, b) = <<b>>
  BY <1>2
<1>3. ASSUME q = <<b>> PROVE Tail(q) = << >>
  BY <1>3
<1> QED
  BY <1>1, <1>2, <1>3

\* What ecm_schedule_read (ecm.c:16-29) leaves behind: it schedules a read
\* exactly when it reports success; otherwise either the interface is marked
\* halted with no buffer, or the driver refused, or there was a buffer before.
LEMMA ScheduleOutcome ==
    ASSUME NEW s \in RxType, OwnsHeap(s),
           NEW o \in ecm_schedule_read(s)
    PROVE  /\ o.rx \in RxType
           /\ OwnsHeap(o.rx)
           /\ o.rx.restarted = s.restarted
           /\ \/ /\ o.err = "USB_SUCCESS"
                 /\ o.rx.read_data \in o.rx.heap
                 /\ o.rx.in # << >>
                 /\ s.in = << >> => o.rx.in = <<o.rx.read_data>>
                 /\ o.rx.halted = s.halted
              \/ /\ o.err # "USB_SUCCESS"
                 /\ o.rx.in = s.in
                 /\ o.rx.halted /\ o.rx.read_data = NULL
              \/ /\ o.err # "USB_SUCCESS"
                 /\ o.rx.in = s.in
                 /\ o.rx.failed
              \/ /\ o.err # "USB_SUCCESS"
                 /\ o.rx = s
                 /\ s.read_data # NULL
<1> USE EcmAssumption
<1>1. CASE s.read_data # NULL
  <2>1. o.rx = s /\ o.err = "USB_ERROR_FAILED"
    BY <1>1 DEF ecm_schedule_read
  <2> QED
    BY <1>1, <2>1
<1>2. CASE s.read_data = NULL /\ o = NoMemory(s)
  <2>1. /\ o.rx = [s EXCEPT !.halted = TRUE]
        /\ o.err = "USB_ERROR_NO_MEMORY"
    BY <1>2 DEF NoMemory
  <2>2. /\ o.rx.read_data = NULL /\ o.rx.heap = s.heap /\ o.rx.in = s.in
        /\ o.rx.halted /\ o.rx.restarted = s.restarted
        /\ o.rx \in RxType
    BY <1>2, <2>1 DEF RxType
  <2> QED
    BY <1>2, <2>1, <2>2 DEF OwnsHeap
<1>3. ASSUME NEW b \in Bufs, NEW e \in ScheduleResults,
             s.read_data = NULL, o = Submit(s, b, e)
      PROVE  /\ o.rx \in RxType
             /\ OwnsHeap(o.rx)
             /\ o.rx.restarted = s.restarted
             /\ \/ /\ o.err = "USB_SUCCESS"
                   /\ o.rx.read_data \in o.rx.heap
                   /\ o.rx.in # << >>
                   /\ s.in = << >> => o.rx.in = <<o.rx.read_data>>
                   /\ o.rx.halted = s.halted
                \/ /\ o.err # "USB_SUCCESS"
                   /\ o.rx.in = s.in
                   /\ o.rx.failed
  <2>1. s.heap = {}
    BY <1>3 DEF OwnsHeap
  <2>2. /\ o.err = e
        /\ o.rx = [s EXCEPT !.read_data = b,
                            !.heap = s.heap \cup {b},
                            !.in = IF e = "USB_SUCCESS" THEN Append(s.in, b)
                                                        ELSE s.in,
                            !.failed = IF e = "USB_SUCCESS" THEN s.failed
                                                            ELSE TRUE]
    BY <1>3 DEF Submit, RxType
  <2>3. /\ o.rx.read_data = b
        /\ o.rx.heap = {b}
        /\ o.rx.halted = s.halted /\ o.rx.restarted = s.restarted
    BY <2>1, <2>2 DEF RxType
  <2>4. /\ o.rx.in = IF e = "USB_SUCCESS" THEN Append(s.in, b) ELSE s.in
        /\ o.rx.in \in Seq(Bufs)
    BY <2>2 DEF RxType
  <2>7. Append(s.in, b) # << >> /\ (s.in = << >> => Append(s.in, b) = <<b>>)
    <3>1. s.in \in Seq(Bufs)
      BY DEF RxType
    <3> QED
      BY <3>1, OneRead, Zenon
  <2>5. /\ e # "USB_SUCCESS" => o.rx.failed
        /\ o.rx.failed \in BOOLEAN
    BY <2>2 DEF RxType
  <2>6. o.rx \in RxType
    <3> DEFINE r == o.rx
    <3>1. r = [read_data |-> r.read_data, halted |-> r.halted, heap |-> r.heap,
               in |-> r.in, failed |-> r.failed, restarted |-> r.restarted]
      BY <2>2 DEF RxType
    <3>2. r.read_data \in Bufs /\ r.halted \in BOOLEAN /\ r.heap \subseteq Bufs
         /\ r.restarted \in BOOLEAN
      BY <2>3 DEF RxType
    <3> HIDE DEF r
    <3>3. r.in \in Seq(Bufs) /\ r.failed \in BOOLEAN
      BY <2>4, <2>5 DEF r
    <3>4. r \in RxType
      BY <3>1, <3>2, <3>3 DEF RxType
    <3> QED
      BY <3>4 DEF r
  <2> QED
    <3>1. CASE e = "USB_SUCCESS"
      <4>1. o.rx.in = Append(s.in, b) /\ o.err = "USB_SUCCESS"
        BY <2>2, <2>4, <3>1, Zenon
      <4>2. o.rx.read_data = b /\ o.rx.heap = {b}
        BY <2>3, Zenon
      <4>3. b # NULL /\ b # WILD
        OBVIOUS
      <4> QED
        BY <2>3, <2>6, <2>7, <4>1, <4>2, <4>3, Zenon DEF OwnsHeap
    <3>2. CASE e # "USB_SUCCESS"
      <4>1. o.rx.in = s.in /\ o.err # "USB_SUCCESS" /\ o.rx.failed
        BY <2>2, <2>4, <2>5, <3>2, Zenon
      <4>2. b # NULL /\ b # WILD
        OBVIOUS
      <4> QED
        BY <2>3, <2>6, <4>1, <4>2, Zenon DEF OwnsHeap
    <3> QED
      BY <3>1, <3>2, Zenon
<1>4. \/ s.read_data # NULL
      \/ s.read_data = NULL /\ o = NoMemory(s)
      \/ s.read_data = NULL /\ \E b \in Bufs, e \in ScheduleResults :
                                   o = Submit(s, b, e)
  BY DEF ecm_schedule_read
<1> QED
  BY <1>1, <1>2, <1>3, <1>4

\* The inductive invariant of the receive side.
RxInv ==
    /\ rx \in RxType
    /\ pc = "down" => rx.in = << >> /\ rx.heap = {} /\ ~rx.restarted
    /\ ReadBufferSafe
    /\ HaltedIsIdle
    /\ StallHasCause

\* A state of the receive side that satisfies the invariant while the main
\* loop is past ecm_init_netif, and outside of clear_halt unless the driver
\* has restarted a transfer.
RxGood(s) ==
    /\ s \in RxType
    /\ OwnsHeap(s)
    /\ \/ /\ s.in = <<s.read_data>>
          /\ s.read_data \in s.heap
          /\ ~s.halted
       \/ /\ s.in = << >>
          /\ \/ s.halted /\ s.read_data = NULL
             \/ s.read_data = WILD
             \/ s.failed
       \/ s.restarted /\ s.in # << >>

LEMMA RxGoodInv ==
    ASSUME RxGood(rx'), pc' # "down", pc' = "clearing" => rx'.restarted
    PROVE  RxInv'
<1>1. rx' \in RxType /\ OwnsHeap(rx')
  BY DEF RxGood
<1>2. CASE /\ rx'.in = <<rx'.read_data>>
           /\ rx'.read_data \in rx'.heap
           /\ ~rx'.halted
  <2>1. rx'.in # << >>
    BY <1>2
  <2> QED
    BY <1>1, <1>2, <2>1
    DEF RxInv, ReadBufferSafe, HaltedIsIdle, StallHasCause, Stalled, OwnsHeap
<1>3. CASE /\ rx'.in = << >>
           /\ \/ rx'.halted /\ rx'.read_data = NULL
              \/ rx'.read_data = WILD
              \/ rx'.failed
  BY <1>1, <1>3
  DEF RxInv, ReadBufferSafe, HaltedIsIdle, StallHasCause, Stalled, OwnsHeap
<1>4. CASE rx'.restarted /\ rx'.in # << >>
  BY <1>1, <1>4
  DEF RxInv, ReadBufferSafe, HaltedIsIdle, StallHasCause, Stalled, OwnsHeap
<1> QED
  BY <1>2, <1>3, <1>4 DEF RxGood

\* ecm_schedule_read from a state without a read in flight is safe, if the
\* interface was not halted before or is not left so after a success.
LEMMA ScheduleGood ==
    ASSUME NEW s \in RxType, s.in = << >>, OwnsHeap(s), ~s.halted,
           s.read_data # NULL => s.read_data = WILD \/ s.failed,
           NEW o \in ecm_schedule_read(s)
    PROVE  RxGood(o.rx)
BY ScheduleOutcome DEF RxGood

\* Once a transfer has been restarted there is nothing left to break.
LEMMA ScheduleRestarted ==
    ASSUME NEW s \in RxType, OwnsHeap(s), s.restarted,
           s.in = << >> /\ s.read_data # NULL => s.read_data = WILD \/ s.failed,
           NEW o \in ecm_schedule_read(s)
    PROVE  RxGood(o.rx) /\ o.rx.restarted
BY ScheduleOutcome DEF RxGood

\* ecm_init_netif starts the receive side.
LEMMA RxInitNetif == RxInv /\ ecm_init_netif => RxInv'
<1> SUFFICES ASSUME RxInv, ecm_init_netif PROVE RxInv'
  OBVIOUS
<1> DEFINE s == [rx EXCEPT !.halted = FALSE]
<1>1. PICK o \in ecm_schedule_read(s) : rx' = o.rx
  BY DEF ecm_init_netif
<1>2. s \in RxType /\ s.in = << >> /\ ~s.halted /\ s.read_data = rx.read_data
  BY DEF RxInv, RxType, ecm_init_netif
<1>3. OwnsHeap(s)
  BY DEF RxInv, RxType, ReadBufferSafe, OwnsHeap
<1>4. rx.read_data \in {NULL, WILD}
  BY DEF RxInv, ReadBufferSafe, ecm_init_netif
<1> HIDE DEF s
<1>5. RxGood(rx')
  BY <1>1, <1>2, <1>3, <1>4, ScheduleGood
<1>6. pc' = "events"
  BY DEF ecm_init_netif
<1>7. RxGood(rx') /\ pc' # "down" /\ pc' # "clearing"
  BY <1>5, <1>6
<1> QED
  BY <1>7, RxGoodInv

\* A completed read leaves the receive side in order, whatever the status.
LEMMA RxReadCallback ==
    ASSUME NEW kind, NEW status
    PROVE  RxInv /\ ecm_read_callback(kind, status) => RxInv'
<1> SUFFICES ASSUME RxInv, ecm_read_callback(kind, status) PROVE RxInv'
  OBVIOUS
<1> DEFINE s == FreeReadData(rx)
           h == [s EXCEPT !.halted = TRUE]
<1>1. /\ rx.in # << >> /\ pc' = pc
      /\ rx' \in Reschedule(s, status)
      /\ pc \in {"events", "clearing"}
  BY DEF ecm_read_callback, InDriver
<1>2. ~rx.restarted => pc = "events" /\ ~rx.halted /\ rx.in = <<rx.read_data>>
  BY <1>1 DEF RxInv, HaltedIsIdle, ReadBufferSafe
<1>3. /\ s \in RxType /\ s.in = rx.in /\ s.read_data = NULL /\ s.halted = rx.halted
      /\ s.restarted = rx.restarted /\ s.heap = {}
  BY DEF FreeReadData, RxInv, RxType, ReadBufferSafe
<1> HIDE DEF s
<1>4. /\ h \in RxType /\ h.in = rx.in /\ h.read_data = NULL /\ h.halted
      /\ h.restarted = rx.restarted /\ h.heap = {}
  BY <1>3 DEF RxType
<1> HIDE DEF h
<1>5. ASSUME NEW r \in RxType, r.in # << >>
      PROVE  /\ Completed(r) \in RxType /\ Completed(r).in = Tail(r.in)
             /\ Completed(r).read_data = r.read_data /\ Completed(r).heap = r.heap
             /\ Completed(r).halted = r.halted /\ Completed(r).restarted = r.restarted
  <2>1. Tail(r.in) \in Seq(Bufs)
    BY <1>5 DEF RxType
  <2> QED
    BY <2>1 DEF Completed, RxType
<1>6. ASSUME ~rx.restarted PROVE Tail(rx.in) = << >>
  <2>1. rx.in = <<rx.read_data>> /\ rx.in \in Seq(Bufs) /\ rx.read_data \in Bufs
    BY <1>1, <1>2, <1>6, Zenon DEF RxInv, RxType, ReadBufferSafe
  <2> QED
    BY <2>1, OneRead, Zenon
<1>7. pc' # "down" /\ (~rx.restarted => pc' # "clearing")
  BY <1>1, <1>2
<1>8. CASE status = "failed" /\ rx' = [h EXCEPT !.restarted = TRUE]
  <2>1. rx' \in RxType /\ rx'.restarted /\ rx'.in # << >> /\ OwnsHeap(rx')
    BY <1>1, <1>4, <1>8 DEF RxType, OwnsHeap
  <2> QED
    BY <1>7, <2>1, RxGoodInv DEF RxGood
<1>9. CASE status = "failed" /\ rx' = Completed(h)
  <2>1. /\ rx' \in RxType /\ rx'.in = Tail(rx.in) /\ rx'.halted /\ rx'.read_data = NULL
        /\ rx'.heap = {} /\ rx'.restarted = rx.restarted
    BY <1>1, <1>4, <1>5, <1>9
  <2> QED
    BY <1>6, <1>7, <2>1, RxGoodInv DEF RxGood, OwnsHeap
<1>10. CASE status # "failed"
  <2> DEFINE c == Completed(s)
  <2>1. PICK o \in ecm_schedule_read(c) : rx' = o.rx
    BY <1>1, <1>10 DEF Reschedule
  <2>2. /\ c \in RxType /\ c.in = Tail(rx.in) /\ c.halted = rx.halted /\ c.read_data = NULL
        /\ c.heap = {} /\ c.restarted = rx.restarted
    BY <1>1, <1>3, <1>5
  <2> HIDE DEF c
  <2>3. OwnsHeap(c)
    BY <2>2 DEF OwnsHeap
  <2>4. RxGood(rx') /\ rx'.restarted = rx.restarted
    <3>1. CASE rx.restarted
      BY <2>1, <2>2, <2>3, <3>1, ScheduleRestarted, ScheduleOutcome
    <3>2. CASE ~rx.restarted
      BY <1>2, <1>6, <2>1, <2>2, <2>3, <3>2, ScheduleGood, ScheduleOutcome
    <3> QED
      BY <3>1, <3>2 DEF RxInv, RxType
  <2> QED
    BY <1>7, <2>4, RxGoodInv
<1>11. status = "failed" => rx' = [h EXCEPT !.restarted = TRUE] \/ rx' = Completed(h)
  BY <1>1, EcmAssumption DEF Reschedule, Ignored, h
<1> QED
  BY <1>8, <1>9, <1>10, <1>11

\* clear_halt schedules a read only when none is in flight, and clears the
\* flag only when it scheduled one.
LEMMA RxClearHaltEnd == RxInv /\ clear_halt_end => RxInv'
<1> SUFFICES ASSUME RxInv, clear_halt_end PROVE RxInv'
  OBVIOUS
<1>1. pc = "clearing" /\ pc' = "timers"
  BY DEF clear_halt_end
<1>2. PICK o \in ecm_schedule_read(rx) :
          rx' = [o.rx EXCEPT !.halted = @ /\ o.err # "USB_SUCCESS"]
  BY DEF clear_halt_end
<1>3. rx \in RxType /\ OwnsHeap(rx) /\ (rx.in = << >> \/ rx.restarted)
  BY <1>1 DEF RxInv, HaltedIsIdle, ReadBufferSafe, OwnsHeap
<1>4. rx.in = << >> /\ ~(rx.halted /\ rx.read_data = NULL) => rx.read_data = WILD \/ rx.failed
  BY <1>1, <1>3 DEF RxInv, StallHasCause, Stalled
<1>5. o.rx \in RxType /\ OwnsHeap(o.rx) /\ o.rx.restarted = rx.restarted
  BY <1>3, ScheduleOutcome
<1>6. CASE o.err = "USB_SUCCESS"
  <2>1. /\ o.rx.read_data \in o.rx.heap
        /\ o.rx.in # << >>
        /\ rx.in = << >> => o.rx.in = <<o.rx.read_data>>
    BY <1>3, <1>6, ScheduleOutcome
  <2>2. rx' = [o.rx EXCEPT !.halted = FALSE]
    BY <1>2, <1>6
  <2>3. /\ rx' \in RxType /\ rx'.in = o.rx.in /\ rx'.heap = o.rx.heap
        /\ rx'.read_data = o.rx.read_data /\ ~rx'.halted
        /\ rx'.restarted = o.rx.restarted
    BY <1>5, <2>2 DEF RxType
  <2>4. RxGood(rx') /\ pc' # "down" /\ pc' # "clearing"
    BY <1>1, <1>3, <1>5, <2>1, <2>3 DEF RxGood, OwnsHeap
  <2> QED
    BY <2>4, RxGoodInv
<1>7. CASE o.err # "USB_SUCCESS"
  <2>1. rx' = o.rx
    BY <1>2, <1>5, <1>7 DEF RxType
  <2>2. \/ o.rx.in = rx.in /\ o.rx.halted /\ o.rx.read_data = NULL
        \/ o.rx.in = rx.in /\ o.rx.failed
        \/ o.rx = rx /\ rx.read_data # NULL
    BY <1>3, <1>7, ScheduleOutcome
  <2>3. RxGood(o.rx)
    BY <1>3, <1>4, <1>5, <2>2 DEF RxGood
  <2>4. RxGood(rx') /\ pc' # "down" /\ pc' # "clearing"
    BY <1>1, <2>1, <2>3
  <2> QED
    BY <2>4, RxGoodInv
<1> QED
  BY <1>6, <1>7

\* Every step keeps the receive side in order.
LEMMA RxStep == RxInv /\ [Next]_vars => RxInv'
<1> SUFFICES ASSUME RxInv, [Next]_vars PROVE RxInv'
  OBVIOUS
<1>1. CASE UNCHANGED <<pc, rx>>
  BY <1>1 DEF RxInv, ReadBufferSafe, HaltedIsIdle, StallHasCause, Stalled
<1>2. CASE /\ rx' = rx /\ pc # "down" /\ pc # "clearing"
           /\ pc' # "down" /\ (pc' = "clearing" => rx.halted)
  BY <1>2 DEF RxInv, ReadBufferSafe, HaltedIsIdle, StallHasCause, Stalled
<1>3. CASE MainLoop
  <2>1. CASE nt_input \/ clear_halt_begin \/ sys_check_timeouts \/ usb_HandleEvents
    BY <1>2, <2>1
    DEF nt_input, clear_halt_begin, sys_check_timeouts, usb_HandleEvents
  <2> QED
    BY <1>3, <2>1, RxInitNetif, RxClearHaltEnd DEF MainLoop
<1>4. CASE Callback
  BY <1>1, <1>4, RxReadCallback DEF Callback, ecm_write_callback
<1>5. CASE Lwip
  BY <1>1, <1>5 DEF Lwip, ecm_netif_output, lwip_pbuf_alloc, lwip_pbuf_free
<1>6. CASE UNCHANGED vars
  BY <1>1, <1>6 DEF vars
<1> QED
  BY <1>3, <1>4, <1>5, <1>6 DEF Next

\* The receive side keeps its invariant for ever.
THEOREM RxInvariant == Spec => []RxInv
<1>1. Init => RxInv
  <2> SUFFICES ASSUME Init PROVE RxInv
    OBVIOUS
  <2>1. PICK d \in FreshReadData, h \in BOOLEAN :
            rx = [read_data |-> d, halted |-> h, heap |-> {}, in |-> << >>,
                  failed |-> FALSE, restarted |-> FALSE]
    BY DEF Init
  <2>2. d \in {NULL, WILD}
    BY EcmAssumption
  <2>3. rx \in RxType
    BY <2>1, <2>2 DEF RxType
  <2> QED
    BY <2>1, <2>2, <2>3
    DEF Init, RxInv, ReadBufferSafe, HaltedIsIdle, StallHasCause, Stalled
<1> QED
  BY <1>1, RxStep, PTL DEF Spec

\* No read buffer is leaked and, unless the driver restarts a transfer for
\* which ecm_read_callback returned USB_IGNORE, the driver never writes into a
\* freed one and ecm_read_callback never reads one.
THEOREM ReadBufferIsSafe == Spec => []ReadBufferSafe
<1>1. RxInv => ReadBufferSafe
  BY DEF RxInv
<1> QED
  BY <1>1, RxInvariant, PTL

\* No read callback can run between clear_halt's test and its reschedule, unless
\* the driver has restarted a transfer.
THEOREM HaltedStaysIdle == Spec => []HaltedIsIdle
<1>1. RxInv => HaltedIsIdle
  BY DEF RxInv
<1> QED
  BY <1>1, RxInvariant, PTL

\* Receiving stops for good only for one of the two known causes.
THEOREM StallsHaveCauses == Spec => []StallHasCause
<1>1. RxInv => StallHasCause
  BY DEF RxInv
<1> QED
  BY <1>1, RxInvariant, PTL

-----------------------------------------------------------------------------
(* Reference counts.                                                       *)

Distinct(s) == \A i, j \in 1 .. Len(s) : s[i] = s[j] => i = j

Has(s, p) == \E i \in 1 .. Len(s) : s[i] = p

LEMMA AppendHas ==
    ASSUME NEW S, NEW s \in Seq(S), NEW e \in S
    PROVE  /\ Append(s, e) \in Seq(S)
           /\ \A p : Has(Append(s, e), p) <=> Has(s, p) \/ p = e
           /\ Distinct(s) /\ ~Has(s, e) => Distinct(Append(s, e))
<1>1. /\ Append(s, e) \in Seq(S)
      /\ Len(Append(s, e)) = Len(s) + 1
      /\ \A i \in 1 .. Len(s) : Append(s, e)[i] = s[i]
      /\ Append(s, e)[Len(s) + 1] = e
      /\ Len(s) \in Nat
  BY AppendProperties, LenProperties
<1> DEFINE t == Append(s, e)
<1> HIDE DEF t
<1>2. \A i \in 1 .. Len(s) + 1 : i \in 1 .. Len(s) \/ i = Len(s) + 1
  BY <1>1
<1>3. \A p : Has(t, p) <=> Has(s, p) \/ p = e
  BY <1>1, <1>2 DEF Has, t
<1>4. Distinct(s) /\ ~Has(s, e) => Distinct(t)
  BY <1>1, <1>2 DEF Has, Distinct, t
<1> QED
  BY <1>1, <1>3, <1>4 DEF t

LEMMA TailHas ==
    ASSUME NEW S, NEW s \in Seq(S), s # << >>, Distinct(s)
    PROVE  /\ Tail(s) \in Seq(S) /\ Head(s) \in S
           /\ Distinct(Tail(s))
           /\ \A p : Has(Tail(s), p) <=> Has(s, p) /\ p # Head(s)
           /\ Has(s, Head(s))
<1>1. /\ Tail(s) \in Seq(S) /\ Head(s) \in S
      /\ Len(Tail(s)) = Len(s) - 1
      /\ \A i \in 1 .. Len(s) - 1 : Tail(s)[i] = s[i + 1]
      /\ Head(s) = s[1]
      /\ Len(s) \in Nat \ {0}
  BY HeadTailProperties, EmptySeq
<1> DEFINE t == Tail(s)
<1> HIDE DEF t
<1>2. Distinct(t)
  BY <1>1 DEF Distinct, t
<1>3. \A p : Has(t, p) => Has(s, p) /\ p # Head(s)
  BY <1>1 DEF Distinct, Has, t
<1>4. ASSUME NEW p, Has(s, p), p # Head(s) PROVE Has(t, p)
  <2>1. PICK i \in 1 .. Len(s) : s[i] = p
    BY <1>4 DEF Has
  <2>2. i - 1 \in 1 .. Len(s) - 1 /\ (i - 1) + 1 = i
    BY <1>1, <1>4, <2>1
  <2>3. t[i - 1] = p
    BY <1>1, <2>1, <2>2 DEF t
  <2> QED
    BY <1>1, <2>2, <2>3 DEF Has, t
<1>5. Has(s, Head(s))
  BY <1>1 DEF Has
<1> QED
  BY <1>1, <1>2, <1>3, <1>4, <1>5 DEF t

\* The inductive invariant of the reference counts: a pbuf is in the queue
\* once and nowhere else, in flight at most once, and the count covers both
\* lwIP's and the driver's reference.
PbufInv ==
    /\ queue \in Seq(Pbufs) /\ out \in Seq(Pbufs) /\ lwip \subseteq Pbufs
    /\ ref \in [Pbufs -> Nat]
    /\ Distinct(queue) /\ Distinct(out)
    /\ \A p \in Pbufs :
          /\ Has(queue, p) => ref[p] >= 1 /\ p \notin lwip /\ ~Has(out, p)
          /\ p \in lwip => ref[p] >= 1
          /\ Has(out, p) => ref[p] >= 1
          /\ Has(out, p) /\ p \in lwip => ref[p] >= 2

\* A received frame goes into a pbuf nobody refers to.
LEMMA PbufReadCallback ==
    ASSUME NEW kind, NEW status
    PROVE  PbufInv /\ ecm_read_callback(kind, status) => PbufInv'
<1> SUFFICES ASSUME PbufInv, ecm_read_callback(kind, status) PROVE PbufInv'
  OBVIOUS
<1>1. lwip' = lwip /\ out' = out
  BY DEF ecm_read_callback
<1>2. CASE UNCHANGED <<queue, ref>>
  BY <1>1, <1>2 DEF PbufInv
<1>3. CASE \E p \in Pbufs : /\ ref[p] = 0
                           /\ queue' = Append(queue, p)
                           /\ ref' = [ref EXCEPT ![p] = 1]
  <2>1. PICK p \in Pbufs : /\ ref[p] = 0
                          /\ queue' = Append(queue, p)
                          /\ ref' = [ref EXCEPT ![p] = 1]
    BY <1>3
  <2>2. ~Has(queue, p) /\ ~Has(out, p) /\ p \notin lwip
    BY <2>1 DEF PbufInv
  <2>3. /\ queue' \in Seq(Pbufs) /\ Distinct(queue')
        /\ \A x : Has(queue', x) <=> Has(queue, x) \/ x = p
    BY <2>1, <2>2, AppendHas DEF PbufInv
  <2>4. ref' \in [Pbufs -> Nat] /\ ref'[p] = 1
        /\ \A x \in Pbufs : x # p => ref'[x] = ref[x]
    BY <2>1 DEF PbufInv
  <2> QED
    BY <1>1, <2>2, <2>3, <2>4 DEF PbufInv
<1>4. UNCHANGED <<queue, ref>> \/ \E p \in Pbufs :
          ref[p] = 0 /\ queue' = Append(queue, p) /\ ref' = [ref EXCEPT ![p] = 1]
  BY DEF ecm_read_callback, IgnoreFrame, LoseFrame, KeepFrame
<1> QED
  BY <1>2, <1>3, <1>4

\* A finished transfer gives back the driver's reference only.
LEMMA PbufWriteCallback == PbufInv /\ ecm_write_callback => PbufInv'
<1> SUFFICES ASSUME PbufInv, ecm_write_callback PROVE PbufInv'
  OBVIOUS
<1> DEFINE p == Head(out)
<1>1. /\ queue' = queue /\ lwip' = lwip /\ out # << >> /\ out' = Tail(out)
      /\ ref' = [ref EXCEPT ![p] = ref[p] - 1]
  BY DEF ecm_write_callback
<1>2. /\ out' \in Seq(Pbufs) /\ p \in Pbufs /\ Distinct(out') /\ Has(out, p)
      /\ \A x : Has(out', x) <=> Has(out, x) /\ x # p
  BY <1>1, TailHas DEF PbufInv
<1> HIDE DEF p
<1>3. /\ ref[p] >= 1 /\ ref[p] \in Nat
      /\ p \in lwip => ref[p] >= 2
      /\ ~Has(queue, p)
  BY <1>2 DEF PbufInv
<1>4. /\ ref' \in [Pbufs -> Nat] /\ ref'[p] = ref[p] - 1
      /\ \A x \in Pbufs : x # p => ref'[x] = ref[x]
  BY <1>1, <1>2, <1>3 DEF PbufInv
<1> QED
  BY <1>1, <1>2, <1>3, <1>4 DEF PbufInv

\* lwIP's own operations, and sending.
LEMMA PbufLwip == PbufInv /\ Lwip => PbufInv'
<1> SUFFICES ASSUME PbufInv, NEW p \in Pbufs,
                    \/ ecm_netif_output(p)
                    \/ lwip_pbuf_alloc(p)
                    \/ lwip_pbuf_free(p)
             PROVE  PbufInv'
  BY DEF Lwip
<1>1. CASE ecm_netif_output(p)
  <2>1. /\ queue' = queue /\ lwip' = lwip /\ p \in lwip /\ ref[p] = 1
        /\ ref' = [ref EXCEPT ![p] = ref[p] + 1]
        /\ out' = Append(out, p) \/ out' = out
    BY <1>1 DEF ecm_netif_output
  <2>2. ~Has(out, p) /\ ~Has(queue, p)
    BY <2>1 DEF PbufInv
  <2>3. /\ out' \in Seq(Pbufs) /\ Distinct(out')
        /\ \A x : Has(out', x) => Has(out, x) \/ x = p
    <3>1. CASE out' = out
      BY <3>1 DEF PbufInv
    <3>2. CASE out' = Append(out, p)
      BY <2>2, <3>2, AppendHas DEF PbufInv
    <3> QED
      BY <2>1, <3>1, <3>2
  <2>4. /\ ref' \in [Pbufs -> Nat] /\ ref'[p] = 2
        /\ \A x \in Pbufs : x # p => ref'[x] = ref[x]
    BY <2>1 DEF PbufInv
  <2> QED
    BY <2>1, <2>2, <2>3, <2>4 DEF PbufInv
<1>2. CASE lwip_pbuf_alloc(p)
  <2>1. /\ queue' = queue /\ out' = out /\ lwip' = lwip \cup {p}
        /\ ref[p] = 0 /\ ref' = [ref EXCEPT ![p] = 1]
    BY <1>2 DEF lwip_pbuf_alloc
  <2>2. ~Has(out, p) /\ ~Has(queue, p)
    BY <2>1 DEF PbufInv
  <2>3. /\ ref' \in [Pbufs -> Nat] /\ ref'[p] = 1
        /\ \A x \in Pbufs : x # p => ref'[x] = ref[x]
    BY <2>1 DEF PbufInv
  <2> QED
    BY <2>1, <2>2, <2>3 DEF PbufInv
<1>3. CASE lwip_pbuf_free(p)
  <2>1. /\ queue' = queue /\ out' = out /\ lwip' = lwip \ {p} /\ p \in lwip
        /\ ref' = [ref EXCEPT ![p] = ref[p] - 1]
    BY <1>3 DEF lwip_pbuf_free
  <2>2. ~Has(queue, p) /\ ref[p] >= 1 /\ ref[p] \in Nat
    BY <2>1 DEF PbufInv
  <2>3. /\ ref' \in [Pbufs -> Nat] /\ ref'[p] = ref[p] - 1
        /\ \A x \in Pbufs : x # p => ref'[x] = ref[x]
    BY <2>1, <2>2 DEF PbufInv
  <2> QED
    BY <2>1, <2>2, <2>3 DEF PbufInv
<1> QED
  BY <1>1, <1>2, <1>3

\* The queue's reference passes to lwIP, or is dropped.
LEMMA PbufInput == PbufInv /\ nt_input => PbufInv'
<1> SUFFICES ASSUME PbufInv, nt_input PROVE PbufInv'
  OBVIOUS
<1>1. CASE queue = << >>
  BY <1>1 DEF PbufInv, nt_input
<1>2. CASE queue # << >>
  <2> DEFINE p == Head(queue)
  <2>1. /\ queue' = Tail(queue) /\ out' = out
        /\ \/ lwip' = lwip \cup {p} /\ ref' = ref
           \/ ref' = [ref EXCEPT ![p] = ref[p] - 1] /\ lwip' = lwip
    BY <1>2 DEF nt_input, HandOver
  <2>2. /\ queue' \in Seq(Pbufs) /\ p \in Pbufs /\ Distinct(queue')
        /\ Has(queue, p)
        /\ \A x : Has(queue', x) <=> Has(queue, x) /\ x # p
    BY <1>2, <2>1, TailHas DEF PbufInv
  <2> HIDE DEF p
  <2>3. ref[p] >= 1 /\ ref[p] \in Nat /\ p \notin lwip /\ ~Has(out, p)
    BY <2>2 DEF PbufInv
  <2>4. /\ ref' \in [Pbufs -> Nat]
        /\ \A x \in Pbufs : x # p => ref'[x] = ref[x]
    <3>1. CASE lwip' = lwip \cup {p} /\ ref' = ref
      BY <3>1 DEF PbufInv
    <3>2. CASE ref' = [ref EXCEPT ![p] = ref[p] - 1] /\ lwip' = lwip
      BY <2>2, <2>3, <3>2 DEF PbufInv
    <3> QED
      BY <2>1, <3>1, <3>2
  <2>5. CASE lwip' = lwip \cup {p} /\ ref' = ref
    BY <2>1, <2>2, <2>3, <2>5 DEF PbufInv
  <2>6. CASE lwip' = lwip
    BY <2>1, <2>2, <2>3, <2>4, <2>6 DEF PbufInv
  <2> QED
    BY <2>1, <2>5, <2>6
<1> QED
  BY <1>1, <1>2

LEMMA PbufStep == PbufInv /\ [Next]_vars => PbufInv'
<1> SUFFICES ASSUME PbufInv, [Next]_vars PROVE PbufInv'
  OBVIOUS
<1>1. CASE ecm_init_netif
  <2>1. queue' = << >> /\ UNCHANGED <<ref, lwip, out>>
    BY <1>1 DEF ecm_init_netif
  <2>2. Distinct(queue') /\ \A p : ~Has(queue', p)
    BY <2>1, EmptySeq DEF Distinct, Has
  <2> QED
    BY <2>1, <2>2, EmptySeq DEF PbufInv
<1>2. CASE nt_input
  BY <1>2, PbufInput
<1>3. CASE \/ clear_halt_begin \/ clear_halt_end \/ sys_check_timeouts
           \/ usb_HandleEvents \/ UNCHANGED vars
  <2>1. UNCHANGED <<queue, ref, lwip, out>>
    BY <1>3 DEF clear_halt_begin, clear_halt_end, sys_check_timeouts,
                usb_HandleEvents, vars
  <2> QED
    BY <2>1 DEF PbufInv
<1>4. CASE Callback
  BY <1>4, PbufReadCallback, PbufWriteCallback DEF Callback
<1>5. CASE Lwip
  BY <1>5, PbufLwip
<1> QED
  BY <1>1, <1>2, <1>3, <1>4, <1>5 DEF Next, MainLoop

LEMMA PbufInit == Init => PbufInv
<1> SUFFICES ASSUME Init PROVE PbufInv
  OBVIOUS
<1>1. queue = << >> /\ out = << >> /\ lwip = {} /\ ref = [p \in Pbufs |-> 0]
  BY DEF Init
<1>2. \A p : ~Has(<< >>, p)
  BY EmptySeq DEF Has
<1>3. Distinct(<< >>)
  BY EmptySeq DEF Distinct
<1> QED
  BY <1>1, <1>2, <1>3, EmptySeq DEF PbufInv

\* A pbuf is counted once where it occurs in a sequence without repetition.
LEMMA DistinctCount ==
    ASSUME NEW S, NEW s \in Seq(S), Distinct(s), NEW p
    PROVE  Cardinality({i \in DOMAIN s : s[i] = p}) = IF Has(s, p) THEN 1 ELSE 0
<1>1. DOMAIN s = 1 .. Len(s)
  BY LenProperties
<1>2. CASE Has(s, p)
  <2>1. PICK k \in 1 .. Len(s) : s[k] = p
    BY <1>2 DEF Has
  <2>2. {i \in DOMAIN s : s[i] = p} = {k}
    BY <1>1, <2>1 DEF Distinct
  <2> QED
    BY <1>2, <2>2, FS_Singleton
<1>3. CASE ~Has(s, p)
  <2>1. {i \in DOMAIN s : s[i] = p} = {}
    BY <1>1, <1>3 DEF Has
  <2> QED
    BY <1>3, <2>1, FS_EmptySet
<1> QED
  BY <1>2, <1>3

\* The inductive invariant makes the references easy to count.
Count(s, p) == IF Has(s, p) THEN 1 ELSE 0

LwipCount(p) == IF p \in lwip THEN 1 ELSE 0

LEMMA HoldersCount ==
    ASSUME PbufInv, NEW p
    PROVE  Holders(p) = Count(queue, p) + Count(out, p) + LwipCount(p)
<1>1. Cardinality({i \in DOMAIN queue : queue[i] = p}) = Count(queue, p)
  BY DistinctCount DEF PbufInv, Count
<1>2. Cardinality({i \in DOMAIN out : out[i] = p}) = Count(out, p)
  BY DistinctCount DEF PbufInv, Count
<1> QED
  BY <1>1, <1>2 DEF Holders, LwipCount

\* PbufAlive: no pbuf is freed under the queue, lwIP or the driver.
THEOREM PbufsStayAlive == Spec => []PbufAlive
<1>1. PbufInv => PbufAlive
  <2> SUFFICES ASSUME PbufInv, NEW p \in Pbufs PROVE ref[p] >= Holders(p)
    BY DEF PbufAlive
  <2>1. Holders(p) = Count(queue, p) + Count(out, p) + LwipCount(p)
    BY HoldersCount
  <2> QED
    BY <2>1 DEF PbufInv, Count, LwipCount
<1> QED
  BY <1>1, PbufInit, PbufStep, PTL DEF Spec

-----------------------------------------------------------------------------
(* Leaks.                                                                  *)

\* References to p nobody holds any more.
Slack(p) == ref[p] - (Count(queue, p) + Count(out, p) + LwipCount(p))

\* The receive queue is empty until ecm_init_netif (ecm.c) has run.
DownInv == pc = "down" => queue = << >>

LEMMA DownStep == DownInv /\ [Next]_vars => DownInv'
<1> SUFFICES ASSUME DownInv, [Next]_vars PROVE DownInv'
  OBVIOUS
<1>1. CASE MainLoop
  BY <1>1 DEF DownInv, MainLoop, ecm_init_netif, nt_input, clear_halt_begin,
              clear_halt_end, sys_check_timeouts, usb_HandleEvents
<1>2. CASE Callback
  BY <1>2 DEF DownInv, Callback, InDriver, ecm_read_callback, ecm_write_callback
<1>3. CASE Lwip
  BY <1>3 DEF DownInv, Lwip, LwipRuns, ecm_netif_output, lwip_pbuf_alloc,
              lwip_pbuf_free
<1>4. CASE UNCHANGED vars
  BY <1>4 DEF DownInv, vars
<1> QED
  BY <1>1, <1>2, <1>3, <1>4 DEF Next

\* A received frame brings its one reference into the queue.
LEMMA SlackRead ==
    ASSUME PbufInv, NEW kind, NEW status, ecm_read_callback(kind, status),
           NEW x \in Pbufs
    PROVE  Slack(x)' = Slack(x)
<1>1. lwip' = lwip /\ out' = out
  BY DEF ecm_read_callback
<1>2. CASE UNCHANGED <<queue, ref>>
  BY <1>1, <1>2 DEF Slack, Count, LwipCount
<1>3. CASE \E p \in Pbufs : /\ ref[p] = 0
                           /\ queue' = Append(queue, p)
                           /\ ref' = [ref EXCEPT ![p] = 1]
  <2>1. PICK p \in Pbufs : /\ ref[p] = 0
                          /\ queue' = Append(queue, p)
                          /\ ref' = [ref EXCEPT ![p] = 1]
    BY <1>3
  <2>2. ~Has(queue, p)
    BY <2>1 DEF PbufInv
  <2>3. \A y : Has(queue', y) <=> Has(queue, y) \/ y = p
    BY <2>1, <2>2, AppendHas DEF PbufInv
  <2>4. ref'[x] = IF x = p THEN 1 ELSE ref[x]
    BY <2>1 DEF PbufInv
  <2>5. Count(queue, x)' = IF x = p THEN 1 ELSE Count(queue, x)
    BY <2>3 DEF Count
  <2>6. Count(out, x)' = Count(out, x) /\ LwipCount(x)' = LwipCount(x)
    BY <1>1 DEF Count, LwipCount
  <2>7. x = p => ref[x] = 0 /\ Count(queue, x) = 0
    BY <2>1, <2>2 DEF Count
  <2>8. ref[x] \in Nat
    BY DEF PbufInv
  <2>9. /\ Count(queue, x) \in Int /\ Count(out, x) \in Int
        /\ LwipCount(x) \in Int
    BY DEF Count, LwipCount
  <2> QED
    BY <2>4, <2>5, <2>6, <2>7, <2>8, <2>9 DEF Slack
<1>4. UNCHANGED <<queue, ref>> \/ \E p \in Pbufs :
          ref[p] = 0 /\ queue' = Append(queue, p) /\ ref' = [ref EXCEPT ![p] = 1]
  BY DEF ecm_read_callback, IgnoreFrame, LoseFrame, KeepFrame
<1> QED
  BY <1>2, <1>3, <1>4

\* ecm_write_callback (ecm.c:86-94) gives back what ecm_netif_output took.
LEMMA SlackWrite ==
    ASSUME PbufInv, ecm_write_callback, NEW x \in Pbufs
    PROVE  Slack(x)' = Slack(x)
<1> DEFINE p == Head(out)
<1>1. /\ queue' = queue /\ lwip' = lwip /\ out # << >> /\ out' = Tail(out)
      /\ ref' = [ref EXCEPT ![p] = ref[p] - 1]
  BY DEF ecm_write_callback
<1>2. p \in Pbufs /\ Has(out, p) /\ \A y : Has(out', y) <=> Has(out, y) /\ y # p
  BY <1>1, TailHas DEF PbufInv
<1> HIDE DEF p
<1>3. ref[x] \in Nat /\ ref'[x] = IF x = p THEN ref[x] - 1 ELSE ref[x]
  BY <1>1, <1>2 DEF PbufInv
<1>4. /\ Count(out, x)' = IF x = p THEN 0 ELSE Count(out, x)
      /\ x = p => Count(out, x) = 1
  BY <1>2 DEF Count
<1>5. Count(queue, x)' = Count(queue, x) /\ LwipCount(x)' = LwipCount(x)
  BY <1>1 DEF Count, LwipCount
<1>6. Count(queue, x) \in Int /\ Count(out, x) \in Int /\ LwipCount(x) \in Int
  BY DEF Count, LwipCount
<1> QED
  BY <1>3, <1>4, <1>5, <1>6 DEF Slack

\* A write the driver refuses (ecm.c:110-114): one reference more to p.
Refused(p) ==
    /\ p \in lwip /\ UNCHANGED <<queue, lwip, out>>
    /\ ref'[p] = ref[p] + 1

\* Sending is balanced unless the driver refuses; lwIP's own operations are.
LEMMA SlackLwip ==
    ASSUME PbufInv, Lwip, NEW x \in Pbufs
    PROVE  \/ Slack(x)' = Slack(x)
           \/ Refused(x) /\ ScheduleResults # {"USB_SUCCESS"}
<1>1. PICK p \in Pbufs : \/ ecm_netif_output(p)
                         \/ lwip_pbuf_alloc(p)
                         \/ lwip_pbuf_free(p)
  BY DEF Lwip
<1>2. /\ ref[x] \in Nat /\ Count(queue, x) \in Int /\ Count(out, x) \in Int
      /\ LwipCount(x) \in Int
  BY DEF PbufInv, Count, LwipCount
<1>3. CASE ecm_netif_output(p)
  <2>1. PICK e \in ScheduleResults :
            out' = IF e = "USB_SUCCESS" THEN Append(out, p) ELSE out
    BY <1>3 DEF ecm_netif_output
  <2>2. /\ queue' = queue /\ lwip' = lwip /\ p \in lwip /\ ref[p] = 1
        /\ ref' = [ref EXCEPT ![p] = ref[p] + 1]
    BY <1>3 DEF ecm_netif_output
  <2>3. ref'[x] = IF x = p THEN ref[x] + 1 ELSE ref[x]
    BY <2>2 DEF PbufInv
  <2>4. Count(queue, x)' = Count(queue, x) /\ LwipCount(x)' = LwipCount(x)
    BY <2>2 DEF Count, LwipCount
  <2>5. CASE e = "USB_SUCCESS"
    <3>1. ~Has(out, p)
      BY <2>2 DEF PbufInv
    <3>2. \A y : Has(out', y) <=> Has(out, y) \/ y = p
      BY <2>1, <2>5, AppendHas DEF PbufInv
    <3>3. /\ Count(out, x)' = IF x = p THEN 1 ELSE Count(out, x)
          /\ x = p => Count(out, x) = 0
      BY <3>1, <3>2 DEF Count
    <3> QED
      BY <1>2, <2>3, <2>4, <3>3 DEF Slack
  <2>6. CASE e # "USB_SUCCESS"
    <3>1. out' = out /\ Count(out, x)' = Count(out, x)
      BY <2>1, <2>6 DEF Count
    <3>2. CASE x = p
      BY <2>1, <2>2, <2>3, <2>6, <3>1, <3>2 DEF Refused
    <3>3. CASE x # p
      BY <1>2, <2>3, <2>4, <3>1, <3>3 DEF Slack
    <3> QED
      BY <3>2, <3>3
  <2> QED
    BY <2>5, <2>6
<1>4. CASE lwip_pbuf_alloc(p)
  <2>1. /\ queue' = queue /\ out' = out /\ lwip' = lwip \cup {p}
        /\ ref[p] = 0 /\ ref' = [ref EXCEPT ![p] = 1]
    BY <1>4 DEF lwip_pbuf_alloc
  <2>2. p \notin lwip
    BY <2>1 DEF PbufInv
  <2>3. ref'[x] = IF x = p THEN ref[x] + 1 ELSE ref[x]
    BY <2>1 DEF PbufInv
  <2>4. LwipCount(x)' = IF x = p THEN LwipCount(x) + 1 ELSE LwipCount(x)
    BY <2>1, <2>2 DEF LwipCount
  <2>5. Count(queue, x)' = Count(queue, x) /\ Count(out, x)' = Count(out, x)
    BY <2>1 DEF Count
  <2> QED
    BY <1>2, <2>3, <2>4, <2>5 DEF Slack
<1>5. CASE lwip_pbuf_free(p)
  <2>1. /\ queue' = queue /\ out' = out /\ lwip' = lwip \ {p} /\ p \in lwip
        /\ ref' = [ref EXCEPT ![p] = ref[p] - 1]
    BY <1>5 DEF lwip_pbuf_free
  <2>2. ref'[x] = IF x = p THEN ref[x] - 1 ELSE ref[x]
    BY <2>1 DEF PbufInv
  <2>3. LwipCount(x)' = IF x = p THEN LwipCount(x) - 1 ELSE LwipCount(x)
    BY <2>1 DEF LwipCount
  <2>4. Count(queue, x)' = Count(queue, x) /\ Count(out, x)' = Count(out, x)
    BY <2>1 DEF Count
  <2> QED
    BY <1>2, <2>2, <2>3, <2>4 DEF Slack
<1> QED
  BY <1>1, <1>3, <1>4, <1>5

\* nt_process passes the queue's reference on, or gives it back.
LEMMA SlackInput ==
    ASSUME PbufInv, nt_input, NEW x \in Pbufs
    PROVE  Slack(x)' = Slack(x)
<1>1. CASE queue = << >>
  BY <1>1 DEF nt_input, Slack, Count, LwipCount
<1>2. CASE queue # << >>
  <2> DEFINE p == Head(queue)
  <2>1. /\ queue' = Tail(queue) /\ out' = out
        /\ \/ lwip' = lwip \cup {p} /\ ref' = ref
           \/ ref' = [ref EXCEPT ![p] = ref[p] - 1] /\ lwip' = lwip
    BY <1>2 DEF nt_input, HandOver
  <2>2. /\ p \in Pbufs /\ Has(queue, p)
        /\ \A y : Has(queue', y) <=> Has(queue, y) /\ y # p
    BY <1>2, <2>1, TailHas DEF PbufInv
  <2> HIDE DEF p
  <2>3. /\ Count(queue, x)' = IF x = p THEN 0 ELSE Count(queue, x)
        /\ x = p => Count(queue, x) = 1
    BY <2>2 DEF Count
  <2>4. Count(out, x)' = Count(out, x)
    BY <2>1 DEF Count
  <2>5. /\ ref[x] \in Nat /\ Count(queue, x) \in Int /\ Count(out, x) \in Int
        /\ LwipCount(x) \in Int
    BY DEF PbufInv, Count, LwipCount
  <2>6. CASE lwip' = lwip \cup {p} /\ ref' = ref
    <3>1. p \notin lwip
      BY <2>2 DEF PbufInv
    <3>2. LwipCount(x)' = IF x = p THEN LwipCount(x) + 1 ELSE LwipCount(x)
      BY <2>6, <3>1 DEF LwipCount
    <3> QED
      BY <2>3, <2>4, <2>5, <2>6, <3>2 DEF Slack
  <2>7. CASE ref' = [ref EXCEPT ![p] = ref[p] - 1] /\ lwip' = lwip
    <3>1. ref'[x] = IF x = p THEN ref[x] - 1 ELSE ref[x]
      BY <2>7 DEF PbufInv
    <3>2. LwipCount(x)' = LwipCount(x)
      BY <2>7 DEF LwipCount
    <3> QED
      BY <2>3, <2>4, <2>5, <3>1, <3>2 DEF Slack
  <2> QED
    BY <2>1, <2>6, <2>7
<1> QED
  BY <1>1, <1>2

\* Only a refused write changes the number of references nobody holds.
LEMMA SlackStep ==
    ASSUME PbufInv, DownInv, [Next]_vars, NEW x \in Pbufs
    PROVE  \/ Slack(x)' = Slack(x)
           \/ Refused(x) /\ ScheduleResults # {"USB_SUCCESS"}
<1>1. CASE UNCHANGED <<queue, ref, lwip, out>>
  BY <1>1 DEF Slack, Count, LwipCount
<1>2. CASE ecm_init_netif
  <2>1. queue' = << >> /\ queue = << >> /\ UNCHANGED <<ref, lwip, out>>
    BY <1>2 DEF ecm_init_netif, DownInv
  <2> QED
    BY <1>1, <2>1
<1>3. CASE \/ clear_halt_begin \/ clear_halt_end \/ sys_check_timeouts
           \/ usb_HandleEvents \/ UNCHANGED vars
  BY <1>1, <1>3 DEF clear_halt_begin, clear_halt_end, sys_check_timeouts,
                    usb_HandleEvents, vars
<1>4. CASE nt_input
  BY <1>4, SlackInput
<1>5. CASE Callback
  BY <1>5, SlackRead, SlackWrite DEF Callback
<1>6. CASE Lwip
  BY <1>6, SlackLwip
<1> QED
  BY <1>2, <1>3, <1>4, <1>5, <1>6 DEF Next, MainLoop

LEMMA SlackIs ==
    ASSUME PbufInv, NEW p \in Pbufs
    PROVE  ref[p] - Holders(p) = Slack(p) /\ ref[p] \in Nat /\ Holders(p) \in Nat
<1>1. Holders(p) = Count(queue, p) + Count(out, p) + LwipCount(p)
  BY HoldersCount
<1> QED
  BY <1>1 DEF Slack, PbufInv, Count, LwipCount

LEMMA SlackIsNext ==
    ASSUME PbufInv', NEW p \in Pbufs
    PROVE  ref'[p] - Holders(p)' = Slack(p)'
<1>1. /\ queue' \in Seq(Pbufs) /\ Distinct(queue')
      /\ out' \in Seq(Pbufs) /\ Distinct(out')
  BY DEF PbufInv
<1>2. Cardinality({i \in DOMAIN queue' : queue'[i] = p}) = Count(queue', p)
  BY <1>1, DistinctCount DEF Count
<1>3. Cardinality({i \in DOMAIN out' : out'[i] = p}) = Count(out', p)
  BY <1>1, DistinctCount DEF Count
<1>4. Holders(p)' = Count(queue', p) + Count(out', p) + LwipCount(p)'
  BY <1>2, <1>3 DEF Holders, LwipCount
<1> QED
  BY <1>4 DEF Slack

LEMMA DownInit == Init => DownInv
BY DEF Init, DownInv

\* LeakHasCause: only a write the driver refuses makes a pbuf leak, by one
\* reference, and no step gives back a reference that is not its own.
THEOREM LeaksHaveCauses == Spec => LeakHasCause
<1>1. ASSUME PbufInv, DownInv, [Next]_vars
      PROVE  \A p \in Pbufs :
                 ref'[p] - Holders(p)' # ref[p] - Holders(p) =>
                     /\ ref'[p] = ref[p] + 1
                     /\ p \in lwip /\ UNCHANGED <<queue, lwip, out>>
  <2> SUFFICES ASSUME NEW p \in Pbufs,
                      ref'[p] - Holders(p)' # ref[p] - Holders(p)
               PROVE  Refused(p)
    BY DEF Refused
  <2>1. PbufInv'
    BY <1>1, PbufStep
  <2>2. Slack(p)' # Slack(p)
    BY <1>1, <2>1, SlackIs, SlackIsNext
  <2> QED
    BY <1>1, <2>2, SlackStep
<1> QED
  BY <1>1, PbufInit, PbufStep, DownInit, DownStep, PTL DEF Spec, LeakHasCause

\* RefCountExact: with a driver that accepts every transfer, the reference
\* count of every pbuf is the number of pointers to it, as pbuf_free's
\* documentation asks, in whatever order the callbacks and lwIP run.
THEOREM RefCountsAreExact ==
    ASSUME ScheduleResults = {"USB_SUCCESS"}
    PROVE  Spec => []RefCountExact
<1> DEFINE NoSlack == \A p \in Pbufs : Slack(p) = 0
<1>1. Init => NoSlack
  <2> SUFFICES ASSUME Init, NEW p \in Pbufs PROVE Slack(p) = 0
    OBVIOUS
  <2>1. queue = << >> /\ out = << >> /\ lwip = {} /\ ref[p] = 0
    BY DEF Init
  <2>2. ~Has(queue, p) /\ ~Has(out, p)
    BY <2>1, EmptySeq DEF Has
  <2>3. Count(queue, p) = 0 /\ Count(out, p) = 0 /\ LwipCount(p) = 0
    BY <2>1, <2>2, Zenon DEF Count, LwipCount
  <2> QED
    BY <2>1, <2>3 DEF Slack
<1>2. PbufInv /\ DownInv /\ NoSlack /\ [Next]_vars => NoSlack'
  BY SlackStep
<1>3. PbufInv /\ NoSlack => RefCountExact
  <2> SUFFICES ASSUME PbufInv, NoSlack, NEW p \in Pbufs
               PROVE  ref[p] = Holders(p)
    BY DEF RefCountExact
  <2> QED
    BY SlackIs
<1> HIDE DEF NoSlack
<1> QED
  BY <1>1, <1>2, <1>3, PbufInit, PbufStep, DownInit, DownStep, PTL DEF Spec

-----------------------------------------------------------------------------
(* Types, and the link that lwIP sees.                                     *)

\* What TypeOK says beyond the two invariants above.
CounterInv ==
    /\ pc \in {"down", "input", "halt", "clearing", "timers", "events"}
    /\ Len(queue) <= QUEUE_NUM_ELEMS
    /\ frame \in [Pbufs -> 0 .. MaxFrames]
    /\ arrived \in 0 .. MaxFrames
    /\ delivered \in 0 .. MaxFrames

LEMMA CounterRead ==
    ASSUME PbufInv, CounterInv, NEW kind, NEW status,
           ecm_read_callback(kind, status)
    PROVE  CounterInv'
<1> USE EcmAssumption
<1>1. /\ pc' = pc /\ delivered' = delivered
      /\ arrived < MaxFrames /\ arrived' = arrived + 1
  BY DEF ecm_read_callback
<1>2. arrived' \in 0 .. MaxFrames
  BY <1>1 DEF CounterInv
<1>3. CASE UNCHANGED <<queue, frame>>
  BY <1>1, <1>2, <1>3 DEF CounterInv
<1>4. CASE \E p \in Pbufs : /\ Len(queue) < QUEUE_NUM_ELEMS
                           /\ queue' = Append(queue, p)
                           /\ frame' = [frame EXCEPT ![p] = arrived + 1]
  <2>1. PICK p \in Pbufs : /\ Len(queue) < QUEUE_NUM_ELEMS
                          /\ queue' = Append(queue, p)
                          /\ frame' = [frame EXCEPT ![p] = arrived + 1]
    BY <1>4
  <2>2. Len(queue') = Len(queue) + 1 /\ Len(queue) \in Nat
    BY <2>1, AppendProperties, LenProperties DEF PbufInv
  <2>3. frame' \in [Pbufs -> 0 .. MaxFrames]
    BY <1>1, <1>2, <2>1 DEF CounterInv
  <2> QED
    BY <1>1, <1>2, <2>1, <2>2, <2>3 DEF CounterInv
<1> QED
  BY <1>3, <1>4 DEF ecm_read_callback, IgnoreFrame, LoseFrame, KeepFrame

LEMMA CounterInput ==
    ASSUME PbufInv, CounterInv, nt_input
    PROVE  CounterInv'
<1> USE EcmAssumption
<1>1. pc' = "halt" /\ arrived' = arrived
  BY DEF nt_input
<1>2. CASE queue = << >>
  BY <1>1, <1>2 DEF CounterInv, nt_input
<1>3. CASE queue # << >>
  <2>1. /\ queue' = Tail(queue) /\ delivered' = frame[Head(queue)]
        /\ frame' = [frame EXCEPT ![Head(queue)] = 0]
    BY <1>3 DEF nt_input, HandOver
  <2>2. Head(queue) \in Pbufs /\ Len(queue') = Len(queue) - 1 /\ Len(queue) \in Nat
    BY <1>3, <2>1, HeadTailProperties, LenProperties DEF PbufInv
  <2>3. frame' \in [Pbufs -> 0 .. MaxFrames] /\ delivered' \in 0 .. MaxFrames
    BY <2>1, <2>2 DEF CounterInv
  <2> QED
    BY <1>1, <2>2, <2>3 DEF CounterInv
<1> QED
  BY <1>2, <1>3

LEMMA CounterStep == PbufInv /\ CounterInv /\ [Next]_vars => CounterInv'
<1> SUFFICES ASSUME PbufInv, CounterInv, [Next]_vars PROVE CounterInv'
  OBVIOUS
<1>1. CASE ecm_init_netif
  <2>1. Len(<< >>) = 0
    BY EmptySeq
  <2> QED
    BY <1>1, <2>1, EcmAssumption DEF ecm_init_netif, CounterInv
<1>2. CASE nt_input
  BY <1>2, CounterInput
<1>3. CASE clear_halt_begin \/ clear_halt_end \/ sys_check_timeouts \/ usb_HandleEvents
  BY <1>3 DEF CounterInv, clear_halt_begin, clear_halt_end, sys_check_timeouts,
              usb_HandleEvents
<1>4. CASE \E kind \in FrameKinds, status \in Statuses :
              ecm_read_callback(kind, status)
  BY <1>4, CounterRead
<1>5. CASE ecm_write_callback
  BY <1>5 DEF ecm_write_callback, CounterInv
<1>6. CASE Lwip
  BY <1>6 DEF CounterInv, Lwip, ecm_netif_output, lwip_pbuf_alloc, lwip_pbuf_free
<1>7. CASE UNCHANGED vars
  BY <1>7 DEF CounterInv, vars
<1> QED
  BY <1>1, <1>2, <1>3, <1>4, <1>5, <1>6, <1>7 DEF Next, MainLoop, Callback

LEMMA CounterInit == Init => CounterInv
<1>1. Len(<< >>) = 0
  BY EmptySeq
<1> QED
  BY <1>1, EcmAssumption DEF Init, CounterInv

\* TypeOK: every variable has its type; the receive queue never holds more
\* than QUEUE_NUM_ELEMS frames.
THEOREM EcmTypes == Spec => []TypeOK
<1>1. RxInv /\ PbufInv /\ CounterInv => TypeOK
  BY DEF RxInv, PbufInv, CounterInv, TypeOK
<1> QED
  BY <1>1, RxInvariant, PbufInit, PbufStep, CounterInit, CounterStep, PTL DEF Spec

\* The numbers of the frames in the pbufs of a queue.
Frames(q, f) == [i \in DOMAIN q |-> f[q[i]]]

LEMMA FramesAppend ==
    ASSUME NEW q \in Seq(Pbufs), NEW f \in [Pbufs -> Nat],
           NEW g \in [Pbufs -> Nat], NEW p \in Pbufs, ~Has(q, p),
           \A x \in Pbufs : x # p => g[x] = f[x]
    PROVE  Frames(Append(q, p), g) = Append(Frames(q, f), g[p])
<1> DEFINE n == g[p]
           a == Append(q, p)
           w == Frames(q, f)
           b == Append(w, n)
<1>1. /\ a \in Seq(Pbufs) /\ Len(a) = Len(q) + 1 /\ Len(q) \in Nat
      /\ \A i \in 1 .. Len(q) : a[i] = q[i]
      /\ a[Len(q) + 1] = p
      /\ DOMAIN q = 1 .. Len(q) /\ DOMAIN a = 1 .. Len(a)
  BY AppendProperties, LenProperties
<1>2. \A i \in 1 .. Len(q) : q[i] \in Pbufs /\ q[i] # p
  BY <1>1, ElementOfSeq DEF Has
<1>3. w \in Seq(Nat) /\ Len(w) = Len(q) /\ \A i \in 1 .. Len(q) : w[i] = f[q[i]]
  <2>1. w = [i \in 1 .. Len(q) |-> f[q[i]]]
    BY <1>1 DEF Frames
  <2>2. \A i \in 1 .. Len(q) : f[q[i]] \in Nat
    BY <1>2
  <2> QED
    BY <1>1, <2>1, <2>2
<1> HIDE DEF a, w
<1>4. /\ b \in Seq(Nat) /\ Len(b) = Len(q) + 1
      /\ \A i \in 1 .. Len(q) : b[i] = w[i]
      /\ b[Len(q) + 1] = n
  BY <1>3, AppendProperties
<1> HIDE DEF b
<1>5. \A i \in 1 .. Len(q) + 1 : g[a[i]] = b[i]
  <2> SUFFICES ASSUME NEW i \in 1 .. Len(q) + 1 PROVE g[a[i]] = b[i]
    OBVIOUS
  <2>1. CASE i \in 1 .. Len(q)
    BY <1>1, <1>2, <1>3, <1>4, <2>1
  <2>2. CASE i = Len(q) + 1
    BY <1>1, <1>4, <2>2
  <2> QED
    BY <1>1, <2>1, <2>2
<1>6. Frames(a, g) = [i \in 1 .. Len(q) + 1 |-> b[i]]
  BY <1>1, <1>5 DEF Frames
<1>7. b = [i \in 1 .. Len(q) + 1 |-> b[i]]
  BY <1>4, LenProperties
<1> QED
  BY <1>6, <1>7 DEF a, b, w

LEMMA FramesTail ==
    ASSUME NEW q \in Seq(Pbufs), NEW f \in [Pbufs -> Nat],
           q # << >>, Distinct(q),
           NEW g \in [Pbufs -> Nat], \A x \in Pbufs : x # Head(q) => g[x] = f[x]
    PROVE  /\ Frames(q, f) # << >>
           /\ Head(Frames(q, f)) = f[Head(q)]
           /\ Frames(Tail(q), g) = Tail(Frames(q, f))
<1> DEFINE p == Head(q)
           t == Tail(q)
           w == Frames(q, f)
           u == Tail(w)
<1>1. /\ t \in Seq(Pbufs) /\ Len(t) = Len(q) - 1 /\ Len(q) \in Nat \ {0}
      /\ \A i \in 1 .. Len(q) - 1 : t[i] = q[i + 1]
      /\ p = q[1]
      /\ DOMAIN q = 1 .. Len(q) /\ DOMAIN t = 1 .. Len(t)
  BY HeadTailProperties, LenProperties, EmptySeq
<1>2. \A i \in 1 .. Len(q) : q[i] \in Pbufs /\ (i # 1 => q[i] # p)
  BY <1>1, ElementOfSeq DEF Distinct
<1>3. w \in Seq(Nat) /\ Len(w) = Len(q) /\ \A i \in 1 .. Len(q) : w[i] = f[q[i]]
  <2>1. w = [i \in 1 .. Len(q) |-> f[q[i]]]
    BY <1>1 DEF Frames
  <2>2. \A i \in 1 .. Len(q) : f[q[i]] \in Nat
    BY <1>2
  <2> QED
    BY <1>1, <2>1, <2>2
<1> HIDE DEF t, w, p
<1>4. w # << >> /\ Head(w) = f[p]
  <2>1. 1 \in 1 .. Len(q) /\ Len(w) # 0
    BY <1>1, <1>3
  <2>2. w # << >> /\ w[1] = f[p]
    BY <1>1, <1>3, <2>1, EmptySeq
  <2> QED
    BY <2>2, <1>3
<1>5. /\ u \in Seq(Nat) /\ Len(u) = Len(q) - 1
      /\ \A i \in 1 .. Len(q) - 1 : u[i] = w[i + 1]
  BY <1>3, <1>4, HeadTailProperties
<1> HIDE DEF u
<1>6. \A i \in 1 .. Len(q) - 1 : g[t[i]] = u[i]
  <2> SUFFICES ASSUME NEW i \in 1 .. Len(q) - 1 PROVE g[t[i]] = u[i]
    OBVIOUS
  <2>1. i + 1 \in 1 .. Len(q) /\ i + 1 # 1
    BY <1>1
  <2>2. t[i] = q[i + 1] /\ u[i] = f[q[i + 1]] /\ q[i + 1] \in Pbufs /\ q[i + 1] # p
    BY <1>1, <1>2, <1>3, <1>5, <2>1
  <2> QED
    BY <2>2 DEF p
<1>7. Frames(t, g) = [i \in 1 .. Len(q) - 1 |-> u[i]]
  BY <1>1, <1>6 DEF Frames
<1>8. u = [i \in 1 .. Len(q) - 1 |-> u[i]]
  BY <1>5, LenProperties
<1> QED
  BY <1>4, <1>7, <1>8 DEF t, u, w, p

\* What lwIP is offered: the state of the abstract link.
LEMMA WaitingIs ==
    /\ [i \in DOMAIN queue |-> frame[queue[i]]] = Frames(queue, frame)
    /\ [i \in DOMAIN queue |-> frame[queue[i]]]' = Frames(queue', frame')
BY Zenon DEF Frames

\* A completed read adds its frame to the link, or loses it.
LEMMA LinkRead ==
    ASSUME PbufInv, CounterInv, NEW kind, NEW status,
           ecm_read_callback(kind, status)
    PROVE  Link!Lose \/ Link!Keep
<1>1. arrived' = arrived + 1 /\ delivered' = delivered
  BY DEF ecm_read_callback
<1>2. CASE UNCHANGED <<queue, frame>>
  BY <1>1, <1>2 DEF Link!Lose
<1>3. CASE \E p \in Pbufs : /\ ref[p] = 0
                           /\ queue' = Append(queue, p)
                           /\ frame' = [frame EXCEPT ![p] = arrived + 1]
  <2>1. PICK p \in Pbufs : /\ ref[p] = 0
                          /\ queue' = Append(queue, p)
                          /\ frame' = [frame EXCEPT ![p] = arrived + 1]
    BY <1>3
  <2>2. ~Has(queue, p) /\ queue \in Seq(Pbufs)
    BY <2>1 DEF PbufInv
  <2>3. frame \in [Pbufs -> Nat] /\ arrived + 1 \in Nat
    BY EcmAssumption DEF CounterInv
  <2>4. /\ frame' \in [Pbufs -> Nat] /\ frame'[p] = arrived + 1
        /\ \A x \in Pbufs : x # p => frame'[x] = frame[x]
    BY <2>1, <2>3
  <2>5. Frames(Append(queue, p), frame')
        = Append(Frames(queue, frame), frame'[p])
    BY <2>2, <2>3, <2>4, FramesAppend
  <2> QED
    BY <1>1, <2>1, <2>4, <2>5, WaitingIs, Zenon DEF Link!Keep
<1> QED
  BY <1>2, <1>3 DEF ecm_read_callback, IgnoreFrame, LoseFrame, KeepFrame

\* nt_process hands over the oldest frame of the link.
LEMMA LinkInput ==
    ASSUME PbufInv, CounterInv, nt_input
    PROVE  Link!Deliver \/ UNCHANGED Link!vars
<1>1. arrived' = arrived
  BY DEF nt_input
<1>2. CASE queue = << >>
  BY <1>1, <1>2 DEF nt_input, Link!vars
<1>3. CASE queue # << >>
  <2>1. /\ queue' = Tail(queue) /\ delivered' = frame[Head(queue)]
        /\ frame' = [frame EXCEPT ![Head(queue)] = 0]
    BY <1>3 DEF nt_input, HandOver
  <2>2. queue \in Seq(Pbufs) /\ Distinct(queue) /\ frame \in [Pbufs -> Nat]
    BY EcmAssumption DEF PbufInv, CounterInv
  <2>3. /\ frame' \in [Pbufs -> Nat]
        /\ \A x \in Pbufs : x # Head(queue) => frame'[x] = frame[x]
    BY <2>1, <2>2
  <2>4. /\ Frames(queue, frame) # << >>
        /\ Head(Frames(queue, frame)) = frame[Head(queue)]
        /\ Frames(Tail(queue), frame') = Tail(Frames(queue, frame))
    BY <1>3, <2>2, <2>3, FramesTail
  <2> QED
    BY <1>1, <2>1, <2>4, WaitingIs, Zenon DEF Link!Deliver
<1> QED
  BY <1>2, <1>3

\* Towards lwIP the interface is a lossy link (the safety part of
\* ImplementsLossyLink): every step of the code is a step of LossyLink, or
\* leaves the link as it is.  Frames stay in order and none is handed over
\* twice.
THEOREM EcmIsLossyLink == Spec => Link!Init /\ [][Link!Next]_(Link!vars)
<1>1. Init => Link!Init
  <2> SUFFICES ASSUME Init PROVE Link!Init
    OBVIOUS
  <2>1. queue = << >> /\ DOMAIN << >> = {}
    BY EmptySeq DEF Init
  <2>2. [i \in DOMAIN queue |-> frame[queue[i]]] = << >>
    BY <2>1
  <2> QED
    BY <2>2 DEF Init, Link!Init
<1>2. ASSUME PbufInv, DownInv, CounterInv, [Next]_vars
      PROVE  [Link!Next]_(Link!vars)
  <2>1. CASE UNCHANGED <<queue, frame, arrived, delivered>>
    BY <2>1 DEF Link!vars
  <2>2. CASE ecm_init_netif
    BY <1>2, <2>1, <2>2 DEF ecm_init_netif, DownInv
  <2>3. CASE \/ clear_halt_begin \/ clear_halt_end \/ sys_check_timeouts
             \/ usb_HandleEvents \/ ecm_write_callback \/ Lwip \/ UNCHANGED vars
    BY <2>1, <2>3
    DEF clear_halt_begin, clear_halt_end, sys_check_timeouts, usb_HandleEvents,
        ecm_write_callback, Lwip, ecm_netif_output, lwip_pbuf_alloc,
        lwip_pbuf_free, vars
  <2>4. CASE nt_input
    BY <1>2, <2>4, LinkInput DEF Link!Next
  <2>5. CASE \E kind \in FrameKinds, status \in Statuses :
                ecm_read_callback(kind, status)
    BY <1>2, <2>5, LinkRead DEF Link!Next
  <2> QED
    BY <1>2, <2>2, <2>3, <2>4, <2>5 DEF Next, MainLoop, Callback
<1> QED
  BY <1>1, <1>2, PbufInit, PbufStep, DownInit, DownStep, CounterInit,
     CounterStep, PTL DEF Spec
=============================================================================
