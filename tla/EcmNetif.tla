------------------------------ MODULE EcmNetif ------------------------------
(***************************************************************************)
(* One CDC-ECM interface (src/src/device/ecm.c) driven by the main loop    *)
(* (nt_process of src/src/nanotube.c), between the USB driver below it and *)
(* lwIP above it.                                                          *)
(*                                                                         *)
(* The program has one thread.  What interleaves are the callbacks: the    *)
(* driver runs ecm_read_callback and ecm_write_callback from inside        *)
(* usb_HandleEvents and from inside any blocking driver call, of which     *)
(* clear_halt makes one between testing and updating the halted flag.      *)
(*                                                                         *)
(* External, as the code uses them: the USB driver (transfers on an        *)
(* endpoint complete in order, with any status; scheduling may fail; a     *)
(* callback that returns USB_SUCCESS ends its transfer), malloc and        *)
(* pbuf_alloc (may fail), and lwIP (owns the pbufs it is given, frees and  *)
(* sends them).  What USB_IGNORE asks of the driver is for usbdrvce.h to   *)
(* say, which is not in the repository: the transfer ends or is restarted. *)
(***************************************************************************)
EXTENDS Integers, Sequences, FiniteSets, Functions

CONSTANTS
    QUEUE_NUM_ELEMS,   \* capacity of the receive queue
    Bufs,              \* addresses malloc may return for a read buffer
    Pbufs,             \* pbufs the heap has room for
    NULL,              \* the null pointer
    WILD,              \* a pointer left behind in recycled heap memory
    FreshReadData,     \* what read_data may hold in a new netif_state_t
    ScheduleResults,   \* what usb_ScheduleTransfer may return
    IgnoreRestarts,    \* whether a transfer is restarted when its callback returns USB_IGNORE
    MaxFrames          \* bound: transfers completed on the in endpoint

ASSUME EcmAssumption ==
    /\ QUEUE_NUM_ELEMS \in Nat \ {0}
    /\ NULL \notin Bufs /\ WILD \notin Bufs /\ NULL # WILD
    /\ FreshReadData \subseteq {NULL, WILD}
    /\ "USB_SUCCESS" \in ScheduleResults
    /\ IgnoreRestarts \subseteq BOOLEAN
    /\ MaxFrames \in Nat

VARIABLES
    pc,         \* where the main loop is
    rx,         \* the receive side of netif_state_t and its driver state
    queue,      \* state->queue, as the sequence PacketQueue implements
    ref,        \* ref[p]: p->ref, 0 when p is not allocated
    lwip,       \* the pbufs lwIP holds a reference to
    out,        \* the pbufs scheduled on the out endpoint, in order
    frame,      \* frame[p]: which frame of the link p holds (rx only)
    arrived,    \* number of in transfers completed so far
    delivered   \* the frame handed to lwIP last

vars == <<pc, rx, queue, ref, lwip, out, frame, arrived, delivered>>

\* What the device may send: an accepted ethertype, the two ignored ones, a
\* frame too short to have an ethertype, and an empty transfer.
FrameKinds == {"ip", "ipv6", "arris", "runt", "empty"}

\* Completion status: none, an error without, and with USB_TRANSFER_FAILED.
Statuses == {"completed", "error", "failed"}

\* The driver dispatches callbacks here: in usb_HandleEvents, and in the
\* blocking usb_ClearEndpointHalt.
InDriver == pc \in {"events", "clearing"}

-----------------------------------------------------------------------------
(* The receive side: rx.read_data and rx.halted of netif_state_t, rx.heap  *)
(* the read buffers malloc has handed out, rx.in the buffers scheduled on  *)
(* the in endpoint, rx.failed whether the driver ever refused one,         *)
(* rx.restarted whether it ever restarted one, into a freed buffer.        *)

\* malloc found no memory: the interface is left for clear_halt to retry.
NoMemory(s) ==
    [rx |-> [s EXCEPT !.halted = TRUE], err |-> "USB_ERROR_NO_MEMORY"]

\* malloc returned b and usb_ScheduleTransfer returned e.
Submit(s, b, e) ==
    [rx  |-> [s EXCEPT !.read_data = b,
                       !.heap = @ \cup {b},
                       !.in = IF e = "USB_SUCCESS" THEN Append(@, b) ELSE @,
                       !.failed = IF e = "USB_SUCCESS" THEN @ ELSE TRUE],
     err |-> e]

\* Mutant of ecm_schedule_read: a buffer already there is not noticed.
schedule_read_unguarded(s) ==
    {NoMemory(s)}
    \cup {Submit(s, b, e) : b \in Bufs \ s.heap, e \in ScheduleResults}

\* The possible outcomes of ecm_schedule_read: the new state and the result.
ecm_schedule_read(s) ==
    IF s.read_data # NULL THEN {[rx |-> s, err |-> "USB_ERROR_FAILED"]}
    ELSE {NoMemory(s)}
         \cup {Submit(s, b, e) : b \in Bufs \ s.heap, e \in ScheduleResults}

\* USB_SUCCESS: the driver takes the oldest transfer off the endpoint.
Completed(s) == [s EXCEPT !.in = Tail(@)]

\* USB_IGNORE: it does so, or tries the transfer again.
Ignored(s) ==
    {IF again THEN [s EXCEPT !.restarted = TRUE] ELSE Completed(s) : again \in IgnoreRestarts}

\* free(state->read_data); state->read_data = NULL
FreeReadData(s) == [s EXCEPT !.heap = @ \ {s.read_data}, !.read_data = NULL]

-----------------------------------------------------------------------------
(* Attaching the interface.                                                *)

\* A netif_state_t fresh from malloc; lwIP and the endpoints are idle.
Init ==
    /\ pc = "down"
    /\ \E d \in FreshReadData, h \in BOOLEAN :
           rx = [read_data |-> d, halted |-> h, heap |-> {}, in |-> <<>>,
                 failed |-> FALSE, restarted |-> FALSE]
    /\ queue = <<>>
    /\ ref = [p \in Pbufs |-> 0]
    /\ lwip = {}
    /\ out = <<>>
    /\ frame = [p \in Pbufs |-> 0]
    /\ arrived = 0
    /\ delivered = 0

\* Mutant of ecm_init_netif: the flag is cleared after the first read.
init_netif_clears_late ==
    /\ pc = "down"
    /\ \E o \in ecm_schedule_read(rx) : rx' = [o.rx EXCEPT !.halted = FALSE]
    /\ queue' = <<>>
    /\ pc' = "events"
    /\ UNCHANGED <<ref, lwip, out, frame, arrived, delivered>>

\* Called by netif_add while a connection event is being handled.
ecm_init_netif ==
    /\ pc = "down"
    /\ \E o \in ecm_schedule_read([rx EXCEPT !.halted = FALSE]) : rx' = o.rx
    /\ queue' = <<>>
    /\ pc' = "events"
    /\ UNCHANGED <<ref, lwip, out, frame, arrived, delivered>>

-----------------------------------------------------------------------------
(* The callbacks.                                                          *)

\* The frame is skipped: its ethertype is one of the two ignored ones, or
\* nothing was transferred.  The type field of a runt is whatever the read
\* buffer held before.
IgnoreFrame(kind) ==
    /\ kind # "ip"
    /\ UNCHANGED <<queue, ref, frame>>

\* pbuf_alloc returned NULL.
LoseFrame(kind) ==
    /\ kind \in {"ip", "runt"}
    /\ UNCHANGED <<queue, ref, frame>>

\* Mutant of KeepFrame: the queue takes a frame more than it has room for.
keep_frame_overfull(kind) ==
    /\ kind \in {"ip", "runt"}
    /\ \E p \in Pbufs :
          /\ ref[p] = 0
          /\ queue' = Append(queue, p)
          /\ ref' = [ref EXCEPT ![p] = 1]
          /\ frame' = [frame EXCEPT ![p] = arrived + 1]

\* The frame is copied to a new pbuf and queued, or freed if queue_add fails.
KeepFrame(kind) ==
    /\ kind \in {"ip", "runt"}
    /\ \E p \in Pbufs :
          /\ ref[p] = 0
          /\ \/ /\ Len(queue) < QUEUE_NUM_ELEMS
                /\ queue' = Append(queue, p)
                /\ ref' = [ref EXCEPT ![p] = 1]
                /\ frame' = [frame EXCEPT ![p] = arrived + 1]
             \/ /\ Len(queue) = QUEUE_NUM_ELEMS
                /\ UNCHANGED <<queue, ref, frame>>

\* Mutant of Reschedule: a failed transfer is also rescheduled at once.
reschedule_always(s, status) ==
    {o.rx : o \in ecm_schedule_read(
                      [Completed(s) EXCEPT !.halted = @ \/ status = "failed"])}

\* A failed transfer leaves the endpoint halted; otherwise the next read is
\* scheduled, and the result of that is not looked at.
Reschedule(s, status) ==
    IF status = "failed" THEN Ignored([s EXCEPT !.halted = TRUE])
                         ELSE {o.rx : o \in ecm_schedule_read(Completed(s))}

\* A read transfer ends; what was received is used whatever the status.
ecm_read_callback(kind, status) ==
    /\ InDriver
    /\ rx.in # <<>>
    /\ arrived < MaxFrames
    /\ IgnoreFrame(kind) \/ LoseFrame(kind) \/ KeepFrame(kind)
    /\ rx' \in Reschedule(FreeReadData(rx), status)
    /\ arrived' = arrived + 1
    /\ UNCHANGED <<pc, lwip, out, delivered>>

\* Mutant of ecm_write_callback: a short transfer returns before pbuf_free.
write_callback_keeps_short ==
    /\ InDriver
    /\ out # <<>>
    /\ ref' \in {ref, [ref EXCEPT ![Head(out)] = @ - 1]}
    /\ out' = Tail(out)
    /\ UNCHANGED <<pc, rx, queue, lwip, frame, arrived, delivered>>

\* A write transfer ends; whether it sent everything is only logged.
ecm_write_callback ==
    /\ InDriver
    /\ out # <<>>
    /\ ref' = [ref EXCEPT ![Head(out)] = @ - 1]
    /\ out' = Tail(out)
    /\ UNCHANGED <<pc, rx, queue, lwip, frame, arrived, delivered>>

-----------------------------------------------------------------------------
(* lwIP: it runs in netif->input, in its timers, in the application's      *)
(* calls, and in netif_init_common; never inside clear_halt.               *)

LwipRuns == pc \notin {"down", "clearing"}

\* Mutant of ecm_netif_output: the driver's reference is not counted.
netif_output_no_ref(p) ==
    /\ LwipRuns
    /\ p \in lwip /\ ref[p] = 1
    /\ \E e \in ScheduleResults :
           out' = IF e = "USB_SUCCESS" THEN Append(out, p) ELSE out
    /\ UNCHANGED <<pc, rx, queue, ref, lwip, frame, arrived, delivered>>

\* netif->linkoutput.  lwIP sends a pbuf of its own, and sends it again (a
\* TCP segment) only when tcp_output_segment_busy finds no other reference.
\* The result of usb_ScheduleTransfer is not looked at.
ecm_netif_output(p) ==
    /\ LwipRuns
    /\ p \in lwip /\ ref[p] = 1
    /\ ref' = [ref EXCEPT ![p] = @ + 1]
    /\ \E e \in ScheduleResults :
           out' = IF e = "USB_SUCCESS" THEN Append(out, p) ELSE out
    /\ UNCHANGED <<pc, rx, queue, lwip, frame, arrived, delivered>>

\* lwIP builds a packet of its own.
lwip_pbuf_alloc(p) ==
    /\ LwipRuns
    /\ ref[p] = 0
    /\ ref' = [ref EXCEPT ![p] = 1]
    /\ lwip' = lwip \cup {p}
    /\ UNCHANGED <<pc, rx, queue, out, frame, arrived, delivered>>

\* lwIP is done with a packet it received or built.
lwip_pbuf_free(p) ==
    /\ LwipRuns
    /\ p \in lwip
    /\ ref' = [ref EXCEPT ![p] = @ - 1]
    /\ lwip' = lwip \ {p}
    /\ UNCHANGED <<pc, rx, queue, out, frame, arrived, delivered>>

-----------------------------------------------------------------------------
(* nt_process, with one interface in the list.                             *)

\* Mutant of HandOver: a pbuf lwIP accepted is freed as well.
hand_over_frees_always(p) ==
    /\ queue' = Tail(queue)
    /\ delivered' = frame[p]
    /\ frame' = [frame EXCEPT ![p] = 0]
    /\ ref' = [ref EXCEPT ![p] = @ - 1]
    /\ lwip' \in {lwip, lwip \cup {p}}

\* Mutant of HandOver: the newest frame is taken instead of the oldest.
hand_over_newest(p) ==
    LET last == queue[Len(queue)] IN
    /\ queue' = SubSeq(queue, 1, Len(queue) - 1)
    /\ delivered' = frame[last]
    /\ frame' = [frame EXCEPT ![last] = 0]
    /\ \/ lwip' = lwip \cup {last} /\ UNCHANGED ref
       \/ ref' = [ref EXCEPT ![last] = @ - 1] /\ UNCHANGED lwip

\* netif->input takes p over if it returns ERR_OK; otherwise p is freed.
HandOver(p) ==
    /\ queue' = Tail(queue)
    /\ delivered' = frame[p]
    /\ frame' = [frame EXCEPT ![p] = 0]
    /\ \/ lwip' = lwip \cup {p} /\ UNCHANGED ref
       \/ ref' = [ref EXCEPT ![p] = @ - 1] /\ UNCHANGED lwip

\* One queued frame, if there is one, goes to lwIP.
nt_input ==
    /\ pc = "input"
    /\ pc' = "halt"
    /\ \/ queue = <<>> /\ UNCHANGED <<queue, ref, lwip, frame, delivered>>
       \/ queue # <<>> /\ HandOver(Head(queue))
    /\ UNCHANGED <<rx, out, arrived>>

\* clear_halt up to the blocking usb_ClearEndpointHalt.
clear_halt_begin ==
    /\ pc = "halt"
    /\ pc' = IF rx.halted THEN "clearing" ELSE "timers"
    /\ UNCHANGED <<rx, queue, ref, lwip, out, frame, arrived, delivered>>

\* Mutant of clear_halt_end: the flag is cleared whatever the result.
clear_halt_gives_up ==
    /\ pc = "clearing"
    /\ pc' = "timers"
    /\ \E o \in ecm_schedule_read(rx) : rx' = [o.rx EXCEPT !.halted = FALSE]
    /\ UNCHANGED <<queue, ref, lwip, out, frame, arrived, delivered>>

\* clear_halt after usb_ClearEndpointHalt, whose result is only logged.
clear_halt_end ==
    /\ pc = "clearing"
    /\ pc' = "timers"
    /\ \E o \in ecm_schedule_read(rx) :
           rx' = [o.rx EXCEPT !.halted = @ /\ o.err # "USB_SUCCESS"]
    /\ UNCHANGED <<queue, ref, lwip, out, frame, arrived, delivered>>

\* sys_check_timeouts is over.
sys_check_timeouts ==
    /\ pc = "timers"
    /\ pc' = "events"
    /\ UNCHANGED <<rx, queue, ref, lwip, out, frame, arrived, delivered>>

\* usb_HandleEvents has dispatched what it had; the next iteration begins.
usb_HandleEvents ==
    /\ pc = "events"
    /\ pc' = "input"
    /\ UNCHANGED <<rx, queue, ref, lwip, out, frame, arrived, delivered>>

MainLoop ==
    \/ ecm_init_netif \/ nt_input \/ clear_halt_begin \/ clear_halt_end
    \/ sys_check_timeouts \/ usb_HandleEvents

Callback ==
    \/ \E kind \in FrameKinds, status \in Statuses :
           ecm_read_callback(kind, status)
    \/ ecm_write_callback

Lwip ==
    \E p \in Pbufs :
        ecm_netif_output(p) \/ lwip_pbuf_alloc(p) \/ lwip_pbuf_free(p)

Next == MainLoop \/ Callback \/ Lwip

\* The loop keeps turning (every driver call returns); the device completes
\* the transfers it was given; malloc does not fail for ever.
Fairness ==
    /\ WF_vars(MainLoop)
    /\ SF_vars(ecm_write_callback)
    /\ SF_vars(clear_halt_end /\ rx'.in # <<>>)

Spec == Init /\ [][Next]_vars /\ Fairness

-----------------------------------------------------------------------------
(* Properties.                                                             *)

RxType == [read_data : Bufs \cup {NULL, WILD}, halted : BOOLEAN,
           heap : SUBSET Bufs, in : Seq(Bufs), failed : BOOLEAN, restarted : BOOLEAN]

TypeOK ==
    /\ pc \in {"down", "input", "halt", "clearing", "timers", "events"}
    /\ rx \in RxType
    /\ queue \in Seq(Pbufs) /\ Len(queue) <= QUEUE_NUM_ELEMS
    /\ ref \in [Pbufs -> Nat]
    /\ lwip \subseteq Pbufs
    /\ out \in Seq(Pbufs)
    /\ frame \in [Pbufs -> 0 .. MaxFrames]
    /\ arrived \in 0 .. MaxFrames
    /\ delivered \in 0 .. MaxFrames

\* The read buffer belongs to exactly one owner chain: no allocated buffer
\* is forgotten and, as long as the driver has restarted no transfer that
\* ecm_read_callback freed the buffer of (ecm.c:72 and 79), it writes into
\* at most one buffer, which is allocated and is the one read_data names
\* (ecm_read_callback reads it through read_data, ecm.c:50 and 61).
ReadBufferSafe ==
    /\ rx.heap = {rx.read_data} \ {NULL, WILD}
    /\ ~rx.restarted => /\ rx.in \in {<<>>, <<rx.read_data>>}
                        /\ rx.in # <<>> => rx.read_data \in rx.heap

\* While the interface is marked halted, and all through the blocking call
\* clear_halt makes before it looks at read_data again (ecm.c:34-42), no
\* read is in flight, unless the driver restarted one: no callback can run
\* in between.
HaltedIsIdle ==
    pc # "down" /\ (rx.halted \/ pc = "clearing") => rx.in = <<>> \/ rx.restarted

\* Unless a read is in flight, or clear_halt is going to schedule one, no
\* frame will ever arrive again.
Stalled ==
    /\ pc # "down"
    /\ rx.in = <<>>
    /\ ~(rx.halted /\ rx.read_data = NULL)

\* Receiving stops for good in two cases only: ecm_init_netif found a
\* leftover pointer in read_data, which nothing initialises (ecm.c:18,
\* usb.c:204), or usb_ScheduleTransfer failed once (ecm.c:28, 82).  Failed
\* transfers and lack of memory are recovered from.
StallHasCause == Stalled => rx.read_data = WILD \/ rx.failed

Holders(p) ==
    Cardinality({i \in DOMAIN queue : queue[i] = p})
    + Cardinality({i \in DOMAIN out : out[i] = p})
    + (IF p \in lwip THEN 1 ELSE 0)

\* A pbuf that is queued, held by lwIP or being sent is never freed under
\* its holder, in whatever order lwIP and the driver let go of it.
PbufAlive == \A p \in Pbufs : ref[p] >= Holders(p)

\* "the reference counter of a pbuf equals the number of pointers that
\* refer to the pbuf" (src/src/lwIP/core/pbuf.c, pbuf_free): no pbuf leaks.
RefCountExact == \A p \in Pbufs : ref[p] = Holders(p)

Link == INSTANCE LossyLink
            WITH waiting <- [i \in DOMAIN queue |-> frame[queue[i]]]

\* Towards lwIP the interface is a lossy link: frames stay in order, none
\* is duplicated, and every queued frame is eventually handed over.
ImplementsLossyLink == Link!Spec

\* Only a write the driver refuses makes a pbuf leak (ecm.c:110-114: the reference
\* is taken before usb_ScheduleTransfer, whose result is not looked at), by one
\* reference, and nothing gives back a reference that is not its own.
LeakHasCause ==
    [][\A p \in Pbufs :
        ref'[p] - Holders(p)' # ref[p] - Holders(p) =>
            /\ ref'[p] = ref[p] + 1
            /\ p \in lwip /\ UNCHANGED <<queue, lwip, out>>]_vars

\* A halted interface receives again (given memory, and a driver that
\* accepts transfers).
ReadRecovers == rx.halted /\ pc # "down" ~> rx.in # <<>>

\* A segment lwIP finds busy becomes free to be retransmitted, or lwIP has
\* no more use for it (given a driver that accepts transfers).
BusyEnds ==
    \A p \in Pbufs : p \in lwip /\ ref[p] > 1 ~> ref[p] = 1 \/ p \notin lwip
=============================================================================
