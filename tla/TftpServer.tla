----------------------------- MODULE TftpServer -----------------------------
(***************************************************************************)
(* The TFTP server of src/src/lwIP/apps/tftp/tftp_server.c with the file   *)
(* callbacks of src/src/tftp.c, and clients that transfer a file of Blocks *)
(* blocks over channels that lose and duplicate packets.                   *)
(*                                                                         *)
(* A block is its position in the file; the last one is short. A client    *)
(* stands for an address and port, and transfers one file: Writers write   *)
(* one to the server, the others read one. The clients are those of RFC    *)
(* 1350: they wait for each answer and repeat their last packet.           *)
(***************************************************************************)
EXTENDS Integers, Sequences

CONSTANTS
    NONE,               \* the null pointer
    Clients, Writers,
    Blocks,             \* length of each file
    BlkMod,             \* 2^16: block numbers are u16_t
    Timeout,            \* TFTP_TIMEOUT_MSECS / TFTP_TIMER_MSECS
    TFTP_MAX_RETRIES,
    MaxTimers,          \* bound on the timers left by failed requests
    Capacity            \* bound on the packets under way in a channel

ASSUME TftpAssumption ==
    /\ NONE \notin Clients /\ NONE \notin [blknum : Nat, data : Nat]
    /\ Writers \subseteq Clients
    /\ Blocks \in Nat \ {0}
    /\ BlkMod \in Nat /\ BlkMod >= 2
    /\ Timeout \in Nat /\ TFTP_MAX_RETRIES \in Nat

VARIABLES
    lossy,      \* either packets are lost or late and clients repeat or give up, or memory
                \* is short and main may be left; files may fail in any case
    main,       \* where main is
    upcb,       \* tftp_state.upcb # NULL
    srv,        \* the rest of tftp_state, and the position in the file read
    timers,     \* timeouts set for tftp_tmr, for this interval and for the next; history:
                \* for one of the running transfer there was no memory
    quiet,      \* intervals since the last packet of the transfer, by the clock
    stored,     \* the file of each writer on the server
    client,     \* what each client does
    toSrv, toCl \* the channels

tftp_vars == <<lossy, main, upcb, srv, timers, quiet, stored, client, toSrv, toCl>>

NoTransfer ==
    [port |-> NONE, handle |-> NONE, mode_write |-> FALSE, last_data |-> NONE,
     blknum |-> 0, idle |-> 0, retries |-> 0, pos |-> 0]

Packet(op, n, b) == [op |-> op, blknum |-> n % BlkMod, data |-> b]
Error == Packet("ERROR", 0, 0)

TftpInit ==
    /\ lossy \in BOOLEAN
    /\ main = "start" /\ upcb = FALSE
    /\ srv = NoTransfer
    /\ timers = [now |-> 0, next |-> 0, lost |-> FALSE]
    /\ quiet = 0
    /\ stored = [c \in Writers |-> <<>>]
    /\ client = [c \in Clients |-> [state |-> "idle", block |-> 0, got |-> <<>>]]
    /\ toSrv = [c \in Clients |-> <<>>]
    /\ toCl = [c \in Clients |-> <<>>]

Put(channel, packets) ==
    IF Len(channel) + Len(packets) > Capacity THEN channel ELSE channel \o packets

-----------------------------------------------------------------------------
(* The functions of the server. Each gives the outcomes of a call: the       *)
(* transfer s and the timers t it leaves, the packets out it sends to the    *)
(* client it answers, and the block it writes, 0 for none.                   *)

Outcome(s, t, out) == [s |-> s, t |-> t, out |-> out, written |-> 0]

\* sys_timeout does not tell when it fails.
set_tftp_tmr(t) ==
    {[t EXCEPT !.next = @ + 1]} \cup (IF ~lossy THEN {[t EXCEPT !.lost = TRUE]} ELSE {})
cancel_tftp_tmr(t) ==
    CASE t.now > 0 -> [t EXCEPT !.now = @ - 1]
      [] t.now = 0 /\ t.next > 0 -> [t EXCEPT !.next = @ - 1]
      [] OTHER -> t

close_handle(o) ==
    [o EXCEPT !.s = [@ EXCEPT !.port = NONE, !.last_data = NONE, !.handle = NONE],
              !.t = cancel_tftp_tmr(@)]

\* The packet is not sent when pbuf_alloc fails.
Send(s, t, packet) ==
    {Outcome(s, t, <<packet>>)} \cup (IF ~lossy THEN {Outcome(s, t, <<>>)} ELSE {})

send_error(s, t) == Send(s, t, Error)
send_ack(s, t, n) == Send(s, t, Packet("ACK", n, 0))
resend_data(s, t) == Send(s, t, Packet("DATA", s.last_data.blknum, s.last_data.data))

send_data(s, t) ==
    (IF ~lossy THEN {Outcome([s EXCEPT !.last_data = NONE], t, <<>>)} ELSE {})
    \cup {close_handle(o) : o \in send_error(s, t)}
    \cup resend_data([s EXCEPT !.last_data = [blknum |-> s.blknum, data |-> s.pos + 1],
                               !.pos = @ + 1], t)

\* TFTP_RRQ and TFTP_WRQ: the timer is set first, then the file opened.
Request(s, t, c) ==
    LET open == [s EXCEPT !.handle = c, !.port = c, !.blknum = 1, !.pos = 0,
                          !.mode_write = (c \in Writers)]
    IN  IF s.handle # NONE THEN send_error(s, t)
        ELSE UNION {
                (IF t.now + t.next < MaxTimers THEN send_error([s EXCEPT !.blknum = 1], u) ELSE {})
                \cup (IF c \in Writers THEN send_ack(open, u, 0) ELSE send_data(open, u)) :
             u \in set_tftp_tmr([t EXCEPT !.lost = FALSE])}

NextBlock(o) == [o EXCEPT !.s = [o.s EXCEPT !.blknum = (o.s.blknum + 1) % BlkMod]]

\* What follows the write of a block: a short one ends the transfer.
AfterWrite(o, p) == IF p.data = Blocks THEN close_handle(o) ELSE NextBlock(o)

\* A block of which ti_Write, short of memory, stored only a part or nothing.
Short == -1

\* ctx->write returns < 0, or what ti_Write counted: recv does not compare it with the
\* length, and acknowledges the block.
Write(s, t, p) ==
    {AfterWrite(close_handle(o), p) : o \in send_error(s, t)}
    \cup UNION {{AfterWrite([o EXCEPT !.written = w], p) : o \in send_ack(s, t, p.blknum)} :
                   w \in {p.data} \cup (IF ~lossy THEN {Short} ELSE {})}

\* Mutant of Data: a repeated block is taken for the next one.
DataM(s, t, p) ==
    IF s.handle = NONE \/ ~s.mode_write THEN send_error(s, t)
    ELSE Write(s, t, p)
\* TFTP_DATA: the next block is written; the previous one is acknowledged again.
Data(s, t, p) ==
    IF s.handle = NONE \/ ~s.mode_write THEN send_error(s, t)
    ELSE IF p.blknum = s.blknum THEN Write(s, t, p)
    ELSE IF (p.blknum + 1) % BlkMod = s.blknum THEN send_ack(s, t, p.blknum)
    ELSE send_error(s, t)

\* Mutant of Ack: on a repeated acknowledgement the block is sent again by send_data.
AckRepeatM(s, t, p) ==
    IF s.handle = NONE \/ s.mode_write THEN send_error(s, t)
    ELSE IF p.blknum # s.blknum THEN send_data(s, t)
    ELSE IF s.last_data # NONE /\ s.last_data.data = Blocks
         THEN {close_handle(Outcome(s, t, <<>>))}
    ELSE send_data(NextBlock(Outcome(s, t, <<>>)).s, t)
\* TFTP_ACK: the next block is sent, unless the one acknowledged was the last.
Ack(s, t, p) ==
    IF s.handle = NONE \/ s.mode_write \/ p.blknum # s.blknum THEN send_error(s, t)
    ELSE IF s.last_data # NONE /\ s.last_data.data = Blocks
         THEN {close_handle(Outcome(s, t, <<>>))}
    ELSE send_data(NextBlock(Outcome(s, t, <<>>)).s, t)

-----------------------------------------------------------------------------
(* The steps of the server and of main *)

\* Mutant of Refused: any client may join the transfer.
RefusedM(c) == FALSE
Refused(c) == srv.port # NONE /\ srv.port # c

\* The switch over the operation.
Handled(s, c, p) ==
    CASE p.op = "REQ" -> Request(s, timers, c)
      [] p.op = "DATA" -> Data(s, timers, p)
      [] p.op = "ACK" -> Ack(s, timers, p)
      [] p.op = "ERROR" -> send_error(s, timers)

\* The effect of a step that answers c on everything else. Opening a file for
\* writing empties it. A client that has finished takes no more packets.
Apply(o, c) ==
    /\ srv' = o.s /\ timers' = o.t
    /\ toCl' = IF client[c].state = "wait" THEN [toCl EXCEPT ![c] = Put(@, o.out)] ELSE toCl
    /\ stored' = IF c \notin Writers THEN stored
                 ELSE [stored EXCEPT ![c] = IF srv.handle = NONE /\ o.s.handle # NONE THEN <<>>
                                            ELSE IF o.written = 0 THEN @
                                            ELSE Append(@, o.written)]

recv(c) ==
    /\ main = "loop" /\ upcb
    /\ toSrv[c] # <<>>
    /\ toSrv' = [toSrv EXCEPT ![c] = Tail(@)]
    /\ IF Refused(c)
       THEN /\ \E o \in send_error(srv, timers) : Apply(o, c)
            /\ UNCHANGED quiet
       ELSE /\ \E o \in Handled([srv EXCEPT !.idle = 0, !.retries = 0], c, Head(toSrv[c])) :
                   Apply(o, c)
            /\ quiet' = 0
    /\ UNCHANGED <<lossy, main, upcb, client>>

TimedOut(idle) == idle > Timeout

\* Mutant of tftp_tmr: the timer is set again only when nothing has timed out.
tftp_tmrM ==
    LET fired == [timers EXCEPT !.now = @ - 1]
        idle == IF srv.idle > Timeout THEN srv.idle ELSE srv.idle + 1
        s == [srv EXCEPT !.idle = idle]
    IN  /\ main = "loop" /\ timers.now > 0
        /\ IF s.handle = NONE
           THEN srv' = s /\ timers' = fired /\ UNCHANGED <<toCl, stored>>
           ELSE IF ~TimedOut(idle)
           THEN srv' = s /\ timers' \in set_tftp_tmr(fired) /\ UNCHANGED <<toCl, stored>>
           ELSE IF s.last_data # NONE /\ s.retries < TFTP_MAX_RETRIES
           THEN \E o \in resend_data([s EXCEPT !.retries = @ + 1], fired) : Apply(o, s.port)
           ELSE Apply(close_handle(Outcome(s, fired, <<>>)), s.port)
        /\ UNCHANGED <<lossy, main, upcb, quiet, client, toSrv>>
\* idle is timer - last_pkt; only whether it is more than Timeout is ever asked.
tftp_tmr ==
    LET fired == [timers EXCEPT !.now = @ - 1]
        idle == IF srv.idle > Timeout THEN srv.idle ELSE srv.idle + 1
        s == [srv EXCEPT !.idle = idle]
    IN  /\ main = "loop" /\ timers.now > 0
        /\ IF s.handle = NONE
           THEN srv' = s /\ timers' = fired /\ UNCHANGED <<toCl, stored>>
           ELSE \E again \in set_tftp_tmr(fired) :
                IF ~TimedOut(idle)
                THEN srv' = s /\ timers' = again /\ UNCHANGED <<toCl, stored>>
                ELSE IF s.last_data # NONE /\ s.retries < TFTP_MAX_RETRIES
                THEN \E o \in resend_data([s EXCEPT !.retries = @ + 1], again) : Apply(o, s.port)
                ELSE Apply(close_handle(Outcome(s, again, <<>>)), s.port)
        /\ UNCHANGED <<lossy, main, upcb, quiet, client, toSrv>>

\* The next interval of TFTP_TIMER_MSECS begins: each timer fires once in it. Packets
\* take less than an interval unless the channels are lossy.
Interval ==
    /\ main = "loop"
    /\ timers.now = 0 /\ timers.next > 0
    /\ lossy \/ \A c \in Clients : toSrv[c] = <<>> /\ toCl[c] = <<>>
    /\ timers' = [timers EXCEPT !.now = timers.next, !.next = 0]
    /\ quiet' = IF quiet > Timeout THEN quiet ELSE quiet + 1
    /\ UNCHANGED <<lossy, main, upcb, srv, stored, client, toSrv, toCl>>

\* main enters its loop, as it would if its call of tftp_init were not commented out.
tftp_init ==
    /\ main = "start"
    /\ main' = "loop"
    /\ upcb' \in {TRUE} \cup (IF ~lossy THEN {FALSE} ELSE {})
    /\ srv' = IF upcb' THEN NoTransfer ELSE srv
    /\ UNCHANGED <<lossy, timers, quiet, stored, client, toSrv, toCl>>

\* The clear key ends the loop, and also the wait for an interface before it.
Leave ==
    /\ ~lossy /\ main \in {"start", "loop"}
    /\ main' = "exit"
    /\ UNCHANGED <<lossy, upcb, srv, timers, quiet, stored, client, toSrv, toCl>>

tftp_cleanup ==
    /\ main = "exit"
    /\ main' = "done" /\ upcb' = FALSE
    /\ srv' = NoTransfer
    /\ timers' = close_handle(Outcome(srv, timers, <<>>)).t
    /\ UNCHANGED <<lossy, quiet, stored, client, toSrv, toCl>>

-----------------------------------------------------------------------------
(* The clients and the channels, as long as the server receives *)

\* The packet a client is waiting to see answered.
LastPacket(c) ==
    IF client[c].block = 0 THEN Packet("REQ", 0, 0)
    ELSE Packet(IF c \in Writers THEN "DATA" ELSE "ACK", client[c].block,
                IF c \in Writers THEN client[c].block ELSE 0)

Start(c) ==
    /\ main = "loop"
    /\ client[c].state = "idle"
    /\ client' = [client EXCEPT ![c] = [@ EXCEPT !.state = "wait"]]
    /\ toSrv' = [toSrv EXCEPT ![c] = Put(@, <<LastPacket(c)>>)]
    /\ UNCHANGED <<lossy, main, upcb, srv, timers, quiet, stored, toCl>>

Repeat(c) ==
    /\ main = "loop"
    /\ lossy /\ client[c].state = "wait"
    /\ Len(toSrv[c]) < Capacity
    /\ toSrv' = [toSrv EXCEPT ![c] = Append(@, LastPacket(c))]
    /\ UNCHANGED <<lossy, main, upcb, srv, timers, quiet, stored, client, toCl>>

GiveUp(c) ==
    /\ main = "loop"
    /\ lossy /\ client[c].state = "wait"
    /\ client' = [client EXCEPT ![c] = [@ EXCEPT !.state = "failed"]]
    /\ toCl' = [toCl EXCEPT ![c] = <<>>]
    /\ UNCHANGED <<lossy, main, upcb, srv, timers, quiet, stored, toSrv>>

\* What a client makes of a packet. A repeated block is acknowledged again.
Seen(c, p) ==
    LET k == client[c] IN
    CASE k.state # "wait" -> k
      [] k.state = "wait" /\ p.op = "ERROR" -> [k EXCEPT !.state = "failed"]
      [] k.state = "wait" /\ p.op = "ACK" ->
            IF p.blknum # k.block % BlkMod THEN k
            ELSE IF k.block = Blocks THEN [k EXCEPT !.state = "done"]
            ELSE [k EXCEPT !.block = @ + 1]
      [] k.state = "wait" /\ p.op = "DATA" ->
            IF p.blknum # (k.block + 1) % BlkMod THEN k
            ELSE [state |-> IF p.data = Blocks THEN "done" ELSE "wait",
                  block |-> k.block + 1, got |-> Append(k.got, p.data)]

Receive(c) ==
    LET p == Head(toCl[c]) IN
    /\ main = "loop"
    /\ toCl[c] # <<>>
    /\ client' = [client EXCEPT ![c] = Seen(c, p)]
    /\ toCl' = [toCl EXCEPT ![c] = IF client'[c].state = "wait" THEN Tail(@) ELSE <<>>]
    /\ toSrv' = IF client[c].state = "wait"
                   /\ (p.op = "DATA" \/ (p.op = "ACK" /\ client'[c].block # client[c].block))
                THEN [toSrv EXCEPT ![c] = Put(@, <<LastPacket(c)'>>)]
                ELSE toSrv
    /\ UNCHANGED <<lossy, main, upcb, srv, timers, quiet, stored>>

Lose(c) ==
    /\ main = "loop"
    /\ lossy
    /\ \/ /\ toSrv[c] # <<>>
          /\ toSrv' = [toSrv EXCEPT ![c] = Tail(@)]
          /\ UNCHANGED toCl
       \/ /\ toCl[c] # <<>>
          /\ toCl' = [toCl EXCEPT ![c] = Tail(@)]
          /\ UNCHANGED toSrv
    /\ UNCHANGED <<lossy, main, upcb, srv, timers, quiet, stored, client>>

TftpNext ==
    \/ tftp_init \/ Leave \/ tftp_cleanup
    \/ tftp_tmr \/ Interval
    \/ \E c \in Clients : recv(c) \/ Start(c) \/ Repeat(c) \/ GiveUp(c) \/ Receive(c) \/ Lose(c)

TftpSpec == TftpInit /\ [][TftpNext]_tftp_vars

-----------------------------------------------------------------------------
(* Properties *)

Upto(n) == [i \in 1 .. n |-> i]

\* While a write transfer goes on, the file holds exactly the blocks before the one the
\* server expects next, each once and in order, whatever was lost or repeated; a client
\* whose last block was acknowledged has its whole file on the server (recv, TFTP_DATA,
\* acknowledges a block after ctx->write returned). What recv cannot see is left open: a
\* block in its place may be one that the memory was too short for.
FilesStored ==
    \A c \in Writers :
        /\ \A i \in DOMAIN stored[c] : stored[c][i] \in {i, Short}
        /\ srv.handle = c => srv.blknum = (Len(stored[c]) + 1) % BlkMod
        /\ client[c].state = "done" => Len(stored[c]) = Blocks

\* A reading client gets the blocks of the file in order, none twice, and all of them
\* once it has seen a short block: a block is never sent under the number of another,
\* be it sent again by tftp_tmr or asked for again by the client.
ReadInOrder ==
    \A c \in Clients \ Writers :
        /\ client[c].got = Upto(client[c].block)
        /\ client[c].state = "done" => client[c].block = Blocks

\* No way of ending a transfer leaves its kept block allocated, and a transfer has a timer
\* unless there was no memory for one: without it, a client that disappears keeps the
\* server, which takes one transfer at a time, forever.
TransferSound ==
    /\ srv.last_data # NONE => srv.handle # NONE /\ ~srv.mode_write
    /\ srv.handle # NONE => timers.now + timers.next > 0 \/ timers.lost

\* A packet of one client never touches the transfer of another, and tftp_tmr repeats a
\* block or ends a transfer only after the client has been silent for
\* TFTP_TIMEOUT_MSECS, unless requests whose file could not be opened have left timers
\* of their own, which make its clock run faster, or did so before one timer was lost.
TransferUndisturbed ==
    [][ /\ \A c \in Clients :
            srv.handle # NONE /\ srv.handle # c /\ toSrv'[c] # toSrv[c] /\ client'[c] = client[c]
            => srv' = srv /\ stored' = stored
        /\ /\ UNCHANGED <<main, client, toSrv>>
           /\ \/ srv'.retries > srv.retries
              \/ srv.handle # NONE /\ srv'.handle = NONE
           => quiet >= Timeout \/ timers.now + timers.next > 1 \/ timers.lost ]_tftp_vars
=============================================================================
