# nanotube in TLA+

nanotube is a networking library for the TI-84 Plus CE: lwIP on top of a
USB Ethernet (CDC-ECM) device, with an IRC client as its application and a log
in flash memory. This directory holds TLA+ specifications of its own code and of
the parts of lwIP that it runs and that keep state of their own, TLC
configurations that check them on small instances, and TLAPS proofs for instances
of every size. TCP, the C library, and the calculator's USB and file libraries are
the environment of these specifications.

## The system

The program has one thread. `main` calls `nt_process` in a loop; for each
interface it hands one queued frame to lwIP and retries a halted endpoint
(`clear_halt`), then it runs lwIP's timers and `usb_HandleEvents`. What
interleaves are callbacks:

- the USB driver runs `ecm_read_callback` and `ecm_write_callback` from
  `usb_HandleEvents`, and from every blocking driver call;
- the device manager (`usb_handle_event`) runs on events in the same places, so
  one activation of it can start in the middle of another;
- lwIP runs `ecm_netif_output` and the callbacks of the IRC client, of DNS and of
  TFTP from `netif->input`, from its timers and from the application's own calls;
- timer handlers set and cancel timers while the list of timers is walked.

| Part | Source (under `src/src/`) | Module | Status |
|---|---|---|---|
| packet queue | `queue.c` | `PacketQueue`, `BoundedFifo` | modelled |
| ECM interface, data path | `device/ecm.c` | `EcmNetif`, `LossyLink` | modelled |
| main loop step | `nanotube.c` | `EcmNetif`, `Timeouts` | for one interface |
| device manager | `device/usb.c`, `device/ecm.c` | `UsbDevices` | modelled |
| lwIP interface list | `lwIP/core/netif.c` | `UsbDevices` | netif_add, default |
| descriptor search, MAC address string | `device/usb.c`, `device/ecm.c` | `Descriptors`, `DescriptorSearch` | modelled |
| flash log | `log.c`, `asm/flash.asm` | `FlashLog` | all but packet capture and screen |
| LOGINIT | `../log_setup/src/main.c` | `FlashLog` | modelled |
| IRC client | `irc.c` | `IrcClient` | connection and sending |
| application | `main.c` | `IrcClient`, `TftpServer` | irc_init, keys, exit |
| time base, lwIP timers | `lwIP/arch/time.c`, `lwIP/core/timeouts.c` | `Timeouts` | all that is called |
| TFTP callbacks and server | `tftp.c`, `lwIP/apps/tftp/tftp_server.c` | `TftpServer` | modelled |
| DNS client | `lwIP/core/dns.c` | `DnsClient` | all but the bytes of a packet |
| ARP | `lwIP/core/ipv4/etharp.c` | `EthArp` | unicast next hops |
| IP fragments | `lwIP/core/ipv4/ip4_frag.c` | `IpFragments` | modelled |
| packet buffers | `lwIP/core/pbuf.c` | `Pbuf` | all that changes a chain |
| TCP | `lwIP/core/tcp*.c` | `IrcClient`, `Timeouts` | what the program sees of it |

## Modules

**PacketQueue** is the ring of `queue.c`: the structure `queue` with `first`,
`last` and `elems`, and `ret`, the last call with its result. `Int8` and `CRem`
keep the width of the indices and the sign of C's remainder. **BoundedFifo** is
what the queue promises: a sequence of bounded length. `Contents` maps the ring
to the sequence (refinement mapping of `ImplementsFifo`).

**EcmNetif** is one interface with the loop around it. `rx` is the receive side:
`read_data` and `halted` of `netif_state_t`, the buffers `malloc` has given out,
the transfers on the in endpoint, and whether the driver ever refused or restarted one. `ref`,
`lwip` and `out` are the pbuf counts and who holds what. The queue is a sequence,
which is what `PacketQueue` is shown to implement. `pc` names the places where
callbacks can run: `clear_halt` is two actions because
`usb_ClearEndpointHalt` blocks in its middle. A callback is one action, with
every call it makes. `ecm_schedule_read` is an operator that gives the set of its
possible outcomes; its callers differ in what they do with them. Environment:
transfers of an endpoint complete in order with any status; scheduling fails
with a result of `ScheduleResults`; a callback that returns `USB_SUCCESS` has ended
its transfer. What the driver does with one that returns `USB_IGNORE`, as
`ecm_read_callback` does after a failure, is for `usbdrvce.h` to say, which is not in the
repository: the transfer ends or is restarted (`Ignored`, for each value of
`IgnoreRestarts`); `malloc` and `pbuf_alloc` may fail at any
time; lwIP sends a pbuf when it holds the only reference (it checks this before a
retransmission, `tcp_output_segment_busy`). The type field of a frame too short to
have one is whatever the buffer held, so such a frame may be kept or ignored.
**LossyLink** is what the interface promises lwIP: frames may be lost, but stay in
order, come once, and every one kept is handed over.

**UsbDevices** is `usb_handle_event` with everything it calls up to `netif_add`.
`stack` holds the activations of `usb_handle_connect`, since every blocking driver
call dispatches events: an activation is split at each such call, and another
may begin there. `dev` is the driver's view of the devices, `heap` what `malloc` has
given out, `netif` what is stored at an address, `netif_list` and `netif_num` are
lwIP's. A device has one of several `Kinds`, each a sequence of configurations. A frame
of the stack keeps where its loops are: the configuration, the interface
(`current_int`) and the settings of that interface still to be tried (`todo`); `Break`
and `Continue` are those of the code. When an endpoint is missing the code frees the two
structures and goes on with them: `AddNetif` does the same and sets the history variable
`dangling`, and `NoFreeNum` is the loop of `netif_add` for an interface that is in the list
already, which does not end. The walk uses the searches of **Descriptors**;
**DescriptorSearch** compares those with declarative definitions of what they should find, and the MAC address
digits with the byte they stand for.

**FlashLog** is `ETHLOG` byte by byte, with LOGINIT that makes it, `log_init`,
`mainlog` and `flash_write`, and a reset at any byte. A byte is one of five
kinds: erased, `'\n'` at the end of a message, other text, time stamp,
programmed twice. `before` is the byte in front of the data, which `mainlog` reads
at offset 0.

**IrcClient** is the life of the client's connection: `conn->pcb` against the state
the pcb has in lwIP, the DNS request, the one-shot keys of `main`, and what
`tcp_write` was offered and has taken (`offered`). A segment (one of `Segments`) is a sequence of lines,
handled in order by `process_message`. Messages are well-formed IRC lines: a PRIVMSG has a sender
with a `!`. What `tcp_write` does to a freed pcb is left open. `irc_init`
covers all results of `dns_gethostbyname`; only `ERR_INPROGRESS` leads to a
callback. `exit` stands for the end of `main` as far as the connection goes.

**Timeouts** has real time, `time`, which the code does not see, and `clock`, which it
does: the clock jumps back to 0 in `timer_init`, after the cyclic timers were set, and when
it has counted to `ClockPeriod`. A timer keeps, next to the number that the code
computes modulo `Word`, the time at which the clock will show it unless it jumps.
`sys_check_timeouts` is a sequence of actions, one for each handler, because handlers
take time and set and cancel timers in its middle. The cyclic timers, and the TCP timer
that is started on demand and stops by itself, are handlers of this kind. Each round of the
loop of `sys_timeouts_init`, which sets the cyclic ones, is an action; `timer_init` follows
the last. There may be no memory for a timer, which `sys_timeout` does not tell its
caller; `lost` remembers the handlers that should have gone on.

**TftpServer** is the server with its one transfer, its timer, the file callbacks
of `tftp.c`, and clients as in RFC 1350 at the other end of channels that lose,
repeat and delay packets. The variable `lossy` chooses between such channels and a
server short of memory, for packets and for its timer (`timers.lost`); a file may fail
to open in either. `main` calls
`tftp_init` here; in the code that call is commented out.

**DnsClient** has the static variables of `dns.c` in one record `d`, because a
callback may call `dns_gethostbyname` before the function that called it goes on:
each function is an operator from a value of `d` to the set of values it may have
when it returns. Servers may answer late, twice or not at all.

**EthArp** is the ARP table: look-up and recycling, ageing, re-requests, the packet
queued for each pending entry and the cached index. `known`, `since`, `used` and
`asked` are history variables for the properties. `steady` restricts the
environment to one in which every neighbour is sent to, and answers, between two
ticks of `etharp_tmr`.

**IpFragments** has `ip4_frag` at one end of a network that loses, repeats and
reorders, and `ip4_reass`, its timer and its limit at the other. A fragment that was sent
stays in `net`: one that is lost never arrives, one that is repeated arrives again.
Another host may send fragments whose end does not fit 16 bits (`Strays`): they are dropped
late, after older datagrams were freed for them and an entry was made, which is
then removed (`Dropped`). `ip4_frag` is given whole datagrams, as the program forwards none.
**Pbuf** is the heap of pbufs under callers that keep the rules of `pbuf.c`: they work on the
head of a chain, and change its shape only when nobody else refers into it. Lengths are
`u16_t` and overflow when chains are joined, which `pbuf_cat` does not check. `leaked`
counts the references `ecm_netif_output` keeps when a transfer is refused.

Definitions commented "Mutant of" are faulty variants of the next definition, used
to see that a property can fail; no specification uses them.

## Runs

| Run | Question | Result |
|---|---|---|
| `packets` | Three parts: is the ring a bounded FIFO, with consistent indices; are references and lengths of pbuf chains exact; is what `ip4_reass` returns what was sent, and does every wait end? | holds |
| `ecm_faults` | Do buffers and pbufs survive failed and restarted transfers, lack of memory, refused transfers and uninitialised state? Has every leak its known cause? | holds |
| `ecm_clean` | With a driver that accepts transfers: exact reference counts, the order of frames also when the queue overflows, recovery from a halt, end of every busy segment? | holds |
| `ecm_tx_leak` | Are counts exact when the driver refuses a write? | violated |
| `usb` | Are interfaces added once and memory accounted for when handlers nest? Does a device that is alone get an interface? | holds |
| `services` | Four parts: the IRC client with failing writes and aborts; TFTP over lossy channels; the timers with a clock that jumps; the descriptor searches. | holds |
| `arp_dns` | Two parts: does every frame go where its next hop is; does every caller of DNS get the answer to its question, or an end? | holds |
| `flash_log` | Is flash written once, in whole lines, within the log, over restarts? | holds |
| `log_no_resize` | Is what is written part of `ETHLOG` when LOGINIT ran out of memory? | violated |
| `irc_reset` | Does `conn->pcb` agree with lwIP when the connection is reset? | violated |
| `irc_recv_leak` | Does the receive callback free its pbuf? | violated |
| `clock_overflow` | Is every timer served when it is due, across the overflow of the clock? | violated |

The five violated ones disagree with a comment in the repository; `findings` in
`PROJECT.json` quotes each.

*Runs of several parts.* `MCServices`, `MCArpDns` and `MCPackets` extend
specifications that have no variable in common. `part`, chosen in the initial
state, says which of them moves. Each property speaks of the variables of one part,
so the run decides it exactly as a run of that part alone would; nothing is
claimed about their composition.

*Bounds.*
- The ring has three slots: each of empty, one, full, wrapped and not
  wrapped occurs, and every slot is first and last.
- `EcmNetif` has a queue of two, two read buffers (one to leak, one to go on with),
  three pbufs (queue full and one more), and `MaxFrames` = 3 received transfers,
  enough to fill the queue and to drop a frame; sending is not bounded except
  by the pbufs.
- `UsbDevices` has two connections of five kinds (ECM with a data interface; two
  configurations; the second of two; endpoints in two settings, of which one is then
  missing; a configuration too long for the buffer), and
  room for four interfaces: one for each configuration of each.
- `FlashLog` has nine bytes, stamps of two and a reserve of three, in the proportion
  of the code (12 for 11): a message may start, end or miss every position.
- `IrcClient` has two segments of up to two lines, PINGs of 30, 31, 255 and 256 bytes
  around the two limits.
- `Timeouts` has a clock of 8 ticks, numbers modulo 32, and runs for 10: the clock is
  reset at the start and overflows once, with timers set before and after. One
  cyclic, the TCP and one other timer, and a main loop and handlers of any length. (In
  `clock_overflow` the loop is prompt and the counter starts at 0, so that the overflow
  is the only cause.)
- `TftpServer` has one client that writes and one that reads three blocks, block
  numbers modulo 3 so that they wrap within a file, one packet under way in each
  channel, and one timer left over by a request that failed.
- `DnsClient` and `EthArp` have tables of two entries, and more pairs of address and
  interface, and more names, than entries. Ages: 5 ticks, re-request by unicast at 2 and
  by broadcast at 3, so that an entry is asked for again, rests and is asked for once
  more; three retries, two servers, and one query under way: while an old one can
  still be answered, also when its entry has been given to another name, new ones are
  lost.
- `IpFragments` has two datagrams, of five and six bytes, sent by two paths with different
  MTUs, so that fragments of one overlap those of the other; room for three pbufs. One
  MTU without the header is no multiple of the unit, which cuts the first datagram and
  not the second.
- `Pbuf` has three pbufs, of up to one byte each in the pool, lengths modulo 4, which
  joining overflows, and one refused transfer.
- `DescriptorSearch` goes through all configurations of up to five descriptors of
  eight kinds.

Deadlock is checked wherever the program does not end by itself. It is off where
`main` returns, every connection has been used up, or a bound on time is reached.

*Symmetry* is used in `arp_dns` and `packets`, for addresses, interfaces and pbufs,
which the code compares only for equality. Both runs check invariants, action
properties and a refinement without fairness, no liveness.

*Fairness.* In `EcmNetif`: weak fairness of the main loop, which has no way to stop
and whose driver calls return; strong fairness of `ecm_write_callback`, because the
driver ends every transfer it accepted, if only with an error, and callbacks can
run only in some places of the loop; strong fairness of a successful
`clear_halt_end`, because `malloc` does not fail for ever. The arrival of frames is not
assumed. In `UsbDevices`: weak fairness of the running handler (driver calls
return) and of the event that ends a reset the driver has started. `DeviceServed`
is claimed for a `benign` environment, one device at a time and no failing call:
with a second device, its events can end `usb_WaitForEvents` before the first
device is enabled, and nothing tries again. The other "must end" statements
(`QueriesProgress`, `FragmentsWait`, `EntryLife`, `TransferSound`) are action
properties and invariants: each timer tick brings the end nearer and no other step
takes it away, so they need no fairness but that of the clock.

## Where the code departs from its documentation

Besides the five findings. Where a property above makes an exception of it, or a run
leaves it out, this is said.

- `usb.c:214`: when an endpoint is missing, `netif` and `state` are freed and then
  filled in and passed to `netif_add`. The next interface can get the same memory,
  which the assertion "netif already added" (`netif.c:398`) excludes; without assertions
  `netif_add` then does not return. This is `dangling`, the exception in
  `NetifsDistinct`, `DeviceServed` and the second half of `HeapAccounted`.
- `usb.c:96`: `get_eps_any_setting` may return endpoints of two settings, of which it has
  selected the later one: `PairIsLastMet` in `SearchesAgree` says when.
- `ecm.c:79`: `ecm_read_callback` frees the buffer of a failed transfer and returns
  `USB_IGNORE`. If the driver tries the transfer again, it writes into freed memory. This is
  `rx.restarted`, the exception in `ReadBufferSafe` and `HaltedIsIdle`.
- `nanotube.c:16`: `lwip_init` sets timers before `timer_init` sets the counter to
  zero; they are late by what the counter showed. `OnTime` makes an exception of
  timers set before a jump of the clock (`InStep`).
- `timeouts.c:188`: `sys_timeout` does not tell that there was no memory. A cyclic timer
  that meets this is never set again, nor is the TCP timer, since
  `tcpip_tcp_timer_active` stays set; `ListSound` names these (`lost`). A TFTP transfer
  without its timer is never ended when its client goes away (`TransferSound`).
- `irc.c:43`: the length of a PING is kept in eight bits, so one of 256 bytes or more is
  answered with its first `len % 256` bytes. The buffer is not overrun.
- `tftp_server.c:233`: a request whose file does not open leaves its timer set, and
  every further one adds another: a transfer then times out early. This is an
  exception in `TransferUndisturbed`.
- `tftp.c:57`: `tftp_write` returns what `ti_Write` counted, never a negative number;
  a block that does not fit is acknowledged (`Short` in `FilesStored`).
- `tftp_server.c`, `send_data`: when `pbuf_alloc` fails the block is not kept, and a
  later time-out has nothing to repeat. `TftpServer` has lack of memory and loss
  in different behaviours (`lossy`).
- `main.c:188`: `tftp_cleanup` is called without `tftp_init`, against its assertion
  "Cleanup called on non-initialized TFTP" (`tftp_server.c:422`).
- `dns.c:1087`, `dns.c:963`: a callback that asks again is given an entry that is being
  freed or answered; its request is lost, or gets the address of another name.
  `CallersAnswered` fails with `Reask` = TRUE. The program's callbacks do not ask.
- `dns.c:1426`: an entry whose age in 8-bit sequence numbers is a multiple of 256 is
  not considered for replacement, though the comment says "use the oldest completed
  one".
- `etharp.c:1009`: a packet for a pending address is queued without a new request;
  the documentation (`etharp.c:937`) says that one is sent.
- `ip4_frag.c:853`: a fragment takes a multiple of eight bytes, but counts as the last
  when what is left fits the MTU. With an MTU of 1514 (`wMaxSegmentSize`, less the header
  1494 = 186 * 8 + 6) a fragment with up to six bytes behind it is marked as the last, and
  the one with these bytes too. A receiver that runs this code returns the datagram without
  them, or with a length in its header that leaves them out. This is `EarlyEnds`, the
  exception in `ReassemblySound`.
- `pbuf.c:866`: `pbuf_cat` lets the total length overflow; `ChainsSound` claims totals
  modulo 2^16.
- `ecm.c:114`: a chain of pbufs is sent as `tot_len` bytes from the first payload,
  against `opt.h:1646`. `Pbuf` has such chains and says nothing of the bytes sent.

## Proofs

Each proof module extends its specification; one lemma per action, combined in
the last steps by PTL.

- `PacketQueueProofs`. From `QueueAssumption` (1 to 128 slots, which is what an
  `int8_t` can index): `QueueSafety` (`QueueInv`) and `QueueImplementsFifo`, the
  complete refinement. `QueueInv` is inductive as it stands; `NextIndexCyclic`
  shows that the 8-bit arithmetic is counting modulo the size, `FullIsCapacity`,
  `PushAppends` and `PopTakesHead` relate the ring operations to those of a sequence.
- `EcmNetifProofs`. From `EcmAssumption`, for any sets of buffers and pbufs, any
  queue size, any driver results:
  `ReadBufferIsSafe`, `HaltedStaysIdle` and `StallsHaveCauses` from the inductive
  invariant `RxInv`. None of the three is inductive alone: that a callback frees
  the right buffer depends on at most one read being in flight, which depends on
  nothing being in flight while halted, which depends on `read_data` being NULL
  when a callback marks the interface halted. A transfer that the driver restarts ends
  this argument, so what is said of the buffer in flight is said until then; that no buffer
  is forgotten, and why receiving stops, holds after it as well. `PbufsStayAlive` comes from
  `PbufInv`: a pbuf is in the queue at most once and then nowhere else, in flight
  at most once, and counted for lwIP and the driver separately. `PbufAlive` counts
  with cardinalities and does not see that a second reference is a different one.
  `LeaksHaveCauses` compares the references with the holders over each step;
  `RefCountsAreExact` follows for a driver that accepts every transfer. `EcmIsLossyLink`
  is the refinement of `LossyLink` without its fairness: the frames waiting in the
  queue are the link's, in the same order. `EcmTypes` adds what the counters need.
- `FlashLogProofs`. From `LogAssumption` (a stamp is shorter than the reserve, the
  reserve smaller than the log): `LogStampFits`, `LogWrittenOnce` and
  `LogLinesStamped` from `IInv`. Its `WriteInv` says that, while the program runs
  on a complete log, exactly the bytes before `offset` are programmed, and how the
  rest of the current call continues. `LogTypes` is part of `IInv`.
  `LogInsideWhenResized` shows that what `log_no_resize` finds has one cause: while
  `ti_Resize` does not fail, all that is written is part of `ETHLOG`.
- `EthArpProofs`. From `EthArpAssumption` (a table that is not empty, the ages in the
  order of `etharp.c`), for any neighbours and interfaces: `ArpEntriesUnique`,
  `ArpFramesToNextHop` and `ArpEntryLife`, from the inductive invariant `ArpInv`.
  A frame goes where it should because a stable entry holds the Ethernet address
  announced last, and the packet of a pending entry is for the entry's own address;
  both need that no address has two entries, as an announcement updates the first one
  found. That an entry in steady use does not expire needs more: one used in this
  second is too young to expire in the next, or a request for it is under way,
  whose answer makes it young again; and a request is followed by two ticks before
  the next one. `EntryInv` says this of each entry. `FindEntry` is the lemma about the
  search that the actions share, `ReplaceKeeps` carries the invariant over a change of
  one entry.
- `IrcClientProofs`. From `IrcAssumption`, for segments of any number of lines of any
  length: `RegistersOnce`, `PcbIsKept` and `RegistersWhileOpen`, from
  `IrcInv`. Its part `Good` says that the registration was offered once if the client has
  identified and not at all if not; `process_all` carries it through the lines of a segment,
  whichever of them `tcp_write` takes. A connection that is open belongs to a client
  that has its pcb, which `RegistersWhileOpen` needs. `PcbOwnedWithoutAborts`: aborts
  are the only cause of what `irc_reset` finds.
- `TftpServerProofs`. From `TftpAssumption` (block numbers modulo at
  least 2, a file that is not empty), for any clients, file length, time-out and
  capacity of the channels: `TransfersAreSound`, `WritesAreComplete`,
  `ReadsAreInOrder` and `TransfersUndisturbed`, from `TftpInv`. A write or a read goes
  wrong only if an old packet is taken for a new one, so the invariant describes what can
  be under way. Client and server are at most one packet apart; apart from errors, one
  of the two channels holds a single packet, repeated, the other first an older one and
  then its successor (`Only`, `Mixed`). For a writer this is `Unacked` or `Acked`, for a
  reader `Behind` or `Level`. Numbers of neighbouring blocks differ (`BlkFacts`), so a
  number says which of the two packets it is, however often numbers wrap. `Stalled` is
  the reader of a server that had no memory for the next block, `StartView` the client
  whose request is under way, and `ClockOK` bounds the time the server has counted by
  the silence of the client as long as there is one timer and none was lost. The proof goes in two
  layers. `Effect` lists the six things a packet can make the server do, and
  `HandledGood` shows that `Handled` does nothing else. `WriterRecv`, `ReaderRecv`,
  `ReaderTimer`, `WriterSees` and `ReaderSees` carry a client's view over each of
  these, and `WriterFewer` and `ReaderFewer` over losses and repetitions.

- `TimeoutsProofs`. From `TimeoutsAssumption` (no timer is set for more than a quarter of
  the range of the numbers, which `sys_timeout` asserts, and the clock counts no more than
  a quarter of it: 2^27 of 2^32), for any timers, handlers of any length and any
  contents of the counter at the start: `ListSoundHolds` and `OnTimeHolds`, from
  `TimersInv`. The list is sorted with a comparison modulo `Word` that is right only for
  numbers less than half the range apart; here all numbers are in the lower half
  (`Numbers`), so the comparison is that of the numbers (`LessThan`). The clock only jumps
  back, so it shows no number before its timer is due (`NotEarly`); it may show it later, and
  after an overflow never, which is what `clock_overflow` finds and `InStep` excludes from
  `OnTime`. `CurrentInv` and `GoesOn` say that a cyclic timer is in the list or is the one
  being handled, never both, or is `lost`, which is why setting it again in its handler does
  not set it twice.
- `UsbDevicesProofs`. From `UsbAssumption` (finite memory, and a number for every interface
  there is room for), for any devices, any descriptors and handlers nested to any depth:
  `NetifsDistinctHolds` and `HeapAccountedHolds`. The first comes from `UsbInv`, which holds
  until an endpoint is missing (`UsbInvariant`). The properties speak of
  the list and the memory, the reasons lie in the frames of the nested handlers:
  two handlers are never for the same connection, and what a handler has added so far
  comes from configurations and interfaces before the one where its loops are (`Earlier`),
  so what it adds next is new. `Ahead` and `Onward` say that the loops only go forward,
  `Keeps` carries the invariant over every step that leaves the list alone. A handler
  that waits in `ecm_init_netif` owns memory that is not in the list: that gives the
  address no other handler gets (`MallocIs`), and leaves a number that is free when
  `netif_add` looks for one (`NumbersLeft`, `UniqueNumIs`), so its loop ends. That no memory
  is lost holds beyond a missing endpoint, and has an invariant of its own, `HeapInv`: a
  frame has structures exactly while it waits in `netif_add` (`Holds`). Every step of a
  handler but three leaves list, memory and these frames alone (`HandlerQuiet`).

Only model-checked:
- the liveness properties `ReadRecovers`, `BusyEnds` and `DeviceServed` and the fairness
  part of `ImplementsLossyLink`: liveness is out of the prover's reach;
- `SearchesAgree`: what a search over descriptors computes for every input is an induction
  over data, which the prover does not do;
- the properties of `DnsClient`: its functions walk the tables with recursive functions,
  and what they leave in a table again needs induction over data;
- the properties of `Pbuf` and `IpFragments`: they are defined with recursive operators and
  sums over chains, which the prover does not take.

## Not modelled

- TCP as a protocol. Its windows, retransmissions, reassembly and timers are some
  seven thousand lines; a faithful model of `tcp_receive`, `tcp_output` and
  `tcp_slowtmr` would be larger than all modules here. The program is checked against
  what it sees of TCP.
- UDP, IP, ICMP and Ethernet dispatch: a packet is checked, stripped of a header and
  passed on within one call. They keep no state but the pcbs, which are in `DnsClient`
  and `TftpServer`.
- `mem.c` and `memp.c`: configured to be `malloc` and `free`, which may fail here.
- Most of the lines of the repository are lwIP code that no execution of the program
  reaches: PPP, IPv6, sockets, AutoIP, IGMP and DHCP are switched off in `lwipopts.h` or
  by default; SNMP, MQTT, SMTP, HTTP and the other applications are called by nothing
  in the program. They are not modelled, and the share of all lines that the modules
  cover is small for that reason. Of the program's own code what is left out is below.
- Screen output, text of messages, packet capture (compiled out), the HTTP callbacks
  of `main.c` (registered nowhere), `irc_part`, `irc_nick` and `irc_away` (called
  nowhere, as are `sys_restart_timeouts` and `sys_timeouts_sleeptime`), `ip4_frag` of a packet
  that is itself a fragment (nothing is forwarded), the splitting of IRC lines over segments
  (the code does not put them together), descriptors of length zero (`usb.c:46` does not terminate on one).
- The loop of `nt_process` over several interfaces: `EcmNetif` is one interface that
  is there from the start, `UsbDevices` ends where it begins. Composing the two would
  show the reads of an interface whose device has gone; `usb_handle_disconnect` does
  not tell the interface, so its transfers simply fail, which `EcmNetif` covers.
