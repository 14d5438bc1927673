-------------------------- MODULE TftpServerProofs --------------------------
(***************************************************************************)
(* Proofs about TftpServer, for any clients, any length of a file, any     *)
(* modulus of at least two for block numbers, and channels of any          *)
(* capacity: the inductive invariant; what its proof needs to know of the  *)
(* functions of the server and of the two ends of a channel; that each     *)
(* action keeps it; and what follows.                                      *)
(***************************************************************************)
EXTENDS TftpServer, TLAPS

(* Sequences.                                                              *)

LEMMA EmptyIs ==
    ASSUME NEW S
    PROVE  /\ <<>> \in Seq(S) /\ Len(<<>>) = 0
           /\ \A s \in Seq(S) : s # <<>> => Len(s) \in Nat \ {0}
OBVIOUS

LEMMA LenIs ==
    ASSUME NEW S, NEW s \in Seq(S)
    PROVE  Len(s) \in Nat /\ s \in [1 .. Len(s) -> S] /\ DOMAIN s = 1 .. Len(s)
OBVIOUS

LEMMA TailIs ==
    ASSUME NEW S, NEW s \in Seq(S), s # <<>>
    PROVE  /\ Head(s) \in S /\ Tail(s) \in Seq(S) /\ Len(Tail(s)) = Len(s) - 1
           /\ \A i \in 1 .. Len(Tail(s)) : Tail(s)[i] = s[i + 1]
OBVIOUS

LEMMA AppendIs ==
    ASSUME NEW S, NEW s \in Seq(S), NEW e \in S
    PROVE  /\ Append(s, e) \in Seq(S) /\ Append(s, e) # <<>>
           /\ Len(Append(s, e)) = Len(s) + 1
           /\ \A i \in 1 .. Len(s) : Append(s, e)[i] = s[i]
           /\ Append(s, e)[Len(s) + 1] = e
OBVIOUS

LEMMA JoinIs ==
    ASSUME NEW S, NEW s \in Seq(S), NEW e \in S
    PROVE  Append(s, e) = s \o <<e>>
OBVIOUS

LEMMA JoinEmpty ==
    ASSUME NEW S, NEW s \in Seq(S)
    PROVE  s \o <<>> = s /\ <<>> \o s = s
OBVIOUS

-----------------------------------------------------------------------------
(* The invariant.                                                          *)

SrvType ==
    [port : Clients \cup {NONE}, handle : Clients \cup {NONE}, mode_write : BOOLEAN,
     last_data : {NONE} \cup [blknum : Nat, data : Nat],
     blknum : Nat, idle : Nat, retries : Nat, pos : Nat]

TimerType == [now : Nat, next : Nat, lost : BOOLEAN]

Timed(t) == t.now + t.next > 0 \/ t.lost

\* A transfer s and the timers t: what TransferSound says, and that the port
\* and the file belong to one client, which reads or writes as it asked to.
SrvOK(s, t) ==
    /\ s \in SrvType /\ t \in TimerType
    /\ s.port = s.handle
    /\ s.handle # NONE => /\ s.mode_write <=> s.handle \in Writers
                          /\ Timed(t)
    /\ s.last_data # NONE => s.handle # NONE /\ ~s.mode_write

\* With one timer and none lost, the server's clock is at most the interval ahead that
\* has begun before the last packet came.
ClockOK(s, t, q) ==
    s.handle # NONE /\ ~t.lost /\ t.now + t.next = 1 =>
        q > Timeout \/ s.idle <= IF t.now = 0 THEN q + 1 ELSE q

\* The j-th packet of a client, and the j-th of the server to it.
Asked(c, j) ==
    IF j = 0 THEN Packet("REQ", 0, 0)
    ELSE Packet(IF c \in Writers THEN "DATA" ELSE "ACK", j,
                IF c \in Writers THEN j ELSE 0)

\* Before its first block the server sends a reader only errors.
Answer(c, j) ==
    IF c \in Writers THEN Packet("ACK", j, 0)
    ELSE IF j = 0 THEN Error
    ELSE Packet("DATA", j, j)

\* Apart from errors, a channel holds packets a and then packets b.
Mixed(ch, a, b) ==
    /\ \A i \in 1 .. Len(ch) : ch[i] \in {Error, a, b}
    /\ \A i, j \in 1 .. Len(ch) : i < j /\ ch[i] = b => ch[j] \in {Error, b}

Only(ch, a) == \A i \in 1 .. Len(ch) : ch[i] \in {Error, a}

ClientType == [state : {"idle", "wait", "done", "failed"}, block : Nat, got : Seq(Int)]

\* What the rest of the invariant says of a client c, given the transfer s, what
\* the client does k, its channels up and down, and its file f on the server.

\* A client that has not started is unknown to the server; without losses a request
\* is sent once.
StartView(c, l, s, k, up, down) ==
    /\ k.state = "idle" => k.block = 0 /\ up = << >> /\ down = << >> /\ s.handle # c
    /\ ~l /\ (\E i \in 1 .. Len(up) : up[i] = Asked(c, 0)) =>
          k.block = 0 /\ s.handle # c /\ Len(up) = 1 /\ down = << >>

\* A writer has its last block acknowledged (n + 1) or not (n).
Unacked(c, n, up, down) == Only(up, Asked(c, n)) /\ Mixed(down, Answer(c, n - 1), Answer(c, n))
Acked(c, n, up, down) ==
    Mixed(up, Asked(c, n), Asked(c, n + 1)) /\ Only(down, Answer(c, n))

WriterView(c, s, f, k, up, down) ==
    /\ \A i \in 1 .. Len(f) : f[i] \in {i, Short}
    /\ Len(f) <= Blocks
    /\ s.handle = c => s.blknum = (Len(f) + 1) % BlkMod /\ Len(f) < Blocks
    /\ k.state = "done" => Len(f) = Blocks
    /\ \/ k.block = Len(f) /\ Unacked(c, Len(f), up, down)
       \/ k.block = Len(f) + 1 /\ Acked(c, Len(f), up, down)

\* A reader has seen the server's last block (level) or not (behind).
Behind(c, n, up, down) == Only(up, Asked(c, n)) /\ Mixed(down, Answer(c, n), Answer(c, n + 1))
Level(c, n, up, down) ==
    n >= 1 /\ Mixed(up, Asked(c, n - 1), Asked(c, n)) /\ Only(down, Answer(c, n))

Sending(c, s, n, up, down) ==
    /\ s.blknum = s.pos % BlkMod
    /\ s.last_data = [blknum |-> s.blknum, data |-> s.pos]
    /\ \/ s.pos = n + 1 /\ Behind(c, n, up, down)
       \/ s.pos = n /\ Level(c, n, up, down)

\* There was no memory for the block after the n-th.
Stalled(c, s, n, up, down) ==
    /\ s.blknum = (s.pos + 1) % BlkMod
    /\ s.pos = n
    /\ Only(up, Asked(c, n)) /\ Only(down, Answer(c, n))

ReaderView(c, s, k, up, down) ==
    /\ k.got = Upto(k.block)
    /\ k.state = "done" => k.block = Blocks
    /\ Behind(c, k.block, up, down) \/ Level(c, k.block, up, down)
    /\ s.handle = c =>
          IF s.last_data = NONE THEN Stalled(c, s, k.block, up, down)
          ELSE Sending(c, s, k.block, up, down)

Packets == [op : {"REQ", "DATA", "ACK", "ERROR"}, blknum : Nat, data : Int]

NetType ==
    /\ lossy \in BOOLEAN
    /\ toSrv \in [Clients -> Seq(Packets)] /\ toCl \in [Clients -> Seq(Packets)]
    /\ stored \in [Writers -> Seq(Int)]
    /\ client \in [Clients -> ClientType]

TftpInv ==
    /\ NetType
    /\ SrvOK(srv, timers)
    /\ quiet \in Nat /\ ClockOK(srv, timers, quiet)
    /\ \A c \in Clients : StartView(c, lossy, srv, client[c], toSrv[c], toCl[c])
    /\ \A c \in Writers : WriterView(c, srv, stored[c], client[c], toSrv[c], toCl[c])
    /\ \A c \in Clients \ Writers : ReaderView(c, srv, client[c], toSrv[c], toCl[c])

-----------------------------------------------------------------------------
(* Block numbers.                                                          *)

LEMMA ModFacts ==
    ASSUME NEW b \in Nat, b >= 2, NEW x \in Int
    PROVE  /\ x % b \in Nat
           /\ (x % b) % b = x % b
           /\ ((x % b) + 1) % b = (x + 1) % b
           /\ (x + 1) % b # x % b
<1> DEFINE q == x \div b
           r == x % b
<1>1. b \in Int /\ b > 0
  OBVIOUS
<1>2. x = b * q + r
  BY <1>1, SMT
<1>3. q \in Int
  BY <1>1, SMT
<1>4. r \in 0 .. b - 1
  OBVIOUS
<1> HIDE DEF q, r
<1>5. \A p \in Int : \A s \in 0 .. b - 1 : (b * p + s) % b = s
  OBVIOUS
<1>a. x % b = r /\ r % b = r
  <2>1. r % b = r
    BY <1>4
  <2> QED
    BY <2>1, Zenon DEF r
<1>6. CASE r < b - 1
  <2>1. x + 1 = b * q + (r + 1) /\ r + 1 \in 0 .. b - 1
    BY <1>2, <1>3, <1>4, <1>6
  <2>2. (x + 1) % b = r + 1
    BY <1>3, <1>5, <2>1, Zenon
  <2>3. (r + 1) % b = r + 1
    BY <2>1
  <2> QED
    BY <1>4, <1>a, <2>2, <2>3
<1>7. CASE r = b - 1
  <2>1. q + 1 \in Int /\ 0 \in 0 .. b - 1 /\ 1 \in Int
    BY <1>3
  <2>2. x + 1 = b * (q + 1) + 0 /\ r + 1 = b * 1 + 0
    BY <1>2, <1>3, <1>7
  <2>3. (x + 1) % b = 0 /\ (r + 1) % b = 0
    BY <1>5, <2>1, <2>2, Zenon
  <2> QED
    BY <1>4, <1>7, <1>a, <2>3
<1> QED
  BY <1>4, <1>6, <1>7

LEMMA BlkFacts ==
    ASSUME NEW x \in Int
    PROVE  /\ x % BlkMod \in Nat
           /\ (x % BlkMod) % BlkMod = x % BlkMod
           /\ ((x % BlkMod) + 1) % BlkMod = (x + 1) % BlkMod
           /\ (x + 1) % BlkMod # x % BlkMod
BY ModFacts, TftpAssumption, Zenon

LEMMA FirstBlock == 1 % BlkMod = 1 /\ (0 + 1) % BlkMod = 1
BY TftpAssumption, SMTT(30)

-----------------------------------------------------------------------------
(* Channels.                                                               *)

\* A packet more at the end.
LEMMA ChannelAppend ==
    ASSUME NEW ch \in Seq(Packets), NEW p \in Packets, NEW a, NEW b
    PROVE  /\ Append(ch, p) \in Seq(Packets)
           /\ Only(ch, a) /\ p \in {Error, a} => Only(Append(ch, p), a)
           /\ Mixed(ch, a, b) /\ p \in {Error, b} => Mixed(Append(ch, p), a, b)
<1> DEFINE d == Append(ch, p)
<1>1. /\ d \in Seq(Packets) /\ Len(d) = Len(ch) + 1 /\ Len(ch) \in Nat
      /\ \A i \in 1 .. Len(ch) : d[i] = ch[i]
      /\ d[Len(ch) + 1] = p
  BY AppendIs, LenIs
<1> HIDE DEF d
<1>2. \A i \in 1 .. Len(d) : i \in 1 .. Len(ch) \/ i = Len(ch) + 1
  BY <1>1
<1>3. Only(ch, a) /\ p \in {Error, a} => Only(d, a)
  BY <1>1, <1>2, Zenon DEF Only
<1>4. ASSUME Mixed(ch, a, b), p \in {Error, b} PROVE Mixed(d, a, b)
  <2>1. \A i \in 1 .. Len(d) : d[i] \in {Error, a, b}
    BY <1>1, <1>2, <1>4, Zenon DEF Mixed
  <2>2. ASSUME NEW i \in 1 .. Len(d), NEW j \in 1 .. Len(d), i < j, d[i] = b
        PROVE  d[j] \in {Error, b}
    <3>1. CASE j = Len(ch) + 1
      BY <1>1, <1>4, <3>1, Zenon
    <3>2. CASE j \in 1 .. Len(ch)
      <4>1. i \in 1 .. Len(ch)
        BY <1>1, <2>2, <3>2
      <4>2. ch[i] = b /\ ch[j] = d[j]
        BY <1>1, <2>2, <3>2, <4>1, Zenon
      <4> QED
        BY <1>4, <2>2, <3>2, <4>1, <4>2, Zenon DEF Mixed
    <3> QED
      BY <1>2, <3>1, <3>2, Zenon
  <2> QED
    BY <2>1, <2>2, Zenon DEF Mixed
<1> QED
  BY <1>1, <1>3, <1>4, Zenon DEF d

\* The first packet is taken.
LEMMA ChannelTail ==
    ASSUME NEW ch \in Seq(Packets), ch # << >>, NEW a, NEW b
    PROVE  /\ Tail(ch) \in Seq(Packets) /\ Head(ch) \in Packets
           /\ Len(Tail(ch)) = Len(ch) - 1
           /\ Only(ch, a) => Only(Tail(ch), a) /\ Head(ch) \in {Error, a}
           /\ Mixed(ch, a, b) =>
                 /\ Mixed(Tail(ch), a, b) /\ Head(ch) \in {Error, a, b}
                 /\ Head(ch) = b => Only(Tail(ch), b)
<1> DEFINE d == Tail(ch)
<1>1. /\ d \in Seq(Packets) /\ Len(d) = Len(ch) - 1 /\ Len(ch) \in Nat \ {0}
      /\ \A i \in 1 .. Len(d) : d[i] = ch[i + 1]
      /\ Head(ch) = ch[1] /\ Head(ch) \in Packets
  BY TailIs, EmptyIs, LenIs
<1> HIDE DEF d
<1>2. 1 \in 1 .. Len(ch) /\ \A i \in 1 .. Len(d) : i + 1 \in 1 .. Len(ch) /\ 1 < i + 1
  BY <1>1
<1>3. Only(ch, a) => Only(d, a) /\ Head(ch) \in {Error, a}
  BY <1>1, <1>2, Zenon DEF Only
<1>4. ASSUME Mixed(ch, a, b)
      PROVE  /\ Mixed(d, a, b) /\ Head(ch) \in {Error, a, b}
             /\ Head(ch) = b => Only(d, b)
  <2>1. \A i \in 1 .. Len(d) : d[i] \in {Error, a, b}
    BY <1>1, <1>2, <1>4, Zenon DEF Mixed
  <2>2. ASSUME NEW i \in 1 .. Len(d), NEW j \in 1 .. Len(d), i < j, d[i] = b
        PROVE  d[j] \in {Error, b}
    <3>1. i + 1 \in 1 .. Len(ch) /\ j + 1 \in 1 .. Len(ch) /\ i + 1 < j + 1
      BY <1>1, <2>2
    <3>2. ch[i + 1] = b /\ d[j] = ch[j + 1]
      BY <1>1, <2>2, Zenon
    <3> QED
      BY <1>4, <3>1, <3>2, Zenon DEF Mixed
  <2>3. Head(ch) = b => Only(d, b)
    BY <1>1, <1>2, <1>4, Zenon DEF Mixed, Only
  <2>4. Head(ch) \in {Error, a, b}
    BY <1>1, <1>2, <1>4, Zenon DEF Mixed
  <2> QED
    BY <2>1, <2>2, <2>3, <2>4, Zenon DEF Mixed
<1> QED
  BY <1>1, <1>3, <1>4, Zenon DEF d

\* One kind of packet is a mixture of two.
LEMMA OnlyMixed ==
    ASSUME NEW ch, NEW a, NEW b
    PROVE  Only(ch, a) \/ Only(ch, b) => (b # Error => Mixed(ch, a, b))
<1>1. Only(ch, b) => Mixed(ch, a, b)
  BY Zenon DEF Only, Mixed
<1>2. ASSUME Only(ch, a), b # Error PROVE Mixed(ch, a, b)
  BY <1>2, Zenon DEF Only, Mixed
<1> QED
  BY <1>1, <1>2, Zenon

LEMMA EmptyChannel ==
    ASSUME NEW a, NEW b
    PROVE  Only(<< >>, a) /\ Mixed(<< >>, a, b) /\ << >> \in Seq(Packets)
<1>1. Len(<< >>) = 0 /\ << >> \in Seq(Packets)
  BY EmptyIs, Zenon
<1> QED
  BY <1>1 DEF Only, Mixed

-----------------------------------------------------------------------------
(* The outcomes of the functions of the server.                            *)

Outs == {<< >>} \cup {<<p>> : p \in Packets}
Outcomes == [s : SrvType, t : TimerType, out : Outs, written : Int]

\* Whether the client sees a difference between the transfers s and r.
Same(s, r) ==
    /\ r.handle = s.handle /\ r.mode_write = s.mode_write /\ r.blknum = s.blknum
    /\ r.last_data = s.last_data /\ r.pos = s.pos

Answers(o, packet) == o.written = 0 /\ o.out \in {<< >>, <<packet>>}

\* The transfer s fails, or nothing but an error comes of the packet.
Fails(s, o) == Answers(o, Error) /\ (o.s.handle = NONE \/ Same(s, o.s))

Opens(s, c, p, o) ==
    /\ s.handle = NONE /\ p.op = "REQ" /\ c \in Writers
    /\ o.s.handle = c /\ o.s.blknum = 1
    /\ Answers(o, Packet("ACK", 0, 0))

Repeats(s, c, p, o) ==
    /\ s.handle = c /\ c \in Writers /\ p.op = "DATA"
    /\ p.blknum # s.blknum /\ (p.blknum + 1) % BlkMod = s.blknum
    /\ Same(s, o.s)
    /\ Answers(o, Packet("ACK", p.blknum, 0))

Writes(s, c, p, o) ==
    /\ s.handle = c /\ c \in Writers /\ p.op = "DATA" /\ p.blknum = s.blknum
    /\ o.written \in {p.data, Short}
    /\ o.out \in {<< >>, <<Packet("ACK", p.blknum, 0)>>}
    /\ IF p.data = Blocks THEN o.s.handle = NONE
       ELSE o.s.handle = c /\ o.s.blknum = (s.blknum + 1) % BlkMod

\* The block after the n-th is sent under the number b.
Sends(c, b, n, o) ==
    /\ o.s.handle = c /\ o.s.blknum = b
    /\ \/ /\ ~lossy
          /\ o.s.last_data = NONE /\ o.s.pos = n
          /\ o.written = 0 /\ o.out = << >>
       \/ /\ o.s.last_data = [blknum |-> b, data |-> n + 1] /\ o.s.pos = n + 1
          /\ Answers(o, Packet("DATA", b, n + 1))

SendsFirst(s, c, p, o) ==
    /\ s.handle = NONE /\ p.op = "REQ" /\ c \notin Writers
    /\ Sends(c, 1, 0, o)

SendsNext(s, c, p, o) ==
    /\ s.handle = c /\ c \notin Writers /\ p.op = "ACK" /\ p.blknum = s.blknum
    /\ s.last_data # NONE => s.last_data.data # Blocks
    /\ Sends(c, (s.blknum + 1) % BlkMod, s.pos, o)

Resends(s, c, o) ==
    /\ s.handle = c /\ s.last_data # NONE /\ Same(s, o.s)
    /\ Answers(o, Packet("DATA", s.last_data.blknum, s.last_data.data))

Effect(s, c, p, o) ==
    \/ Fails(s, o)
    \/ Opens(s, c, p, o) \/ Repeats(s, c, p, o) \/ Writes(s, c, p, o)
    \/ SendsFirst(s, c, p, o) \/ SendsNext(s, c, p, o)

LEMMA PacketType ==
    ASSUME NEW op \in {"REQ", "DATA", "ACK", "ERROR"}, NEW n \in Int, NEW b \in Int
    PROVE  Packet(op, n, b) \in Packets
BY BlkFacts, Zenon DEF Packet, Packets

LEMMA ErrorType == Error \in Packets
BY PacketType DEF Error

LEMMA SendGood ==
    ASSUME NEW s \in SrvType, NEW t \in TimerType, NEW x \in Packets, NEW o \in Send(s, t, x)
    PROVE  o \in Outcomes /\ o.s = s /\ o.t = t /\ Answers(o, x)
<1>1. o \in {Outcome(s, t, <<x>>), Outcome(s, t, << >>)}
  BY Zenon DEF Send
<1>2. << >> \in Outs /\ <<x>> \in Outs
  BY Zenon DEF Outs
<1> QED
  BY <1>1, <1>2 DEF Outcome, Outcomes, Answers

LEMMA TimerGood ==
    ASSUME NEW t \in TimerType
    PROVE  /\ cancel_tftp_tmr(t) \in TimerType
           /\ \A u \in set_tftp_tmr(t) :
                 /\ u \in TimerType /\ Timed(u) /\ u.now = t.now
                 /\ ~u.lost => ~t.lost /\ u.next = t.next + 1
<1>1. cancel_tftp_tmr(t) \in TimerType
  BY DEF cancel_tftp_tmr, TimerType
<1>2. ASSUME NEW u, u = [t EXCEPT !.next = @ + 1]
      PROVE  /\ u \in TimerType /\ Timed(u) /\ u.now = t.now
             /\ ~u.lost => ~t.lost /\ u.next = t.next + 1
  BY <1>2 DEF TimerType, Timed
<1>3. ASSUME NEW u, u = [t EXCEPT !.lost = TRUE]
      PROVE  /\ u \in TimerType /\ Timed(u) /\ u.now = t.now /\ u.lost
  BY <1>3, Zenon DEF TimerType, Timed
<1> QED
  BY <1>1, <1>2, <1>3, Zenon DEF set_tftp_tmr

LEMMA CloseGood ==
    ASSUME NEW o \in Outcomes
    PROVE  /\ close_handle(o) \in Outcomes
           /\ SrvOK(close_handle(o).s, close_handle(o).t)
           /\ close_handle(o).s.handle = NONE /\ close_handle(o).s.idle = o.s.idle
           /\ close_handle(o).out = o.out /\ close_handle(o).written = o.written
<1> DEFINE r == [o.s EXCEPT !.port = NONE, !.last_data = NONE, !.handle = NONE]
           q == close_handle(o)
<1>1. o.s \in SrvType /\ o.t \in TimerType
  BY Zenon DEF Outcomes
<1>2. /\ r \in SrvType /\ r.port = NONE /\ r.handle = NONE /\ r.last_data = NONE
      /\ r.idle = o.s.idle
  BY <1>1, Zenon DEF SrvType
<1> HIDE DEF r
<1>4. q = [s |-> r, t |-> cancel_tftp_tmr(o.t), out |-> o.out, written |-> o.written]
  <2>1. q = [o EXCEPT !.s = r, !.t = cancel_tftp_tmr(@)]
    BY Zenon DEF close_handle, r
  <2> HIDE DEF q
  <2> QED
    BY <2>1, Zenon DEF Outcomes
<1> HIDE DEF q
<1>3. q.s = r /\ q.t = cancel_tftp_tmr(o.t) /\ q.out = o.out /\ q.written = o.written
  BY <1>4, Zenon
<1>5. q \in Outcomes
  BY <1>1, <1>2, <1>4, TimerGood, Zenon DEF Outcomes
<1>6. SrvOK(q.s, q.t)
  BY <1>1, <1>2, <1>3, TimerGood, Zenon DEF SrvOK
<1> QED
  BY <1>2, <1>3, <1>5, <1>6, Zenon DEF q

LEMMA NextBlockGood ==
    ASSUME NEW o \in Outcomes
    PROVE  /\ NextBlock(o) \in Outcomes
           /\ NextBlock(o).t = o.t /\ NextBlock(o).out = o.out /\ NextBlock(o).written = o.written
           /\ NextBlock(o).s.blknum = (o.s.blknum + 1) % BlkMod
           /\ NextBlock(o).s.port = o.s.port /\ NextBlock(o).s.handle = o.s.handle
           /\ NextBlock(o).s.mode_write = o.s.mode_write
           /\ NextBlock(o).s.last_data = o.s.last_data
           /\ NextBlock(o).s.idle = o.s.idle /\ NextBlock(o).s.pos = o.s.pos
<1> DEFINE r == [o.s EXCEPT !.blknum = (o.s.blknum + 1) % BlkMod]
           q == NextBlock(o)
<1>1. o.s \in SrvType /\ o.t \in TimerType /\ o.s.blknum \in Int
  BY DEF Outcomes, SrvType
<1>2. (o.s.blknum + 1) % BlkMod \in Nat
  BY <1>1, BlkFacts
<1>3. /\ r \in SrvType /\ r.blknum = (o.s.blknum + 1) % BlkMod
      /\ r.port = o.s.port /\ r.handle = o.s.handle /\ r.mode_write = o.s.mode_write
      /\ r.last_data = o.s.last_data /\ r.idle = o.s.idle /\ r.pos = o.s.pos
  BY <1>1, <1>2, Zenon DEF SrvType
<1> HIDE DEF r
<1>5. q = [s |-> r, t |-> o.t, out |-> o.out, written |-> o.written]
  <2>1. q = [o EXCEPT !.s = r]
    BY Zenon DEF NextBlock, r
  <2> HIDE DEF q
  <2> QED
    BY <2>1, Zenon DEF Outcomes
<1> HIDE DEF q
<1>4. q.s = r /\ q.t = o.t /\ q.out = o.out /\ q.written = o.written
  BY <1>5, Zenon
<1>6. q \in Outcomes
  BY <1>1, <1>3, <1>5, Zenon DEF Outcomes
<1> QED
  BY <1>3, <1>4, <1>6, Zenon DEF q

\* An outcome o of the packet p of client c for the transfer s.
Fine(s, c, p, o) ==
    o \in Outcomes /\ SrvOK(o.s, o.t) /\ o.s.idle = s.idle /\ Effect(s, c, p, o)

LEMMA ErrorGood ==
    ASSUME NEW s, NEW t, SrvOK(s, t), NEW o \in send_error(s, t), NEW c, NEW p
    PROVE  Fine(s, c, p, o)
<1>1. s \in SrvType /\ t \in TimerType
  BY Zenon DEF SrvOK
<1>2. o \in Send(s, t, Error)
  BY Zenon DEF send_error
<1>3. o \in Outcomes /\ o.s = s /\ o.t = t /\ Answers(o, Error)
  BY <1>1, <1>2, ErrorType, SendGood, Zenon
<1>4. Fails(s, o)
  BY <1>3, Zenon DEF Fails, Same
<1> QED
  BY <1>3, <1>4, Zenon DEF Fine, Effect

LEMMA SendDataGood ==
    ASSUME NEW s \in SrvType, NEW t \in TimerType, NEW c \in Clients \ Writers,
           s.port = c, s.handle = c, ~s.mode_write, Timed(t),
           NEW o \in send_data(s, t)
    PROVE  /\ o \in Outcomes /\ SrvOK(o.s, o.t) /\ o.s.idle = s.idle
           /\ (o.s.handle = NONE /\ Answers(o, Error)) \/ Sends(c, s.blknum, s.pos, o)
<1> DEFINE none == [s EXCEPT !.last_data = NONE]
           d == [blknum |-> s.blknum, data |-> s.pos + 1]
           kept == [s EXCEPT !.last_data = d, !.pos = @ + 1]
<1>0. c # NONE /\ c \in Clients /\ c \notin Writers
  BY TftpAssumption, Zenon
<1>1. /\ none \in SrvType /\ none.last_data = NONE /\ none.port = c /\ none.handle = c
      /\ none.mode_write = s.mode_write /\ none.blknum = s.blknum /\ none.pos = s.pos
      /\ none.idle = s.idle
  BY Zenon DEF SrvType
<1>2. s.blknum \in Nat /\ s.pos \in Nat
  BY Zenon DEF SrvType
<1>3. d \in [blknum : Nat, data : Nat] /\ d.blknum = s.blknum /\ d.data = s.pos + 1
  BY <1>2
<1> HIDE DEF d
<1>4. /\ kept \in SrvType /\ kept.last_data = d /\ kept.port = c /\ kept.handle = c
      /\ kept.mode_write = s.mode_write /\ kept.blknum = s.blknum /\ kept.pos = s.pos + 1
      /\ kept.idle = s.idle
  BY <1>2, <1>3, Zenon DEF SrvType
<1>5. \/ ~lossy /\ o = Outcome(none, t, << >>)
      \/ \E e \in send_error(s, t) : o = close_handle(e)
      \/ o \in resend_data(kept, t)
  BY Zenon DEF send_data, d
<1> HIDE DEF none, kept
<1>6. CASE ~lossy /\ o = Outcome(none, t, << >>)
  <2>1. o.s = none /\ o.t = t /\ o.out = << >> /\ o.written = 0
    BY <1>6, Zenon DEF Outcome
  <2>2. o \in Outcomes
    BY <1>1, <1>6 DEF Outcome, Outcomes, Outs
  <2>3. SrvOK(o.s, o.t)
    BY <1>0, <1>1, <2>1, Zenon DEF SrvOK
  <2>4. Sends(c, s.blknum, s.pos, o)
    BY <1>1, <1>6, <2>1, Zenon DEF Sends
  <2> QED
    BY <1>1, <2>1, <2>2, <2>3, <2>4, Zenon
<1>7. ASSUME NEW e \in send_error(s, t), o = close_handle(e)
      PROVE  /\ o \in Outcomes /\ SrvOK(o.s, o.t) /\ o.s.idle = s.idle
             /\ o.s.handle = NONE /\ Answers(o, Error)
  <2>1. e \in Outcomes /\ e.s = s /\ Answers(e, Error)
    BY ErrorType, SendGood DEF send_error
  <2> QED
    BY <1>7, <2>1, CloseGood, Zenon DEF Answers
<1>8. CASE o \in resend_data(kept, t)
  <2> DEFINE x == Packet("DATA", d.blknum, d.data)
  <2>1. x \in Packets
    BY <1>2, <1>3, PacketType
  <2>2. o \in Send(kept, t, x)
    BY <1>4, <1>8, Zenon DEF resend_data
  <2> HIDE DEF x
  <2>3. o \in Outcomes /\ o.s = kept /\ o.t = t /\ Answers(o, x)
    BY <1>4, <2>1, <2>2, SendGood, Zenon
  <2>4. SrvOK(o.s, o.t)
    BY <1>0, <1>4, <2>3, Zenon DEF SrvOK
  <2>5. Sends(c, s.blknum, s.pos, o)
    BY <1>3, <1>4, <2>3, Zenon DEF Sends, x, d
  <2> QED
    BY <1>4, <2>3, <2>4, <2>5, Zenon
<1> QED
  BY <1>5, <1>6, <1>7, <1>8, Zenon

LEMMA RequestGood ==
    ASSUME NEW s, NEW t, SrvOK(s, t), NEW c \in Clients, NEW p, p.op = "REQ",
           NEW o \in Request(s, t, c)
    PROVE  Fine(s, c, p, o)
<1> DEFINE open == [s EXCEPT !.handle = c, !.port = c, !.blknum = 1, !.pos = 0,
                             !.mode_write = (c \in Writers)]
           one == [s EXCEPT !.blknum = 1]
           t0 == [t EXCEPT !.lost = FALSE]
<1>0. c # NONE
  BY TftpAssumption, Zenon
<1>1. s \in SrvType /\ t \in TimerType
  BY Zenon DEF SrvOK
<1>2. t0 \in TimerType
  BY <1>1, Zenon DEF TimerType
<1>3. CASE s.handle # NONE
  BY <1>3, ErrorGood, Zenon DEF Request
<1>4. CASE s.handle = NONE
  <2>1. s.last_data = NONE /\ s.port = NONE
    BY <1>4, Zenon DEF SrvOK
  <2>2. /\ one \in SrvType /\ one.handle = NONE /\ one.port = NONE /\ one.last_data = NONE
        /\ one.idle = s.idle
    BY <1>1, <1>4, <2>1, Zenon DEF SrvType
  <2>3. (c \in Writers) \in BOOLEAN
    OBVIOUS
  <2>4. /\ open \in SrvType /\ open.handle = c /\ open.port = c /\ open.last_data = NONE
        /\ open.idle = s.idle /\ open.blknum = 1 /\ open.pos = 0
    BY <1>1, <2>1, <2>3, Zenon DEF SrvType
  <2>5. open.mode_write <=> c \in Writers
    BY <1>1, Zenon DEF SrvType
  <2>6. PICK u \in set_tftp_tmr(t0) :
           \/ o \in send_error(one, u)
           \/ c \in Writers /\ o \in send_ack(open, u, 0)
           \/ c \notin Writers /\ o \in send_data(open, u)
    BY <1>4, Zenon DEF Request
  <2> HIDE DEF open, one, t0
  <2>10. u \in TimerType /\ Timed(u)
    BY <1>2, TimerGood, Zenon
  <2>7. CASE o \in send_error(one, u)
    <3>1. o \in Outcomes /\ o.s = one /\ o.t = u /\ Answers(o, Error)
      BY <2>10, <2>2, <2>7, ErrorType, SendGood, Zenon DEF send_error
    <3>2. SrvOK(o.s, o.t)
      BY <2>10, <2>2, <3>1, Zenon DEF SrvOK
    <3>3. Effect(s, c, p, o)
      BY <2>2, <3>1, Zenon DEF Effect, Fails
    <3> QED
      BY <2>2, <3>1, <3>2, <3>3, Zenon DEF Fine
  <2>8. CASE c \in Writers /\ o \in send_ack(open, u, 0)
    <3>0. Packet("ACK", 0, 0) \in Packets
      BY PacketType
    <3>1. o \in Outcomes /\ o.s = open /\ o.t = u /\ Answers(o, Packet("ACK", 0, 0))
      BY <2>10, <2>4, <2>8, <3>0, SendGood, Zenon DEF send_ack
    <3>2. SrvOK(o.s, o.t)
      BY <1>0, <2>10, <2>4, <2>5, <3>1, Zenon DEF SrvOK
    <3>3. Opens(s, c, p, o)
      BY <1>4, <2>4, <2>8, <3>1, Zenon DEF Opens
    <3> QED
      BY <2>4, <3>1, <3>2, <3>3, Zenon DEF Fine, Effect
  <2>9. CASE c \notin Writers /\ o \in send_data(open, u)
    <3>1. /\ o \in Outcomes /\ SrvOK(o.s, o.t) /\ o.s.idle = open.idle
          /\ (o.s.handle = NONE /\ Answers(o, Error)) \/ Sends(c, open.blknum, open.pos, o)
      BY <2>10, <2>4, <2>5, <2>9, SendDataGood, Zenon
    <3>2. Fails(s, o) \/ SendsFirst(s, c, p, o)
      BY <1>4, <2>4, <2>9, <3>1, Zenon DEF Fails, SendsFirst
    <3> QED
      BY <2>4, <3>1, <3>2, Zenon DEF Fine, Effect
  <2> QED
    BY <2>6, <2>7, <2>8, <2>9, Zenon
<1> QED
  BY <1>3, <1>4, Zenon

LEMMA WriteGood ==
    ASSUME NEW s, NEW t, SrvOK(s, t), NEW c \in Writers, s.handle = c,
           NEW p \in Packets, p.op = "DATA", p.blknum = s.blknum, NEW o \in Write(s, t, p)
    PROVE  Fine(s, c, p, o)
<1>0. c # NONE
  BY TftpAssumption, Zenon
<1>1. s \in SrvType /\ t \in TimerType /\ p.data \in Int /\ p.blknum \in Int /\ Short \in Int
  BY DEF SrvOK, Packets, Short
<1>2. \/ \E e \in send_error(s, t) : o = AfterWrite(close_handle(e), p)
      \/ \E w \in {p.data, Short} : \E e \in send_ack(s, t, p.blknum) :
            o = AfterWrite([e EXCEPT !.written = w], p)
  <2> DEFINE W == {p.data} \cup (IF ~lossy THEN {Short} ELSE {})
             F(w, e) == AfterWrite([e EXCEPT !.written = w], p)
             G(e) == AfterWrite(close_handle(e), p)
             E == send_error(s, t)
             A == send_ack(s, t, p.blknum)
  <2>1. o \in {G(e) : e \in E} \cup UNION {{F(w, e) : e \in A} : w \in W}
    BY Zenon DEF Write
  <2>2. W \subseteq {p.data, Short}
    BY Zenon
  <2>3. (\E e \in E : o = G(e)) \/ (\E w \in W : \E e \in A : o = F(w, e))
    <3> HIDE DEF F, G, E, A, W
    <3> QED
      BY <2>1, Zenon
  <2> HIDE DEF W
  <2> QED
    BY <2>2, <2>3, Zenon
<1>3. ASSUME NEW e \in send_error(s, t), o = AfterWrite(close_handle(e), p)
      PROVE  Fine(s, c, p, o)
  <2>1. e \in Outcomes /\ e.s = s /\ Answers(e, Error)
    BY <1>1, ErrorType, SendGood DEF send_error
  <2> DEFINE q == close_handle(e)
  <2>2. /\ q \in Outcomes /\ SrvOK(q.s, q.t) /\ q.s.handle = NONE /\ q.s.idle = s.idle
        /\ Answers(q, Error)
    BY <2>1, CloseGood, Zenon DEF Answers
  <2>3. o = close_handle(q) \/ o = NextBlock(q)
    BY <1>3, Zenon DEF AfterWrite
  <2> HIDE DEF q
  <2>4. CASE o = close_handle(q)
    BY <2>2, <2>4, CloseGood, Zenon DEF Fine, Effect, Fails, Answers
  <2>5. CASE o = NextBlock(q)
    <3>1. /\ o \in Outcomes /\ o.s.handle = NONE /\ o.s.idle = s.idle /\ Answers(o, Error)
          /\ o.s.port = q.s.port /\ o.s.last_data = q.s.last_data /\ o.t = q.t
      BY <2>2, <2>5, NextBlockGood, Zenon DEF Answers
    <3>2. SrvOK(o.s, o.t)
      BY <2>2, <3>1, Zenon DEF SrvOK, Outcomes
    <3> QED
      BY <3>1, <3>2, Zenon DEF Fine, Effect, Fails
  <2> QED
    BY <2>3, <2>4, <2>5, Zenon
<1>4. ASSUME NEW w \in {p.data, Short}, NEW e \in send_ack(s, t, p.blknum),
             o = AfterWrite([e EXCEPT !.written = w], p)
      PROVE  Fine(s, c, p, o)
  <2> DEFINE x == Packet("ACK", p.blknum, 0)
             q == [e EXCEPT !.written = w]
  <2>1. x \in Packets
    BY <1>1, PacketType
  <2>2. e \in Outcomes /\ e.s = s /\ e.t = t /\ e.out \in {<< >>, <<x>>}
    BY <1>1, <2>1, SendGood DEF send_ack, Answers
  <2>3. q \in Outcomes /\ q.s = s /\ q.t = t /\ q.out \in {<< >>, <<x>>} /\ q.written = w
    BY <1>1, <2>2, Zenon DEF Outcomes
  <2> HIDE DEF q
  <2>4. CASE p.data = Blocks
    <3>1. o = close_handle(q)
      BY <1>4, <2>4, Zenon DEF AfterWrite, q
    <3>2. /\ o \in Outcomes /\ SrvOK(o.s, o.t) /\ o.s.handle = NONE /\ o.s.idle = s.idle
          /\ o.out \in {<< >>, <<x>>} /\ o.written = w
      BY <2>3, <3>1, CloseGood, Zenon
    <3>3. Writes(s, c, p, o)
      BY <2>4, <3>2, Zenon DEF Writes
    <3> QED
      BY <3>2, <3>3, Zenon DEF Fine, Effect
  <2>5. CASE p.data # Blocks
    <3>1. o = NextBlock(q)
      BY <1>4, <2>5, Zenon DEF AfterWrite, q
    <3>2. /\ o \in Outcomes /\ o.s.handle = c /\ o.s.idle = s.idle /\ o.s.port = s.port
          /\ o.s.mode_write = s.mode_write /\ o.s.last_data = s.last_data /\ o.t = t
          /\ o.out \in {<< >>, <<x>>} /\ o.written = w
          /\ o.s.blknum = (s.blknum + 1) % BlkMod
      BY <2>3, <3>1, NextBlockGood, Zenon
    <3>3. SrvOK(o.s, o.t)
      BY <3>2, Zenon DEF SrvOK, Outcomes
    <3>4. Writes(s, c, p, o)
      BY <2>5, <3>2, Zenon DEF Writes
    <3> QED
      BY <3>2, <3>3, <3>4, Zenon DEF Fine, Effect
  <2> QED
    BY <2>4, <2>5, Zenon
<1> QED
  BY <1>2, <1>3, <1>4, Zenon

LEMMA DataGood ==
    ASSUME NEW s, NEW t, SrvOK(s, t), NEW c \in Clients, s.handle \in {NONE, c},
           NEW p \in Packets, p.op = "DATA", NEW o \in Data(s, t, p)
    PROVE  Fine(s, c, p, o)
<1>1. \/ o \in send_error(s, t)
      \/ /\ s.handle # NONE /\ s.mode_write
         /\ \/ p.blknum = s.blknum /\ o \in Write(s, t, p)
            \/ /\ p.blknum # s.blknum /\ (p.blknum + 1) % BlkMod = s.blknum
               /\ o \in send_ack(s, t, p.blknum)
  BY Zenon DEF Data
<1>2. s.handle # NONE /\ s.mode_write => s.handle = c /\ c \in Writers
  BY Zenon DEF SrvOK
<1>3. CASE o \in send_error(s, t)
  BY <1>3, ErrorGood, Zenon
<1>4. CASE s.handle = c /\ c \in Writers /\ p.blknum = s.blknum /\ o \in Write(s, t, p)
  BY <1>4, WriteGood, Zenon
<1>5. CASE /\ s.handle = c /\ c \in Writers
           /\ p.blknum # s.blknum /\ (p.blknum + 1) % BlkMod = s.blknum
           /\ o \in send_ack(s, t, p.blknum)
  <2> DEFINE x == Packet("ACK", p.blknum, 0)
  <2>1. s \in SrvType /\ t \in TimerType /\ p.blknum \in Int
    BY DEF SrvOK, Packets
  <2>2. x \in Packets
    BY <2>1, PacketType
  <2>3. o \in Outcomes /\ o.s = s /\ o.t = t /\ Answers(o, x)
    BY <1>5, <2>1, <2>2, SendGood, Zenon DEF send_ack
  <2>4. Repeats(s, c, p, o)
    BY <1>5, <2>3, Zenon DEF Repeats, Same
  <2> QED
    BY <2>3, <2>4, Zenon DEF Fine, Effect
<1> QED
  BY <1>1, <1>2, <1>3, <1>4, <1>5, Zenon

LEMMA AckGood ==
    ASSUME NEW s, NEW t, SrvOK(s, t), NEW c \in Clients, s.handle \in {NONE, c},
           NEW p \in Packets, p.op = "ACK", NEW o \in Ack(s, t, p)
    PROVE  Fine(s, c, p, o)
<1> DEFINE e == Outcome(s, t, << >>)
           q == NextBlock(e)
<1>1. s \in SrvType /\ t \in TimerType
  BY Zenon DEF SrvOK
<1>2. /\ e \in Outcomes /\ e.s = s /\ e.t = t /\ e.out = << >> /\ e.written = 0
  BY <1>1 DEF Outcome, Outcomes, Outs
<1>3. /\ q.s \in SrvType /\ q.s.blknum = (s.blknum + 1) % BlkMod
      /\ q.s.port = s.port /\ q.s.handle = s.handle /\ q.s.mode_write = s.mode_write
      /\ q.s.idle = s.idle /\ q.s.pos = s.pos
  BY <1>2, NextBlockGood, Zenon DEF Outcomes
<1>4. \/ o \in send_error(s, t)
      \/ o = close_handle(e)
      \/ /\ s.handle # NONE /\ ~s.mode_write /\ p.blknum = s.blknum
         /\ s.last_data # NONE => s.last_data.data # Blocks
         /\ o \in send_data(q.s, t)
  BY Zenon DEF Ack
<1> HIDE DEF e, q
<1>5. CASE o \in send_error(s, t)
  BY <1>5, ErrorGood, Zenon
<1>6. CASE o = close_handle(e)
  BY <1>2, <1>6, CloseGood, Zenon DEF Fine, Effect, Fails, Answers
<1>7. CASE /\ s.handle # NONE /\ ~s.mode_write /\ p.blknum = s.blknum
           /\ s.last_data # NONE => s.last_data.data # Blocks
           /\ o \in send_data(q.s, t)
  <2>1. s.handle = c /\ c \notin Writers /\ s.port = c /\ Timed(t)
    BY <1>7, Zenon DEF SrvOK
  <2>2. /\ o \in Outcomes /\ SrvOK(o.s, o.t) /\ o.s.idle = q.s.idle
        /\ (o.s.handle = NONE /\ Answers(o, Error)) \/ Sends(c, q.s.blknum, q.s.pos, o)
    BY <1>1, <1>3, <1>7, <2>1, SendDataGood
  <2>3. Fails(s, o) \/ SendsNext(s, c, p, o)
    BY <1>3, <1>7, <2>1, <2>2, Zenon DEF Fails, SendsNext
  <2> QED
    BY <1>3, <2>2, <2>3, Zenon DEF Fine, Effect
<1> QED
  BY <1>4, <1>5, <1>6, <1>7, Zenon

LEMMA HandledGood ==
    ASSUME NEW s, SrvOK(s, timers), NEW c \in Clients, s.handle \in {NONE, c},
           NEW p \in Packets, NEW o \in Handled(s, c, p)
    PROVE  Fine(s, c, p, o)
<1>1. p.op \in {"REQ", "DATA", "ACK", "ERROR"}
  BY Zenon DEF Packets
<1>2. CASE p.op = "REQ"
  BY <1>2, RequestGood, Zenon DEF Handled
<1>3. CASE p.op = "DATA"
  BY <1>3, DataGood, Zenon DEF Handled
<1>4. CASE p.op = "ACK"
  BY <1>4, AckGood, Zenon DEF Handled
<1>5. CASE p.op = "ERROR"
  BY <1>5, ErrorGood, Zenon DEF Handled
<1> QED
  BY <1>1, <1>2, <1>3, <1>4, <1>5, Zenon

-----------------------------------------------------------------------------
(* Packets of the server, as its client sees them.                         *)

\* What becomes of a channel into which out is put.
Sent(ch, out, ch2) == ch2 = ch \/ \E p \in Packets : out = <<p>> /\ ch2 = Append(ch, p)

LEMMA PutSent ==
    ASSUME NEW ch \in Seq(Packets), NEW out \in Outs
    PROVE  Sent(ch, out, Put(ch, out)) /\ Put(ch, out) \in Seq(Packets)
<1>1. CASE out = << >>
  <2>1. ch \o << >> = ch
    BY JoinEmpty, Zenon
  <2> QED
    BY <1>1, <2>1, Zenon DEF Put, Sent
<1>2. ASSUME NEW p \in Packets, out = <<p>>
      PROVE  Sent(ch, out, Put(ch, out)) /\ Put(ch, out) \in Seq(Packets)
  <2>1. ch \o <<p>> = Append(ch, p) /\ Append(ch, p) \in Seq(Packets)
    BY JoinIs, AppendIs, Zenon
  <2> QED
    BY <1>2, <2>1, Zenon DEF Put, Sent
<1> QED
  BY <1>1, <1>2, Zenon DEF Outs

LEMMA SentIs ==
    ASSUME NEW ch \in Seq(Packets), NEW out, NEW ch2, Sent(ch, out, ch2)
    PROVE  \A x \in Packets : out \in {<< >>, <<x>>} =>
             /\ ch2 \in Seq(Packets)
             /\ \A a : Only(ch, a) /\ x \in {Error, a} => Only(ch2, a)
             /\ \A a, b : Mixed(ch, a, b) /\ x \in {Error, b} => Mixed(ch2, a, b)
<1> SUFFICES ASSUME NEW x \in Packets, out \in {<< >>, <<x>>}
             PROVE  /\ ch2 \in Seq(Packets)
                    /\ \A a : Only(ch, a) /\ x \in {Error, a} => Only(ch2, a)
                    /\ \A a, b : Mixed(ch, a, b) /\ x \in {Error, b} => Mixed(ch2, a, b)
  BY Zenon
<1>1. ASSUME NEW p \in Packets, out = <<p>> PROVE p = x
  <2>1. out[1] = p /\ Len(out) = 1 /\ Len(<< >>) = 0
    BY <1>1, Zenon
  <2>2. out = <<x>>
    BY <2>1
  <2> QED
    BY <2>1, <2>2, Zenon
<1>2. ch2 = ch \/ ch2 = Append(ch, x)
  BY <1>1, Zenon DEF Sent
<1>3. CASE ch2 = ch
  BY <1>3, Zenon
<1>4. CASE ch2 = Append(ch, x)
  BY <1>4, ChannelAppend, Zenon
<1> QED
  BY <1>2, <1>3, <1>4, Zenon

LEMMA AskedIs ==
    ASSUME NEW c \in Clients, NEW j \in Nat
    PROVE  /\ Asked(c, j) \in Packets /\ Asked(c, j) # Error
           /\ Asked(c, j).blknum = j % BlkMod
           /\ Asked(c, j).op = IF j = 0 THEN "REQ" ELSE IF c \in Writers THEN "DATA" ELSE "ACK"
           /\ c \in Writers /\ j # 0 => Asked(c, j).data = j
<1>1. CASE j = 0
  BY <1>1, PacketType, TftpAssumption DEF Asked, Packet, Error
<1>2. CASE j # 0
  BY <1>2, PacketType DEF Asked, Packet, Error
<1> QED
  BY <1>1, <1>2, Zenon

LEMMA AnswerIs ==
    ASSUME NEW c \in Clients, NEW j \in Int
    PROVE  /\ Answer(c, j) \in Packets
           /\ c \in Writers => /\ Answer(c, j) # Error /\ Answer(c, j).op = "ACK"
                               /\ Answer(c, j).blknum = j % BlkMod
           /\ c \notin Writers /\ j # 0 =>
                 /\ Answer(c, j) # Error /\ Answer(c, j).op = "DATA"
                 /\ Answer(c, j).blknum = j % BlkMod /\ Answer(c, j).data = j
           /\ c \notin Writers /\ j = 0 => Answer(c, j) = Error
           /\ Error.op = "ERROR"
BY PacketType, ErrorType DEF Answer, Packet, Error

LEMMA WriterRecv ==
    ASSUME NEW c \in Writers, NEW s \in SrvType, NEW f \in Seq(Int), NEW k \in ClientType,
           NEW up \in Seq(Packets), NEW down \in Seq(Packets),
           WriterView(c, s, f, k, up, down), up # << >>,
           NEW o \in Outcomes, Effect(s, c, Head(up), o),
           NEW down2, Sent(down, o.out, down2),
           NEW f2, f2 = IF s.handle = NONE /\ o.s.handle # NONE THEN << >>
                        ELSE IF o.written = 0 THEN f
                        ELSE Append(f, o.written)
    PROVE  WriterView(c, o.s, f2, k, Tail(up), down2) /\ f2 \in Seq(Int)
<1> DEFINE n == Len(f)
           p == Head(up)
<1>0. c \in Clients /\ c # NONE /\ n \in Nat /\ Blocks \in Nat \ {0} /\ n \in Int
  BY TftpAssumption, LenIs
<1>1. /\ Tail(up) \in Seq(Packets) /\ p \in Packets
      /\ \A a : Only(up, a) => Only(Tail(up), a) /\ p \in {Error, a}
      /\ \A a, b : Mixed(up, a, b) =>
                 /\ Mixed(Tail(up), a, b) /\ p \in {Error, a, b}
                 /\ p = b => Only(Tail(up), b)
  BY ChannelTail, Zenon
<1> HIDE DEF p
<1>2. \A x \in Packets : o.out \in {<< >>, <<x>>} =>
        /\ \A a : Only(down, a) /\ x \in {Error, a} => Only(down2, a)
        /\ \A a, b : Mixed(down, a, b) /\ x \in {Error, b} => Mixed(down2, a, b)
  BY SentIs, Zenon
<1>3. /\ \A i \in 1 .. n : f[i] \in {i, Short}
      /\ n <= Blocks
      /\ s.handle = c => s.blknum = (n + 1) % BlkMod /\ n < Blocks
      /\ k.state = "done" => n = Blocks
      /\ \/ k.block = n /\ Unacked(c, n, up, down)
         \/ k.block = n + 1 /\ Acked(c, n, up, down)
  BY Zenon DEF WriterView
<1>4. /\ Asked(c, n) \in Packets /\ Asked(c, n) # Error /\ Asked(c, n).blknum = n % BlkMod
      /\ Asked(c, n).op = IF n = 0 THEN "REQ" ELSE "DATA"
      /\ Asked(c, n + 1) # Error /\ Asked(c, n + 1).blknum = (n + 1) % BlkMod
      /\ Asked(c, n + 1).op = "DATA" /\ Asked(c, n + 1).data = n + 1
  BY <1>0, AskedIs
<1>5. /\ (n % BlkMod) + 1 \in Int /\ ((n % BlkMod) + 1) % BlkMod = (n + 1) % BlkMod
      /\ (n + 1) % BlkMod # n % BlkMod
      /\ (((n + 1) % BlkMod) + 1) % BlkMod = (n + 2) % BlkMod
      /\ (n % BlkMod) % BlkMod = n % BlkMod
      /\ ((n + 1) % BlkMod) % BlkMod = (n + 1) % BlkMod
  BY <1>0, BlkFacts
<1>6. p \in {Error, Asked(c, n), Asked(c, n + 1)}
  BY <1>1, <1>3, Zenon DEF Unacked, Acked
<1>7. Error.op = "ERROR" /\ Error \in Packets
  BY ErrorType, Zenon DEF Error, Packet
<1>8. CASE Fails(s, o)
  <2>1. f2 = f
    BY <1>8, Zenon DEF Fails, Same, Answers
  <2>2. o.s.handle = c => s.handle = c /\ o.s.blknum = s.blknum
    BY <1>0, <1>8, Zenon DEF Fails, Same
  <2>3. o.out \in {<< >>, <<Error>>}
    BY <1>8, Zenon DEF Fails, Answers
  <2>4. \A a, b : (Only(down, a) => Only(down2, a)) /\ (Mixed(down, a, b) => Mixed(down2, a, b))
    BY <1>2, <1>7, <2>3, Zenon
  <2>5. /\ Unacked(c, n, up, down) => Unacked(c, n, Tail(up), down2)
        /\ Acked(c, n, up, down) => Acked(c, n, Tail(up), down2)
    BY <1>1, <2>4, Zenon DEF Unacked, Acked
  <2> QED
    BY <1>3, <2>1, <2>2, <2>5, Zenon DEF WriterView
<1>9. CASE Opens(s, c, p, o)
  <2>1. n = 0 /\ s.handle = NONE /\ o.s.handle = c /\ o.s.blknum = 1
    BY <1>4, <1>6, <1>7, <1>9, Zenon DEF Opens
  <2>2. f2 = << >> /\ f = << >>
    BY <1>0, <2>1, EmptyIs, Zenon
  <2>3. o.out \in {<< >>, <<Answer(c, 0)>>} /\ Answer(c, 0) \in Packets
    BY <1>0, <1>9, AnswerIs DEF Opens, Answers, Answer
  <2>4. \A a : /\ Only(down, Answer(c, 0)) => Only(down2, Answer(c, 0))
               /\ Mixed(down, a, Answer(c, 0)) => Mixed(down2, a, Answer(c, 0))
    BY <1>2, <2>3, Zenon
  <2>5. /\ Unacked(c, n, up, down) => Unacked(c, n, Tail(up), down2)
        /\ Acked(c, n, up, down) => Acked(c, n, Tail(up), down2)
    BY <1>1, <2>1, <2>4, Zenon DEF Unacked, Acked
  <2>6. 1 = (n + 1) % BlkMod
    BY <2>1, FirstBlock, Zenon
  <2> QED
    BY <1>0, <1>3, <2>1, <2>2, <2>5, <2>6 DEF WriterView
<1>10. CASE Repeats(s, c, p, o)
  <2>1. /\ s.handle = c /\ s.blknum = (n + 1) % BlkMod /\ f2 = f
        /\ o.s.handle = c /\ o.s.blknum = s.blknum
    BY <1>0, <1>3, <1>10, Zenon DEF Repeats, Same, Answers
  <2>2. p = Asked(c, n)
    BY <1>4, <1>6, <1>7, <1>10, <2>1, Zenon DEF Repeats
  <2>3. Packet("ACK", p.blknum, 0) = Answer(c, n)
    BY <1>4, <1>5, <2>2, Zenon DEF Packet, Answer
  <2>4. o.out \in {<< >>, <<Answer(c, n)>>} /\ Answer(c, n) \in Packets
    BY <1>0, <1>10, <2>3, AnswerIs, Zenon DEF Repeats, Answers
  <2>5. \A a : /\ Only(down, Answer(c, n)) => Only(down2, Answer(c, n))
               /\ Mixed(down, a, Answer(c, n)) => Mixed(down2, a, Answer(c, n))
    BY <1>2, <2>4, Zenon
  <2>6. /\ Unacked(c, n, up, down) => Unacked(c, n, Tail(up), down2)
        /\ Acked(c, n, up, down) => Acked(c, n, Tail(up), down2)
    BY <1>1, <2>5, Zenon DEF Unacked, Acked
  <2> QED
    BY <1>3, <2>1, <2>6, Zenon DEF WriterView
<1>11. CASE Writes(s, c, p, o)
  <2>1. /\ s.handle = c /\ s.blknum = (n + 1) % BlkMod /\ n < Blocks
        /\ p.op = "DATA" /\ p.blknum = s.blknum
    BY <1>3, <1>11, Zenon DEF Writes
  <2>2. p = Asked(c, n + 1)
    BY <1>4, <1>5, <1>6, <1>7, <2>1, Zenon
  <2>3. Asked(c, n) # Asked(c, n + 1)
    BY <1>4, <1>5, Zenon
  <2>4. k.block = n + 1 /\ Acked(c, n, up, down)
    BY <1>1, <1>3, <1>4, <2>2, <2>3, Zenon DEF Unacked
  <2>5. o.written \in {n + 1, Short} /\ o.written # 0 /\ o.written \in Int
    BY <1>0, <1>4, <1>11, <2>2 DEF Writes, Short
  <2>6. f2 = Append(f, o.written)
    BY <1>0, <2>1, <2>5, Zenon
  <2>7. /\ f2 \in Seq(Int) /\ Len(f2) = n + 1 /\ f2[n + 1] = o.written
        /\ \A i \in 1 .. n : f2[i] = f[i]
    BY <2>5, <2>6, AppendIs
  <2>8. \A i \in 1 .. n + 1 : i \in 1 .. n \/ i = n + 1
    BY <1>0
  <2>9. \A i \in 1 .. n + 1 : f2[i] \in {i, Short}
    BY <1>3, <2>5, <2>7, <2>8, Zenon
  <2>10. Packet("ACK", p.blknum, 0) = Answer(c, n + 1)
    BY <1>4, <1>5, <2>2, Zenon DEF Packet, Answer
  <2>11. /\ o.out \in {<< >>, <<Answer(c, n + 1)>>} /\ Answer(c, n + 1) \in Packets
         /\ Answer(c, n + 1) # Error
    BY <1>0, <1>11, <2>10, AnswerIs DEF Writes
  <2>12. Mixed(down, Answer(c, n), Answer(c, n + 1))
    BY <2>4, <2>11, OnlyMixed, Zenon DEF Acked
  <2>13. Mixed(down2, Answer(c, n), Answer(c, n + 1))
    BY <1>2, <2>11, <2>12, Zenon
  <2>14. Only(Tail(up), Asked(c, n + 1))
    BY <1>1, <2>2, <2>4, Zenon DEF Acked
  <2>15. n + 1 - 1 = n
    BY <1>0
  <2>16. Unacked(c, n + 1, Tail(up), down2)
    BY <2>13, <2>14, <2>15 DEF Unacked
  <2>17. o.s.handle = c => o.s.blknum = (n + 2) % BlkMod /\ n + 1 # Blocks
    BY <1>0, <1>4, <1>5, <1>11, <2>1, <2>2, Zenon DEF Writes
  <2>18. k.state # "done"
    BY <1>3, <2>1
  <2>19. n + 1 <= Blocks /\ (n + 1 # Blocks => n + 1 < Blocks) /\ n + 1 + 1 = n + 2
    BY <1>0, <2>1
  <2> QED
    BY <2>4, <2>7, <2>9, <2>16, <2>17, <2>18, <2>19, Zenon DEF WriterView
<1>12. Effect(s, c, p, o)
  BY Zenon DEF p
<1> QED
  BY <1>8, <1>9, <1>10, <1>11, <1>12, Zenon DEF Effect, SendsFirst, SendsNext

\* Nothing is put into the channel.
LEMMA SentNothing ==
    ASSUME NEW ch, NEW ch2, Sent(ch, << >>, ch2)
    PROVE  ch2 = ch
<1>1. \A p \in Packets : <<p>> # << >>
  <2>1. \A p \in Packets : Len(<<p>>) = 1
    BY Zenon
  <2> QED
    BY <2>1, Zenon
<1> QED
  BY <1>1, Zenon DEF Sent

LEMMA ReaderRecv ==
    ASSUME NEW c \in Clients \ Writers, NEW s \in SrvType, NEW k \in ClientType,
           NEW up \in Seq(Packets), NEW down \in Seq(Packets),
           StartView(c, lossy, s, k, up, down), ReaderView(c, s, k, up, down), up # << >>,
           NEW o \in Outcomes, Effect(s, c, Head(up), o),
           NEW down2, Sent(down, o.out, down2)
    PROVE  ReaderView(c, o.s, k, Tail(up), down2)
<1> DEFINE n == k.block
           p == Head(up)
<1>0. c \in Clients /\ c \notin Writers /\ c # NONE /\ n \in Nat /\ n \in Int
  BY TftpAssumption DEF ClientType
<1>1. /\ Tail(up) \in Seq(Packets) /\ p \in Packets
      /\ \A a : Only(up, a) => Only(Tail(up), a) /\ p \in {Error, a}
      /\ \A a, b : Mixed(up, a, b) =>
                 /\ Mixed(Tail(up), a, b) /\ p \in {Error, a, b}
                 /\ p = b => Only(Tail(up), b)
  BY ChannelTail, Zenon
<1>2. \A x \in Packets : o.out \in {<< >>, <<x>>} =>
        /\ \A a : Only(down, a) /\ x \in {Error, a} => Only(down2, a)
        /\ \A a, b : Mixed(down, a, b) /\ x \in {Error, b} => Mixed(down2, a, b)
  BY SentIs, Zenon
<1>3. /\ k.got = Upto(n)
      /\ k.state = "done" => n = Blocks
      /\ Behind(c, n, up, down) \/ Level(c, n, up, down)
      /\ s.handle = c => IF s.last_data = NONE THEN Stalled(c, s, n, up, down)
                         ELSE Sending(c, s, n, up, down)
  BY Zenon DEF ReaderView
<1>4. /\ Asked(c, n) \in Packets /\ Asked(c, n) # Error /\ Asked(c, n).blknum = n % BlkMod
      /\ Asked(c, n).op = IF n = 0 THEN "REQ" ELSE "ACK"
  BY <1>0, AskedIs, Zenon
<1>5. n >= 1 => /\ Asked(c, n - 1).blknum = (n - 1) % BlkMod
                /\ Asked(c, n - 1).op = IF n - 1 = 0 THEN "REQ" ELSE "ACK"
  BY <1>0, AskedIs
<1>6. /\ (n + 1) % BlkMod # n % BlkMod /\ (n - 1) % BlkMod # n % BlkMod
      /\ ((n % BlkMod) + 1) % BlkMod = (n + 1) % BlkMod
      /\ ((n + 1) % BlkMod) % BlkMod = (n + 1) % BlkMod
  <2>1. n - 1 \in Int /\ n - 1 + 1 = n /\ n + 1 \in Int
    BY <1>0
  <2> QED
    BY <1>0, <2>1, BlkFacts, Zenon
<1>7. Error.op = "ERROR" /\ Error \in Packets
  BY ErrorType, Zenon DEF Error, Packet
<1>8. /\ Answer(c, n + 1) \in Packets /\ Answer(c, n + 1) # Error
      /\ n >= 1 => Answer(c, n) \in Packets
  BY <1>0, AnswerIs
<1>9. Effect(s, c, p, o)
  BY Zenon
<1>10. up[1] = p /\ 1 \in 1 .. Len(up)
  BY EmptyIs, LenIs
<1> HIDE DEF p, n
<1>11. CASE Fails(s, o)
  <2>1. o.s.handle = c => Same(s, o.s)
    BY <1>0, <1>11, Zenon DEF Fails
  <2>2. o.out \in {<< >>, <<Error>>}
    BY <1>11, Zenon DEF Fails, Answers
  <2>3. \A a, b : (Only(down, a) => Only(down2, a)) /\ (Mixed(down, a, b) => Mixed(down2, a, b))
    BY <1>2, <1>7, <2>2, Zenon
  <2>4. /\ Behind(c, n, up, down) => Behind(c, n, Tail(up), down2)
        /\ Level(c, n, up, down) => Level(c, n, Tail(up), down2)
    BY <1>1, <2>3, Zenon DEF Behind, Level
  <2>5. Only(up, Asked(c, n)) => Only(Tail(up), Asked(c, n))
    BY <1>1, Zenon
  <2>6. ASSUME o.s.handle = c
        PROVE  IF o.s.last_data = NONE THEN Stalled(c, o.s, n, Tail(up), down2)
               ELSE Sending(c, o.s, n, Tail(up), down2)
    BY <1>3, <2>1, <2>3, <2>4, <2>5, <2>6, Zenon DEF Same, Stalled, Sending
  <2> QED
    BY <1>3, <2>4, <2>6, Zenon DEF ReaderView, n
<1>12. CASE SendsFirst(s, c, p, o)
  <2>1. p.op = "REQ" /\ Sends(c, 1, 0, o)
    BY <1>12, Zenon DEF SendsFirst
  <2>2. \/ n = 0 /\ Behind(c, n, up, down) /\ p = Asked(c, 0)
        \/ n = 1 /\ Level(c, n, up, down) /\ p = Asked(c, 0)
    <3>1. CASE Behind(c, n, up, down)
      BY <1>1, <1>4, <1>7, <2>1, <3>1, Zenon DEF Behind
    <3>2. CASE Level(c, n, up, down)
      <4>1. n >= 1 /\ p \in {Error, Asked(c, n - 1), Asked(c, n)}
        BY <1>1, <3>2, Zenon DEF Level
      <4>2. n - 1 = 0 /\ p = Asked(c, n - 1)
        BY <1>0, <1>4, <1>5, <1>7, <2>1, <4>1
      <4> QED
        BY <1>0, <3>2, <4>2
    <3> QED
      BY <1>3, <3>1, <3>2, Zenon
  <2>3. CASE /\ ~lossy /\ o.s.handle = c /\ o.s.blknum = 1
             /\ o.s.last_data = NONE /\ o.s.pos = 0 /\ o.out = << >>
    <3>1. n = 0 /\ Len(up) = 1 /\ down = << >>
      BY <1>10, <2>2, <2>3, Zenon DEF StartView, n
    <3>2. Tail(up) = << >>
      <4>1. Len(Tail(up)) = 0
        BY <3>1, ChannelTail
      <4> QED
        BY <1>1, <4>1, EmptyIs, Zenon
    <3>3. down2 = << >>
      BY <2>3, <3>1, SentNothing, Zenon
    <3>4. 1 = (0 + 1) % BlkMod
      BY TftpAssumption
    <3>5. \A a, b : Only(<< >>, a) /\ Mixed(<< >>, a, b)
      BY EmptyChannel, Zenon
    <3>6. Stalled(c, o.s, n, Tail(up), down2) /\ Behind(c, n, Tail(up), down2)
      BY <2>3, <3>1, <3>2, <3>3, <3>4, <3>5, Zenon DEF Stalled, Behind
    <3> QED
      BY <1>3, <2>3, <3>6, Zenon DEF ReaderView, n
  <2>4. CASE /\ o.s.handle = c /\ o.s.blknum = 1
             /\ o.s.last_data = [blknum |-> 1, data |-> 0 + 1] /\ o.s.pos = 0 + 1
             /\ Answers(o, Packet("DATA", 1, 0 + 1))
    <3>1. 1 = 1 % BlkMod /\ 0 + 1 = 1 /\ 1 # 0 /\ 1 - 1 = 0
      BY FirstBlock
    <3>2. o.out \in {<< >>, <<Answer(c, 1)>>} /\ Answer(c, 1) \in Packets
      <4>1. Packet("DATA", 1, 0 + 1) = Answer(c, 1)
        BY <1>0, <3>1, Zenon DEF Answer
      <4>2. Answer(c, 1) \in Packets
        BY <1>0, AnswerIs
      <4> QED
        BY <2>4, <4>1, <4>2, Zenon DEF Answers
    <3>3. \A a : /\ Only(down, Answer(c, 1)) => Only(down2, Answer(c, 1))
                 /\ Mixed(down, a, Answer(c, 1)) => Mixed(down2, a, Answer(c, 1))
      BY <1>2, <3>2, Zenon
    <3>4. \/ n = 0 /\ Behind(c, n, Tail(up), down2)
          \/ n = 1 /\ Level(c, n, Tail(up), down2)
      BY <1>1, <2>2, <3>1, <3>3, Zenon DEF Behind, Level
    <3>5. o.s.last_data # NONE => Sending(c, o.s, n, Tail(up), down2)
      BY <2>4, <3>1, <3>4, Zenon DEF Sending
    <3>6. o.s.last_data # NONE
      BY <2>4, TftpAssumption
    <3> QED
      BY <1>3, <3>4, <3>5, <3>6, Zenon DEF ReaderView, n
  <2> QED
    BY <2>1, <2>3, <2>4, Zenon DEF Sends
<1>13. CASE SendsNext(s, c, p, o)
  <2>1. /\ s.handle = c /\ p.op = "ACK" /\ p.blknum = s.blknum
        /\ Sends(c, (s.blknum + 1) % BlkMod, s.pos, o)
    BY <1>13, Zenon DEF SendsNext
  <2>2. s.last_data # NONE /\ Sending(c, s, n, up, down)
    <3>1. ASSUME s.last_data = NONE PROVE FALSE
      <4>1. Stalled(c, s, n, up, down)
        BY <1>3, <2>1, <3>1, Zenon
      <4>2. s.blknum = (n + 1) % BlkMod /\ p \in {Error, Asked(c, n)}
        BY <1>1, <4>1, Zenon DEF Stalled
      <4> QED
        BY <1>4, <1>6, <1>7, <2>1, <4>2, Zenon
    <3> QED
      BY <1>3, <2>1, <3>1, Zenon
  <2>3. s.pos = n /\ s.blknum = n % BlkMod /\ Level(c, n, up, down)
    <3>1. ASSUME s.pos = n + 1, Behind(c, n, up, down) PROVE FALSE
      <4>1. s.blknum = (n + 1) % BlkMod /\ p \in {Error, Asked(c, n)}
        BY <1>1, <2>2, <3>1, Zenon DEF Sending, Behind
      <4> QED
        BY <1>4, <1>6, <1>7, <2>1, <4>1
    <3> QED
      BY <2>2, <3>1, Zenon DEF Sending
  <2>4. n >= 1 /\ Mixed(up, Asked(c, n - 1), Asked(c, n)) /\ Only(down, Answer(c, n))
    BY <2>3, Zenon DEF Level
  <2>5. p = Asked(c, n)
    BY <1>1, <1>5, <1>6, <1>7, <2>1, <2>3, <2>4, Zenon
  <2>6. Only(Tail(up), Asked(c, n))
    BY <1>1, <2>4, <2>5, Zenon
  <2>7. Mixed(down, Answer(c, n), Answer(c, n + 1))
    BY <1>8, <2>4, OnlyMixed, Zenon
  <2>8. (s.blknum + 1) % BlkMod = (n + 1) % BlkMod
    BY <1>6, <2>3, Zenon
  <2>9. CASE /\ o.s.handle = c /\ o.s.blknum = (n + 1) % BlkMod
             /\ o.s.last_data = NONE /\ o.s.pos = n /\ o.out = << >>
    <3>1. down2 = down
      BY <2>9, SentNothing, Zenon
    <3>2. Stalled(c, o.s, n, Tail(up), down2) /\ Behind(c, n, Tail(up), down2)
      BY <2>4, <2>6, <2>7, <2>9, <3>1, Zenon DEF Stalled, Behind
    <3> QED
      BY <1>3, <2>9, <3>2, Zenon DEF ReaderView, n
  <2>10. CASE /\ o.s.handle = c /\ o.s.blknum = (n + 1) % BlkMod
              /\ o.s.last_data = [blknum |-> (n + 1) % BlkMod, data |-> n + 1]
              /\ o.s.pos = n + 1
              /\ Answers(o, Packet("DATA", (n + 1) % BlkMod, n + 1))
    <3>1. Packet("DATA", (n + 1) % BlkMod, n + 1) = Answer(c, n + 1)
      BY <1>0, <1>6 DEF Packet, Answer
    <3>2. o.out \in {<< >>, <<Answer(c, n + 1)>>}
      BY <2>10, <3>1, Zenon DEF Answers
    <3>3. Mixed(down2, Answer(c, n), Answer(c, n + 1))
      BY <1>2, <1>8, <2>7, <3>2, Zenon
    <3>4. Behind(c, n, Tail(up), down2)
      BY <2>6, <3>3, Zenon DEF Behind
    <3>5. Sending(c, o.s, n, Tail(up), down2)
      BY <2>10, <3>4, Zenon DEF Sending
    <3>6. (n + 1) % BlkMod \in Nat /\ n + 1 \in Nat
      <4>1. n + 1 \in Nat /\ n + 1 \in Int
        BY <1>0
      <4>2. (n + 1) % BlkMod \in Nat
        BY <4>1, BlkFacts, Zenon
      <4> QED
        BY <4>1, <4>2, Zenon
    <3>7. o.s.last_data # NONE
      <4>1. [blknum |-> (n + 1) % BlkMod, data |-> n + 1] \in [blknum : Nat, data : Nat]
        BY <3>6, Zenon
      <4> QED
        BY <2>10, <4>1, TftpAssumption, Zenon
    <3> QED
      BY <1>3, <3>4, <3>5, <3>7, Zenon DEF ReaderView, n
  <2> QED
    BY <2>1, <2>3, <2>8, <2>9, <2>10, Zenon DEF Sends
<1> QED
  BY <1>0, <1>9, <1>11, <1>12, <1>13, Zenon DEF Effect, Opens, Repeats, Writes

LEMMA StartRecv ==
    ASSUME NEW c, NEW l, NEW s, NEW k, NEW up \in Seq(Packets), NEW down,
           StartView(c, l, s, k, up, down), up # << >>, NEW r, NEW down2
    PROVE  StartView(c, l, r, k, Tail(up), down2)
<1>1. /\ Tail(up) \in Seq(Packets) /\ Len(Tail(up)) = Len(up) - 1 /\ Len(up) \in Nat
      /\ \A i \in 1 .. Len(Tail(up)) : Tail(up)[i] = up[i + 1]
  BY TailIs, LenIs, Zenon
<1>2. k.state # "idle"
  BY Zenon DEF StartView
<1>3. ASSUME ~l, NEW i \in 1 .. Len(Tail(up)), Tail(up)[i] = Asked(c, 0) PROVE FALSE
  <2>1. i + 1 \in 1 .. Len(up) /\ up[i + 1] = Asked(c, 0) /\ i + 1 > 1
    <3> DEFINE d == Tail(up)
    <3>1. /\ i \in 1 .. Len(d) /\ Len(d) = Len(up) - 1 /\ Len(up) \in Nat
          /\ d[i] = up[i + 1] /\ d[i] = Asked(c, 0)
      BY <1>1, <1>3, Zenon
    <3> HIDE DEF d
    <3> QED
      BY <3>1
  <2>2. Len(up) = 1
    BY <1>3, <2>1, Zenon DEF StartView
  <2> QED
    BY <2>1, <2>2
<1> QED
  BY <1>2, <1>3, Zenon DEF StartView

\* tftp_tmr sends the block again that the reader waits for or has seen last.
LEMMA ReaderTimer ==
    ASSUME NEW c \in Clients \ Writers, NEW s \in SrvType, NEW k \in ClientType,
           NEW up \in Seq(Packets), NEW down \in Seq(Packets), ReaderView(c, s, k, up, down),
           NEW o \in Outcomes, Resends(s, c, o), NEW down2, Sent(down, o.out, down2)
    PROVE  ReaderView(c, o.s, k, up, down2)
<1> DEFINE n == k.block
<1>0. c \in Clients /\ c \notin Writers /\ n \in Nat /\ s.pos \in Int
  BY DEF ClientType, SrvType
<1>1. \A x \in Packets : o.out \in {<< >>, <<x>>} =>
        /\ \A a : Only(down, a) /\ x \in {Error, a} => Only(down2, a)
        /\ \A a, b : Mixed(down, a, b) /\ x \in {Error, b} => Mixed(down2, a, b)
  BY SentIs, Zenon
<1>2. s.handle = c /\ s.last_data # NONE /\ Same(s, o.s)
  BY Zenon DEF Resends
<1>3. Sending(c, s, n, up, down)
  BY <1>2, Zenon DEF ReaderView
<1>4. s.last_data.blknum = s.pos % BlkMod /\ s.last_data.data = s.pos
  BY <1>3 DEF Sending
<1> HIDE DEF n
<1>5. s.pos # 0
  <2>1. s.pos = n + 1 \/ (s.pos = n /\ n >= 1)
    BY <1>3, Zenon DEF Sending, Level
  <2> QED
    BY <1>0, <2>1
<1>6. (s.pos % BlkMod) % BlkMod = s.pos % BlkMod
  BY <1>0, BlkFacts, Zenon
<1>7. Packet("DATA", s.last_data.blknum, s.last_data.data) = Answer(c, s.pos)
  BY <1>0, <1>4, <1>5, <1>6, Zenon DEF Packet, Answer
<1>8. o.out \in {<< >>, <<Answer(c, s.pos)>>} /\ Answer(c, s.pos) \in Packets
  BY <1>0, <1>7, AnswerIs, Zenon DEF Resends, Answers
<1>9. CASE s.pos = n + 1 /\ Behind(c, n, up, down)
  <2>1. Behind(c, n, up, down2)
    BY <1>1, <1>8, <1>9, Zenon DEF Behind
  <2>2. Sending(c, o.s, n, up, down2)
    BY <1>2, <1>3, <1>9, <2>1, Zenon DEF Sending, Same
  <2> QED
    BY <1>2, <2>1, <2>2, Zenon DEF ReaderView, Same, n
<1>10. CASE s.pos = n /\ Level(c, n, up, down)
  <2>1. Level(c, n, up, down2)
    BY <1>1, <1>8, <1>10, Zenon DEF Level
  <2>2. Sending(c, o.s, n, up, down2)
    BY <1>2, <1>3, <1>10, <2>1, Zenon DEF Sending, Same
  <2> QED
    BY <1>2, <2>1, <2>2, Zenon DEF ReaderView, Same, n
<1> QED
  BY <1>3, <1>9, <1>10, Zenon DEF Sending

\* The transfer of c goes on, or c has none.
LEMMA ViewFrame ==
    ASSUME NEW c, NEW s, NEW r, r.handle = c => Same(s, r),
           NEW l, NEW f, NEW k, NEW up, NEW down
    PROVE  /\ StartView(c, l, s, k, up, down) => StartView(c, l, r, k, up, down)
           /\ WriterView(c, s, f, k, up, down) => WriterView(c, r, f, k, up, down)
           /\ ReaderView(c, s, k, up, down) => ReaderView(c, r, k, up, down)
<1>1. r.handle = c => s.handle = c /\ r.blknum = s.blknum /\ r.last_data = s.last_data /\ r.pos = s.pos
  BY Zenon DEF Same
<1>2. StartView(c, l, s, k, up, down) => StartView(c, l, r, k, up, down)
  BY <1>1, Zenon DEF StartView
<1>3. WriterView(c, s, f, k, up, down) => WriterView(c, r, f, k, up, down)
  BY <1>1, Zenon DEF WriterView
<1>4. ReaderView(c, s, k, up, down) => ReaderView(c, r, k, up, down)
  BY <1>1, Zenon DEF ReaderView, Stalled, Sending
<1> QED
  BY <1>2, <1>3, <1>4, Zenon

-----------------------------------------------------------------------------
(* Steps of the clients and losses.                                        *)

Thinner(ch, ch2) == ch2 = ch \/ ch2 = << >> \/ (ch # << >> /\ ch2 = Tail(ch))

LEMMA ThinnerIs ==
    ASSUME NEW ch \in Seq(Packets), NEW ch2, Thinner(ch, ch2)
    PROVE  /\ ch2 \in Seq(Packets)
           /\ \A a : Only(ch, a) => Only(ch2, a)
           /\ \A a, b : Mixed(ch, a, b) => Mixed(ch2, a, b)
<1>1. CASE ch2 = ch
  BY <1>1, Zenon
<1>2. CASE ch2 = << >>
  BY <1>2, EmptyChannel, Zenon
<1>3. CASE ch # << >> /\ ch2 = Tail(ch)
  BY <1>3, ChannelTail, Zenon
<1> QED
  BY <1>1, <1>2, <1>3, Zenon DEF Thinner

LEMMA FewerOrRepeated ==
    ASSUME NEW ch \in Seq(Packets), NEW ch2, NEW p \in Packets,
           Thinner(ch, ch2) \/ ch2 = Append(ch, p)
    PROVE  /\ Only(ch, p) => Only(ch2, p)
           /\ \A a : Mixed(ch, a, p) => Mixed(ch2, a, p)
<1>1. CASE Thinner(ch, ch2)
  BY <1>1, ThinnerIs, Zenon
<1>2. CASE ch2 = Append(ch, p)
  BY <1>2, ChannelAppend, Zenon
<1> QED
  BY <1>1, <1>2, Zenon

\* Packets get lost, or the client gives up or repeats its last packet.
LEMMA WriterFewer ==
    ASSUME NEW c \in Writers, NEW s, NEW f \in Seq(Int), NEW k, NEW k2, NEW up \in Seq(Packets),
           NEW down \in Seq(Packets), WriterView(c, s, f, k, up, down),
           NEW up2, Thinner(up, up2) \/ up2 = Append(up, Asked(c, k.block)),
           NEW down2, Thinner(down, down2),
           k2.block = k.block, k2.state \in {k.state, "wait", "failed"}
    PROVE  WriterView(c, s, f, k2, up2, down2)
<1> DEFINE n == Len(f)
<1>0. n \in Nat /\ c \in Clients
  BY LenIs, TftpAssumption, Zenon
<1>1. /\ \A a : Only(down, a) => Only(down2, a)
      /\ \A a, b : Mixed(down, a, b) => Mixed(down2, a, b)
  BY ThinnerIs, Zenon
<1>2. Asked(c, n) \in Packets /\ Asked(c, n + 1) \in Packets
  BY <1>0, AskedIs
<1>3. ASSUME k.block = n, Unacked(c, n, up, down) PROVE Unacked(c, n, up2, down2)
  <2>1. Only(up2, Asked(c, n))
    BY <1>2, <1>3, FewerOrRepeated, Zenon DEF Unacked
  <2> QED
    BY <1>1, <1>3, <2>1, Zenon DEF Unacked
<1>4. ASSUME k.block = n + 1, Acked(c, n, up, down) PROVE Acked(c, n, up2, down2)
  <2>1. Mixed(up2, Asked(c, n), Asked(c, n + 1))
    BY <1>2, <1>4, FewerOrRepeated, Zenon DEF Acked
  <2> QED
    BY <1>1, <1>4, <2>1, Zenon DEF Acked
<1> QED
  BY <1>3, <1>4, Zenon DEF WriterView

LEMMA ReaderFewer ==
    ASSUME NEW c \in Clients \ Writers, NEW s, NEW k, k.block \in Nat, NEW k2,
           NEW up \in Seq(Packets), NEW down \in Seq(Packets), ReaderView(c, s, k, up, down),
           NEW up2, Thinner(up, up2) \/ up2 = Append(up, Asked(c, k.block)),
           NEW down2, Thinner(down, down2),
           k2.block = k.block, k2.got = k.got, k2.state \in {k.state, "wait", "failed"}
    PROVE  ReaderView(c, s, k2, up2, down2)
<1> DEFINE n == k.block
<1>1. /\ \A a : Only(down, a) => Only(down2, a)
      /\ \A a, b : Mixed(down, a, b) => Mixed(down2, a, b)
  BY ThinnerIs, Zenon
<1>2. Asked(c, n) \in Packets
  BY AskedIs, Zenon
<1>3. /\ Only(up, Asked(c, n)) => Only(up2, Asked(c, n))
      /\ \A a : Mixed(up, a, Asked(c, n)) => Mixed(up2, a, Asked(c, n))
  BY <1>2, FewerOrRepeated, Zenon
<1> HIDE DEF n
<1>4. /\ Behind(c, n, up, down) => Behind(c, n, up2, down2)
      /\ Level(c, n, up, down) => Level(c, n, up2, down2)
  BY <1>1, <1>3, Zenon DEF Behind, Level
<1>5. /\ Stalled(c, s, n, up, down) => Stalled(c, s, n, up2, down2)
      /\ Sending(c, s, n, up, down) => Sending(c, s, n, up2, down2)
  BY <1>1, <1>3, <1>4, Zenon DEF Stalled, Sending
<1> QED
  BY <1>4, <1>5, Zenon DEF ReaderView, n

\* A writer sees the acknowledgement of its last packet.
LEMMA WriterSees ==
    ASSUME NEW c \in Writers, NEW s, NEW f \in Seq(Int), NEW k \in ClientType,
           NEW up \in Seq(Packets), NEW down \in Seq(Packets),
           WriterView(c, s, f, k, up, down), down # << >>
    PROVE  /\ Head(down).op \in {"ERROR", "ACK"}
           /\ Head(down).op = "ACK" /\ Head(down).blknum = k.block % BlkMod =>
                 \A k2 \in ClientType : \A up2 :
                    /\ k2.block = k.block /\ k.block = Blocks =>
                          WriterView(c, s, f, k2, up, << >>)
                    /\ (/\ k2.block = k.block + 1 /\ k2.state = "wait"
                        /\ Sent(up, <<Asked(c, k.block + 1)>>, up2)) =>
                          WriterView(c, s, f, k2, up2, Tail(down))
<1> DEFINE n == Len(f)
           p == Head(down)
<1>0. c \in Clients /\ n \in Nat /\ n \in Int /\ n + 1 \in Int /\ n - 1 \in Int /\ n - 1 + 1 = n
  BY LenIs, TftpAssumption
<1>1. /\ Tail(down) \in Seq(Packets) /\ p \in Packets
      /\ \A a : Only(down, a) => p \in {Error, a}
      /\ \A a, b : Mixed(down, a, b) => p \in {Error, a, b} /\ (p = b => Only(Tail(down), b))
  BY ChannelTail, Zenon
<1> HIDE DEF p
<1>2. /\ \A i \in 1 .. n : f[i] \in {i, Short}
      /\ n <= Blocks
      /\ s.handle = c => s.blknum = (n + 1) % BlkMod /\ n < Blocks
      /\ \/ k.block = n /\ Unacked(c, n, up, down)
         \/ k.block = n + 1 /\ Acked(c, n, up, down)
  BY Zenon DEF WriterView
<1>3. /\ Answer(c, n).op = "ACK" /\ Answer(c, n).blknum = n % BlkMod
      /\ Answer(c, n - 1).op = "ACK" /\ Answer(c, n - 1).blknum = (n - 1) % BlkMod
      /\ Error.op = "ERROR"
  BY <1>0, AnswerIs, Zenon
<1>4. (n - 1) % BlkMod # n % BlkMod /\ (n + 1) % BlkMod # n % BlkMod
  BY <1>0, BlkFacts, Zenon
<1>5. p \in {Error, Answer(c, n - 1), Answer(c, n)}
  BY <1>1, <1>2, Zenon DEF Unacked, Acked
<1>6. p.op \in {"ERROR", "ACK"}
  BY <1>3, <1>5, Zenon
<1>7. ASSUME p.op = "ACK", p.blknum = k.block % BlkMod, NEW k2 \in ClientType, NEW up2
      PROVE  /\ k2.block = k.block /\ k.block = Blocks => WriterView(c, s, f, k2, up, << >>)
             /\ (/\ k2.block = k.block + 1 /\ k2.state = "wait"
                 /\ Sent(up, <<Asked(c, k.block + 1)>>, up2)) =>
                   WriterView(c, s, f, k2, up2, Tail(down))
  <2>1. k.block = n /\ Unacked(c, n, up, down)
    <3>1. ASSUME k.block = n + 1, Acked(c, n, up, down) PROVE FALSE
      <4>1. p = Answer(c, n)
        BY <1>1, <1>3, <1>7, <3>1, Zenon DEF Acked
      <4> QED
        BY <1>3, <1>4, <1>7, <3>1, <4>1, Zenon
    <3> QED
      BY <1>2, <3>1, Zenon
  <2>2. p = Answer(c, n)
    BY <1>3, <1>4, <1>5, <1>7, <2>1, Zenon
  <2>3. ASSUME k2.block = k.block, k.block = Blocks PROVE WriterView(c, s, f, k2, up, << >>)
    <3>1. Unacked(c, n, up, << >>)
      BY <2>1, EmptyChannel, Zenon DEF Unacked
    <3> QED
      BY <1>2, <2>1, <2>3, <3>1, Zenon DEF WriterView
  <2>4. ASSUME k2.block = k.block + 1, k2.state = "wait",
               Sent(up, <<Asked(c, k.block + 1)>>, up2)
        PROVE  WriterView(c, s, f, k2, up2, Tail(down))
    <3>1. Only(Tail(down), Answer(c, n))
      BY <1>1, <2>1, <2>2, Zenon DEF Unacked
    <3>2. Asked(c, n + 1) \in Packets /\ Asked(c, n + 1) # Error
      BY <1>0, AskedIs
    <3>3. Mixed(up, Asked(c, n), Asked(c, n + 1))
      BY <2>1, <3>2, OnlyMixed, Zenon DEF Unacked
    <3>4. Mixed(up2, Asked(c, n), Asked(c, n + 1))
      BY <2>1, <2>4, <3>2, <3>3, SentIs
    <3>5. Acked(c, n, up2, Tail(down))
      BY <3>1, <3>4, Zenon DEF Acked
    <3> QED
      BY <1>2, <2>1, <2>4, <3>5, Zenon DEF WriterView
  <2> QED
    BY <2>3, <2>4, Zenon
<1> QED
  BY <1>6, <1>7, Zenon DEF p

\* A reader sees the block after the last one it has.
LEMMA ReaderSees ==
    ASSUME NEW c \in Clients \ Writers, NEW s, NEW k \in ClientType,
           NEW up \in Seq(Packets), NEW down \in Seq(Packets),
           ReaderView(c, s, k, up, down), down # << >>
    PROVE  /\ Head(down).op \in {"ERROR", "DATA"}
           /\ k.block = 0 /\ Head(down).op = "DATA" => Head(down).blknum = 1 % BlkMod
           /\ Head(down).op = "DATA" /\ Head(down).blknum = (k.block + 1) % BlkMod =>
                 /\ Head(down).data = k.block + 1
                 /\ \A k2 \in ClientType : \A up2, down2 :
                       /\ k2.block = k.block + 1 /\ k2.got = Append(k.got, k.block + 1)
                       /\ k2.state = "done" => k.block + 1 = Blocks
                       /\ Sent(up, <<Asked(c, k.block + 1)>>, up2)
                       /\ down2 \in {<< >>, Tail(down)}
                       => ReaderView(c, s, k2, up2, down2)
<1> DEFINE n == k.block
           p == Head(down)
<1>0. c \in Clients /\ c \notin Writers /\ n \in Nat /\ n \in Int /\ n + 1 \in Nat /\ n + 1 # 0
  BY DEF ClientType
<1>1. /\ Tail(down) \in Seq(Packets) /\ p \in Packets
      /\ \A a : Only(down, a) => p \in {Error, a}
      /\ \A a, b : Mixed(down, a, b) => p \in {Error, a, b} /\ (p = b => Only(Tail(down), b))
  BY ChannelTail, Zenon
<1>2. /\ k.got = Upto(n)
      /\ Behind(c, n, up, down) \/ Level(c, n, up, down)
      /\ s.handle = c => IF s.last_data = NONE THEN Stalled(c, s, n, up, down)
                         ELSE Sending(c, s, n, up, down)
  BY Zenon DEF ReaderView
<1>3. /\ n # 0 => Answer(c, n).op = "DATA" /\ Answer(c, n).blknum = n % BlkMod
      /\ n = 0 => Answer(c, n) = Error
      /\ Answer(c, n + 1).op = "DATA" /\ Answer(c, n + 1).blknum = (n + 1) % BlkMod
      /\ Answer(c, n + 1).data = n + 1
      /\ Error.op = "ERROR"
  BY <1>0, AnswerIs
<1>4. (n + 1) % BlkMod # n % BlkMod
  BY <1>0, BlkFacts, Zenon
<1>5. p \in {Error, Answer(c, n), Answer(c, n + 1)}
  BY <1>1, <1>2, Zenon DEF Behind, Level
<1>6. /\ p.op \in {"ERROR", "DATA"}
      /\ n = 0 /\ p.op = "DATA" => p.blknum = 1 % BlkMod
  BY <1>3, <1>5
<1>7. ASSUME p.op = "DATA", p.blknum = (n + 1) % BlkMod PROVE p = Answer(c, n + 1)
  BY <1>3, <1>4, <1>5, <1>7, Zenon
<1>8. ASSUME p = Answer(c, n + 1), NEW k2 \in ClientType, NEW up2,
             NEW down2 \in {<< >>, Tail(down)},
             k2.block = n + 1, k2.got = Append(k.got, n + 1),
             k2.state = "done" => n + 1 = Blocks,
             Sent(up, <<Asked(c, n + 1)>>, up2)
      PROVE  ReaderView(c, s, k2, up2, down2)
  <2>1. ~Only(down, Answer(c, n))
    BY <1>1, <1>3, <1>4, <1>8, Zenon
  <2>2. Behind(c, n, up, down) /\ ~Level(c, n, up, down)
    BY <1>2, <2>1, Zenon DEF Level
  <2>3. Only(down2, Answer(c, n + 1))
    BY <1>1, <1>8, <2>2, EmptyChannel, Zenon DEF Behind
  <2>4. Asked(c, n + 1) \in Packets /\ Asked(c, n + 1) # Error
    BY <1>0, AskedIs, Zenon
  <2>5. Mixed(up, Asked(c, n), Asked(c, n + 1))
    BY <2>2, <2>4, OnlyMixed, Zenon DEF Behind
  <2>6. Mixed(up2, Asked(c, n), Asked(c, n + 1))
    BY <1>8, <2>4, <2>5, SentIs
  <2>8. Level(c, n + 1, up2, down2)
    <3> DEFINE m == n + 1
    <3>1. Mixed(up2, Asked(c, n), Asked(c, m)) /\ Only(down2, Answer(c, m))
      BY <2>3, <2>6, Zenon
    <3>2. m >= 1 /\ m - 1 = n
      BY <1>0
    <3> HIDE DEF m
    <3>3. Level(c, m, up2, down2)
      BY <3>1, <3>2, Zenon DEF Level
    <3> QED
      BY <3>3, Zenon DEF m
  <2>9. ASSUME s.handle = c PROVE s.last_data # NONE /\ Sending(c, s, n + 1, up2, down2)
    <3>1. s.last_data # NONE /\ Sending(c, s, n, up, down)
      BY <1>2, <2>1, <2>9, Zenon DEF Stalled
    <3> QED
      BY <2>2, <2>8, <3>1, Zenon DEF Sending
  <2>10. k2.got = Upto(n + 1)
    <3>1. Append(Upto(n), n + 1) = Upto(n + 1)
      BY <1>0 DEF Upto
    <3> QED
      BY <1>2, <1>8, <3>1, Zenon
  <2> QED
    BY <1>8, <2>8, <2>9, <2>10, Zenon DEF ReaderView
<1> QED
  BY <1>3, <1>6, <1>7, <1>8, Zenon DEF p

\* What a reader has before it is an error or a block, the first one if it has none.
LEMMA ReaderFirst ==
    ASSUME NEW c \in Clients \ Writers, NEW s, NEW k \in ClientType,
           NEW up \in Seq(Packets), NEW down \in Seq(Packets),
           ReaderView(c, s, k, up, down), down # << >>
    PROVE  /\ Head(down).op \in {"ERROR", "DATA"}
           /\ k.block = 0 /\ Head(down).op = "DATA" => Head(down).blknum = 1 % BlkMod
<1>1. Head(down).op \in {"ERROR", "DATA"}
  BY ReaderSees, Zenon
<1>2. k.block = 0 /\ Head(down).op = "DATA" => Head(down).blknum = 1 % BlkMod
  BY ReaderSees, ZenonT(60)
<1> QED
  BY <1>1, <1>2, Zenon

-----------------------------------------------------------------------------
-----------------------------------------------------------------------------
(* The invariant: steps of the server.                                     *)

LEMMA EffectSame ==
    ASSUME NEW s, NEW r, Same(s, r), NEW c, NEW p, NEW o, Effect(r, c, p, o)
    PROVE  Effect(s, c, p, o)
<1>1. /\ r.handle = s.handle /\ r.mode_write = s.mode_write /\ r.blknum = s.blknum
      /\ r.last_data = s.last_data /\ r.pos = s.pos
  BY Zenon DEF Same
<1>2. \A q : Same(r, q) => Same(s, q)
  BY <1>1, Zenon DEF Same
<1>3. Fails(r, o) => Fails(s, o)
  BY <1>2, Zenon DEF Fails
<1>4. Repeats(r, c, p, o) => Repeats(s, c, p, o)
  BY <1>1, <1>2, Zenon DEF Repeats
<1>5. /\ Opens(r, c, p, o) => Opens(s, c, p, o)
      /\ Writes(r, c, p, o) => Writes(s, c, p, o)
      /\ SendsFirst(r, c, p, o) => SendsFirst(s, c, p, o)
      /\ SendsNext(r, c, p, o) => SendsNext(s, c, p, o)
  BY <1>1, Zenon DEF Opens, Writes, SendsFirst, SendsNext
<1> QED
  BY <1>3, <1>4, <1>5, Zenon DEF Effect

LEMMA EffectHandle ==
    ASSUME NEW s, NEW c, NEW p, NEW o, Effect(s, c, p, o)
    PROVE  o.s.handle \in {NONE, c} \/ Same(s, o.s)
BY Zenon DEF Effect, Fails, Opens, Repeats, Writes, SendsFirst, SendsNext, Sends

LEMMA ApplyIs ==
    ASSUME NetType, NEW c \in Clients, NEW o \in Outcomes, Apply(o, c)
    PROVE  /\ srv' = o.s /\ timers' = o.t
           /\ toCl' \in [Clients -> Seq(Packets)] /\ Sent(toCl[c], o.out, toCl'[c])
           /\ \A d \in Clients : d # c => toCl'[d] = toCl[d]
           /\ stored' \in [Writers -> Seq(Int)]
           /\ \A d \in Writers : d # c => stored'[d] = stored[d]
           /\ c \in Writers =>
                 stored'[c] = IF srv.handle = NONE /\ o.s.handle # NONE THEN << >>
                              ELSE IF o.written = 0 THEN stored[c]
                              ELSE Append(stored[c], o.written)
           /\ o.written = 0 /\ o.s = srv => stored' = stored
<1> DEFINE ch == Put(toCl[c], o.out)
           w == IF srv.handle = NONE /\ o.s.handle # NONE THEN << >>
                ELSE IF o.written = 0 THEN stored[c]
                ELSE Append(stored[c], o.written)
<1>1. /\ toCl \in [Clients -> Seq(Packets)] /\ stored \in [Writers -> Seq(Int)]
      /\ o.out \in Outs /\ o.written \in Int
  BY Zenon DEF NetType, Outcomes
<1>2. ch \in Seq(Packets) /\ Sent(toCl[c], o.out, ch) /\ Sent(toCl[c], o.out, toCl[c])
  BY <1>1, PutSent, Zenon DEF Sent
<1>3. toCl' = toCl \/ toCl' = [toCl EXCEPT ![c] = ch]
  BY Zenon DEF Apply
<1>4. /\ c \notin Writers => stored' = stored
      /\ c \in Writers => stored' = [stored EXCEPT ![c] = w]
  BY Zenon DEF Apply
<1> HIDE DEF ch
<1>5. /\ toCl' \in [Clients -> Seq(Packets)] /\ Sent(toCl[c], o.out, toCl'[c])
      /\ \A d \in Clients : d # c => toCl'[d] = toCl[d]
  <2>1. CASE toCl' = toCl
    BY <1>1, <1>2, <2>1, Zenon
  <2>2. CASE toCl' = [toCl EXCEPT ![c] = ch]
    BY <1>1, <1>2, <2>2, Zenon
  <2> QED
    BY <1>3, <2>1, <2>2, Zenon
<1>6. c \in Writers => w \in Seq(Int)
  BY <1>1, EmptyIs, AppendIs, Zenon
<1>7. o.written = 0 /\ o.s = srv => w = stored[c]
  BY Zenon
<1> HIDE DEF w
<1>8. /\ stored' \in [Writers -> Seq(Int)]
      /\ \A d \in Writers : d # c => stored'[d] = stored[d]
      /\ c \in Writers => stored'[c] = w
  BY <1>1, <1>4, <1>6, Zenon
<1>9. w = stored[c] => stored' = stored
  BY <1>1, <1>4, Zenon
<1> QED
  BY <1>5, <1>7, <1>8, <1>9, Zenon DEF Apply, w

\* What recv makes of a packet of c.
LEMMA RecvIs ==
    ASSUME TftpInv, NEW c \in Clients, recv(c)
    PROVE  \E o \in Outcomes :
              /\ Apply(o, c) /\ SrvOK(o.s, o.t) /\ Effect(srv, c, Head(toSrv[c]), o)
              /\ quiet' \in Nat /\ ClockOK(o.s, o.t, quiet')
              /\ srv.handle # NONE /\ srv.handle # c => o.s = srv /\ o.written = 0
<1> DEFINE p == Head(toSrv[c])
           r == [srv EXCEPT !.idle = 0, !.retries = 0]
<1>0. c # NONE
  BY TftpAssumption, Zenon
<1>1. SrvOK(srv, timers) /\ srv \in SrvType /\ timers \in TimerType /\ srv.port = srv.handle
  BY Zenon DEF TftpInv, SrvOK
<1>2. p \in Packets
  BY TailIs, EmptyIs, Zenon DEF TftpInv, NetType, recv
<1> HIDE DEF p
<1>3. CASE Refused(c)
  <2>1. PICK o \in send_error(srv, timers) : Apply(o, c)
    BY <1>3, Zenon DEF recv
  <2>2. Fine(srv, c, p, o)
    BY <1>1, ErrorGood, Zenon
  <2>3. o.s = srv /\ o.t = timers /\ o.written = 0
    BY <1>1, <2>1, ErrorType, SendGood DEF send_error, Answers
  <2>4. quiet' = quiet
    BY <1>3, Zenon DEF recv
  <2> QED
    BY <2>1, <2>2, <2>3, <2>4, Zenon DEF Fine, TftpInv, p
<1>4. CASE ~Refused(c)
  <2>1. /\ r \in SrvType /\ r.handle = srv.handle /\ r.port = srv.port /\ r.idle = 0
        /\ r.mode_write = srv.mode_write /\ r.last_data = srv.last_data
        /\ r.blknum = srv.blknum /\ r.pos = srv.pos
    BY <1>1, Zenon DEF SrvType
  <2>2. Same(srv, r)
    BY <2>1, Zenon DEF Same
  <2>3. SrvOK(r, timers)
    BY <1>1, <2>1, Zenon DEF SrvOK
  <2>4. PICK o \in Handled(r, c, p) : Apply(o, c)
    BY <1>4, Zenon DEF recv, p
  <2> HIDE DEF r
  <2>5. r.handle \in {NONE, c}
    BY <1>1, <1>4, <2>1, Zenon DEF Refused
  <2>6. Fine(r, c, p, o)
    BY <1>2, <2>3, <2>5, HandledGood, Zenon
  <2>7. quiet' = 0
    BY <1>4, Zenon DEF recv
  <2>8. o \in Outcomes /\ SrvOK(o.s, o.t) /\ Effect(srv, c, p, o)
    BY <2>2, <2>6, EffectSame, Zenon DEF Fine
  <2>9. ClockOK(o.s, o.t, 0)
    BY <2>1, <2>6, TftpAssumption DEF Fine, ClockOK
  <2> QED
    BY <2>1, <2>4, <2>5, <2>7, <2>8, <2>9, Zenon DEF p
<1> QED
  BY <1>3, <1>4, Zenon

LEMMA RecvStep ==
    ASSUME TftpInv, NEW c \in Clients, recv(c)
    PROVE  TftpInv'
<1>1. PICK o \in Outcomes :
         /\ Apply(o, c) /\ SrvOK(o.s, o.t) /\ Effect(srv, c, Head(toSrv[c]), o)
         /\ quiet' \in Nat /\ ClockOK(o.s, o.t, quiet')
  BY RecvIs, Zenon
<1>2. NetType /\ srv \in SrvType
  BY Zenon DEF TftpInv, SrvOK
<1>3. /\ srv' = o.s /\ timers' = o.t
      /\ toCl' \in [Clients -> Seq(Packets)] /\ Sent(toCl[c], o.out, toCl'[c])
      /\ \A d \in Clients : d # c => toCl'[d] = toCl[d]
      /\ stored' \in [Writers -> Seq(Int)]
      /\ \A d \in Writers : d # c => stored'[d] = stored[d]
      /\ c \in Writers =>
            stored'[c] = IF srv.handle = NONE /\ o.s.handle # NONE THEN << >>
                         ELSE IF o.written = 0 THEN stored[c]
                         ELSE Append(stored[c], o.written)
  BY <1>1, <1>2, ApplyIs, Zenon
<1>4. /\ lossy' = lossy /\ client' = client /\ toSrv[c] # << >>
      /\ toSrv' = [toSrv EXCEPT ![c] = Tail(toSrv[c])]
  BY Zenon DEF recv
<1>5. /\ toSrv[c] \in Seq(Packets) /\ toCl[c] \in Seq(Packets) /\ client[c] \in ClientType
      /\ c \in Writers => stored[c] \in Seq(Int)
  BY <1>2, Zenon DEF NetType
<1>6. Tail(toSrv[c]) \in Seq(Packets)
  BY <1>4, <1>5, TailIs, Zenon
<1>7. /\ toSrv' \in [Clients -> Seq(Packets)] /\ toSrv'[c] = Tail(toSrv[c])
      /\ \A d \in Clients : d # c => toSrv'[d] = toSrv[d]
  BY <1>2, <1>4, <1>6, Zenon DEF NetType
<1>8. NetType'
  BY <1>2, <1>3, <1>4, <1>7, Zenon DEF NetType
<1>9. \A d \in Clients : d # c => (o.s.handle = d => Same(srv, o.s))
  BY <1>1, EffectHandle, TftpAssumption, Zenon
<1>10. ASSUME NEW d \in Clients
       PROVE  StartView(d, lossy', srv', client'[d], toSrv'[d], toCl'[d])
  <2>1. StartView(d, lossy, srv, client[d], toSrv[d], toCl[d])
    BY Zenon DEF TftpInv
  <2>2. CASE d = c
    BY <1>3, <1>4, <1>5, <1>7, <2>1, <2>2, StartRecv, Zenon
  <2>3. CASE d # c
    BY <1>3, <1>4, <1>7, <1>9, <2>1, <2>3, ViewFrame, Zenon
  <2> QED
    BY <2>2, <2>3, Zenon
<1>11. ASSUME NEW d \in Writers
       PROVE  WriterView(d, srv', stored'[d], client'[d], toSrv'[d], toCl'[d])
  <2>1. WriterView(d, srv, stored[d], client[d], toSrv[d], toCl[d]) /\ d \in Clients
    BY TftpAssumption, Zenon DEF TftpInv
  <2>2. CASE d = c
    <3>1. WriterView(c, o.s, stored'[c], client[c], Tail(toSrv[c]), toCl'[c])
      BY <1>1, <1>2, <1>3, <1>4, <1>5, <2>1, <2>2, WriterRecv, Zenon
    <3> QED
      BY <1>3, <1>4, <1>7, <2>2, <3>1, Zenon
  <2>3. CASE d # c
    BY <1>3, <1>4, <1>7, <1>9, <2>1, <2>3, ViewFrame, Zenon
  <2> QED
    BY <2>2, <2>3, Zenon
<1>12. ASSUME NEW d \in Clients \ Writers
       PROVE  ReaderView(d, srv', client'[d], toSrv'[d], toCl'[d])
  <2>1. /\ ReaderView(d, srv, client[d], toSrv[d], toCl[d])
        /\ StartView(d, lossy, srv, client[d], toSrv[d], toCl[d])
    BY Zenon DEF TftpInv
  <2>2. CASE d = c
    <3>1. ReaderView(c, o.s, client[c], Tail(toSrv[c]), toCl'[c])
      BY <1>1, <1>2, <1>3, <1>4, <1>5, <2>1, <2>2, ReaderRecv, Zenon
    <3> QED
      BY <1>3, <1>4, <1>7, <2>2, <3>1, Zenon
  <2>3. CASE d # c
    BY <1>3, <1>4, <1>7, <1>9, <2>1, <2>3, ViewFrame, Zenon
  <2> QED
    BY <2>2, <2>3, Zenon
<1> QED
  BY <1>1, <1>3, <1>8, <1>10, <1>11, <1>12, Zenon DEF TftpInv

\* The timer fires: nothing is seen of it, the block kept is sent again, or the
\* transfer ends.
LEMMA TmrIs ==
    ASSUME TftpInv, tftp_tmr
    PROVE  /\ SrvOK(srv', timers') /\ ClockOK(srv', timers', quiet)
           /\ \/ Same(srv, srv') /\ UNCHANGED <<toCl, stored>> /\ srv'.retries = srv.retries
              \/ /\ srv.handle # NONE /\ srv.handle \in Clients
                 /\ srv.idle + 1 > Timeout
                 /\ \E o \in Outcomes :
                       /\ Apply(o, srv.handle) /\ o.written = 0
                       /\ Resends(srv, srv.handle, o) \/ (o.s.handle = NONE /\ o.out = << >>)
<1> DEFINE TmrEffect ==
              /\ SrvOK(srv', timers') /\ ClockOK(srv', timers', quiet)
              /\ \/ Same(srv, srv') /\ UNCHANGED <<toCl, stored>> /\ srv'.retries = srv.retries
                 \/ /\ srv.handle # NONE /\ srv.handle \in Clients
                    /\ srv.idle + 1 > Timeout
                    /\ \E o \in Outcomes :
                          /\ Apply(o, srv.handle) /\ o.written = 0
                          /\ Resends(srv, srv.handle, o) \/ (o.s.handle = NONE /\ o.out = << >>)
           fired == [timers EXCEPT !.now = @ - 1]
           idle == IF srv.idle > Timeout THEN srv.idle ELSE srv.idle + 1
           s == [srv EXCEPT !.idle = idle]
           s2 == [s EXCEPT !.retries = @ + 1]
<1>1. /\ SrvOK(srv, timers) /\ srv \in SrvType /\ timers \in TimerType /\ srv.port = srv.handle
      /\ timers.now > 0 /\ quiet \in Nat /\ ClockOK(srv, timers, quiet)
  BY Zenon DEF TftpInv, SrvOK, tftp_tmr
<1>2. /\ srv.idle \in Nat /\ Timeout \in Nat
      /\ timers.now \in Nat /\ timers.now > 0 /\ timers.next \in Nat
  BY <1>1, TftpAssumption, Zenon DEF SrvType, TimerType
<1>3. idle \in Nat /\ idle <= srv.idle + 1 /\ (idle > Timeout => srv.idle + 1 > Timeout)
  BY <1>2
<1>4. /\ fired \in TimerType /\ fired.now = timers.now - 1 /\ fired.next = timers.next
      /\ fired.lost = timers.lost
  BY <1>1, <1>2 DEF TimerType
<1> HIDE DEF idle
<1>6. /\ s \in SrvType /\ s.port = srv.port /\ s.handle = srv.handle /\ s.idle = idle
      /\ s.mode_write = srv.mode_write /\ s.last_data = srv.last_data
      /\ s.blknum = srv.blknum /\ s.pos = srv.pos /\ s.retries = srv.retries
      /\ s.retries \in Nat
  BY <1>1, <1>3, Zenon DEF SrvType
<1> HIDE DEF s
<1>7. /\ s2 \in SrvType /\ s2.port = srv.port /\ s2.handle = srv.handle /\ s2.idle = idle
      /\ s2.mode_write = srv.mode_write /\ s2.last_data = srv.last_data
      /\ s2.blknum = srv.blknum /\ s2.pos = srv.pos
  BY <1>6 DEF SrvType
<1> HIDE DEF fired, s2
<1>8. Same(srv, s) /\ Same(srv, s2)
  BY <1>6, <1>7, Zenon DEF Same
\* With the timer set again, the clocks of the server and of main agree.
<1>5. ASSUME NEW again \in set_tftp_tmr(fired)
      PROVE  /\ again \in TimerType /\ Timed(again) /\ again.now = timers.now - 1
             /\ ~again.lost => ~timers.lost /\ again.next = timers.next + 1
  BY <1>4, TimerGood, Zenon
<1>9. ASSUME NEW again \in set_tftp_tmr(fired),
             NEW r \in SrvType, r.idle = idle, r.handle = srv.handle
      PROVE  ClockOK(r, again, quiet)
  <2>1. ASSUME r.handle # NONE, ~again.lost, again.now + again.next = 1
        PROVE  quiet > Timeout \/ r.idle <= IF again.now = 0 THEN quiet + 1 ELSE quiet
    <3>1. timers.now = 1 /\ timers.next = 0 /\ again.now = 0 /\ ~timers.lost
      <4>1. timers.now - 1 + (timers.next + 1) = 1 /\ again.now = timers.now - 1 /\ ~timers.lost
        BY <1>5, <2>1, Zenon
      <4>2. timers.now = 1 /\ timers.next = 0
        BY <1>2, <4>1
      <4> QED
        BY <4>1, <4>2
    <3>2. quiet > Timeout \/ srv.idle <= quiet
      BY <1>1, <1>9, <2>1, <3>1 DEF ClockOK
    <3> QED
      BY <1>1, <1>2, <1>3, <1>9, <3>1, <3>2
  <2> QED
    BY <2>1, Zenon DEF ClockOK
<1>11. \/ s.handle = NONE /\ srv' = s /\ timers' = fired /\ UNCHANGED <<toCl, stored>>
       \/ \E again \in set_tftp_tmr(fired) :
            \/ s.handle # NONE /\ srv' = s /\ timers' = again /\ UNCHANGED <<toCl, stored>>
            \/ /\ s.handle # NONE /\ TimedOut(idle) /\ s.last_data # NONE
               /\ \E o \in resend_data(s2, again) : Apply(o, s.port)
            \/ /\ s.handle # NONE /\ TimedOut(idle)
               /\ Apply(close_handle(Outcome(s, again, << >>)), s.port)
  BY Zenon DEF tftp_tmr, s, s2, fired, idle
<1>12. CASE s.handle = NONE /\ srv' = s /\ timers' = fired /\ UNCHANGED <<toCl, stored>>
  <2>1. SrvOK(srv', timers')
    BY <1>1, <1>4, <1>6, <1>12, Zenon DEF SrvOK
  <2>2. ClockOK(srv', timers', quiet)
    BY <1>12, Zenon DEF ClockOK
  <2> QED
    BY <1>6, <1>8, <1>12, <2>1, <2>2, Zenon
<1>13. ASSUME NEW again \in set_tftp_tmr(fired),
              \/ s.handle # NONE /\ srv' = s /\ timers' = again /\ UNCHANGED <<toCl, stored>>
              \/ /\ s.handle # NONE /\ TimedOut(idle) /\ s.last_data # NONE
                 /\ \E o \in resend_data(s2, again) : Apply(o, s.port)
              \/ /\ s.handle # NONE /\ TimedOut(idle)
                 /\ Apply(close_handle(Outcome(s, again, << >>)), s.port)
       PROVE  TmrEffect
  <2>1. /\ again \in TimerType /\ Timed(again)
    BY <1>5, Zenon
  <2>3. CASE s.handle # NONE /\ srv' = s /\ timers' = again /\ UNCHANGED <<toCl, stored>>
    <3>1. SrvOK(srv', timers')
      BY <1>1, <2>1, <1>6, <2>3, Zenon DEF SrvOK
    <3>2. ClockOK(srv', timers', quiet)
      BY <1>6, <1>9, <2>3, Zenon
    <3> QED
      BY <1>6, <1>8, <2>3, <3>1, <3>2, Zenon
  <2>4. CASE /\ s.handle # NONE /\ TimedOut(idle) /\ s.last_data # NONE
              /\ \E o \in resend_data(s2, again) : Apply(o, s.port)
    <3> DEFINE x == Packet("DATA", s2.last_data.blknum, s2.last_data.data)
    <3>1. srv.handle # NONE /\ srv.handle \in Clients /\ srv.idle + 1 > Timeout
      BY <1>1, <1>3, <1>6, <2>4, Zenon DEF TimedOut, SrvType
    <3>2. s2.last_data.blknum \in Int /\ s2.last_data.data \in Int
      BY <1>6, <1>7, <2>4 DEF SrvType
    <3>3. x \in Packets
      BY <3>2, PacketType, Zenon
    <3>4. PICK o \in Send(s2, again, x) : Apply(o, srv.handle)
      BY <1>1, <1>6, <2>4, Zenon DEF resend_data
    <3> HIDE DEF x
    <3>5. o \in Outcomes /\ o.s = s2 /\ o.t = again /\ Answers(o, x)
      BY <2>1, <1>7, <3>3, SendGood, Zenon
    <3>6. srv' = s2 /\ timers' = again
      BY <3>4, <3>5, Zenon DEF Apply
    <3>7. SrvOK(srv', timers')
      BY <1>1, <2>1, <1>7, <3>6, Zenon DEF SrvOK
    <3>8. ClockOK(srv', timers', quiet)
      BY <1>7, <1>9, <3>6, Zenon
    <3>9. Resends(srv, srv.handle, o) /\ o.written = 0
      BY <1>6, <1>7, <1>8, <2>4, <3>5, Zenon DEF Resends, Answers, x
    <3> QED
      BY <3>1, <3>4, <3>5, <3>7, <3>8, <3>9, Zenon
  <2>5. CASE /\ s.handle # NONE /\ TimedOut(idle)
              /\ Apply(close_handle(Outcome(s, again, << >>)), s.port)
    <3> DEFINE e == Outcome(s, again, << >>)
               o == close_handle(e)
    <3>1. srv.handle # NONE /\ srv.handle \in Clients /\ srv.idle + 1 > Timeout
      BY <1>1, <1>3, <1>6, <2>5, Zenon DEF TimedOut, SrvType
    <3>2. e \in Outcomes /\ e.out = << >> /\ e.written = 0
      BY <2>1, <1>6 DEF Outcome, Outcomes, Outs
    <3>3. Apply(o, srv.handle)
      BY <1>1, <1>6, <2>5, Zenon
    <3> HIDE DEF e
    <3>4. /\ o \in Outcomes /\ SrvOK(o.s, o.t) /\ o.s.handle = NONE
          /\ o.out = << >> /\ o.written = 0
      BY <3>2, CloseGood, Zenon
    <3> HIDE DEF o
    <3>5. srv' = o.s /\ timers' = o.t
      BY <3>3, Zenon DEF Apply
    <3>6. SrvOK(srv', timers') /\ ClockOK(srv', timers', quiet)
      BY <3>4, <3>5, Zenon DEF ClockOK
    <3> QED
      BY <3>1, <3>3, <3>4, <3>6, Zenon
  <2> QED
    BY <1>13, <2>3, <2>4, <2>5, Zenon
<1> QED
  BY <1>11, <1>12, <1>13, Zenon

\* Steps that no client sees.
LEMMA FrameAll ==
    ASSUME TftpInv, NetType', SrvOK(srv', timers'), quiet' \in Nat,
           ClockOK(srv', timers', quiet'),
           \A d \in Clients : srv'.handle = d => Same(srv, srv'),
           lossy' = lossy, client' = client, toSrv' = toSrv,
           \A d \in Clients : toCl'[d] = toCl[d],
           \A d \in Writers : stored'[d] = stored[d]
    PROVE  TftpInv'
<1>1. ASSUME NEW d \in Clients
      PROVE  StartView(d, lossy', srv', client'[d], toSrv'[d], toCl'[d])
  <2>1. StartView(d, lossy, srv, client[d], toSrv[d], toCl[d])
    BY Zenon DEF TftpInv
  <2> QED
    BY <2>1, ViewFrame, Zenon
<1>2. ASSUME NEW d \in Writers
      PROVE  WriterView(d, srv', stored'[d], client'[d], toSrv'[d], toCl'[d])
  <2>1. WriterView(d, srv, stored[d], client[d], toSrv[d], toCl[d]) /\ d \in Clients
    BY TftpAssumption, Zenon DEF TftpInv
  <2> QED
    BY <2>1, ViewFrame, Zenon
<1>3. ASSUME NEW d \in Clients \ Writers
      PROVE  ReaderView(d, srv', client'[d], toSrv'[d], toCl'[d])
  <2>1. ReaderView(d, srv, client[d], toSrv[d], toCl[d])
    BY Zenon DEF TftpInv
  <2> QED
    BY <2>1, ViewFrame, Zenon
<1> QED
  BY <1>1, <1>2, <1>3, Zenon DEF TftpInv

LEMMA TmrStep ==
    ASSUME TftpInv, tftp_tmr
    PROVE  TftpInv'
<1>1. SrvOK(srv', timers') /\ ClockOK(srv', timers', quiet)
  BY TmrIs, Zenon
<1>2. NetType /\ srv \in SrvType /\ SrvOK(srv, timers) /\ quiet \in Nat
  BY Zenon DEF TftpInv, SrvOK
<1>3. lossy' = lossy /\ quiet' = quiet /\ client' = client /\ toSrv' = toSrv
  BY Zenon DEF tftp_tmr
<1>4. CASE Same(srv, srv') /\ UNCHANGED <<toCl, stored>>
  <2>1. NetType'
    BY <1>2, <1>3, <1>4, Zenon DEF NetType
  <2> QED
    BY <1>1, <1>2, <1>3, <1>4, <2>1, FrameAll, Zenon
<1>5. ASSUME NEW h \in Clients, h = srv.handle, h # NONE, NEW o \in Outcomes, Apply(o, h),
             o.written = 0, Resends(srv, h, o) \/ (o.s.handle = NONE /\ o.out = << >>)
      PROVE  TftpInv'
  <2>1. /\ srv' = o.s
        /\ toCl' \in [Clients -> Seq(Packets)] /\ Sent(toCl[h], o.out, toCl'[h])
        /\ \A d \in Clients : d # h => toCl'[d] = toCl[d]
        /\ stored' \in [Writers -> Seq(Int)]
        /\ \A d \in Writers : stored'[d] = stored[d]
    BY <1>2, <1>5, ApplyIs
  <2>2. NetType'
    BY <1>2, <1>3, <2>1, Zenon DEF NetType
  <2>3. CASE o.s.handle = NONE /\ o.out = << >>
    <3>1. toCl'[h] = toCl[h]
      BY <2>1, <2>3, SentNothing, Zenon
    <3>2. \A d \in Clients : toCl'[d] = toCl[d]
      BY <2>1, <3>1, Zenon
    <3>3. \A d \in Clients : srv'.handle # d
      BY <2>1, <2>3, TftpAssumption, Zenon
    <3> QED
      BY <1>1, <1>2, <1>3, <2>1, <2>2, <3>2, <3>3, FrameAll
  <2>4. CASE Resends(srv, h, o)
    <3>1. Same(srv, srv') /\ h \notin Writers
      BY <1>2, <1>5, <2>1, <2>4, Zenon DEF Resends, SrvOK
    <3>2. ASSUME NEW d \in Clients
          PROVE  StartView(d, lossy', srv', client'[d], toSrv'[d], toCl'[d])
      <4>1. StartView(d, lossy, srv, client[d], toSrv[d], toCl[d])
        BY Zenon DEF TftpInv
      <4>2. CASE d = h
        BY <1>3, <1>5, <4>1, <4>2, Zenon DEF StartView
      <4>3. CASE d # h
        BY <1>3, <2>1, <3>1, <4>1, <4>3, ViewFrame, Zenon
      <4> QED
        BY <4>2, <4>3, Zenon
    <3>3. ASSUME NEW d \in Writers
          PROVE  WriterView(d, srv', stored'[d], client'[d], toSrv'[d], toCl'[d])
      <4>1. /\ WriterView(d, srv, stored[d], client[d], toSrv[d], toCl[d])
            /\ d \in Clients /\ d # h
        BY <3>1, TftpAssumption, Zenon DEF TftpInv
      <4>2. /\ toSrv'[d] = toSrv[d] /\ toCl'[d] = toCl[d] /\ client'[d] = client[d]
            /\ stored'[d] = stored[d]
        BY <1>3, <2>1, <4>1, Zenon
      <4>3. WriterView(d, srv', stored[d], client[d], toSrv[d], toCl[d])
        BY <3>1, <4>1, ViewFrame, Zenon
      <4> QED
        BY <4>2, <4>3, Zenon
    <3>4. ASSUME NEW d \in Clients \ Writers
          PROVE  ReaderView(d, srv', client'[d], toSrv'[d], toCl'[d])
      <4>1. ReaderView(d, srv, client[d], toSrv[d], toCl[d])
        BY Zenon DEF TftpInv
      <4>2. toSrv[d] \in Seq(Packets) /\ toCl[d] \in Seq(Packets) /\ client[d] \in ClientType
        BY <1>2, Zenon DEF NetType
      <4>3. CASE d = h
        <5>1. ReaderView(h, o.s, client[h], toSrv[h], toCl'[h])
          BY <1>2, <2>1, <2>4, <4>1, <4>2, <4>3, ReaderTimer, Zenon
        <5> QED
          BY <1>3, <2>1, <4>3, <5>1, Zenon
      <4>4. CASE d # h
        BY <1>3, <2>1, <3>1, <4>1, <4>4, ViewFrame, Zenon
      <4> QED
        BY <4>3, <4>4, Zenon
    <3> QED
      BY <1>1, <1>2, <1>3, <2>2, <3>2, <3>3, <3>4 DEF TftpInv
  <2> QED
    BY <1>5, <2>3, <2>4, Zenon
<1> QED
  BY <1>4, <1>5, TmrIs, Zenon

LEMMA NoTransferOK ==
    ASSUME NEW t \in TimerType, NEW q
    PROVE  SrvOK(NoTransfer, t) /\ ClockOK(NoTransfer, t, q) /\ NoTransfer.handle = NONE
<1>1. NoTransfer \in SrvType
  BY Zenon DEF NoTransfer, SrvType
<1>2. NoTransfer.port = NONE /\ NoTransfer.handle = NONE /\ NoTransfer.last_data = NONE
  BY Zenon DEF NoTransfer
<1> QED
  BY <1>1, <1>2, Zenon DEF SrvOK, ClockOK

LEMMA MainStep ==
    ASSUME TftpInv, tftp_init \/ Leave \/ tftp_cleanup \/ Interval
    PROVE  TftpInv'
<1>1. /\ NetType /\ SrvOK(srv, timers) /\ srv \in SrvType /\ timers \in TimerType
      /\ quiet \in Nat /\ ClockOK(srv, timers, quiet)
  BY Zenon DEF TftpInv, SrvOK
<1>2. UNCHANGED <<lossy, stored, client, toSrv, toCl>>
  BY Zenon DEF tftp_init, Leave, tftp_cleanup, Interval
<1>3. NetType'
  BY <1>1, <1>2, Zenon DEF NetType
<1>4. Same(srv, srv) /\ \A d \in Clients : d # NONE
  BY TftpAssumption, Zenon DEF Same
<1>5. CASE Leave \/ (tftp_init /\ srv' = srv)
  <2>1. srv' = srv /\ timers' = timers /\ quiet' = quiet
    BY <1>5, Zenon DEF Leave, tftp_init
  <2> QED
    BY <1>1, <1>2, <1>3, <1>4, <2>1, FrameAll, Zenon
<1>6. CASE tftp_init /\ srv' = NoTransfer
  <2>1. timers' = timers /\ quiet' = quiet
    BY <1>6, Zenon DEF tftp_init
  <2>2. SrvOK(srv', timers') /\ ClockOK(srv', timers', quiet') /\ srv'.handle = NONE
    BY <1>1, <1>6, <2>1, NoTransferOK, Zenon
  <2> QED
    BY <1>1, <1>2, <1>3, <1>4, <2>1, <2>2, FrameAll, Zenon
<1>7. CASE tftp_cleanup
  <2> DEFINE e == Outcome(srv, timers, << >>)
  <2>1. srv' = NoTransfer /\ timers' = close_handle(e).t /\ quiet' = quiet
    BY <1>7, Zenon DEF tftp_cleanup
  <2>2. e \in Outcomes
    BY <1>1 DEF Outcome, Outcomes, Outs
  <2> HIDE DEF e
  <2>3. timers' \in TimerType
    BY <2>1, <2>2, CloseGood, Zenon DEF Outcomes
  <2>4. SrvOK(srv', timers') /\ ClockOK(srv', timers', quiet') /\ srv'.handle = NONE
    BY <2>1, <2>3, NoTransferOK, Zenon
  <2> QED
    BY <1>1, <1>2, <1>3, <1>4, <2>1, <2>4, FrameAll, Zenon
<1>8. CASE Interval
  <2>1. /\ srv' = srv /\ timers.now = 0 /\ timers.next > 0
        /\ timers' = [timers EXCEPT !.now = timers.next, !.next = 0]
        /\ quiet' = IF quiet > Timeout THEN quiet ELSE quiet + 1
    BY <1>8, Zenon DEF Interval
  <2>2. timers.next \in Nat /\ srv.idle \in Nat /\ Timeout \in Nat
    BY <1>1, TftpAssumption, Zenon DEF TimerType, SrvType
  <2>3. timers' \in TimerType /\ timers'.now = timers.next /\ timers'.next = 0
        /\ timers'.lost = timers.lost
    BY <1>1, <2>1, <2>2, Zenon DEF TimerType
  <2>4. quiet' \in Nat
    BY <1>1, <2>1
  <2>5. SrvOK(srv', timers')
    BY <1>1, <2>1, <2>2, <2>3 DEF SrvOK, Timed
  <2>6. ASSUME srv.handle # NONE, ~timers.lost, timers.next = 1
        PROVE  quiet' > Timeout \/ srv.idle <= quiet'
    <3>1. quiet > Timeout \/ srv.idle <= quiet + 1
      BY <1>1, <2>1, <2>6 DEF ClockOK
    <3> QED
      BY <1>1, <2>1, <2>2, <3>1, Zenon
  <2>7. ClockOK(srv', timers', quiet')
    BY <2>1, <2>2, <2>3, <2>6 DEF ClockOK
  <2> QED
    BY <1>2, <1>3, <1>4, <2>1, <2>4, <2>5, <2>7, FrameAll, Zenon
<1> QED
  BY <1>5, <1>6, <1>7, <1>8, Zenon DEF tftp_init

-----------------------------------------------------------------------------
(* The invariant: steps of the clients, and losses.                        *)

LEMMA ClientFrame ==
    ASSUME TftpInv, NEW c \in Clients, NetType',
           UNCHANGED <<lossy, srv, timers, quiet, stored>>,
           \A d \in Clients : d # c =>
               client'[d] = client[d] /\ toSrv'[d] = toSrv[d] /\ toCl'[d] = toCl[d],
           StartView(c, lossy, srv, client'[c], toSrv'[c], toCl'[c]),
           c \in Writers => WriterView(c, srv, stored[c], client'[c], toSrv'[c], toCl'[c]),
           c \notin Writers => ReaderView(c, srv, client'[c], toSrv'[c], toCl'[c])
    PROVE  TftpInv'
<1>1. ASSUME NEW d \in Clients
      PROVE  StartView(d, lossy', srv', client'[d], toSrv'[d], toCl'[d])
  <2>1. StartView(d, lossy, srv, client[d], toSrv[d], toCl[d])
    BY Zenon DEF TftpInv
  <2> QED
    BY <2>1, Zenon
<1>2. ASSUME NEW d \in Writers
      PROVE  WriterView(d, srv', stored'[d], client'[d], toSrv'[d], toCl'[d])
  <2>1. WriterView(d, srv, stored[d], client[d], toSrv[d], toCl[d]) /\ d \in Clients
    BY TftpAssumption, Zenon DEF TftpInv
  <2> QED
    BY <2>1, Zenon
<1>3. ASSUME NEW d \in Clients \ Writers
      PROVE  ReaderView(d, srv', client'[d], toSrv'[d], toCl'[d])
  <2>1. ReaderView(d, srv, client[d], toSrv[d], toCl[d])
    BY Zenon DEF TftpInv
  <2> QED
    BY <2>1, Zenon
<1>4. SrvOK(srv', timers') /\ quiet' \in Nat /\ ClockOK(srv', timers', quiet')
  BY Zenon DEF TftpInv
<1> QED
  BY <1>1, <1>2, <1>3, <1>4, Zenon DEF TftpInv

LEMMA LastPacketIs ==
    ASSUME NEW c
    PROVE  /\ LastPacket(c) = Asked(c, client[c].block)
           /\ LastPacket(c)' = Asked(c, client'[c].block)
BY Zenon DEF LastPacket, Asked

\* A step of c after which it has not got further.
LEMMA FewerStep ==
    ASSUME TftpInv, NEW c \in Clients, UNCHANGED <<lossy, srv, timers, quiet, stored>>,
           NEW k2 \in ClientType, NEW up2, NEW down2,
           client' = [client EXCEPT ![c] = k2],
           toSrv' = [toSrv EXCEPT ![c] = up2], toCl' = [toCl EXCEPT ![c] = down2],
           Thinner(toSrv[c], up2) \/ up2 = Append(toSrv[c], Asked(c, client[c].block)),
           Thinner(toCl[c], down2),
           k2.block = client[c].block, k2.got = client[c].got,
           k2.state \in {client[c].state, "wait", "failed"},
           StartView(c, lossy, srv, k2, up2, down2)
    PROVE  TftpInv'
<1>1. /\ NetType /\ toSrv[c] \in Seq(Packets) /\ toCl[c] \in Seq(Packets)
      /\ client[c] \in ClientType /\ client[c].block \in Nat
      /\ c \in Writers => stored[c] \in Seq(Int)
  BY Zenon DEF TftpInv, NetType, ClientType
<1>2. up2 \in Seq(Packets) /\ down2 \in Seq(Packets)
  <2>1. Append(toSrv[c], Asked(c, client[c].block)) \in Seq(Packets)
    BY <1>1, AskedIs, AppendIs, Zenon
  <2> QED
    BY <1>1, <2>1, ThinnerIs, Zenon
<1>3. /\ client' \in [Clients -> ClientType] /\ client'[c] = k2
      /\ toSrv' \in [Clients -> Seq(Packets)] /\ toSrv'[c] = up2
      /\ toCl' \in [Clients -> Seq(Packets)] /\ toCl'[c] = down2
      /\ \A d \in Clients : d # c =>
            client'[d] = client[d] /\ toSrv'[d] = toSrv[d] /\ toCl'[d] = toCl[d]
  BY <1>1, <1>2, Zenon DEF NetType
<1>4. NetType'
  BY <1>1, <1>3, Zenon DEF NetType
<1>5. c \in Writers => WriterView(c, srv, stored[c], k2, up2, down2)
  BY <1>1, WriterFewer, Zenon DEF TftpInv
<1>6. c \notin Writers => ReaderView(c, srv, k2, up2, down2)
  BY <1>1, ReaderFewer, Zenon DEF TftpInv
<1> QED
  BY <1>3, <1>4, <1>5, <1>6, ClientFrame, Zenon

\* Start, Repeat and GiveUp, and the loss of a packet.
LEMMA StartStep ==
    ASSUME TftpInv, NEW c \in Clients, Start(c)
    PROVE  TftpInv'
<1> DEFINE k == client[c]
           k2 == [k EXCEPT !.state = "wait"]
           x == Asked(c, k.block)
           up2 == Put(toSrv[c], <<x>>)
<1>1. /\ NetType /\ k \in ClientType /\ k.block \in Nat /\ k.state = "idle"
      /\ StartView(c, lossy, srv, k, toSrv[c], toCl[c])
  BY Zenon DEF TftpInv, NetType, ClientType, Start
<1>2. k.block = 0 /\ toSrv[c] = << >> /\ toCl[c] = << >> /\ srv.handle # c
  BY <1>1, Zenon DEF StartView
<1>3. k2 \in ClientType /\ k2.state = "wait" /\ k2.block = k.block /\ k2.got = k.got
  BY <1>1, Zenon DEF ClientType
<1>4. /\ client' = [client EXCEPT ![c] = k2] /\ toSrv' = [toSrv EXCEPT ![c] = up2]
      /\ toCl' = toCl /\ UNCHANGED <<lossy, srv, timers, quiet, stored>>
  BY LastPacketIs, Zenon DEF Start
<1>5. toCl' = [toCl EXCEPT ![c] = toCl[c]]
  BY <1>1, <1>4, Zenon DEF NetType
<1>6. x \in Packets
  BY <1>1, AskedIs, Zenon
<1> HIDE DEF x
<1>7. up2 = << >> \/ up2 = Append(<< >>, x)
  <2>1. << >> \in Seq(Packets) /\ <<x>> \in Outs
    BY <1>6, EmptyChannel, Zenon DEF Outs
  <2>2. Sent(<< >>, <<x>>, up2)
    BY <1>2, <2>1, PutSent, Zenon
  <2>3. \A y : <<y>> = <<x>> => y = x
    BY Zenon
  <2> QED
    BY <2>2, <2>3, Zenon DEF Sent
<1>8. Len(<< >>) = 0 /\ Len(Append(<< >>, x)) = 1
  BY <1>6
<1> HIDE DEF up2, k2, k
<1>9. StartView(c, lossy, srv, k2, up2, toCl[c])
  <2>1. ASSUME NEW i \in 1 .. Len(up2) PROVE Len(up2) = 1
    BY <1>7, <1>8
  <2> QED
    BY <1>2, <1>3, <2>1, Zenon DEF StartView
<1>10. Thinner(toSrv[c], up2) \/ up2 = Append(toSrv[c], x)
  BY <1>2, <1>7, Zenon DEF Thinner
<1>11. Thinner(toCl[c], toCl[c])
  BY Zenon DEF Thinner
<1> QED
  BY <1>3, <1>4, <1>5, <1>9, <1>10, <1>11, FewerStep, Zenon DEF k, x

LEMMA RepeatStep ==
    ASSUME TftpInv, NEW c \in Clients, Repeat(c)
    PROVE  TftpInv'
<1> DEFINE k == client[c]
           up2 == Append(toSrv[c], Asked(c, client[c].block))
<1>1. NetType /\ k \in ClientType /\ lossy /\ k.state = "wait"
  BY Zenon DEF TftpInv, NetType, Repeat
<1>2. /\ toSrv' = [toSrv EXCEPT ![c] = up2] /\ client' = client /\ toCl' = toCl
      /\ UNCHANGED <<lossy, srv, timers, quiet, stored>>
  BY LastPacketIs, Zenon DEF Repeat
<1>3. client' = [client EXCEPT ![c] = k] /\ toCl' = [toCl EXCEPT ![c] = toCl[c]]
  BY <1>1, <1>2, Zenon DEF NetType
<1>4. StartView(c, lossy, srv, k, up2, toCl[c])
  BY <1>1, Zenon DEF StartView
<1>5. Thinner(toCl[c], toCl[c])
  BY DEF Thinner
<1> HIDE DEF up2
<1>6. up2 = Append(toSrv[c], Asked(c, client[c].block))
  BY Zenon DEF up2
<1> QED
  BY <1>1, <1>2, <1>3, <1>4, <1>5, <1>6, FewerStep, Zenon

LEMMA GiveUpStep ==
    ASSUME TftpInv, NEW c \in Clients, GiveUp(c)
    PROVE  TftpInv'
<1> DEFINE k == client[c]
           k2 == [k EXCEPT !.state = "failed"]
<1>1. NetType /\ k \in ClientType /\ lossy
  BY Zenon DEF TftpInv, NetType, GiveUp
<1>2. k2 \in ClientType /\ k2.state = "failed" /\ k2.block = k.block /\ k2.got = k.got
  BY <1>1, Zenon DEF ClientType
<1>3. /\ client' = [client EXCEPT ![c] = k2] /\ toCl' = [toCl EXCEPT ![c] = << >>]
      /\ toSrv' = toSrv /\ UNCHANGED <<lossy, srv, timers, quiet, stored>>
  BY Zenon DEF GiveUp
<1>4. toSrv' = [toSrv EXCEPT ![c] = toSrv[c]]
  BY <1>1, <1>3, Zenon DEF NetType
<1> HIDE DEF k2
<1>5. StartView(c, lossy, srv, k2, toSrv[c], << >>)
  BY <1>1, <1>2, Zenon DEF StartView
<1>6. Thinner(toSrv[c], toSrv[c]) /\ Thinner(toCl[c], << >>)
  BY Zenon DEF Thinner
<1> QED
  BY <1>1, <1>2, <1>3, <1>4, <1>5, <1>6, FewerStep, Zenon

LEMMA LoseStep ==
    ASSUME TftpInv, NEW c \in Clients, Lose(c)
    PROVE  TftpInv'
<1> DEFINE k == client[c]
<1>1. /\ NetType /\ k \in ClientType /\ lossy /\ client' = client
      /\ UNCHANGED <<lossy, srv, timers, quiet, stored>>
      /\ StartView(c, lossy, srv, k, toSrv[c], toCl[c])
  BY Zenon DEF TftpInv, NetType, Lose
<1>2. client' = [client EXCEPT ![c] = k]
  BY <1>1, Zenon DEF NetType
<1>3. ASSUME NEW up2, NEW down2, toSrv' = [toSrv EXCEPT ![c] = up2],
             toCl' = [toCl EXCEPT ![c] = down2], toSrv[c] # << >> \/ toCl[c] # << >>,
             Thinner(toSrv[c], up2), Thinner(toCl[c], down2)
      PROVE  TftpInv'
  <2>1. StartView(c, lossy, srv, k, up2, down2)
    BY <1>1, <1>3, Zenon DEF StartView
  <2> QED
    BY <1>1, <1>2, <1>3, <2>1, FewerStep, Zenon
<1>4. toSrv = [toSrv EXCEPT ![c] = toSrv[c]] /\ toCl = [toCl EXCEPT ![c] = toCl[c]]
  BY <1>1, Zenon DEF NetType
<1>5. CASE toSrv[c] # << >> /\ toSrv' = [toSrv EXCEPT ![c] = Tail(@)] /\ toCl' = toCl
  <2>1. Thinner(toSrv[c], Tail(toSrv[c])) /\ Thinner(toCl[c], toCl[c])
    BY <1>5, Zenon DEF Thinner
  <2>2. toSrv' = [toSrv EXCEPT ![c] = Tail(toSrv[c])] /\ toCl' = [toCl EXCEPT ![c] = toCl[c]]
    BY <1>4, <1>5, Zenon
  <2> QED
    BY <1>3, <1>5, <2>1, <2>2, Zenon
<1>6. CASE toCl[c] # << >> /\ toCl' = [toCl EXCEPT ![c] = Tail(@)] /\ toSrv' = toSrv
  <2>1. Thinner(toCl[c], Tail(toCl[c])) /\ Thinner(toSrv[c], toSrv[c])
    BY <1>6 DEF Thinner
  <2>2. toCl' = [toCl EXCEPT ![c] = Tail(toCl[c])] /\ toSrv' = [toSrv EXCEPT ![c] = toSrv[c]]
    BY <1>4, <1>6, Zenon
  <2> QED
    BY <1>3, <1>6, <2>1, <2>2, Zenon
<1> QED
  BY <1>5, <1>6, Zenon DEF Lose

\* What a client makes of the packet p, which is none of the requests: it gets no
\* further, it is done, or it asks for the next block.
LEMMA SeenIs ==
    ASSUME NEW c \in Clients, client[c] \in ClientType, client[c].state # "idle",
           NEW p \in Packets, p.op # "REQ"
    PROVE  LET k == client[c]
               k2 == Seen(c, p)
           IN  /\ k2 \in ClientType /\ k2.state # "idle"
               /\ \/ k.state # "wait" /\ k2 = k
                  \/ /\ k.state = "wait" /\ p.op = "ERROR"
                     /\ k2.state = "failed" /\ k2.block = k.block /\ k2.got = k.got
                  \/ k.state = "wait" /\ p.op = "ACK" /\ k2 = k
                  \/ /\ k.state = "wait" /\ p.op = "ACK" /\ p.blknum = k.block % BlkMod
                     /\ k.block = Blocks /\ k2.state = "done" /\ k2.block = k.block
                  \/ /\ k.state = "wait" /\ p.op = "ACK" /\ p.blknum = k.block % BlkMod
                     /\ k2.state = "wait" /\ k2.block = k.block + 1
                  \/ /\ k.state = "wait" /\ p.op = "DATA"
                     /\ p.blknum # (k.block + 1) % BlkMod /\ k2 = k
                  \/ /\ k.state = "wait" /\ p.op = "DATA"
                     /\ p.blknum = (k.block + 1) % BlkMod
                     /\ k2.state \in {"wait", "done"} /\ (k2.state = "done" => p.data = Blocks)
                     /\ k2.block = k.block + 1 /\ k2.got = Append(k.got, p.data)
<1> DEFINE k == client[c]
           k2 == Seen(c, p)
<1>1. p.op \in {"ERROR", "ACK", "DATA"} /\ p.data \in Int
  BY Zenon DEF Packets
<1>2. k.block \in Nat /\ k.got \in Seq(Int)
  BY Zenon DEF ClientType
<1>3. CASE k.state # "wait"
  BY <1>3, Zenon DEF Seen
<1>4. CASE k.state = "wait" /\ p.op = "ERROR"
  <2>1. k2 = [k EXCEPT !.state = "failed"]
    BY <1>4, Zenon DEF Seen
  <2> HIDE DEF k2
  <2>2. k2 \in ClientType /\ k2.state = "failed" /\ k2.block = k.block /\ k2.got = k.got
    BY <2>1, Zenon DEF ClientType
  <2> QED
    BY <1>4, <2>2, Zenon DEF k2
<1>5. CASE k.state = "wait" /\ p.op = "ACK"
  <2>1. \/ k2 = k
        \/ /\ p.blknum = k.block % BlkMod /\ k.block = Blocks
           /\ k2 = [k EXCEPT !.state = "done"]
        \/ p.blknum = k.block % BlkMod /\ k2 = [k EXCEPT !.block = @ + 1]
    BY <1>5, Zenon DEF Seen
  <2> HIDE DEF k2
  <2>2. CASE k2 = k
    BY <1>5, <2>2, Zenon DEF k2
  <2>3. CASE /\ p.blknum = k.block % BlkMod /\ k.block = Blocks
             /\ k2 = [k EXCEPT !.state = "done"]
    <3>1. k2 \in ClientType /\ k2.state = "done" /\ k2.block = k.block
      BY <2>3, Zenon DEF ClientType
    <3> QED
      BY <1>5, <2>3, <3>1, Zenon DEF k2
  <2>4. CASE p.blknum = k.block % BlkMod /\ k2 = [k EXCEPT !.block = @ + 1]
    <3>1. k2 \in ClientType /\ k2.state = "wait" /\ k2.block = k.block + 1
      BY <1>2, <1>5, <2>4 DEF ClientType
    <3> QED
      BY <1>5, <2>4, <3>1, Zenon DEF k2
  <2> QED
    BY <2>1, <2>2, <2>3, <2>4, Zenon
<1>6. CASE k.state = "wait" /\ p.op = "DATA"
  <2>1. \/ p.blknum # (k.block + 1) % BlkMod /\ k2 = k
        \/ /\ p.blknum = (k.block + 1) % BlkMod
           /\ k2 = [state |-> IF p.data = Blocks THEN "done" ELSE "wait",
                    block |-> k.block + 1, got |-> Append(k.got, p.data)]
    BY <1>6, Zenon DEF Seen
  <2> HIDE DEF k2
  <2>2. CASE p.blknum # (k.block + 1) % BlkMod /\ k2 = k
    BY <1>6, <2>2, Zenon DEF k2
  <2>3. CASE /\ p.blknum = (k.block + 1) % BlkMod
             /\ k2 = [state |-> IF p.data = Blocks THEN "done" ELSE "wait",
                      block |-> k.block + 1, got |-> Append(k.got, p.data)]
    <3>1. Append(k.got, p.data) \in Seq(Int)
      BY <1>1, <1>2, AppendIs, Zenon
    <3>2. /\ k2 \in ClientType /\ k2.state \in {"wait", "done"}
          /\ k2.state = "done" => p.data = Blocks
          /\ k2.block = k.block + 1 /\ k2.got = Append(k.got, p.data)
      BY <1>2, <2>3, <3>1 DEF ClientType
    <3> QED
      BY <1>6, <2>3, <3>2, Zenon DEF k2
  <2> QED
    BY <2>1, <2>2, <2>3, Zenon
<1> QED
  BY <1>1, <1>3, <1>4, <1>5, <1>6, Zenon

LEMMA StartReceive ==
    ASSUME NEW c \in Clients, NEW l, NEW s, NEW k, NEW up \in Seq(Packets), NEW down,
           StartView(c, l, s, k, up, down), down # << >>, NEW k2, k2.state # "idle", NEW up2,
           up2 = up \/ \E j \in Nat \ {0} : up2 = Append(up, Asked(c, j)), NEW down2
    PROVE  StartView(c, l, s, k2, up2, down2)
<1>1. ~l => \A i \in 1 .. Len(up) : up[i] # Asked(c, 0)
  BY Zenon DEF StartView
<1>2. ASSUME ~l, NEW i \in 1 .. Len(up2) PROVE up2[i] # Asked(c, 0)
  <2>1. CASE up2 = up
    BY <1>1, <1>2, <2>1, Zenon
  <2>2. ASSUME NEW j \in Nat \ {0}, up2 = Append(up, Asked(c, j)) PROVE up2[i] # Asked(c, 0)
    <3>1. Asked(c, j) \in Packets /\ Asked(c, j) # Asked(c, 0)
      BY AskedIs, Zenon
    <3>2. /\ Len(up2) = Len(up) + 1 /\ up2[Len(up) + 1] = Asked(c, j) /\ Len(up) \in Nat
          /\ \A m \in 1 .. Len(up) : up2[m] = up[m]
      BY <2>2, <3>1, AppendIs, LenIs
    <3>3. i \in 1 .. Len(up) \/ i = Len(up) + 1
      BY <3>2
    <3> QED
      BY <1>1, <1>2, <3>1, <3>2, <3>3, Zenon
  <2> QED
    BY <2>1, <2>2, Zenon
<1> QED
  BY <1>2, Zenon DEF StartView

LEMMA ReceiveStep ==
    ASSUME TftpInv, NEW c \in Clients, Receive(c)
    PROVE  TftpInv'
<1> DEFINE k == client[c]
           up == toSrv[c]
           down == toCl[c]
           p == Head(down)
           k2 == Seen(c, p)
           asks == k.state = "wait" /\ (p.op = "DATA" \/ (p.op = "ACK" /\ k2.block # k.block))
           up2 == IF asks THEN Put(up, <<Asked(c, k2.block)>>) ELSE up
           down2 == IF k2.state = "wait" THEN Tail(down) ELSE << >>
<1>1. /\ NetType /\ up \in Seq(Packets) /\ down \in Seq(Packets) /\ k \in ClientType
      /\ down # << >> /\ k.block \in Nat /\ (c \in Writers => stored[c] \in Seq(Int))
      /\ StartView(c, lossy, srv, k, up, down)
      /\ c \in Writers => WriterView(c, srv, stored[c], k, up, down)
      /\ c \notin Writers => ReaderView(c, srv, k, up, down)
  BY Zenon DEF TftpInv, NetType, ClientType, Receive
<1>2. p \in Packets /\ Tail(down) \in Seq(Packets) /\ Thinner(down, Tail(down)) /\ Thinner(down, << >>)
  BY <1>1, TailIs, EmptyIs, Zenon DEF Thinner
<1>3. client' = [client EXCEPT ![c] = k2] /\ UNCHANGED <<lossy, srv, timers, quiet, stored>>
  BY Zenon DEF Receive
<1>4. client'[c] = k2
  BY <1>1, <1>3, Zenon DEF NetType
<1>5. toCl' = [toCl EXCEPT ![c] = down2]
  BY <1>4, Zenon DEF Receive
<1>6. toSrv' = [toSrv EXCEPT ![c] = up2]
  <2>1. toSrv' = IF asks THEN [toSrv EXCEPT ![c] = Put(up, <<Asked(c, k2.block)>>)] ELSE toSrv
    BY <1>4, LastPacketIs, Zenon DEF Receive
  <2>2. toSrv = [toSrv EXCEPT ![c] = up]
    BY <1>1, Zenon DEF NetType
  <2> QED
    BY <2>1, <2>2, Zenon
<1>7. k.state # "idle"
  BY <1>1, Zenon DEF StartView
<1>8. /\ p.op # "REQ"
      /\ c \in Writers => p.op # "DATA"
      /\ c \notin Writers => p.op # "ACK"
      /\ k.block = 0 /\ p.op = "DATA" => p.blknum = 1 % BlkMod
  <2>1. c \in Writers => p.op \in {"ERROR", "ACK"}
    BY <1>1, WriterSees, Zenon
  <2>2. c \notin Writers => /\ p.op \in {"ERROR", "DATA"}
                            /\ k.block = 0 /\ p.op = "DATA" => p.blknum = 1 % BlkMod
    <3> SUFFICES ASSUME c \in Clients \ Writers
                 PROVE  /\ p.op \in {"ERROR", "DATA"}
                        /\ k.block = 0 /\ p.op = "DATA" => p.blknum = 1 % BlkMod
      BY Zenon
    <3>1. ReaderView(c, srv, k, up, down)
      BY <1>1, Zenon
    <3> HIDE DEF up, down, k
    <3>2. up \in Seq(Packets) /\ down \in Seq(Packets) /\ k \in ClientType /\ down # << >>
      BY <1>1, Zenon
    <3> QED
      BY <3>1, <3>2, ReaderFirst, Zenon DEF p
  <2> HIDE DEF p, k
  <2> QED
    BY <2>1, <2>2, Zenon
<1>9. /\ k2 \in ClientType /\ k2.state # "idle"
      /\ \/ k.state # "wait" /\ k2 = k
         \/ /\ k.state = "wait" /\ p.op = "ERROR"
            /\ k2.state = "failed" /\ k2.block = k.block /\ k2.got = k.got
         \/ k.state = "wait" /\ p.op = "ACK" /\ k2 = k
         \/ /\ k.state = "wait" /\ p.op = "ACK" /\ p.blknum = k.block % BlkMod
            /\ k.block = Blocks /\ k2.state = "done" /\ k2.block = k.block
         \/ /\ k.state = "wait" /\ p.op = "ACK" /\ p.blknum = k.block % BlkMod
            /\ k2.state = "wait" /\ k2.block = k.block + 1
         \/ /\ k.state = "wait" /\ p.op = "DATA"
            /\ p.blknum # (k.block + 1) % BlkMod /\ k2 = k
         \/ /\ k.state = "wait" /\ p.op = "DATA"
            /\ p.blknum = (k.block + 1) % BlkMod
            /\ k2.state \in {"wait", "done"} /\ (k2.state = "done" => p.data = Blocks)
            /\ k2.block = k.block + 1 /\ k2.got = Append(k.got, p.data)
  BY <1>1, <1>2, <1>7, <1>8, SeenIs, Zenon
<1> HIDE DEF k2, p, k
<1>10. k2.block \in Nat /\ (asks => k2.block # 0)
  BY <1>1, <1>8, <1>9 DEF ClientType
<1>11. /\ ~asks => up2 = up
       /\ asks => Sent(up, <<Asked(c, k2.block)>>, up2)
       /\ up2 = up \/ up2 = Append(up, Asked(c, k2.block))
       /\ up2 \in Seq(Packets)
  <2> DEFINE x == Asked(c, k2.block)
  <2>1. x \in Packets
    BY <1>10, AskedIs, Zenon
  <2> HIDE DEF x
  <2>2. <<x>> \in Outs
    BY <2>1, Zenon DEF Outs
  <2>3. Sent(up, <<x>>, Put(up, <<x>>)) /\ Put(up, <<x>>) \in Seq(Packets)
    BY <1>1, <2>2, PutSent, Zenon
  <2>4. \A y : <<y>> = <<x>> => y = x
    OBVIOUS
  <2>5. Put(up, <<x>>) = up \/ Put(up, <<x>>) = Append(up, x)
    BY <2>3, <2>4, Zenon DEF Sent
  <2> QED
    BY <1>1, <2>3, <2>5, Zenon DEF x
<1>12. down2 \in {<< >>, Tail(down)} /\ (k2.state = "wait" => down2 = Tail(down))
       /\ (k2.state # "wait" => down2 = << >>)
  BY Zenon
<1>13. down2 \in Seq(Packets) /\ Thinner(down, down2)
  BY <1>2, <1>12, EmptyChannel, Zenon
<1>14. StartView(c, lossy, srv, k2, up2, down2)
  <2>1. up2 = up \/ \E j \in Nat \ {0} : up2 = Append(up, Asked(c, j))
    BY <1>10, <1>11, Zenon
  <2> HIDE DEF up2, down2, asks, up, down
  <2> QED
    BY <1>1, <1>9, <2>1, StartReceive, Zenon
<1> HIDE DEF up2, down2, asks
<1>15. CASE k2.block = k.block /\ k2.got = k.got /\ k2.state \in {k.state, "failed"}
  <2>1. Thinner(up, up2) \/ up2 = Append(up, Asked(c, k.block))
    BY <1>11, <1>15, Zenon DEF Thinner
  <2> QED
    BY <1>3, <1>5, <1>6, <1>9, <1>13, <1>14, <1>15, <2>1, FewerStep, Zenon DEF k
<1>16. ASSUME c \in Writers => WriterView(c, srv, stored[c], k2, up2, down2),
              c \notin Writers => ReaderView(c, srv, k2, up2, down2)
       PROVE  TftpInv'
  <2>1. /\ client' \in [Clients -> ClientType]
        /\ toSrv' \in [Clients -> Seq(Packets)] /\ toSrv'[c] = up2
        /\ toCl' \in [Clients -> Seq(Packets)] /\ toCl'[c] = down2
        /\ \A d \in Clients : d # c =>
              client'[d] = client[d] /\ toSrv'[d] = toSrv[d] /\ toCl'[d] = toCl[d]
    BY <1>1, <1>3, <1>5, <1>6, <1>9, <1>11, <1>13, Zenon DEF NetType
  <2>2. NetType'
    BY <1>1, <1>3, <2>1, Zenon DEF NetType
  <2> QED
    BY <1>3, <1>4, <1>14, <1>16, <2>1, <2>2, ClientFrame, Zenon
<1>17. CASE /\ k.state = "wait" /\ p.op = "ACK" /\ p.blknum = k.block % BlkMod
            /\ k.block = Blocks /\ k2.state = "done" /\ k2.block = k.block
  <2>1. c \in Writers /\ up2 = up /\ down2 = << >>
    BY <1>8, <1>11, <1>12, <1>17, Zenon DEF asks
  <2>2. WriterView(c, srv, stored[c], k2, up, << >>)
    BY <1>1, <1>9, <1>17, <2>1, WriterSees, Zenon DEF p
  <2> QED
    BY <1>16, <2>1, <2>2, Zenon
<1>18. CASE /\ k.state = "wait" /\ p.op = "ACK" /\ p.blknum = k.block % BlkMod
            /\ k2.state = "wait" /\ k2.block = k.block + 1
  <2>1. c \in Writers /\ down2 = Tail(down) /\ asks
    BY <1>1, <1>8, <1>12, <1>18 DEF asks
  <2>2. Sent(up, <<Asked(c, k.block + 1)>>, up2)
    BY <1>11, <1>18, <2>1, Zenon
  <2>3. WriterView(c, srv, stored[c], k2, up2, Tail(down))
    BY <1>1, <1>9, <1>18, <2>1, <2>2, WriterSees, Zenon DEF p
  <2> QED
    BY <1>16, <2>1, <2>3, Zenon
<1>19. CASE /\ k.state = "wait" /\ p.op = "DATA"
            /\ p.blknum = (k.block + 1) % BlkMod
            /\ k2.state \in {"wait", "done"} /\ (k2.state = "done" => p.data = Blocks)
            /\ k2.block = k.block + 1 /\ k2.got = Append(k.got, p.data)
  <2>1. c \notin Writers /\ asks
    BY <1>8, <1>19, Zenon DEF asks
  <2>2. Sent(up, <<Asked(c, k.block + 1)>>, up2)
    BY <1>11, <1>19, <2>1, Zenon
  <2> HIDE DEF up, down
  <2>3. /\ p.data = k.block + 1
        /\ \A m \in ClientType : \A v, w :
              /\ m.block = k.block + 1 /\ m.got = Append(k.got, k.block + 1)
              /\ m.state = "done" => k.block + 1 = Blocks
              /\ Sent(up, <<Asked(c, k.block + 1)>>, v)
              /\ w \in {<< >>, Tail(down)}
              => ReaderView(c, srv, m, v, w)
    BY <1>1, <1>19, <2>1, ReaderSees, Zenon DEF p
  <2>4. ReaderView(c, srv, k2, up2, down2)
    BY <1>9, <1>12, <1>19, <2>2, <2>3, Zenon
  <2> QED
    BY <1>16, <2>1, <2>4, Zenon
<1> QED
  BY <1>9, <1>15, <1>17, <1>18, <1>19, Zenon

-----------------------------------------------------------------------------
(* The theorems.                                                           *)

LEMMA TftpStart == TftpInit => TftpInv
<1> SUFFICES ASSUME TftpInit PROVE TftpInv
  BY Zenon
<1>1. << >> \in Seq(Packets) /\ << >> \in Seq(Int) /\ Len(<< >>) = 0
  BY EmptyIs, Zenon
<1>2. [state |-> "idle", block |-> 0, got |-> << >>] \in ClientType
  BY <1>1, Zenon DEF ClientType
<1>3. NetType
  BY <1>1, <1>2, Zenon DEF TftpInit, NetType
<1>4. timers \in TimerType /\ srv = NoTransfer /\ quiet \in Nat
  BY Zenon DEF TftpInit, TimerType
<1>5. /\ SrvOK(srv, timers) /\ ClockOK(srv, timers, quiet) /\ srv.handle = NONE
      /\ \A c \in Clients : c # NONE
  BY <1>4, NoTransferOK, TftpAssumption, Zenon
<1>6. \A c \in Clients :
         /\ client[c] = [state |-> "idle", block |-> 0, got |-> << >>]
         /\ toSrv[c] = << >> /\ toCl[c] = << >>
  BY Zenon DEF TftpInit
<1>7. \A c \in Clients : StartView(c, lossy, srv, client[c], toSrv[c], toCl[c])
  BY <1>1, <1>5, <1>6 DEF StartView
<1>8. \A a, b : Only(<< >>, a) /\ Mixed(<< >>, a, b)
  BY EmptyChannel, Zenon
<1>9. ASSUME NEW c \in Writers
      PROVE  WriterView(c, srv, stored[c], client[c], toSrv[c], toCl[c])
  <2>1. /\ c \in Clients /\ stored[c] = << >> /\ Blocks \in Nat
        /\ client[c].state = "idle" /\ client[c].block = 0
    BY <1>6, TftpAssumption, Zenon DEF TftpInit
  <2>2. Unacked(c, 0, << >>, << >>)
    BY <1>8, Zenon DEF Unacked
  <2> QED
    BY <1>1, <1>5, <1>6, <2>1, <2>2 DEF WriterView
<1>10. ASSUME NEW c \in Clients \ Writers
       PROVE  ReaderView(c, srv, client[c], toSrv[c], toCl[c])
  <2>1. client[c].state = "idle" /\ client[c].block = 0 /\ client[c].got = << >>
    BY <1>6
  <2>2. Upto(0) = << >>
    BY DEF Upto
  <2>3. Behind(c, 0, << >>, << >>)
    BY <1>8, Zenon DEF Behind
  <2> QED
    BY <1>5, <1>6, <2>1, <2>2, <2>3, Zenon DEF ReaderView
<1> QED
  BY <1>3, <1>4, <1>5, <1>7, <1>9, <1>10, Zenon DEF TftpInv

LEMMA TftpStep == TftpInv /\ [TftpNext]_tftp_vars => TftpInv'
<1> SUFFICES ASSUME TftpInv, [TftpNext]_tftp_vars PROVE TftpInv'
  BY Zenon
<1>1. CASE tftp_init \/ Leave \/ tftp_cleanup \/ Interval
  BY <1>1, MainStep, Zenon
<1>2. CASE tftp_tmr
  BY <1>2, TmrStep, Zenon
<1>3. ASSUME NEW c \in Clients,
             recv(c) \/ Start(c) \/ Repeat(c) \/ GiveUp(c) \/ Receive(c) \/ Lose(c)
      PROVE  TftpInv'
  BY <1>3, RecvStep, StartStep, RepeatStep, GiveUpStep, ReceiveStep, LoseStep, Zenon
<1>4. CASE UNCHANGED tftp_vars
  BY <1>4, Zenon DEF tftp_vars, TftpInv, NetType
<1> QED
  BY <1>1, <1>2, <1>3, <1>4, Zenon DEF TftpNext

\* The invariant holds for any number of clients, any length of the files, any width of
\* the block numbers and any capacity of the channels (recv, tftp_tmr and the functions
\* they call).
THEOREM TftpInvariant == TftpSpec => []TftpInv
BY TftpStart, TftpStep, PTL DEF TftpSpec

\* However a transfer ends, no block stays allocated, and a transfer always has a timer
\* unless there was no memory for one (close_handle, recv, tftp_tmr and set_tftp_tmr).
THEOREM TransfersAreSound == TftpSpec => []TransferSound
<1>1. TftpInv => TransferSound
  BY Zenon DEF TftpInv, SrvOK, Timed, TransferSound
<1> QED
  BY <1>1, TftpInvariant, PTL

\* A file that is written holds the blocks before the one recv expects, each once and in
\* order, and the whole file once its client is done, although block numbers wrap around
\* and packets are lost, repeated and late.
THEOREM WritesAreComplete == TftpSpec => []FilesStored
<1>1. TftpInv => FilesStored
  <2> SUFFICES ASSUME TftpInv, NEW c \in Writers
               PROVE  /\ \A i \in DOMAIN stored[c] : stored[c][i] \in {i, Short}
                      /\ srv.handle = c => srv.blknum = (Len(stored[c]) + 1) % BlkMod
                      /\ client[c].state = "done" => Len(stored[c]) = Blocks
    BY Zenon DEF FilesStored
  <2>1. WriterView(c, srv, stored[c], client[c], toSrv[c], toCl[c]) /\ stored[c] \in Seq(Int)
    BY Zenon DEF TftpInv, NetType
  <2>2. DOMAIN stored[c] = 1 .. Len(stored[c])
    BY <2>1, LenIs, Zenon
  <2> QED
    BY <2>1, <2>2, Zenon DEF WriterView
<1> QED
  BY <1>1, TftpInvariant, PTL

\* A reader gets the blocks of the file in order, none twice, and has all of them when it
\* is done (send_data, resend_data, and the comparison of block numbers in recv).
THEOREM ReadsAreInOrder == TftpSpec => []ReadInOrder
<1>1. TftpInv => ReadInOrder
  BY Zenon DEF TftpInv, ReaderView, ReadInOrder
<1> QED
  BY <1>1, TftpInvariant, PTL

\* A packet of one client leaves the transfer of another alone, and tftp_tmr repeats a
\* block or ends a transfer only after TFTP_TIMEOUT_MSECS without a packet, while it has
\* the one timer that it should have.
THEOREM TransfersUndisturbed == TftpSpec => TransferUndisturbed
<1> DEFINE Alone == \A c \in Clients :
              srv.handle # NONE /\ srv.handle # c /\ toSrv'[c] # toSrv[c] /\ client'[c] = client[c]
              => srv' = srv /\ stored' = stored
           Ends == /\ UNCHANGED <<main, client, toSrv>>
                   /\ \/ srv'.retries > srv.retries
                      \/ srv.handle # NONE /\ srv'.handle = NONE
           Silent == quiet >= Timeout \/ timers.now + timers.next > 1 \/ timers.lost
<1>1. ASSUME TftpInv, TftpNext PROVE Alone /\ (Ends => Silent)
  <2>1. CASE srv' = srv /\ stored' = stored
    <3>1. srv.retries \in Nat
      BY <1>1, Zenon DEF TftpInv, SrvOK, SrvType
    <3> QED
      BY <2>1, <3>1
  <2>2. CASE tftp_init \/ tftp_cleanup
    BY <2>2, Zenon DEF tftp_init, tftp_cleanup
  <2>3. CASE tftp_tmr
    <3>1. Alone
      BY <2>3, Zenon DEF tftp_tmr
    <3>2. ASSUME Ends PROVE Silent
      <4>1. /\ srv.retries \in Nat /\ srv.idle \in Nat /\ Timeout \in Nat /\ quiet \in Nat
            /\ timers.now \in Nat /\ timers.next \in Nat /\ timers.now > 0
            /\ ClockOK(srv, timers, quiet)
        BY <1>1, <2>3, TftpAssumption, Zenon DEF TftpInv, SrvOK, SrvType, TimerType, tftp_tmr
      <4>2. srv.handle # NONE /\ srv.idle + 1 > Timeout
        BY <1>1, <2>3, <3>2, <4>1, TmrIs DEF Same
      <4>3. CASE timers.now + timers.next > 1
        BY <4>3, Zenon
      <4>4. CASE ~timers.lost /\ timers.now + timers.next = 1
        <5>1. timers.now = 1
          BY <4>1, <4>4
        <5>2. quiet > Timeout \/ srv.idle <= quiet
          BY <4>1, <4>2, <4>4, <5>1 DEF ClockOK
        <5> QED
          BY <4>1, <4>2, <5>2
      <4> QED
        BY <4>1, <4>3, <4>4
    <3> QED
      BY <3>1, <3>2, Zenon
  <2>4. ASSUME NEW d \in Clients, recv(d) PROVE Alone /\ ~Ends
    <3>1. /\ toSrv' = [toSrv EXCEPT ![d] = Tail(toSrv[d])] /\ toSrv[d] # << >>
          /\ toSrv \in [Clients -> Seq(Packets)] /\ NetType
      BY <1>1, <2>4, Zenon DEF recv, TftpInv, NetType
    <3>2. toSrv[d] \in Seq(Packets)
      BY <3>1, Zenon
    <3>3. Len(Tail(toSrv[d])) = Len(toSrv[d]) - 1 /\ Len(toSrv[d]) \in Nat
      BY <3>1, <3>2, TailIs, LenIs, Zenon
    <3>4. toSrv'[d] # toSrv[d]
      <4>1. toSrv'[d] = Tail(toSrv[d])
        BY <3>1, Zenon
      <4>2. Len(toSrv'[d]) # Len(toSrv[d])
        BY <3>3, <4>1
      <4> QED
        BY <4>2, Zenon
    <3>5. ASSUME NEW c \in Clients, srv.handle # NONE, srv.handle # c, toSrv'[c] # toSrv[c]
          PROVE  srv' = srv /\ stored' = stored
      <4>1. c = d
        BY <3>1, <3>5, Zenon
      <4>2. PICK o \in Outcomes : /\ Apply(o, d)
                                  /\ srv.handle # NONE /\ srv.handle # d =>
                                        o.s = srv /\ o.written = 0
        BY <1>1, <2>4, RecvIs, Zenon
      <4> QED
        BY <3>1, <3>5, <4>1, <4>2, ApplyIs, Zenon
    <3> QED
      BY <3>4, <3>5, Zenon
  <2>5. ASSUME NEW d \in Clients,
               Start(d) \/ Repeat(d) \/ GiveUp(d) \/ Receive(d) \/ Lose(d)
        PROVE  srv' = srv /\ stored' = stored
    BY <2>5, Zenon DEF Start, Repeat, GiveUp, Receive, Lose
  <2>6. Leave \/ Interval => srv' = srv /\ stored' = stored
    BY Zenon DEF Leave, Interval
  <2> HIDE DEF Alone, Ends, Silent
  <2> QED
    BY <1>1, <2>1, <2>2, <2>3, <2>4, <2>5, <2>6, Zenon DEF TftpNext
<1>2. TftpInv /\ [TftpNext]_tftp_vars => [Alone /\ (Ends => Silent)]_tftp_vars
  BY <1>1, Zenon
<1>3. TftpInv /\ [TftpNext]_tftp_vars =>
        [ /\ \A c \in Clients :
              srv.handle # NONE /\ srv.handle # c /\ toSrv'[c] # toSrv[c] /\ client'[c] = client[c]
              => srv' = srv /\ stored' = stored
          /\ /\ UNCHANGED <<main, client, toSrv>>
             /\ \/ srv'.retries > srv.retries
                \/ srv.handle # NONE /\ srv'.handle = NONE
             => quiet >= Timeout \/ timers.now + timers.next > 1 \/ timers.lost ]_tftp_vars
  BY <1>2, Zenon
<1> QED
  BY <1>3, TftpInvariant, PTL DEF TftpSpec, TransferUndisturbed
=============================================================================
