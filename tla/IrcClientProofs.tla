-------------------------- MODULE IrcClientProofs --------------------------
(***************************************************************************)
(* Proofs about IrcClient for segments with any number of lines.           *)
(***************************************************************************)
EXTENDS IrcClient, SequenceTheorems, FiniteSetTheorems, WellFoundedInduction, TLAPS

(* Induction over the lines of a segment.                                  *)

\* A set with 0 and with the successor of each of its numbers is all of Nat.
LEMMA SetInduction ==
    ASSUME NEW T, 0 \in T, \A n \in Nat : n \in T => n + 1 \in T
    PROVE  Nat \subseteq T
<1> SUFFICES ASSUME Nat \ T # {} PROVE FALSE
  OBVIOUS
<1>1. PICK x \in Nat \ T : \A y \in Nat \ T : ~(<<y, x>> \in OpToRel(<, Nat))
  BY NatLessThanWellFounded, WFMin
<1>2. \A y \in Nat \ T : ~(y < x)
  BY <1>1, Zenon DEF OpToRel
<1>3. x - 1 \in Nat /\ x - 1 < x /\ (x - 1) + 1 = x
  <2>1. x \in Nat /\ x # 0
    BY <1>1
  <2> QED
    BY <2>1
<1>4. x - 1 \in T
  BY <1>2, <1>3
<1> QED
  BY <1>1, <1>3, <1>4

\* process_all goes through the lines in order (irc.c:107-116): the outcomes
\* after n lines are those of line n from the outcomes after n - 1.
Outcomes(s, lines, f) ==
    /\ f = [n \in 0 .. Len(lines) |-> f[n]]
    /\ f[0] = {s}
    /\ \A n \in 1 .. Len(lines) :
          f[n] = UNION {process_message(t, lines[n]) : t \in f[n - 1]}

LEMMA ProcessAll ==
    ASSUME NEW s, NEW lines \in Seq(Lines)
    PROVE  \E f : Outcomes(s, lines, f) /\ process_all(s, lines) = f[Len(lines)]
<1> DEFINE L == Len(lines)
           Step(S, n) == UNION {process_message(t, lines[n]) : t \in S}
           Body(g) == [n \in 0 .. L |-> IF n = 0 THEN {s} ELSE Step(g[n - 1], n)]
           Upto(n, g) == /\ g[0] = {s}
                         /\ \A i \in 1 .. n : g[i] = Step(g[i - 1], i)
           T == {n \in Nat : \E g : Upto(n, g)}
<1>0. L \in Nat
  BY LenProperties
<1>1. process_all(s, lines) = (CHOOSE g : g = Body(g))[L]
  BY DEF process_all
<1> HIDE DEF L
<1>2. Nat \subseteq T
  <2> HIDE DEF Step
  <2>1. 0 \in T
    <3> DEFINE g == [i \in {0} |-> {s}]
    <3>1. Upto(0, g)
      OBVIOUS
    <3> QED
      BY <3>1
  <2>2. ASSUME NEW n \in Nat, n \in T PROVE n + 1 \in T
    <3>1. PICK g : Upto(n, g)
      BY <2>2
    <3> DEFINE h == [i \in 0 .. n + 1 |-> IF i = n + 1 THEN Step(g[n], n + 1)
                                                       ELSE g[i]]
    <3>2. h[n + 1] = Step(g[n], n + 1) /\ \A i \in 0 .. n : h[i] = g[i]
      OBVIOUS
    <3> HIDE DEF h
    <3>3. h[0] = {s}
      BY <3>1, <3>2
    <3>4. ASSUME NEW i \in 1 .. n + 1 PROVE h[i] = Step(h[i - 1], i)
      <4>1. CASE i \in 1 .. n
        <5>1. i - 1 \in 0 .. n /\ i \in 0 .. n
          BY <4>1
        <5>2. h[i - 1] = g[i - 1] /\ h[i] = g[i]
          BY <3>2, <5>1
        <5> QED
          BY <3>1, <4>1, <5>2
      <4>2. CASE i = n + 1
        <5>1. i - 1 = n /\ h[n] = g[n]
          BY <3>2, <4>2
        <5> QED
          BY <3>2, <4>2, <5>1
      <4> QED
        BY <4>1, <4>2
    <3> QED
      BY <3>3, <3>4
  <2> HIDE DEF T
  <2> QED
    BY <2>1, <2>2, SetInduction
<1>3. PICK g : Upto(L, g)
  BY <1>0, <1>2
<1> DEFINE h == [n \in 0 .. L |-> g[n]]
<1>4. h = Body(h)
  <2> HIDE DEF Step
  <2>1. \A n \in 0 .. L : h[n] = IF n = 0 THEN {s} ELSE Step(h[n - 1], n)
    <3> SUFFICES ASSUME NEW n \in 0 .. L
                 PROVE  h[n] = IF n = 0 THEN {s} ELSE Step(h[n - 1], n)
      OBVIOUS
    <3>1. CASE n = 0
      BY <1>0, <1>3, <3>1
    <3>2. CASE n # 0
      <4>1. n \in 1 .. L /\ n - 1 \in 0 .. L
        BY <1>0, <3>2
      <4>2. h[n] = g[n] /\ h[n - 1] = g[n - 1]
        BY <4>1
      <4> QED
        BY <1>3, <3>2, <4>1, <4>2
    <3> QED
      BY <3>1, <3>2
  <2>2. h = [n \in 0 .. L |-> h[n]]
    OBVIOUS
  <2> HIDE DEF h
  <2> QED
    BY <2>1, <2>2
<1> DEFINE f == CHOOSE x : x = Body(x)
<1>5. f = Body(f)
  <2> HIDE DEF h, Step
  <2> QED
    BY <1>4
<1>6. Outcomes(s, lines, f)
  <2> HIDE DEF f
  <2>1. f[0] = {s}
    BY <1>0, <1>5
  <2>2. ASSUME NEW n \in 1 .. L PROVE f[n] = Step(f[n - 1], n)
    <3> HIDE DEF Step
    <3>1. n \in 0 .. L /\ n # 0
      BY <1>0
    <3> QED
      BY <1>5, <3>1
  <2>3. f = [n \in 0 .. L |-> f[n]]
    <3> HIDE DEF Step
    <3> QED
      BY <1>5
  <2> QED
    BY <2>1, <2>2, <2>3 DEF Outcomes, L
<1> QED
  BY <1>1, <1>6 DEF L

-----------------------------------------------------------------------------
(* What the handling of a segment preserves.                               *)

Sent == [kind : {"USER", "PONG", "raw", "JOIN", "PRIVMSG"}, taken : BOOLEAN]

Conns == [pcb : {NULL, PCB}, identified : BOOLEAN]

\* The registration was offered exactly once if the client is identified, and
\* not at all otherwise.
Good(c, w) ==
    /\ c \in Conns
    /\ w \in Seq(Sent)
    /\ c.identified <=> \E i \in 1 .. Len(w) : w[i].kind = "USER"
    /\ \A i, j \in 1 .. Len(w) : w[i].kind = "USER" /\ w[j].kind = "USER" => i = j

\* The message offered last is at the end.
LEMMA GoodAppend ==
    ASSUME NEW c, NEW w, Good(c, w), NEW m \in Sent, NEW d \in Conns,
           d.identified <=> c.identified \/ m.kind = "USER",
           m.kind = "USER" => ~c.identified
    PROVE  Good(d, Append(w, m))
<1> DEFINE a == Append(w, m)
<1>1. /\ a \in Seq(Sent) /\ Len(a) = Len(w) + 1 /\ Len(w) \in Nat
      /\ \A i \in 1 .. Len(w) : a[i] = w[i]
      /\ a[Len(w) + 1] = m
  BY AppendProperties, LenProperties DEF Good
<1> HIDE DEF a
<1>2. /\ \A i \in 1 .. Len(a) : i \in 1 .. Len(w) \/ i = Len(w) + 1
      /\ \A i \in 1 .. Len(w) : i \in 1 .. Len(a)
      /\ Len(w) + 1 \in 1 .. Len(a)
  BY <1>1
<1>3. c.identified <=> \E i \in 1 .. Len(w) : w[i].kind = "USER"
  BY DEF Good
<1>4. \A i, j \in 1 .. Len(w) : w[i].kind = "USER" /\ w[j].kind = "USER" => i = j
  BY DEF Good
<1>5. d.identified <=> \E i \in 1 .. Len(a) : a[i].kind = "USER"
  BY <1>1, <1>2, <1>3, Zenon
<1>6. ASSUME NEW i \in 1 .. Len(a), NEW j \in 1 .. Len(a),
             a[i].kind = "USER", a[j].kind = "USER"
      PROVE  i = j
  BY <1>1, <1>2, <1>3, <1>4, <1>6, Zenon
<1>7. Good(d, a)
  BY <1>1, <1>5, <1>6, Zenon DEF Good
<1> QED
  BY <1>7 DEF a

\* The pointer does not matter.
LEMMA GoodConn ==
    ASSUME NEW c, NEW w, Good(c, w), NEW d \in Conns, d.identified = c.identified
    PROVE  Good(d, w)
BY Zenon DEF Good

IsSession(s) == s = [conn |-> s.conn, offered |-> s.offered]

\* irc_send_raw (irc.c:171-185) leaves the connection alone, and adds the
\* message to what was offered.
LEMMA SendRaw ==
    ASSUME NEW s, IsSession(s), NEW kind, NEW t \in irc_send_raw(s, kind)
    PROVE  /\ IsSession(t)
           /\ t.conn = s.conn
           /\ \E taken \in BOOLEAN :
                 t.offered = Append(s.offered, [kind |-> kind, taken |-> taken])
<1>1. PICK taken \in BOOLEAN :
          t = [s EXCEPT !.offered = Append(@, [kind |-> kind, taken |-> taken])]
  BY Zenon DEF irc_send_raw
<1> DEFINE m == [kind |-> kind, taken |-> taken]
           c == s.conn
           w == s.offered
<1>2. s = [conn |-> c, offered |-> w] /\ t = [s EXCEPT !.offered = Append(w, m)]
  BY <1>1, Zenon DEF IsSession
<1> HIDE DEF c, w, m
<1>3. t = [conn |-> c, offered |-> Append(w, m)]
  BY <1>2
<1>4. t.conn = c /\ t.offered = Append(w, m) /\ t = [conn |-> t.conn, offered |-> t.offered]
  BY <1>3
<1> QED
  BY <1>4, Zenon DEF IsSession, c, w, m

\* Every outcome of process_message (irc.c:7-91) keeps the session good,
\* and the pcb.
LEMMA MessageGood ==
    ASSUME NEW s, IsSession(s), Good(s.conn, s.offered), NEW m \in Lines,
           NEW t \in process_message(s, m)
    PROVE  /\ IsSession(t) /\ Good(t.conn, t.offered)
           /\ t.conn.pcb = s.conn.pcb
<1>1. CASE t \in Identify(s) /\ ~s.conn.identified
  <2>1. PICK u \in irc_send_raw(s, "USER") :
            t = [conn |-> [u.conn EXCEPT !.identified = TRUE], offered |-> u.offered]
    BY <1>1, Zenon DEF Identify
  <2>2. PICK taken \in BOOLEAN :
            u.offered = Append(s.offered, [kind |-> "USER", taken |-> taken])
    BY <2>1, SendRaw, Zenon
  <2> DEFINE r == [kind |-> "USER", taken |-> taken]
             d == [s.conn EXCEPT !.identified = TRUE]
  <2>3. u.conn = s.conn
    BY <2>1, SendRaw, Zenon
  <2>4. r \in Sent /\ r.kind = "USER"
    BY DEF Sent
  <2>5. d \in Conns /\ d.pcb = s.conn.pcb /\ d.identified
    BY DEF Good, Conns
  <2>6. IsSession(t) /\ t.conn = d /\ t.offered = Append(s.offered, r)
    BY <2>1, <2>2, <2>3 DEF IsSession
  <2> HIDE DEF r, d
  <2>7. Good(d, Append(s.offered, r))
    BY <1>1, <2>4, <2>5, GoodAppend, Zenon
  <2> QED
    BY <2>5, <2>6, <2>7, Zenon
<1>2. ASSUME NEW kind \in {"PONG", "raw"}, t \in irc_send_raw(s, kind)
      PROVE  /\ IsSession(t) /\ Good(t.conn, t.offered)
             /\ t.conn.pcb = s.conn.pcb
  <2>1. PICK taken \in BOOLEAN :
            t.offered = Append(s.offered, [kind |-> kind, taken |-> taken])
    BY <1>2, SendRaw, Zenon
  <2> DEFINE r == [kind |-> kind, taken |-> taken]
  <2>2. IsSession(t) /\ t.conn = s.conn
    BY <1>2, SendRaw, Zenon
  <2>3. r \in Sent /\ r.kind # "USER"
    BY DEF Sent
  <2>4. s.conn \in Conns
    BY Zenon DEF Good
  <2> HIDE DEF r
  <2>5. Good(s.conn, Append(s.offered, r))
    BY <2>3, <2>4, GoodAppend, Zenon
  <2> QED
    BY <2>1, <2>2, <2>5, Zenon DEF r
<1>3. CASE t = s
  BY <1>3, Zenon
<1>4. \/ t \in Identify(s) /\ ~s.conn.identified
      \/ t \in irc_send_raw(s, "PONG") \/ t \in irc_send_raw(s, "raw")
      \/ t = s
  BY DEF process_message
<1> QED
  BY <1>1, <1>2, <1>3, <1>4, Zenon

\* So does a whole segment, however many lines it has.
LEMMA SegmentGood ==
    ASSUME NEW s, IsSession(s), Good(s.conn, s.offered), NEW lines \in Seq(Lines),
           NEW t \in process_all(s, lines)
    PROVE  Good(t.conn, t.offered) /\ t.conn.pcb = s.conn.pcb
<1> DEFINE L == Len(lines)
           Kept(u) == /\ IsSession(u) /\ Good(u.conn, u.offered)
                      /\ u.conn.pcb = s.conn.pcb
<1>1. PICK f : Outcomes(s, lines, f) /\ process_all(s, lines) = f[L]
  BY ProcessAll
<1>2. L \in Nat
  BY LenProperties
<1> DEFINE T == {n \in Nat : n <= L => \A u \in f[n] : Kept(u)}
<1>3. 0 \in T
  <2>1. f[0] = {s}
    BY <1>1 DEF Outcomes
  <2> QED
    BY <2>1
<1>4. ASSUME NEW n \in Nat, n \in T PROVE n + 1 \in T
  <2> SUFFICES ASSUME n + 1 <= L, NEW u \in f[n + 1] PROVE Kept(u)
    OBVIOUS
  <2>1. n + 1 \in 1 .. L /\ (n + 1) - 1 = n
    BY <1>2
  <2>2. f[n + 1] = UNION {process_message(v, lines[n + 1]) : v \in f[n]}
    BY <1>1, <2>1 DEF Outcomes
  <2>3. PICK v \in f[n] : u \in process_message(v, lines[n + 1])
    BY <2>2
  <2>4. Kept(v)
    BY <1>2, <1>4, <2>1
  <2>5. lines[n + 1] \in Lines
    BY <2>1, ElementOfSeq
  <2> QED
    BY <2>3, <2>4, <2>5, MessageGood
<1>5. L \in T
  <2> HIDE DEF T
  <2> QED
    BY <1>2, <1>3, <1>4, SetInduction
<1> QED
  BY <1>1, <1>2, <1>5

-----------------------------------------------------------------------------
(* The invariant.                                                          *)

\* A pcb that is still open is one the client knows of; before irc_init
\* nothing was sent.
IrcInv ==
    /\ Good(conn, offered)
    /\ phase = "wait" => offered = << >>
    /\ tcp \in Open => conn.pcb # NULL

\* A message of its own, whatever tcp_write does with it.
LEMMA OwnMessage ==
    ASSUME IrcInv, NEW kind \in {"JOIN", "PRIVMSG"},
           Becomes(irc_send_raw(Session, kind))
    PROVE  Good(conn', offered') /\ conn' = conn
<1>1. PICK t \in irc_send_raw(Session, kind) :
          conn' = t.conn /\ offered' = t.offered
  BY Zenon DEF Becomes
<1>2. IsSession(Session) /\ Session.conn = conn /\ Session.offered = offered
  BY DEF IsSession, Session
<1>3. PICK taken \in BOOLEAN :
          t.offered = Append(Session.offered, [kind |-> kind, taken |-> taken])
  BY <1>1, <1>2, SendRaw, Zenon
<1> DEFINE m == [kind |-> kind, taken |-> taken]
<1>4. conn' = conn /\ offered' = Append(offered, m)
  BY <1>1, <1>2, <1>3, SendRaw, Zenon
<1>5. m \in Sent /\ m.kind # "USER"
  BY DEF Sent
<1>6. Good(conn, offered) /\ conn \in Conns
  BY DEF IrcInv, Good
<1> HIDE DEF m
<1>7. Good(conn, Append(offered, m))
  BY <1>5, <1>6, GoodAppend, Zenon
<1> QED
  BY <1>4, <1>7, Zenon

\* The lines of a segment.
LEMMA SegmentStep ==
    ASSUME IrcInv, NEW lines \in Segments, recv_func(lines)
    PROVE  Good(conn', offered') /\ conn'.pcb = conn.pcb
<1>1. PICK t \in process_all(Session, lines) :
          conn' = t.conn /\ offered' = t.offered
  BY DEF recv_func, Becomes
<1>2. IsSession(Session) /\ Session.conn = conn /\ Session.offered = offered
  BY DEF IsSession, Session
<1>3. lines \in Seq(Lines)
  BY IrcAssumption
<1>4. Good(Session.conn, Session.offered)
  BY <1>2 DEF IrcInv
<1> QED
  BY <1>1, <1>2, <1>3, <1>4, SegmentGood

\* irc_close forgets the pcb and leaves none open.
LEMMA CloseStep ==
    ASSUME IrcInv, irc_close
    PROVE  /\ conn' \in Conns /\ conn'.pcb = NULL
           /\ conn'.identified = conn.identified
           /\ tcp' \notin Open
<1>1. conn' = [conn EXCEPT !.pcb = NULL] /\ conn \in Conns
  BY DEF irc_close, IrcInv, Good
<1>2. conn.pcb = NULL => tcp \notin Open
  BY DEF IrcInv
<1>3. tcp' \notin Open
  <2>1. CASE conn.pcb = NULL
    BY <1>2, <2>1 DEF irc_close, tcp_close
  <2>2. CASE conn.pcb # NULL
    <3>1. tcp' \in {"freed", "CLOSING"}
      BY <2>2 DEF irc_close, tcp_close
    <3> QED
      BY <3>1 DEF Open
  <2> QED
    BY <2>1, <2>2
<1> QED
  BY <1>1, <1>3 DEF Conns

\* Nothing was offered.
LEMMA GoodEmpty ==
    ASSUME NEW c \in Conns, c.identified = FALSE
    PROVE  Good(c, << >>)
<1>1. << >> \in Seq(Sent) /\ Len(<< >>) = 0 /\ 1 .. 0 = {}
  BY EmptySeq
<1> QED
  BY <1>1, Zenon DEF Good

LEMMA IrcStep == IrcInv /\ [Next]_vars => IrcInv'
<1> SUFFICES ASSUME IrcInv, [Next]_vars PROVE IrcInv'
  OBVIOUS
<1> USE IrcAssumption
<1>1. CASE irc_init
  <2>1. phase = "wait" /\ phase' = "loop" /\ offered' = offered /\ offered = << >>
    BY <1>1 DEF irc_init, IrcInv
  <2>2. CASE UNCHANGED <<conn, tcp>>
    BY <2>1, <2>2 DEF IrcInv
  <2>3. CASE conn' = [pcb |-> PCB, identified |-> FALSE] /\ tcp' = "CLOSED"
    <3>1. conn' \in Conns /\ conn'.pcb # NULL /\ conn'.identified = FALSE
      BY <2>3 DEF Conns
    <3>2. Good(conn', << >>)
      BY <3>1, GoodEmpty
    <3> QED
      BY <2>1, <3>1, <3>2 DEF IrcInv
  <2> QED
    BY <1>1, <2>2, <2>3 DEF irc_init
<1>2. CASE name_resolved
  <2>1. UNCHANGED <<phase, conn, offered>> /\ (tcp' = tcp \/ conn.pcb # NULL)
    BY <1>2 DEF name_resolved
  <2> QED
    BY <2>1 DEF IrcInv
<1>3. CASE on_connect \/ recv_func_closed
  <2>1. UNCHANGED <<phase, conn, offered>> /\ tcp \in Open
    BY <1>3 DEF on_connect, recv_func_closed, Open
  <2> QED
    BY <2>1 DEF IrcInv
<1>4. CASE \E lines \in Segments : recv_func(lines)
  <2>1. PICK lines \in Segments : recv_func(lines)
    BY <1>4
  <2>2. Good(conn', offered') /\ conn'.pcb = conn.pcb
    BY <2>1, SegmentStep
  <2>3. phase' = phase /\ phase = "loop" /\ tcp \in Open
    BY <2>1 DEF recv_func, Open
  <2> QED
    BY <2>2, <2>3 DEF IrcInv
<1>5. CASE lwip_abort \/ lwip_closed
  <2>1. UNCHANGED <<phase, conn, offered>> /\ tcp' = "freed"
    BY <1>5 DEF lwip_abort, lwip_closed
  <2> QED
    BY <2>1 DEF IrcInv, Open
<1>6. CASE irc_join \/ irc_send
  <2>1. phase = "loop" /\ UNCHANGED <<phase, tcp>>
    BY <1>6 DEF irc_join, irc_send
  <2>2. Good(conn', offered') /\ conn' = conn
    BY <1>6, OwnMessage DEF irc_join, irc_send
  <2> QED
    BY <2>1, <2>2 DEF IrcInv
<1>7. CASE close_key \/ exit
  <2>1. irc_close /\ offered' = offered /\ (phase' = "wait" => phase = "wait")
    BY <1>7 DEF close_key, exit
  <2>2. /\ conn' \in Conns /\ conn'.pcb = NULL
        /\ conn'.identified = conn.identified /\ tcp' \notin Open
    BY <2>1, CloseStep
  <2>3. Good(conn', offered)
    BY <2>2, GoodConn DEF IrcInv
  <2> QED
    BY <2>1, <2>2, <2>3 DEF IrcInv
<1>8. CASE UNCHANGED vars
  BY <1>8 DEF IrcInv, vars
<1> QED
  BY <1>1, <1>2, <1>3, <1>4, <1>5, <1>6, <1>7, <1>8 DEF Next

LEMMA IrcInit == Init => IrcInv
<1> SUFFICES ASSUME Init PROVE IrcInv
  OBVIOUS
<1>1. conn \in Conns /\ conn.identified = FALSE /\ offered = << >> /\ tcp \notin Open
  BY DEF Init, Conns, Open
<1>2. Good(conn, << >>)
  BY <1>1, GoodEmpty
<1> QED
  BY <1>1, <1>2 DEF IrcInv

THEOREM IrcInvariant == Spec => []IrcInv
BY IrcInit, IrcStep, PTL DEF Spec

\* RegisteredOnce: USER is offered exactly once from the moment the client is
\* identified, and not before, whatever lines the server sends in whatever
\* segments, and whether or not tcp_write took it.
THEOREM RegistersOnce == Spec => []RegisteredOnce
<1>1. IrcInv => RegisteredOnce
  <2> SUFFICES ASSUME IrcInv PROVE RegisteredOnce
    OBVIOUS
  <2> DEFINE U == {i \in DOMAIN offered : offered[i].kind = "USER"}
  <2>1. DOMAIN offered = 1 .. Len(offered)
    BY LenProperties DEF IrcInv, Good
  <2>2. \A i, j \in U : i = j
    BY <2>1 DEF IrcInv, Good
  <2>3. conn.identified <=> U # {}
    BY <2>1 DEF IrcInv, Good
  <2> HIDE DEF U
  <2>4. CASE U = {}
    BY <2>3, <2>4, FS_EmptySet DEF RegisteredOnce, U
  <2>5. CASE U # {}
    <3>1. PICK k : k \in U
      BY <2>5
    <3>2. U = {k}
      BY <2>2, <3>1
    <3>3. Cardinality(U) = 1
      BY <3>2, FS_Singleton
    <3> QED
      BY <2>3, <2>5, <3>3 DEF RegisteredOnce, U
  <2> QED
    BY <2>4, <2>5
<1> QED
  BY <1>1, IrcInvariant, PTL

\* What every step does to the pointer and the pcb.
LEMMA OwnedStep ==
    ASSUME IrcInv, PcbOwned, [Next]_vars
    PROVE  PcbOwned' \/ lwip_abort
<1> USE IrcAssumption
<1>1. CASE irc_init
  BY <1>1 DEF irc_init, PcbOwned, Open
<1>2. CASE name_resolved \/ on_connect \/ recv_func_closed \/ lwip_closed
  BY <1>2 DEF name_resolved, on_connect, recv_func_closed, lwip_closed,
              PcbOwned, Open
<1>3. CASE \E lines \in Segments : recv_func(lines)
  <2>1. PICK lines \in Segments : recv_func(lines)
    BY <1>3
  <2>2. conn'.pcb = conn.pcb
    BY <2>1, SegmentStep
  <2>3. tcp \in Open /\ tcp' \in Open
    BY <2>1 DEF recv_func, Open
  <2> QED
    BY <2>2, <2>3 DEF PcbOwned
<1>4. CASE irc_join \/ irc_send
  <2>1. conn' = conn
    BY <1>4, OwnMessage DEF irc_join, irc_send
  <2>2. tcp' = tcp
    BY <1>4 DEF irc_join, irc_send
  <2> QED
    BY <2>1, <2>2 DEF PcbOwned
<1>5. CASE close_key \/ exit
  <2>1. conn'.pcb = NULL /\ tcp' \notin Open
    BY <1>5, CloseStep DEF close_key, exit
  <2> QED
    BY <2>1 DEF PcbOwned
<1>6. CASE UNCHANGED vars
  BY <1>6 DEF PcbOwned, vars
<1> QED
  BY <1>1, <1>2, <1>3, <1>4, <1>5, <1>6 DEF Next

\* PcbKept: the client's pointer and lwIP's pcb go together, in whatever
\* order the DNS answer, the keys and the server's segments come; only an
\* abort, of which the client is not told, takes them apart.
THEOREM PcbIsKept == Spec => PcbKept
<1>1. ASSUME IrcInv, [Next]_vars PROVE PcbOwned => PcbOwned' \/ lwip_abort
  BY <1>1, OwnedStep
<1> QED
  BY <1>1, IrcInvariant, PTL DEF Spec, PcbKept

\* PcbOwned: as long as no connection is aborted, conn->pcb points to a pcb
\* exactly while that pcb is open.
THEOREM PcbOwnedWithoutAborts ==
    ASSUME ~Aborts
    PROVE  Spec => []PcbOwned
<1>1. Init => PcbOwned
  BY DEF Init, PcbOwned, Open
<1>2. IrcInv /\ PcbOwned /\ [Next]_vars => PcbOwned'
  BY OwnedStep DEF lwip_abort
<1> QED
  BY <1>1, <1>2, IrcInvariant, PTL DEF Spec

\* RegistersOpen: the registration is offered on a connection that the
\* client still owns and that can be offered to.
THEOREM RegistersWhileOpen == Spec => RegistersOpen
<1>1. ASSUME IrcInv, [Next]_vars, ~conn.identified, conn'.identified
      PROVE  conn.pcb # NULL /\ tcp \in Open
  <2>1. CASE \E lines \in Segments : recv_func(lines)
    <3>1. tcp \in Open
      BY <2>1 DEF recv_func, Open
    <3> QED
      BY <1>1, <3>1 DEF IrcInv
  <2>2. CASE irc_init
    BY <1>1, <2>2 DEF irc_init
  <2>3. CASE irc_join \/ irc_send
    BY <1>1, <2>3, OwnMessage DEF irc_join, irc_send
  <2>4. CASE close_key \/ exit
    BY <1>1, <2>4, CloseStep DEF close_key, exit
  <2>5. CASE \/ name_resolved \/ on_connect \/ recv_func_closed
             \/ lwip_abort \/ lwip_closed \/ UNCHANGED vars
    BY <1>1, <2>5 DEF name_resolved, on_connect, recv_func_closed, lwip_abort,
                      lwip_closed, vars
  <2> QED
    BY <1>1, <2>1, <2>2, <2>3, <2>4, <2>5 DEF Next
<1> QED
  BY <1>1, IrcInvariant, PTL DEF Spec, RegistersOpen
=============================================================================
