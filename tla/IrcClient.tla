----------------------------- MODULE IrcClient -----------------------------
(***************************************************************************)
(* The IRC client (src/src/irc.c) and the parts of main (src/src/main.c)   *)
(* that open, use and close its one connection.  The callbacks run while   *)
(* main is in nt_process; keys are looked at between two such calls.       *)
(*                                                                         *)
(* External, as the code uses it: lwIP's TCP (tcp_close frees a pcb that   *)
(* is not connected and finishes the others by itself; a reset or a        *)
(* timeout frees the pcb; a NULL pcb is refused) and its DNS client.       *)
(***************************************************************************)
EXTENDS Integers, Sequences, FiniteSets

CONSTANTS
    NULL,            \* the null pointer
    PCB,             \* the pcb tcp_new returned
    RESPONSE_SIZE,   \* sizeof(response), 32
    Segments,        \* what the server sends: sequences of lines [kind, len]
    MemoryMayFail,   \* whether tcp_new and tcp_write may lack memory
    Aborts,          \* whether connections are reset or time out
    MaxSegments      \* bound: segments with data received

\* A line: which answer it calls for, and the length that answer depends on.
Lines == [kind : {"NOTICE AUTH", "PING", "PRIVMSG", "quote", "other"}, len : Nat]

ASSUME IrcAssumption ==
    /\ NULL # PCB
    /\ RESPONSE_SIZE \in Nat
    /\ Segments \subseteq Seq(Lines)
    /\ MemoryMayFail \in BOOLEAN /\ Aborts \in BOOLEAN
    /\ MaxSegments \in Nat

VARIABLES
    phase,      \* where main is: "wait" for a netif, "loop", "done"
    keys,       \* the keys whose static flag (joined, sent, closed) is set
    conn,       \* struct irc_conn: pcb and identified
    offered,    \* what tcp_write was called with, and whether it took it: [kind, taken]
    tcp,        \* the state of the pcb in lwIP
    recv_set,   \* whether recv_func is installed
    dns,        \* whether a DNS request is outstanding
    segments,   \* number of segments with data received
    held        \* references to their pbufs that nobody has given back

vars == <<phase, keys, conn, offered, tcp, recv_set, dns, segments, held>>

\* A client's pcb before tcp_close, and all of its states.
Open == {"CLOSED", "SYN_SENT", "ESTABLISHED", "CLOSE_WAIT"}
TcpStates == Open \cup {"none", "CLOSING", "freed"}

-----------------------------------------------------------------------------
(* Sending.  A session s is [conn, offered]; an operation that calls        *)
(* tcp_write has a set of possible outcomes.                               *)

\* tcp_write takes the message, or fails and the result is only logged.
\* Nothing can be said of what it does with a pcb that has been freed.
MayTake(pcb) == pcb # NULL /\ tcp \in {"SYN_SENT", "ESTABLISHED", "CLOSE_WAIT", "freed"}
MayRefuse(pcb) == MayTake(pcb) => MemoryMayFail \/ tcp = "freed"

irc_send_raw(s, kind) ==
    {[s EXCEPT !.offered = Append(@, [kind |-> kind, taken |-> taken])] :
        taken \in {t \in BOOLEAN : IF t THEN MayTake(s.conn.pcb) ELSE MayRefuse(s.conn.pcb)}}

\* uint8_t len = strlen(command); len + 2 > sizeof(response)
PingTooLong(len) == (len % 256) + 2 > RESPONSE_SIZE

\* Mutant of Identify: the flag is set only if the message was taken.
identify_if_taken(s) ==
    {[conn |-> [t.conn EXCEPT !.identified = t.offered[Len(t.offered)].taken],
      offered |-> t.offered] : t \in irc_send_raw(s, "USER")}

\* USER and NICK go out in one message; whether it was accepted is not
\* looked at.
Identify(s) ==
    {[conn |-> [t.conn EXCEPT !.identified = TRUE], offered |-> t.offered] :
        t \in irc_send_raw(s, "USER")}

\* Answers to one line.  "quote" is a PRIVMSG that irc_privmsg_callback
\* answers with the text it quotes.
process_message(s, m) ==
    CASE m.kind = "NOTICE AUTH" /\ ~s.conn.identified -> Identify(s)
      [] m.kind = "PING" /\ ~PingTooLong(m.len)
           -> irc_send_raw(s, "PONG")
      [] m.kind = "quote" -> irc_send_raw(s, "raw")
      [] OTHER -> {s}

\* The lines of one segment, one after the other: after[n] are the possible
\* outcomes of the first n.
process_all(s, lines) ==
    LET after[n \in 0 .. Len(lines)] ==
            IF n = 0 THEN {s}
            ELSE UNION {process_message(t, lines[n]) : t \in after[n - 1]}
    IN  after[Len(lines)]

Session == [conn |-> conn, offered |-> offered]

\* The session becomes one of the outcomes S.
Becomes(S) == \E s \in S : conn' = s.conn /\ offered' = s.offered

-----------------------------------------------------------------------------

Init ==
    /\ phase = "wait"
    /\ keys = {}
    /\ conn = [pcb |-> NULL, identified |-> FALSE]
    /\ offered = <<>>
    /\ tcp = "none"
    /\ recv_set = FALSE
    /\ dns = FALSE
    /\ segments = 0
    /\ held = 0

\* main has an interface and calls irc_init: tcp_new fails, or there is a
\* pcb and dns_gethostbyname is asked.  It takes the request (and answers
\* by name_resolved), knows the name already, or fails; in the last two
\* cases nothing more happens.
irc_init ==
    /\ phase = "wait"
    /\ phase' = "loop"
    /\ \/ /\ MemoryMayFail
          /\ UNCHANGED <<conn, tcp, dns>>
       \/ /\ conn' = [pcb |-> PCB, identified |-> FALSE]
          /\ tcp' = "CLOSED"
          /\ dns' \in BOOLEAN
    /\ UNCHANGED <<keys, offered, recv_set, segments, held>>

\* The request is answered.  tcp_connect refuses a NULL address or pcb, and
\* may fail for lack of a route or of memory; the result is not looked at.
name_resolved ==
    /\ phase = "loop" /\ dns
    /\ dns' = FALSE
    /\ \/ UNCHANGED tcp
       \/ conn.pcb # NULL /\ tcp = "CLOSED" /\ tcp' = "SYN_SENT"
    /\ UNCHANGED <<phase, keys, conn, offered, recv_set, segments, held>>

\* The connection is established.
on_connect ==
    /\ phase = "loop" /\ tcp = "SYN_SENT"
    /\ tcp' = "ESTABLISHED"
    /\ recv_set' = (recv_set \/ conn.pcb # NULL)
    /\ UNCHANGED <<phase, keys, conn, offered, dns, segments, held>>

\* A segment with data arrives, possibly with a FIN as well.  Its lines are
\* handled; its pbuf is not freed.
recv_func(lines) ==
    /\ phase = "loop" /\ tcp = "ESTABLISHED" /\ recv_set
    /\ segments < MaxSegments
    /\ tcp' \in {"ESTABLISHED", "CLOSE_WAIT"}
    /\ Becomes(process_all(Session, lines))
    /\ segments' = segments + 1
    /\ held' = held + 1
    /\ UNCHANGED <<phase, keys, recv_set, dns>>

\* The server closes its side: recv_func gets no pbuf and only logs it.
recv_func_closed ==
    /\ phase = "loop" /\ tcp = "ESTABLISHED"
    /\ tcp' = "CLOSE_WAIT"
    /\ UNCHANGED <<phase, keys, conn, offered, recv_set, dns, segments, held>>

\* A reset, or a retry limit: lwIP frees the pcb.  The client has set no
\* tcp_err callback that would tell it.
lwip_abort ==
    /\ Aborts
    /\ phase = "loop" /\ tcp \in {"SYN_SENT", "ESTABLISHED", "CLOSE_WAIT"}
    /\ tcp' = "freed"
    /\ UNCHANGED <<phase, keys, conn, offered, recv_set, dns, segments, held>>

\* A pcb that tcp_close left to lwIP is finished with.
lwip_closed ==
    /\ phase = "loop" /\ tcp = "CLOSING"
    /\ tcp' = "freed"
    /\ UNCHANGED <<phase, keys, conn, offered, recv_set, dns, segments, held>>

\* Key 2nd: irc_join, once.
irc_join ==
    /\ phase = "loop" /\ "2nd" \notin keys
    /\ keys' = keys \cup {"2nd"}
    /\ Becomes(irc_send_raw(Session, "JOIN"))
    /\ UNCHANGED <<phase, tcp, recv_set, dns, segments, held>>

\* Key Alpha: irc_send, once.
irc_send ==
    /\ phase = "loop" /\ "Alpha" \notin keys
    /\ keys' = keys \cup {"Alpha"}
    /\ Becomes(irc_send_raw(Session, "PRIVMSG"))
    /\ UNCHANGED <<phase, tcp, recv_set, dns, segments, held>>

\* tcp_close of conn->pcb.
tcp_close ==
    tcp' = CASE conn.pcb = NULL -> tcp
             [] conn.pcb # NULL /\ tcp \in {"CLOSED", "SYN_SENT", "freed"}
                  -> "freed"
             [] OTHER -> "CLOSING"

\* Mutant of irc_close: the pointer is kept.
irc_close_keeps_pcb == tcp_close /\ UNCHANGED conn

\* Mutant of irc_close: the pointer is dropped before it is used.
irc_close_drops_first == conn' = [conn EXCEPT !.pcb = NULL] /\ UNCHANGED tcp

irc_close == tcp_close /\ conn' = [conn EXCEPT !.pcb = NULL]

\* Key Mode: irc_close, once.
close_key ==
    /\ phase = "loop" /\ "Mode" \notin keys
    /\ keys' = keys \cup {"Mode"}
    /\ irc_close
    /\ UNCHANGED <<phase, offered, recv_set, dns, segments, held>>

\* Key Clear, in the loop or while main waits for an interface: irc_close
\* and the end of the program.
exit ==
    /\ phase # "done"
    /\ phase' = "done"
    /\ irc_close
    /\ UNCHANGED <<keys, offered, recv_set, dns, segments, held>>

Next ==
    \/ irc_init \/ name_resolved \/ on_connect
    \/ \E lines \in Segments : recv_func(lines)
    \/ recv_func_closed \/ lwip_abort \/ lwip_closed
    \/ irc_join \/ irc_send \/ close_key \/ exit

Spec == Init /\ [][Next]_vars

-----------------------------------------------------------------------------

\* The client's pointer and lwIP's pcb go together: conn->pcb never points
\* to a pcb that lwIP has freed or is about to free, although a DNS answer,
\* the Mode key and the exit may come in any order and irc_close is called
\* twice; and no connection stays open that the client has forgotten.
\* (irc.c:142, 174, 199)
PcbOwned == (conn.pcb # NULL) = (tcp \in Open)

\* Nothing but an abort, of which the client is not told, takes them apart.
PcbKept == [][PcbOwned => PcbOwned' \/ lwip_abort]_vars

\* The registration is offered once in the life of the connection, whatever the server
\* sends: identified says that it was offered, not that tcp_write took it, and one that
\* was refused is never offered again (irc.c:16-20).
RegisteredOnce ==
    Cardinality({i \in DOMAIN offered : offered[i].kind = "USER"})
        = IF conn.identified THEN 1 ELSE 0

\* The registration is offered on a connection that can be offered to: recv_func
\* never runs once the client has let go of its pcb, or lwIP has freed it
\* (irc.c:19-20).
RegistersOpen ==
    [][~conn.identified /\ conn'.identified => conn.pcb # NULL /\ tcp \in Open]_vars

\* "If the callback function returns ERR_OK or ERR_ABRT it must have freed
\* the pbuf" (tcp_recv, src/src/lwIP/core/tcp.c:2000).
RecvFreesPbuf == held = 0
=============================================================================
