------------------------------ MODULE FlashLog ------------------------------
(***************************************************************************)
(* The message log (src/src/log.c) in the archived variable ETHLOG, which  *)
(* the helper program LOGINIT (src/log_setup) creates filled with 0xFF.    *)
(* Flash cells can be programmed once: programming a cell again leaves a   *)
(* mixture of both bytes.  The calculator may be reset at any byte.        *)
(***************************************************************************)
EXTENDS Integers, Sequences

CONSTANTS
    LOG_SIZE,      \* bytes of the log; 64000 in log.h
    STAMP_LEN,     \* bytes of a time stamp; "[%8u] " is 11
    RESERVE,       \* bytes mainlog keeps free behind a message; 12
    Messages,      \* what is logged: [len, nl], nl if the last byte is '\n'
    ResizeMayFail  \* whether LOGINIT may be short of memory

ASSUME LogAssumption ==
    /\ LOG_SIZE \in Nat /\ STAMP_LEN \in Nat /\ RESERVE \in Nat
    /\ 0 < STAMP_LEN /\ STAMP_LEN < RESERVE /\ RESERVE < LOG_SIZE
    /\ \A m \in Messages : m.len \in Nat /\ m.nl \in BOOLEAN
    /\ ResizeMayFail \in BOOLEAN

VARIABLES
    size,      \* bytes ETHLOG really has, -1 if there is no such variable
    mem,       \* mem[i]: the i-th byte from the address ETHLOG's data has
    before,    \* whether the byte in front of the data is '\n'
    running,   \* whether the program runs, log_init having succeeded
    offset,    \* where the next byte goes
    todo       \* the bytes of the current mainlog call still to be written

vars == <<size, mem, before, running, offset, todo>>

Cells == 0 .. LOG_SIZE - 1

\* A byte: erased (0xFF), the '\n' that ends a message, any other byte of a
\* message, a byte of a time stamp, or a byte programmed twice.
Bytes == {"erased", "nl", "text", "stamp", "mixed"}

\* What is in a cell after programming b into it.
Program(old, b) == IF old = "erased" THEN b ELSE "mixed"

Stamp == [i \in 1 .. STAMP_LEN |-> "stamp"]

Text(m) == [i \in 1 .. m.len |-> IF m.nl /\ i = m.len THEN "nl" ELSE "text"]

-----------------------------------------------------------------------------

Init ==
    /\ size = -1
    /\ mem = [i \in Cells |-> "text"]
    /\ before = FALSE
    /\ running = FALSE
    /\ offset = 0
    /\ todo = <<>>

\* Mutant of log_setup: one byte less than log.c counts on.
log_setup_short ==
    /\ ~running
    /\ size' = LOG_SIZE - 1
    /\ mem' = [i \in Cells |-> "erased"]
    /\ before' \in BOOLEAN
    /\ UNCHANGED <<running, offset, todo>>

\* LOGINIT creates ETHLOG anew, filled with 0xFF.
log_setup ==
    /\ ~running
    /\ size' = LOG_SIZE
    /\ mem' = [i \in Cells |-> "erased"]
    /\ before' \in BOOLEAN
    /\ UNCHANGED <<running, offset, todo>>

\* LOGINIT could not resize it: an empty ETHLOG is left, and other memory
\* follows where its data would be.
log_setup_fails ==
    /\ ~running
    /\ ResizeMayFail
    /\ size' = 0
    /\ mem' \in [Cells -> {"erased", "text"}]
    /\ before' \in BOOLEAN
    /\ UNCHANGED <<running, offset, todo>>

\* Mutant of log_init: a log that already has data is taken as well.
log_init_reuses ==
    /\ ~running
    /\ size # -1
    /\ running' = TRUE
    /\ offset' = 0
    /\ UNCHANGED <<size, mem, before, todo>>

\* The program starts: it goes on only if ETHLOG exists and begins erased.
log_init ==
    /\ ~running
    /\ size # -1
    /\ mem[0] = "erased"
    /\ running' = TRUE
    /\ offset' = 0
    /\ UNCHANGED <<size, mem, before, todo>>

\* Mutant of LineEnded: the byte at offset is looked at.
line_ended_off_by_one == mem[offset] = "nl"

\* pos[offset - 1] == '\n'
LineEnded == IF offset = 0 THEN before ELSE mem[offset - 1] = "nl"

\* Mutant of Fits: no room is kept for the time stamp.
fits_without_reserve(m) == offset + m.len < LOG_SIZE

Fits(m) == offset + m.len < LOG_SIZE - RESERVE

\* mainlog decides what to write: a message that does not fit is dropped,
\* one that starts a line is preceded by a time stamp.
mainlog(m) ==
    /\ running
    /\ todo = <<>>
    /\ Fits(m)
    /\ todo' = (IF LineEnded THEN Stamp ELSE <<>>) \o Text(m)
    /\ UNCHANGED <<size, mem, before, running, offset>>

\* flash_write programs the bytes one after the other.
flash_write ==
    /\ running
    /\ todo # <<>>
    /\ mem' = [mem EXCEPT ![offset] = Program(@, Head(todo))]
    /\ offset' = offset + 1
    /\ todo' = Tail(todo)
    /\ UNCHANGED <<size, before, running>>

\* The program exits, or the calculator is reset in the middle of a write.
Stop ==
    /\ running
    /\ running' = FALSE
    /\ todo' = <<>>
    /\ offset' = 0
    /\ UNCHANGED <<size, mem, before>>

Next ==
    \/ log_setup \/ log_setup_fails \/ log_init
    \/ \E m \in Messages : mainlog(m)
    \/ flash_write \/ Stop

Spec == Init /\ [][Next]_vars

-----------------------------------------------------------------------------

TypeOK ==
    /\ size \in {-1, 0, LOG_SIZE}
    /\ mem \in [Cells -> Bytes]
    /\ before \in BOOLEAN
    /\ running \in BOOLEAN
    /\ offset \in Nat
    /\ todo \in Seq({"nl", "text", "stamp"})

\* The room mainlog keeps free (log.c:86) is enough for the time stamp it
\* may add (log.c:93): it never writes past the LOG_SIZE bytes LOGINIT
\* allots.
StampFits == running => offset + Len(todo) <= LOG_SIZE

\* What mainlog writes is part of ETHLOG ("A helper program (LOGINIT) will
\* create one for us", log.c:26).
InsideLog == running => offset + Len(todo) <= size

\* No flash cell is programmed twice between two runs of LOGINIT, however
\* often the program is started and wherever it is reset (log.c:37).
WrittenOnce == size = LOG_SIZE => \A i \in Cells : mem[i] # "mixed"

\* A message logged after one that ended its line starts with a time stamp
\* (log.c:88), and what is in the log has no gaps: some number of bytes is
\* programmed, and nothing behind them.
LinesStamped ==
    size = LOG_SIZE =>
        /\ \E n \in 0 .. LOG_SIZE :
              \A i \in Cells : mem[i] = "erased" <=> i >= n
        /\ \A i \in Cells :
              i > 0 /\ mem[i] # "erased" /\ mem[i - 1] = "nl"
                  => mem[i] = "stamp"

\* The strengthening the proofs use: while the program runs on a log that
\* LOGINIT completed, exactly the bytes in front of offset are programmed;
\* the current call writes '\n' last, and a time stamp first if the line
\* has ended.
WriteInv ==
    IF running
    THEN /\ offset + Len(todo) < LOG_SIZE
         /\ \A j \in 1 .. Len(todo) - 1 : todo[j] # "nl"
         /\ size = LOG_SIZE =>
               /\ \A i \in Cells : mem[i] = "erased" <=> i >= offset
               /\ offset > 0 /\ todo # <<>> /\ mem[offset - 1] = "nl"
                     => Head(todo) = "stamp"
    ELSE todo = <<>>

IInv == TypeOK /\ WrittenOnce /\ LinesStamped /\ WriteInv
=============================================================================
