--------------------------- MODULE FlashLogProofs ---------------------------
(***************************************************************************)
(* Proofs about FlashLog for every log size, stamp length and set of       *)
(* messages.                                                               *)
(***************************************************************************)
EXTENDS FlashLog, SequenceTheorems, TLAPS

\* The elements of a concatenation, named for the part they come from.
LEMMA ConcatElements ==
    ASSUME NEW S, NEW s \in Seq(S), NEW t \in Seq(S),
           NEW n, n = Len(s), NEW k, k = Len(t), NEW c, c = s \o t
    PROVE  /\ c \in Seq(S) /\ Len(c) = n + k
           /\ \A j \in 1 .. n + k : c[j] = IF j <= n THEN s[j] ELSE t[j - n]
BY ConcatProperties

\* What mainlog is about to write: as long as the stamp and the message
\* together, '\n' at the end only, the stamp (if any) first.
LEMMA TodoProperties ==
    ASSUME NEW m \in Messages, NEW s \in {Stamp, << >>}
    PROVE  /\ s \o Text(m) \in Seq({"nl", "text", "stamp"})
           /\ Len(s \o Text(m)) <= STAMP_LEN + m.len
           /\ \A j \in 1 .. Len(s \o Text(m)) - 1 : (s \o Text(m))[j] # "nl"
           /\ s = Stamp => Head(s \o Text(m)) = "stamp"
<1> DEFINE S == {"nl", "text", "stamp"}
           t == Text(m)
<1>1. m.len \in Nat /\ STAMP_LEN \in Nat /\ 0 < STAMP_LEN
  BY LogAssumption
<1>2. /\ t \in Seq(S) /\ Len(t) = m.len
      /\ \A j \in 1 .. m.len : t[j] = "nl" => j = m.len
  BY <1>1 DEF Text
<1>3. /\ Stamp \in Seq(S) /\ Len(Stamp) = STAMP_LEN
      /\ \A j \in 1 .. STAMP_LEN : Stamp[j] = "stamp"
  BY <1>1 DEF Stamp
<1>4. /\ << >> \in Seq(S) /\ Len(<< >>) = 0
  BY EmptySeq
<1>5. s \in Seq(S) /\ Len(s) \in {0, STAMP_LEN}
      /\ \A j \in 1 .. Len(s) : s[j] = "stamp"
  <2>1. CASE s = Stamp
    BY <1>3, <2>1
  <2>2. CASE s = << >>
    BY <1>4, <2>2
  <2> QED
    BY <2>1, <2>2
<1> DEFINE n == Len(s)
           c == s \o t
<1> HIDE DEF t
<1>6. /\ c \in Seq(S) /\ Len(c) = n + m.len /\ n \in {0, STAMP_LEN}
      /\ \A j \in 1 .. n + m.len : c[j] = IF j <= n THEN s[j] ELSE t[j - n]
  <2>1. s \in Seq(S) /\ t \in Seq(S) /\ n \in {0, STAMP_LEN}
    BY <1>2, <1>5
  <2>2. n = Len(s) /\ m.len = Len(t) /\ c = s \o t
    BY <1>2
  <2> HIDE DEF n, c, S
  <2> QED
    BY <2>1, <2>2, ConcatElements
<1>7. \A j \in 1 .. n : s[j] = "stamp"
  BY <1>5
<1>8. s = Stamp => n = STAMP_LEN
  BY <1>3
<1> HIDE DEF n, c, S
<1>9. ASSUME NEW j \in 1 .. Len(c) - 1
      PROVE  c[j] # "nl"
  <2>1. j \in 1 .. n + m.len /\ j # n + m.len
    <3>1. n \in Nat /\ Len(c) = n + m.len
      BY <1>1, <1>6
    <3> QED
      BY <1>1, <3>1
  <2>2. n \in Nat
    BY <1>1, <1>6
  <2>3. CASE j <= n
    <3>1. j \in 1 .. n
      BY <1>1, <2>2, <2>1, <2>3
    <3>2. c[j] = s[j]
      BY <1>6, <2>1, <2>3
    <3> QED
      BY <1>7, <3>1, <3>2
  <2>4. CASE ~(j <= n)
    <3>1. j - n \in 1 .. m.len /\ j - n # m.len
      BY <1>1, <2>2, <2>1, <2>4
    <3>2. c[j] = t[j - n]
      BY <1>6, <2>1, <2>4
    <3> QED
      BY <1>2, <3>1, <3>2
  <2> QED
    BY <2>3, <2>4
<1>10. s = Stamp => Head(c) = "stamp"
  <2> SUFFICES ASSUME s = Stamp PROVE Head(c) = "stamp"
    OBVIOUS
  <2>1. 1 \in 1 .. n /\ 1 \in 1 .. n + m.len /\ 1 <= n
    BY <1>1, <1>8
  <2>2. c[1] = "stamp"
    BY <1>6, <1>7, <2>1
  <2>3. c # << >>
    BY <1>1, <1>6, <1>8, EmptySeq
  <2> QED
    BY <1>6, <2>2, <2>3, HeadTailProperties
<1>11. Len(c) <= STAMP_LEN + m.len
  BY <1>1, <1>6
<1>12. c \in Seq({"nl", "text", "stamp"})
  BY <1>6 DEF S
<1> QED
  BY <1>10, <1>11, <1>9, <1>12 DEF c, t

-----------------------------------------------------------------------------

\* Before LOGINIT ran there is no log to get wrong.
LEMMA InitInv == Init => IInv
<1> SUFFICES ASSUME Init PROVE IInv
  OBVIOUS
<1> USE LogAssumption DEF Init
<1>1. TypeOK
  BY EmptySeq DEF TypeOK, Bytes
<1>2. WrittenOnce /\ LinesStamped /\ WriteInv
  BY DEF WrittenOnce, LinesStamped, WriteInv
<1> QED
  BY <1>1, <1>2 DEF IInv

\* LOGINIT leaves a log without a programmed byte, or an empty one.
LEMMA SetupStep == IInv /\ (log_setup \/ log_setup_fails) => IInv'
<1> SUFFICES ASSUME IInv, log_setup \/ log_setup_fails PROVE IInv'
  OBVIOUS
<1> USE LogAssumption DEF IInv
<1>1. TypeOK'
  BY DEF TypeOK, log_setup, log_setup_fails, Bytes
<1>2. WrittenOnce'
  BY DEF log_setup, log_setup_fails, WrittenOnce
<1>3. LinesStamped'
  <2>1. CASE log_setup
    <3>1. \A i \in Cells : mem'[i] = "erased" /\ i >= 0
      BY <2>1 DEF log_setup, Cells
    <3> QED
      BY <3>1 DEF LinesStamped
  <2>2. CASE log_setup_fails
    BY <2>2 DEF log_setup_fails, LinesStamped
  <2> QED
    BY <2>1, <2>2
<1>4. WriteInv'
  BY DEF log_setup, log_setup_fails, WriteInv, TypeOK
<1> QED
  BY <1>1, <1>2, <1>3, <1>4

\* The test of the first byte (log.c:37) admits a log only if none of its
\* bytes is programmed.
LEMMA LogInitStep == IInv /\ log_init => IInv'
<1> SUFFICES ASSUME IInv, log_init PROVE IInv'
  OBVIOUS
<1> USE LogAssumption DEF IInv
<1>1. TypeOK' /\ WrittenOnce' /\ LinesStamped'
  BY DEF TypeOK, log_init, WrittenOnce, LinesStamped
<1>2. WriteInv'
  <2>1. /\ running' /\ offset' = 0 /\ mem' = mem /\ size' = size
        /\ todo' = << >> /\ mem[0] = "erased"
    BY DEF log_init, WriteInv
  <2>2. Len(todo') = 0
    BY <2>1, EmptySeq
  <2>3. size = LOG_SIZE => \A i \in Cells : mem[i] = "erased" /\ i >= 0
    BY <2>1 DEF LinesStamped, Cells
  <2> QED
    BY <2>1, <2>2, <2>3 DEF WriteInv
<1> QED
  BY <1>1, <1>2

\* mainlog plans its writes inside the free part of the log.
LEMMA MainlogStep == ASSUME NEW m \in Messages PROVE IInv /\ mainlog(m) => IInv'
<1> SUFFICES ASSUME IInv, mainlog(m) PROVE IInv'
  OBVIOUS
<1> DEFINE s == IF LineEnded THEN Stamp ELSE << >>
<1>1. /\ running /\ running' = running /\ size' = size /\ mem' = mem
      /\ offset' = offset /\ before' = before
      /\ offset + m.len < LOG_SIZE - RESERVE
      /\ todo' = s \o Text(m)
  BY DEF mainlog, Fits
<1>2. s \in {Stamp, << >>}
  OBVIOUS
<1>3. /\ todo' \in Seq({"nl", "text", "stamp"})
      /\ Len(todo') <= STAMP_LEN + m.len
      /\ \A j \in 1 .. Len(todo') - 1 : todo'[j] # "nl"
      /\ s = Stamp => Head(todo') = "stamp"
  <2> HIDE DEF s
  <2> QED
    BY <1>1, <1>2, TodoProperties
<1>4. TypeOK' /\ WrittenOnce' /\ LinesStamped'
  BY <1>1, <1>3 DEF IInv, TypeOK, WrittenOnce, LinesStamped
<1>5. offset + Len(todo') < LOG_SIZE
  <2>1. /\ m.len \in Nat /\ STAMP_LEN \in Nat /\ RESERVE \in Nat
        /\ STAMP_LEN < RESERVE /\ LOG_SIZE \in Nat /\ offset \in Nat
    BY LogAssumption DEF IInv, TypeOK
  <2> DEFINE n == Len(todo')
  <2>2. n \in Nat
    BY <1>3, LenProperties
  <2>3. offset + m.len < LOG_SIZE - RESERVE /\ n <= STAMP_LEN + m.len
    BY <1>1, <1>3
  <2> HIDE DEF n
  <2>4. offset + n < LOG_SIZE
    BY <2>1, <2>2, <2>3
  <2> QED
    BY <2>4 DEF n
<1>6. offset > 0 /\ mem[offset - 1] = "nl" => Head(todo') = "stamp"
  <2> SUFFICES ASSUME offset > 0, mem[offset - 1] = "nl"
               PROVE  Head(todo') = "stamp"
    OBVIOUS
  <2>1. LineEnded
    BY DEF LineEnded, IInv, TypeOK
  <2> QED
    BY <1>3, <2>1
<1>7. WriteInv'
  BY <1>1, <1>3, <1>5, <1>6 DEF IInv, WriteInv
<1> QED
  BY <1>4, <1>7 DEF IInv

\* flash_write programs the first erased byte, and no other.
LEMMA FlashWriteStep == IInv /\ flash_write => IInv'
<1> SUFFICES ASSUME IInv, flash_write PROVE IInv'
  OBVIOUS
<1> DEFINE S == {"nl", "text", "stamp"}
           b == Head(todo)
<1>1. /\ running /\ running' = running /\ size' = size /\ before' = before
      /\ todo # << >> /\ todo' = Tail(todo)
      /\ offset' = offset + 1
      /\ mem' = [mem EXCEPT ![offset] = Program(mem[offset], b)]
  BY DEF flash_write
<1>2. /\ LOG_SIZE \in Nat /\ offset \in Nat /\ todo \in Seq(S)
      /\ mem \in [Cells -> Bytes]
      /\ offset + Len(todo) < LOG_SIZE
      /\ \A j \in 1 .. Len(todo) - 1 : todo[j] # "nl"
  BY <1>1, LogAssumption DEF IInv, TypeOK, WriteInv
<1>3. /\ b \in S /\ b = todo[1]
      /\ Tail(todo) \in Seq(S) /\ Len(Tail(todo)) = Len(todo) - 1
      /\ \A j \in 1 .. Len(todo) - 1 : Tail(todo)[j] = todo[j + 1]
      /\ Len(todo) \in Nat \ {0}
  BY <1>1, <1>2, HeadTailProperties, EmptySeq
<1> HIDE DEF b
<1>4. offset \in Cells
  BY <1>2, <1>3 DEF Cells
<1>5. TypeOK'
  BY <1>1, <1>2, <1>3, <1>4 DEF IInv, TypeOK, Bytes, Program
<1>6. /\ offset' + Len(todo') < LOG_SIZE
      /\ \A j \in 1 .. Len(todo') - 1 : todo'[j] # "nl"
  <2>1. offset + 1 + (Len(todo) - 1) < LOG_SIZE
    BY <1>2, <1>3
  <2>2. ASSUME NEW j \in 1 .. Len(todo) - 2 PROVE Tail(todo)[j] # "nl"
    <3>1. j \in 1 .. Len(todo) - 1 /\ j + 1 \in 1 .. Len(todo) - 1
      BY <1>3
    <3> QED
      BY <1>2, <1>3, <3>1
  <2>3. Len(todo') = Len(todo) - 1 /\ Len(todo') - 1 = Len(todo) - 2
    BY <1>1, <1>3
  <2> QED
    BY <1>1, <2>1, <2>2, <2>3
<1>7. CASE size # LOG_SIZE
  BY <1>1, <1>5, <1>6, <1>7 DEF IInv, WrittenOnce, LinesStamped, WriteInv
<1>8. CASE size = LOG_SIZE
  <2>1. /\ \A i \in Cells : mem[i] = "erased" <=> i >= offset
        /\ offset > 0 /\ mem[offset - 1] = "nl" => b = "stamp"
        /\ \A i \in Cells : mem[i] # "mixed"
        /\ \A i \in Cells : i > 0 /\ mem[i] # "erased" /\ mem[i - 1] = "nl"
                               => mem[i] = "stamp"
    BY <1>1, <1>8 DEF IInv, WriteInv, WrittenOnce, LinesStamped, b
  <2>2. mem' = [mem EXCEPT ![offset] = b]
    <3>1. mem[offset] = "erased"
      BY <1>2, <1>4, <2>1
    <3> QED
      BY <1>1, <3>1 DEF Program
  <2>3. /\ mem'[offset] = b
        /\ \A i \in Cells : i # offset => mem'[i] = mem[i]
    BY <1>2, <1>4, <2>2
  <2>4. b # "mixed" /\ b # "erased"
    BY <1>3
  <2>5. \A i \in Cells : mem'[i] # "mixed"
    BY <2>1, <2>3, <2>4
  <2>6. \A i \in Cells : mem'[i] = "erased" <=> i >= offset + 1
    BY <1>2, <2>1, <2>3, <2>4 DEF Cells
  <2>7. \A i \in Cells : i > 0 /\ mem'[i] # "erased" /\ mem'[i - 1] = "nl"
                           => mem'[i] = "stamp"
    <3> SUFFICES ASSUME NEW i \in Cells, i > 0, mem'[i] # "erased",
                        mem'[i - 1] = "nl"
                 PROVE  mem'[i] = "stamp"
      OBVIOUS
    <3>1. i <= offset /\ i - 1 \in Cells /\ i - 1 # offset
      BY <1>2, <2>6 DEF Cells
    <3>2. mem[i - 1] = "nl"
      BY <2>3, <3>1
    <3>3. CASE i = offset
      BY <2>1, <2>3, <3>2, <3>3
    <3>4. CASE i # offset
      BY <2>1, <2>3, <3>2, <3>4
    <3> QED
      BY <3>3, <3>4
  <2>8. WrittenOnce'
    BY <1>1, <2>5 DEF WrittenOnce
  <2>9. LinesStamped'
    <3>1. offset + 1 \in 0 .. LOG_SIZE
      BY <1>2, <1>4 DEF Cells
    <3> QED
      BY <1>1, <2>6, <2>7, <3>1 DEF LinesStamped
  <2>10. mem'[offset' - 1] = "nl" => todo' = << >>
    <3> SUFFICES ASSUME mem'[offset' - 1] = "nl", todo' # << >>
                 PROVE  FALSE
      OBVIOUS
    <3>1. offset' - 1 = offset
      BY <1>1, <1>2
    <3>2. b = "nl"
      BY <2>3, <3>1
    <3>3. Len(todo') \in Nat \ {0}
      BY <1>1, <1>3, EmptySeq
    <3>4. 1 \in 1 .. Len(todo) - 1
      BY <1>1, <1>3, <3>3
    <3> QED
      BY <1>2, <1>3, <3>2, <3>4
  <2>11. WriteInv'
    BY <1>1, <1>6, <2>6, <2>10 DEF WriteInv
  <2> QED
    BY <1>5, <2>8, <2>9, <2>11 DEF IInv
<1> QED
  BY <1>7, <1>8

\* A reset leaves the log as it is.
LEMMA StopStep == IInv /\ Stop => IInv'
<1> SUFFICES ASSUME IInv, Stop PROVE IInv'
  OBVIOUS
<1> QED
  BY EmptySeq DEF IInv, Stop, TypeOK, WrittenOnce, LinesStamped, WriteInv

\* The inductive invariant.
THEOREM LogInvariant == Spec => []IInv
<1>1. Init => IInv
  BY InitInv
<1>2. IInv /\ [Next]_vars => IInv'
  <2> SUFFICES ASSUME IInv, [Next]_vars PROVE IInv'
    OBVIOUS
  <2>1. CASE UNCHANGED vars
    BY <2>1 DEF vars, IInv, TypeOK, WrittenOnce, LinesStamped, WriteInv
  <2> QED
    BY <2>1, SetupStep, LogInitStep, MainlogStep, FlashWriteStep, StopStep
    DEF Next
<1> QED
  BY <1>1, <1>2, PTL DEF Spec

\* mainlog never writes past the LOG_SIZE bytes of the log, for every size
\* and every message.
THEOREM LogStampFits == Spec => []StampFits
<1>1. IInv => StampFits
  <2> SUFFICES ASSUME IInv, running PROVE offset + Len(todo) <= LOG_SIZE
    BY DEF StampFits
  <2>1. /\ offset \in Nat /\ Len(todo) \in Nat /\ LOG_SIZE \in Nat
        /\ offset + Len(todo) < LOG_SIZE
    BY LenProperties, LogAssumption DEF IInv, TypeOK, WriteInv
  <2> QED
    BY <2>1
<1> QED
  BY <1>1, LogInvariant, PTL

\* No flash cell is programmed twice, however often the program is started
\* and wherever it is reset.
THEOREM LogWrittenOnce == Spec => []WrittenOnce
<1>1. IInv => WrittenOnce
  BY DEF IInv
<1> QED
  BY <1>1, LogInvariant, PTL

\* The log has no gaps, and every message that starts a line is stamped.
THEOREM LogLinesStamped == Spec => []LinesStamped
<1>1. IInv => LinesStamped
  BY DEF IInv
<1> QED
  BY <1>1, LogInvariant, PTL

\* TypeOK: every variable has its type; ETHLOG is missing, empty or whole.
THEOREM LogTypes == Spec => []TypeOK
<1>1. IInv => TypeOK
  BY DEF IInv
<1> QED
  BY <1>1, LogInvariant, PTL

\* The failed resize of LOGINIT (log_setup) is the only way out of the log:
\* as long as it has the memory it asks for, all that mainlog writes is
\* part of ETHLOG.
THEOREM LogInsideWhenResized ==
    ASSUME ~ResizeMayFail
    PROVE  Spec => []InsideLog
<1> DEFINE Whole == size \in {-1, LOG_SIZE} /\ (running => size = LOG_SIZE)
<1>1. Init => Whole
  BY DEF Init
<1>2. Whole /\ [Next]_vars => Whole'
  BY DEF Next, vars, log_setup, log_setup_fails, log_init, mainlog,
         flash_write, Stop
<1>3. IInv /\ Whole => InsideLog
  <2> SUFFICES ASSUME IInv, Whole, running PROVE offset + Len(todo) <= size
    BY DEF InsideLog
  <2>1. /\ offset \in Nat /\ Len(todo) \in Nat /\ LOG_SIZE \in Nat
        /\ offset + Len(todo) < LOG_SIZE
    BY LenProperties, LogAssumption DEF IInv, TypeOK, WriteInv
  <2> QED
    BY <2>1
<1> HIDE DEF Whole
<1> QED
  BY <1>1, <1>2, <1>3, LogInvariant, PTL DEF Spec
=============================================================================
