--------------------------- MODULE TimeoutsProofs ---------------------------
(***************************************************************************)
(* Proofs about Timeouts for every range of the numbers that times are     *)
(* computed in, a clock that counts up to a quarter of it, whatever it     *)
(* shows at the start, and any timers.                                     *)
(***************************************************************************)
EXTENDS Timeouts, WellFoundedInduction, TLAPS

(* The invariant.                                                          *)

Handlers == {"tcp"} \cup DOMAIN Cyclic \cup OneShot

\* The numbers that occur: no two are further apart than TIME_LESS_THAN can tell.
Numbers == 0 .. LWIP_MAX_TIMEOUT
TimerType == [h : Handlers, time : Numbers, due : Int]

\* When the clock shows c at the time t, it will not show the number of the timer x before
\* x is due: the clock only ever jumps back.
NotEarly(x, c, t) == x.due - t <= x.time - c

\* A list in the order of its numbers, none of which comes early. No handler is in it twice.
Good(list, c, t) ==
    /\ list \in Seq(TimerType)
    /\ \A i \in 1 .. Len(list) : NotEarly(list[i], c, t)
    /\ \A i, j \in 1 .. Len(list) :
          /\ i < j => list[i].time <= list[j].time
          /\ list[i].h = list[j].h => i = j

Has(list, h) == \E i \in 1 .. Len(list) : list[i].h = h

\* While sys_check_timeouts runs, the clock has at most gone on as time has.
TimeInv ==
    /\ time \in 0 .. MaxTime /\ clock \in 0 .. ClockPeriod - 1 /\ since \in Int
    /\ at \in {"boot", "main", "check", "handler"}
    /\ at \in {"check", "handler"} =>
          now \in 0 .. ClockPeriod - 1 /\ since - now <= time - clock

CurrentInv ==
    at = "handler" =>
        /\ current \in TimerType /\ current.time <= now
        /\ current.h \notin OneShot => ~Has(next_timeout, current.h)

\* The timers that go on do go on, unless there was no memory for one; that one is gone.
Lasting == {"tcp"} \cup DOMAIN Cyclic
GoesOn ==
    /\ \A h \in Lasting : h \in lost => ~Has(next_timeout, h) /\ ~Handling(h)
    /\ at # "boot" =>
          \A h \in DOMAIN Cyclic : h \in lost \/ Has(next_timeout, h) \/ Handling(h)
    /\ tcp_pcbs \in BOOLEAN /\ tcp_timer_active \in BOOLEAN
    /\ tcp_pcbs => tcp_timer_active
    /\ tcp_timer_active <=> "tcp" \in lost \/ Has(next_timeout, "tcp") \/ Handling("tcp")

TimersInv == TimeInv /\ Good(next_timeout, clock, time) /\ CurrentInv /\ GoesOn

-----------------------------------------------------------------------------
(* Times modulo Word.                                                      *)

Intervals == Msecs \cup {TcpInterval} \cup {Cyclic[h] : h \in DOMAIN Cyclic}

LEMMA Bounds ==
    /\ Word \in Int /\ Word > 0
    /\ LWIP_MAX_TIMEOUT \in Int /\ 2 * LWIP_MAX_TIMEOUT + 2 = Word
    /\ ClockPeriod \in Nat /\ ClockPeriod > 0 /\ MaxTime \in Nat
    /\ \A m \in Intervals : m \in Nat /\ ClockPeriod + m <= LWIP_MAX_TIMEOUT + 1
<1>1. /\ Word \in Nat /\ Word % 4 = 0
      /\ ClockPeriod \in Nat \ {0} /\ 4 * ClockPeriod <= Word /\ MaxTime \in Nat
      /\ \A m \in Intervals : m \in Nat /\ 4 * m <= Word
  BY TimeoutsAssumption, Zenon DEF Intervals
<1>2. PICK q \in Int : Word = 4 * q
  BY <1>1
<1>3. Word \div 2 = 2 * q
  BY <1>2
<1>4. LWIP_MAX_TIMEOUT = 2 * q - 1
  BY <1>3 DEF LWIP_MAX_TIMEOUT
<1> QED
  BY <1>1, <1>2, <1>4

LEMMA ModIs ==
    ASSUME NEW k \in Int, NEW r \in 0 .. Word - 1
    PROVE  (Word * k + r) % Word = r
<1>1. \A w \in Nat : w > 0 =>
        \A p \in Int : \A s \in 0 .. w - 1 : (w * p + s) % w = s
  OBVIOUS
<1>2. Word \in Nat /\ Word > 0
  BY Bounds
<1> QED
  BY <1>1, <1>2, Zenon

LEMMA NumberMod ==
    ASSUME NEW n \in Numbers
    PROVE  n \in Int /\ n % Word = n
<1>1. n \in Int /\ n \in 0 .. Word - 1 /\ Word * 0 + n = n
  BY Bounds DEF Numbers
<1> QED
  BY <1>1, ModIs

\* TIME_LESS_THAN compares the numbers that occur.
LEMMA LessThan ==
    ASSUME NEW a \in Numbers, NEW b \in Numbers
    PROVE  TIME_LESS_THAN(a, b) <=> a < b
<1>1. /\ a \in Int /\ b \in Int /\ a - b <= LWIP_MAX_TIMEOUT /\ b - a <= LWIP_MAX_TIMEOUT
      /\ LWIP_MAX_TIMEOUT \in Int /\ 2 * LWIP_MAX_TIMEOUT + 2 = Word /\ Word \in Int
  BY Bounds DEF Numbers
<1>3. CASE a >= b
  <2>1. a - b \in 0 .. Word - 1 /\ Word * 0 + (a - b) = a - b
    BY <1>1, <1>3
  <2>2. (a - b) % Word = a - b
    BY <2>1, ModIs
  <2>3. ~((a - b) % Word > LWIP_MAX_TIMEOUT)
    BY <1>1, <2>2
  <2>4. ~(a < b)
    BY <1>1, <1>3
  <2> QED
    BY <2>3, <2>4, Zenon DEF TIME_LESS_THAN
<1>4. CASE a < b
  <2>1. a - b + Word \in 0 .. Word - 1 /\ Word * (-1) + (a - b + Word) = a - b
    BY <1>1, <1>4
  <2>2. (a - b) % Word = a - b + Word
    BY <2>1, ModIs
  <2>3. (a - b) % Word > LWIP_MAX_TIMEOUT
    BY <1>1, <1>4, <2>2
  <2> QED
    BY <1>4, <2>3, Zenon DEF TIME_LESS_THAN
<1> QED
  BY <1>1, <1>3, <1>4

-----------------------------------------------------------------------------
(* Lists.                                                                  *)

LEMMA MinIs ==
    ASSUME NEW S, S \subseteq Nat, S # {}
    PROVE  Min(S) \in S /\ \A y \in S : Min(S) <= y
<1>1. PICK x \in S : \A y \in S : ~(<<y, x>> \in OpToRel(<, Nat))
  BY NatLessThanWellFounded, WFMin
<1>2. \A y \in S : ~(y < x)
  BY <1>1, Zenon DEF OpToRel
<1>3. \A y \in S : x <= y
  BY <1>2
<1> QED
  BY <1>3 DEF Min

\* The elements of a part of a list.
LEMMA PartIs ==
    ASSUME NEW T, NEW s \in Seq(T), NEW m \in 1 .. Len(s) + 1, NEW n \in m - 1 .. Len(s)
    PROVE  /\ SubSeq(s, m, n) \in Seq(T) /\ Len(SubSeq(s, m, n)) = n - m + 1
           /\ \A j \in 1 .. n - m + 1 : SubSeq(s, m, n)[j] = s[m + j - 1]
<1>1. Len(s) \in Nat /\ m \in Int /\ n \in Int
  OBVIOUS
<1>2. \A j \in m .. n : s[j] \in T
  <2> SUFFICES ASSUME NEW j \in m .. n PROVE s[j] \in T
    BY Zenon
  <2>1. j \in 1 .. Len(s)
    BY <1>1
  <2> QED
    BY <2>1
<1>3. /\ SubSeq(s, m, n) \in Seq(T)
      /\ Len(SubSeq(s, m, n)) = IF m <= n THEN n - m + 1 ELSE 0
      /\ \A j \in 1 .. n - m + 1 : SubSeq(s, m, n)[j] = s[m + j - 1]
  BY <1>1, <1>2
<1>4. (IF m <= n THEN n - m + 1 ELSE 0) = n - m + 1
  BY <1>1
<1> QED
  BY <1>3, <1>4, Zenon

LEMMA Joined ==
    ASSUME NEW a \in Seq(TimerType), NEW b \in Seq(TimerType)
    PROVE  /\ a \o b \in Seq(TimerType) /\ Len(a \o b) = Len(a) + Len(b)
           /\ \A j \in 1 .. Len(a) + Len(b) : (a \o b)[j] =
                 IF j <= Len(a) THEN a[j] ELSE b[j - Len(a)]
OBVIOUS

\* r is s with e in place i.
Inserted(r, s, i, e) ==
    /\ r \in Seq(TimerType) /\ Len(r) = Len(s) + 1
    /\ \A j \in 1 .. Len(s) + 1 :
          /\ j < i => r[j] = s[j]
          /\ j = i => r[j] = e
          /\ j > i => r[j] = s[j - 1]

LEMMA InsertedIs ==
    ASSUME NEW s \in Seq(TimerType), NEW i \in 1 .. Len(s) + 1, NEW e \in TimerType
    PROVE  Inserted(Linked(s, i, e), s, i, e)
<1> DEFINE r == Linked(s, i, e)
<1> DEFINE a == SubSeq(s, 1, i - 1)
           b == <<e>>
           c == SubSeq(s, i, Len(s))
<1>1. Len(s) \in Nat /\ i \in Int
  OBVIOUS
<1>2. /\ a \in Seq(TimerType) /\ Len(a) = i - 1
      /\ \A j \in 1 .. i - 1 : a[j] = s[j]
  <2>1. 1 \in 1 .. Len(s) + 1 /\ i - 1 \in 1 - 1 .. Len(s) /\ (i - 1) - 1 + 1 = i - 1
    BY <1>1
  <2>2. /\ a \in Seq(TimerType) /\ Len(a) = (i - 1) - 1 + 1
        /\ \A j \in 1 .. (i - 1) - 1 + 1 : a[j] = s[1 + j - 1]
    BY <2>1, PartIs, Zenon
  <2>3. \A j \in 1 .. i - 1 : 1 + j - 1 = j
    BY <1>1
  <2> QED
    BY <2>1, <2>2, <2>3, Zenon
<1>3. /\ c \in Seq(TimerType) /\ Len(c) = Len(s) - i + 1
      /\ \A j \in 1 .. Len(s) - i + 1 : c[j] = s[i + j - 1]
  <2>1. Len(s) \in i - 1 .. Len(s)
    BY <1>1
  <2> QED
    BY <2>1, PartIs, Zenon
<1>4. b \in Seq(TimerType) /\ Len(b) = 1 /\ b[1] = e
  OBVIOUS
<1> HIDE DEF a, b, c
<1>5. /\ a \o b \in Seq(TimerType) /\ Len(a \o b) = i
      /\ \A j \in 1 .. i : (a \o b)[j] = IF j < i THEN s[j] ELSE e
  <2>1. /\ a \o b \in Seq(TimerType) /\ Len(a \o b) = Len(a) + Len(b)
        /\ \A j \in 1 .. Len(a) + Len(b) : (a \o b)[j] =
              IF j <= Len(a) THEN a[j] ELSE b[j - Len(a)]
    BY <1>2, <1>4, Joined, Zenon
  <2>2. Len(a) + Len(b) = i
    BY <1>1, <1>2, <1>4
  <2>3. ASSUME NEW j \in 1 .. i PROVE (a \o b)[j] = IF j < i THEN s[j] ELSE e
    <3>1. (a \o b)[j] = IF j <= Len(a) THEN a[j] ELSE b[j - Len(a)]
      BY <2>1, <2>2, Zenon
    <3>2. CASE j < i
      <4>1. j <= Len(a) /\ j \in 1 .. i - 1
        BY <1>1, <1>2, <3>2
      <4> QED
        BY <1>2, <3>1, <3>2, <4>1, Zenon
    <3>3. CASE ~(j < i)
      <4>1. ~(j <= Len(a)) /\ j - Len(a) = 1
        BY <1>1, <1>2, <3>3
      <4> QED
        BY <1>4, <3>1, <3>3, <4>1, Zenon
    <3> QED
      BY <3>2, <3>3, Zenon
  <2> QED
    BY <2>1, <2>2, <2>3, Zenon
<1> DEFINE ab == a \o b
<1> HIDE DEF ab
<1>6. ab \in Seq(TimerType) /\ Len(ab) = i /\ \A j \in 1 .. i : ab[j] = IF j < i THEN s[j] ELSE e
  BY <1>5, Zenon DEF ab
<1>7. /\ ab \o c \in Seq(TimerType) /\ Len(ab \o c) = Len(ab) + Len(c)
      /\ \A j \in 1 .. Len(ab) + Len(c) : (ab \o c)[j] =
            IF j <= Len(ab) THEN ab[j] ELSE c[j - Len(ab)]
  BY <1>3, <1>6, Joined, Zenon
<1>8. Len(ab) + Len(c) = Len(s) + 1
  BY <1>1, <1>3, <1>6
<1>9. ASSUME NEW j \in 1 .. Len(s) + 1
      PROVE  (ab \o c)[j] = IF j < i THEN s[j] ELSE IF j = i THEN e ELSE s[j - 1]
  <2>1. (ab \o c)[j] = IF j <= i THEN ab[j] ELSE c[j - i]
    BY <1>6, <1>7, <1>8, Zenon
  <2>2. CASE j <= i
    <3>1. j \in 1 .. i /\ (~(j < i) => j = i)
      BY <1>1, <2>2
    <3> QED
      BY <1>6, <2>1, <2>2, <3>1, Zenon
  <2>3. CASE ~(j <= i)
    <3>1. j - i \in 1 .. Len(s) - i + 1 /\ i + (j - i) - 1 = j - 1 /\ ~(j < i) /\ j # i
      BY <1>1, <2>3
    <3>2. c[j - i] = s[i + (j - i) - 1]
      BY <1>3, <3>1, Zenon
    <3> QED
      BY <2>1, <2>3, <3>1, <3>2, Zenon
  <2> QED
    BY <2>2, <2>3, Zenon
<1>10. Linked(s, i, e) = ab \o c
  BY Zenon DEF Linked, ab, a, b, c
<1> QED
  <2>1. \A j \in 1 .. Len(s) + 1 :
          /\ j < i => r[j] = s[j]
          /\ j = i => r[j] = e
          /\ j > i => r[j] = s[j - 1]
    <3>1. \A j \in 1 .. Len(s) + 1 : (j = i => ~(j < i)) /\ (j > i => ~(j < i) /\ j # i)
      BY <1>1
    <3> QED
      BY <1>9, <1>10, <3>1, Zenon
  <2> QED
    BY <1>7, <1>8, <1>10, <2>1, Zenon DEF Inserted

LEMMA RemovedIs ==
    ASSUME NEW s \in Seq(TimerType), NEW i \in 1 .. Len(s),
           NEW r, r = Unlinked(s, i)
    PROVE  /\ r \in Seq(TimerType) /\ Len(r) = Len(s) - 1
           /\ \A j \in 1 .. Len(s) - 1 : r[j] = IF j < i THEN s[j] ELSE s[j + 1]
<1> DEFINE a == SubSeq(s, 1, i - 1)
           c == SubSeq(s, i + 1, Len(s))
<1>1. Len(s) \in Nat /\ i \in Int
  OBVIOUS
<1>2. /\ a \in Seq(TimerType) /\ Len(a) = i - 1
      /\ \A j \in 1 .. i - 1 : a[j] = s[j]
  <2>1. 1 \in 1 .. Len(s) + 1 /\ i - 1 \in 1 - 1 .. Len(s) /\ (i - 1) - 1 + 1 = i - 1
    BY <1>1
  <2>2. /\ a \in Seq(TimerType) /\ Len(a) = (i - 1) - 1 + 1
        /\ \A j \in 1 .. (i - 1) - 1 + 1 : a[j] = s[1 + j - 1]
    BY <2>1, PartIs, Zenon
  <2>3. \A j \in 1 .. i - 1 : 1 + j - 1 = j
    BY <1>1
  <2> QED
    BY <2>1, <2>2, <2>3, Zenon
<1>3. /\ c \in Seq(TimerType) /\ Len(c) = Len(s) - i
      /\ \A j \in 1 .. Len(s) - i : c[j] = s[i + j]
  <2>1. i + 1 \in 1 .. Len(s) + 1 /\ Len(s) \in (i + 1) - 1 .. Len(s) /\ Len(s) - (i + 1) + 1 = Len(s) - i
    BY <1>1
  <2>2. /\ c \in Seq(TimerType) /\ Len(c) = Len(s) - (i + 1) + 1
        /\ \A j \in 1 .. Len(s) - (i + 1) + 1 : c[j] = s[(i + 1) + j - 1]
    BY <2>1, PartIs, Zenon
  <2>3. \A j \in 1 .. Len(s) - i : (i + 1) + j - 1 = i + j
    BY <1>1
  <2> QED
    BY <2>1, <2>2, <2>3, Zenon
<1> HIDE DEF a, c
<1>4. /\ a \o c \in Seq(TimerType) /\ Len(a \o c) = Len(a) + Len(c)
      /\ \A j \in 1 .. Len(a) + Len(c) : (a \o c)[j] =
            IF j <= Len(a) THEN a[j] ELSE c[j - Len(a)]
  BY <1>2, <1>3, Joined, Zenon
<1>5. Len(a) + Len(c) = Len(s) - 1
  BY <1>1, <1>2, <1>3
<1>6. ASSUME NEW j \in 1 .. Len(s) - 1
      PROVE  (a \o c)[j] = IF j < i THEN s[j] ELSE s[j + 1]
  <2>1. (a \o c)[j] = IF j <= Len(a) THEN a[j] ELSE c[j - Len(a)]
    BY <1>4, <1>5, Zenon
  <2>2. CASE j < i
    <3>1. j <= Len(a) /\ j \in 1 .. i - 1
      BY <1>1, <1>2, <2>2
    <3> QED
      BY <1>2, <2>1, <2>2, <3>1, Zenon
  <2>3. CASE ~(j < i)
    <3>1. ~(j <= Len(a)) /\ j - Len(a) \in 1 .. Len(s) - i /\ i + (j - Len(a)) = j + 1
      BY <1>1, <1>2, <2>3
    <3>2. c[j - Len(a)] = s[i + (j - Len(a))]
      BY <1>3, <3>1, Zenon
    <3> QED
      BY <2>1, <2>3, <3>1, <3>2, Zenon
  <2> QED
    BY <2>2, <2>3, Zenon
<1>7. Unlinked(s, i) = a \o c
  BY Zenon DEF Unlinked, a, c
<1> QED
  BY <1>4, <1>5, <1>6, <1>7, Zenon

LEMMA TimerMeans ==
    ASSUME NEW x \in TimerType
    PROVE  x.due \in Int /\ x.time \in Int /\ x.time \in Numbers /\ x.h \in Handlers
BY DEF TimerType, Numbers

LEMMA GoodMeans ==
    ASSUME NEW c, NEW t, NEW list, Good(list, c, t)
    PROVE  /\ list \in Seq(TimerType) /\ Len(list) \in Nat /\ DOMAIN list = 1 .. Len(list)
           /\ \A i \in 1 .. Len(list) : list[i] \in TimerType /\ NotEarly(list[i], c, t)
<1>1. list \in Seq(TimerType)
  BY Zenon DEF Good
<1>2. Len(list) \in Nat /\ DOMAIN list = 1 .. Len(list)
  BY <1>1
<1>3. \A i \in 1 .. Len(list) : list[i] \in TimerType
  BY <1>1
<1> QED
  BY <1>1, <1>2, <1>3, Zenon DEF Good

\* r is a list with the timers of list and one of h.
With(r, list, h, c, t) ==
    Good(r, c, t) /\ \A g : Has(r, g) <=> Has(list, g) \/ g = h

\* sys_timeout_abs puts a timer into its place, or leaves the list as it is.
LEMMA GoodInsert ==
    ASSUME NEW c, NEW t, NEW list, Good(list, c, t),
           NEW x \in TimerType, NotEarly(x, c, t), ~Has(list, x.h),
           NEW r \in sys_timeout_abs(list, x), r # list
    PROVE  With(r, list, x.h, c, t)
<1> DEFINE n == Len(list)
           later == {i \in DOMAIN list : TIME_LESS_THAN(x.time, list[i].time)}
           k == IF later = {} THEN n + 1 ELSE Min(later)
           D(i) == list[i].time
           X == x.time
<1>1. list \in Seq(TimerType) /\ DOMAIN list = 1 .. n
  BY GoodMeans, Zenon
<1>2. n \in Nat /\ \A i \in 1 .. n : D(i) \in Int /\ D(i) \in Numbers
  BY GoodMeans, TimerMeans, Zenon
<1>4. X \in Int /\ X \in Numbers
  BY TimerMeans, Zenon
<1>6. \A i, j \in 1 .. n : i < j => D(i) <= D(j)
  BY Zenon DEF Good
<1>8. \A i, j \in 1 .. n : list[i].h = list[j].h => i = j
  BY Zenon DEF Good
<1>11. \A i \in 1 .. n : TIME_LESS_THAN(x.time, list[i].time) <=> X < D(i)
  BY <1>2, <1>4, LessThan, Zenon
<1> HIDE DEF n, D, X
<1>12. later \subseteq 1 .. n /\ \A i \in 1 .. n : i \in later <=> X < D(i)
  BY <1>1, <1>11, Zenon
<1>13. r = Linked(list, k, x)
  BY Zenon DEF sys_timeout_abs, n
<1> HIDE DEF later
<1>14. /\ k \in 1 .. n + 1
       /\ \A i \in 1 .. n : (i < k => D(i) <= X) /\ (k <= i => X <= D(i))
  <2>1. CASE later = {}
    <3>1. k = n + 1
      BY <2>1, Zenon
    <3> HIDE DEF k
    <3> QED
      BY <1>2, <1>4, <1>12, <2>1, <3>1
  <2>2. CASE later # {}
    <3>1. later \subseteq Nat
      BY <1>2, <1>12
    <3>2. k \in later /\ \A i \in later : k <= i
      BY <2>2, <3>1, MinIs, Zenon
    <3> HIDE DEF k
    <3>3. k \in 1 .. n /\ X < D(k)
      BY <1>12, <3>2, Zenon
    <3>4. ASSUME NEW i \in 1 .. n, i < k PROVE D(i) <= X
      <4>1. ~(k <= i)
        BY <1>2, <3>3, <3>4
      <4>2. ~(X < D(i))
        BY <1>12, <3>2, <4>1, Zenon
      <4> QED
        BY <1>2, <1>4, <4>2
    <3>5. ASSUME NEW i \in 1 .. n, k <= i PROVE X <= D(i)
      <4>1. k < i \/ k = i
        BY <1>2, <3>3, <3>5
      <4>2. k = i \/ D(k) <= D(i)
        BY <1>6, <3>3, <4>1, Zenon
      <4>3. D(i) \in Int /\ D(k) \in Int
        BY <1>2, <3>3, Zenon
      <4> QED
        BY <1>4, <3>3, <4>2, <4>3
    <3> QED
      BY <1>2, <3>3, <3>4, <3>5
  <2> QED
    BY <2>1, <2>2, Zenon
<1> HIDE DEF k
<1>15. /\ r \in Seq(TimerType) /\ Len(r) = n + 1
       /\ \A j \in 1 .. n + 1 :
             /\ j < k => r[j] = list[j]
             /\ j = k => r[j] = x
             /\ j > k => r[j] = list[j - 1]
  <2>1. k \in 1 .. Len(list) + 1
    BY <1>14, Zenon DEF n
  <2>2. Inserted(r, list, k, x)
    BY <1>1, <1>13, <2>1, InsertedIs, Zenon
  <2> QED
    BY <2>2, Zenon DEF Inserted, n
<1>16. \A j \in 1 .. n + 1 :
         \/ j < k /\ j \in 1 .. n /\ r[j] = list[j]
         \/ j = k /\ r[j] = x
         \/ j > k /\ j - 1 \in 1 .. n /\ r[j] = list[j - 1]
  BY <1>2, <1>14, <1>15
<1> DEFINE E(j) == r[j].time
<1>17. \A j \in 1 .. n + 1 :
         \/ j < k /\ j \in 1 .. n /\ E(j) = D(j)
         \/ j = k /\ E(j) = X
         \/ j > k /\ j - 1 \in 1 .. n /\ E(j) = D(j - 1)
  BY <1>16, Zenon DEF D, X
<1> HIDE DEF E
<1>21. ASSUME NEW i \in 1 .. n + 1, NEW j \in 1 .. n + 1, i < j
       PROVE  E(i) <= E(j)
  BY <1>2, <1>4, <1>6, <1>14, <1>17, <1>21
<1>22. \A j \in 1 .. n + 1 : NotEarly(r[j], c, t)
  BY <1>16, Zenon DEF Good, n
<1>23. \A i \in 1 .. n : list[i].h # x.h
  BY Zenon DEF Has, n
<1>24. ASSUME NEW i \in 1 .. n + 1, NEW j \in 1 .. n + 1, r[i].h = r[j].h
       PROVE  i = j
  <2>1. CASE i = k \/ j = k
    <3>1. \A p \in 1 .. n + 1 : p # k => r[p].h # x.h
      BY <1>2, <1>14, <1>16, <1>23
    <3>2. r[k] = x
      BY <1>14, <1>15
    <3> QED
      BY <1>24, <2>1, <3>1, <3>2, Zenon
  <2>2. CASE i # k /\ j # k
    <3> DEFINE f(p) == IF p < k THEN p ELSE p - 1
    <3>1. \A p \in 1 .. n + 1 : p # k => f(p) \in 1 .. n /\ r[p] = list[f(p)]
      BY <1>2, <1>14, <1>16
    <3>2. f(i) = f(j)
      <4>1. f(i) \in 1 .. n /\ r[i] = list[f(i)]
        BY <2>2, <3>1, Zenon
      <4>2. f(j) \in 1 .. n /\ r[j] = list[f(j)]
        BY <2>2, <3>1, Zenon
      <4> HIDE DEF f
      <4> QED
        BY <1>8, <1>24, <4>1, <4>2, Zenon
    <3> QED
      BY <1>2, <1>14, <2>2, <3>2
  <2> QED
    BY <2>1, <2>2, Zenon
<1>25. Good(r, c, t)
  BY <1>15, <1>21, <1>22, <1>24, Zenon DEF Good, E
<1>26. ASSUME NEW h
       PROVE  Has(r, h) <=> Has(list, h) \/ h = x.h
  <2>1. ASSUME NEW i \in 1 .. n PROVE \E j \in 1 .. n + 1 : r[j] = list[i]
    <3>1. CASE i < k
      <4>1. i \in 1 .. n + 1
        BY <1>2
      <4> QED
        BY <1>15, <3>1, <4>1, Zenon
    <3>2. CASE ~(i < k)
      <4>1. i + 1 \in 1 .. n + 1 /\ i + 1 > k /\ (i + 1) - 1 = i
        BY <1>2, <1>14, <3>2
      <4> QED
        BY <1>15, <4>1, Zenon
    <3> QED
      BY <3>1, <3>2, Zenon
  <2>2. k \in 1 .. n + 1 /\ r[k] = x
    BY <1>14, <1>15
  <2>3. ASSUME NEW j \in 1 .. n + 1 PROVE r[j] = x \/ \E i \in 1 .. n : r[j] = list[i]
    BY <1>16, Zenon
  <2>4. ASSUME Has(list, h) \/ h = x.h PROVE Has(r, h)
    <3>1. Len(r) = n + 1
      BY <1>15, Zenon
    <3>2. \E j \in 1 .. n + 1 : r[j].h = h
      BY <2>1, <2>2, <2>4, Zenon DEF Has, n
    <3> QED
      BY <3>1, <3>2, Zenon DEF Has
  <2>5. ASSUME Has(r, h) PROVE Has(list, h) \/ h = x.h
    <3>1. PICK j \in 1 .. n + 1 : r[j].h = h
      BY <1>15, <2>5, Zenon DEF Has
    <3> QED
      BY <2>3, <3>1, Zenon DEF Has, n
  <2> QED
    BY <2>4, <2>5, Zenon
<1> QED
  BY <1>25, <1>26, Zenon DEF With

\* r holds the handlers of list but h.
OneLess(r, list, h) == \A g : Has(r, g) <=> Has(list, g) /\ g # h

\* A list without one of its timers.
LEMMA GoodRemove ==
    ASSUME NEW c, NEW t, NEW list, Good(list, c, t),
           NEW k \in 1 .. Len(list), NEW r, r = Unlinked(list, k)
    PROVE  Good(r, c, t) /\ OneLess(r, list, list[k].h)
<1> DEFINE n == Len(list)
           f(j) == IF j < k THEN j ELSE j + 1
<1>1. list \in Seq(TimerType) /\ n \in Nat
  BY GoodMeans, Zenon
<1>2. r \in Seq(TimerType) /\ Len(r) = n - 1
  BY <1>1, RemovedIs, Zenon
<1>3. \A j \in 1 .. n - 1 : r[j] = list[f(j)]
  <2>1. \A j \in 1 .. n - 1 : r[j] = IF j < k THEN list[j] ELSE list[j + 1]
    BY <1>1, RemovedIs, Zenon
  <2> QED
    BY <2>1, Zenon
<1> HIDE DEF n
<1>4. k \in 1 .. n
  BY Zenon DEF n
<1>5. /\ \A j \in 1 .. n - 1 : f(j) \in 1 .. n /\ f(j) # k
      /\ \A i, j \in 1 .. n - 1 : (i < j => f(i) < f(j)) /\ (f(i) = f(j) => i = j)
      /\ \A i \in 1 .. n : i # k => \E j \in 1 .. n - 1 : i = f(j)
  <2>1. ASSUME NEW i \in 1 .. n, i # k PROVE \E j \in 1 .. n - 1 : i = f(j)
    <3>1. CASE i < k
      <4>1. i \in 1 .. n - 1 /\ f(i) = i
        BY <1>1, <1>4, <3>1
      <4> QED
        BY <4>1, Zenon
    <3>2. CASE ~(i < k)
      <4>1. i - 1 \in 1 .. n - 1 /\ f(i - 1) = i
        BY <1>1, <1>4, <2>1, <3>2
      <4> QED
        BY <4>1, Zenon
    <3> QED
      BY <3>1, <3>2, Zenon
  <2>2. \A j \in 1 .. n - 1 : f(j) \in 1 .. n /\ f(j) # k
    BY <1>1, <1>4
  <2>3. \A i, j \in 1 .. n - 1 : (i < j => f(i) < f(j)) /\ (f(i) = f(j) => i = j)
    BY <1>1, <1>4
  <2> QED
    BY <2>1, <2>2, <2>3, Zenon
<1> HIDE DEF f
<1>6. Good(r, c, t)
  <2>1. \A i \in 1 .. n - 1 : NotEarly(r[i], c, t)
    BY <1>3, <1>5, Zenon DEF Good, n
  <2>2. ASSUME NEW i \in 1 .. n - 1, NEW j \in 1 .. n - 1
        PROVE  /\ i < j => r[i].time <= r[j].time
               /\ r[i].h = r[j].h => i = j
    <3>1. /\ f(i) < f(j) => list[f(i)].time <= list[f(j)].time
          /\ list[f(i)].h = list[f(j)].h => f(i) = f(j)
      BY <1>5, Zenon DEF Good, n
    <3>2. r[i] = list[f(i)] /\ r[j] = list[f(j)]
      BY <1>3, Zenon
    <3>3. (i < j => f(i) < f(j)) /\ (f(i) = f(j) => i = j)
      BY <1>5, Zenon
    <3> QED
      BY <3>1, <3>2, <3>3, Zenon
  <2> QED
    BY <1>2, <2>1, <2>2, Zenon DEF Good
<1>7. ASSUME NEW h PROVE Has(r, h) <=> Has(list, h) /\ h # list[k].h
  <2>1. \A i, j \in 1 .. n : list[i].h = list[j].h => i = j
    BY Zenon DEF Good, n
  <2>2. ASSUME Has(r, h) PROVE Has(list, h) /\ h # list[k].h
    <3>1. PICK j \in 1 .. n - 1 : r[j].h = h
      BY <1>2, <2>2, Zenon DEF Has
    <3>2. r[j] = list[f(j)] /\ f(j) \in 1 .. n /\ f(j) # k
      BY <1>3, <1>5, Zenon
    <3> QED
      BY <1>4, <2>1, <3>1, <3>2, Zenon DEF Has, n
  <2>3. ASSUME Has(list, h), h # list[k].h PROVE Has(r, h)
    <3>1. PICK i \in 1 .. n : list[i].h = h
      BY <2>3, Zenon DEF Has, n
    <3>2. PICK j \in 1 .. n - 1 : i = f(j)
      BY <1>5, <2>3, <3>1, Zenon
    <3> QED
      BY <1>2, <1>3, <3>1, <3>2, Zenon DEF Has
  <2> QED
    BY <2>2, <2>3, Zenon
<1> QED
  BY <1>6, <1>7, Zenon DEF OneLess

\* sys_untimeout takes the timer of its handler out of the list.
LEMMA GoodUntimeout ==
    ASSUME NEW c, NEW t, NEW list, Good(list, c, t), NEW h, NEW r, r = sys_untimeout(list, h)
    PROVE  Good(r, c, t) /\ OneLess(r, list, h)
<1> DEFINE I == {i \in DOMAIN list : list[i].h = h}
<1>0. DOMAIN list = 1 .. Len(list)
  BY GoodMeans, Zenon
<1>1. r = IF I = {} THEN list ELSE Unlinked(list, Min(I))
  BY Zenon DEF sys_untimeout
<1>2. CASE ~Has(list, h)
  BY <1>0, <1>1, <1>2, Zenon DEF Has, OneLess
<1>3. CASE Has(list, h)
  <2>1. I # {} /\ r = Unlinked(list, Min(I))
    BY <1>0, <1>1, <1>3, Zenon DEF Has
  <2>2. I \subseteq Nat
    BY <1>0
  <2>3. Min(I) \in I
    BY <2>1, <2>2, MinIs, Zenon
  <2>4. Min(I) \in 1 .. Len(list) /\ list[Min(I)].h = h
    BY <1>0, <2>3, Zenon
  <2> HIDE DEF I
  <2> QED
    BY <2>1, <2>4, GoodRemove, Zenon
<1> QED
  BY <1>2, <1>3, Zenon

\* Expire takes the first timer out of the list.
LEMMA GoodTail ==
    ASSUME NEW c, NEW t, NEW list, Good(list, c, t), list # <<>>
    PROVE  /\ Good(Tail(list), c, t)
           /\ OneLess(Tail(list), list, Head(list).h)
           /\ 1 \in 1 .. Len(list) /\ Head(list) = list[1]
<1>1. list \in Seq(TimerType) /\ Len(list) \in Nat
  BY GoodMeans, Zenon
<1>2. 1 \in 1 .. Len(list) /\ Head(list) = list[1]
  BY <1>1
<1>3. Tail(list) = Unlinked(list, 1)
  <2>1. SubSeq(list, 1, 0) = <<>> /\ SubSeq(list, 2, Len(list)) = Tail(list)
    BY <1>1
  <2>2. Tail(list) \in Seq(TimerType)
    BY <1>1
  <2>3. <<>> \o Tail(list) = Tail(list)
    BY <2>2
  <2> QED
    BY <2>1, <2>3 DEF Unlinked
<1> QED
  <2>1. Good(Tail(list), c, t)
    BY <1>2, <1>3, GoodRemove, Zenon
  <2>2. OneLess(Tail(list), list, Head(list).h)
    BY <1>2, <1>3, GoodRemove, Zenon
  <2> QED
    BY <1>2, <2>1, <2>2, Zenon

\* The clock goes on with time, or jumps back.
LEMMA GoodLater ==
    ASSUME NEW list, NEW c \in Int, NEW t \in Int, Good(list, c, t),
           NEW c2 \in Int, NEW t2 \in Int, c2 - c <= t2 - t
    PROVE  Good(list, c2, t2)
<1>1. \A i \in 1 .. Len(list) : NotEarly(list[i], c2, t2)
  <2> SUFFICES ASSUME NEW i \in 1 .. Len(list) PROVE NotEarly(list[i], c2, t2)
    BY Zenon
  <2>1. list[i] \in TimerType /\ NotEarly(list[i], c, t)
    BY GoodMeans, Zenon
  <2>2. list[i].due \in Int /\ list[i].time \in Int
    BY <2>1, TimerMeans, Zenon
  <2> QED
    BY <2>1, <2>2 DEF NotEarly
<1> QED
  BY <1>1, Zenon DEF Good

-----------------------------------------------------------------------------
(* The steps.                                                              *)

LEMMA Clock ==
    ASSUME TimeInv
    PROVE  /\ clock \in Int /\ time \in Int /\ since \in Int /\ clock \in Numbers
           /\ \A m \in Intervals : clock + m \in Numbers
<1>1. /\ time \in 0 .. MaxTime /\ clock \in 0 .. ClockPeriod - 1 /\ since \in Int
  BY Zenon DEF TimeInv
<1>2. ASSUME NEW m \in Intervals
      PROVE  clock + m \in Numbers /\ clock \in Numbers
  <2>1. m \in Nat /\ ClockPeriod + m <= LWIP_MAX_TIMEOUT + 1
    BY Bounds, Zenon
  <2> QED
    BY <1>1, <2>1, Bounds DEF Numbers
<1>3. TcpInterval \in Intervals
  BY Zenon DEF Intervals
<1> QED
  BY <1>1, <1>2, <1>3, Bounds

\* A timer that is set now.
LEMMA TimerIs ==
    ASSUME TimeInv, NEW h \in Handlers, NEW n \in Numbers
    PROVE  /\ Timer(h, n) \in TimerType /\ Timer(h, n).h = h
           /\ NotEarly(Timer(h, n), clock, time)
<1>1. clock \in Int /\ time \in Int
  BY Clock, Zenon
<1>2. n \in Int /\ n % Word = n
  BY NumberMod, Zenon
<1> DEFINE d == time + (n - clock)
<1>3. d \in Int /\ d - time <= n - clock
  BY <1>1, <1>2
<1>4. Timer(h, n) = [h |-> h, time |-> n, due |-> d]
  BY <1>2, Zenon DEF Timer, sys_now
<1> HIDE DEF d
<1>5. Timer(h, n) \in TimerType
  BY <1>3, <1>4 DEF TimerType
<1>6. Timer(h, n).h = h /\ Timer(h, n).due = d /\ Timer(h, n).time = n
  BY <1>4
<1> QED
  BY <1>3, <1>5, <1>6, Zenon DEF NotEarly

\* What sys_timeout_abs makes of the list with a timer of h that has none.
Outcome(r, h) == r = next_timeout \/ With(r, next_timeout, h, clock, time)

LEMMA SysTimeout ==
    ASSUME TimeInv, Good(next_timeout, clock, time),
           NEW h \in Handlers, ~Has(next_timeout, h), NEW m \in Intervals,
           NEW r \in sys_timeout(next_timeout, m, h)
    PROVE  Outcome(r, h)
<1>1. clock + m \in Numbers
  BY Clock, Zenon
<1> DEFINE x == Timer(h, clock + m)
<1>2. x \in TimerType /\ x.h = h /\ NotEarly(x, clock, time)
  BY <1>1, TimerIs, Zenon
<1>3. r \in sys_timeout_abs(next_timeout, x)
  BY Zenon DEF sys_timeout, sys_now
<1> HIDE DEF x
<1> QED
  BY <1>2, <1>3, GoodInsert, Zenon DEF Outcome

\* A cyclic timer is set again, for its interval after its number, or after now.
LEMMA CyclicTimer ==
    ASSUME TimersInv, at = "handler", current.h \in DOMAIN Cyclic,
           NEW r \in lwip_cyclic_timer(current.h)
    PROVE  Outcome(r, current.h)
<1> DEFINE h == current.h
           m == Cyclic[h]
           n == current.time
           next == (n + m) % Word
<1>1. TimeInv /\ Good(next_timeout, clock, time)
  BY Zenon DEF TimersInv
<1>2. current \in TimerType /\ n <= now
  BY Zenon DEF TimersInv, CurrentInv
<1>3. h \in Handlers /\ ~Has(next_timeout, h) /\ m \in Intervals
  BY TimeoutsAssumption, Zenon DEF TimersInv, CurrentInv, Handlers, Intervals
<1>4. now \in 0 .. ClockPeriod - 1
  BY <1>1, Zenon DEF TimeInv
<1>5. n \in Int /\ n \in Numbers
  BY <1>2, TimerMeans, Zenon
<1>6. m \in Nat /\ ClockPeriod + m <= LWIP_MAX_TIMEOUT + 1
  BY <1>3, Bounds, Zenon
<1>7. r \in IF TIME_LESS_THAN(next, sys_now) THEN sys_timeout(next_timeout, m, h)
            ELSE sys_timeout_abs(next_timeout, Timer(h, next))
  BY Zenon DEF lwip_cyclic_timer
<1> HIDE DEF h, m, n
<1>8. n + m \in Numbers
  BY <1>2, <1>4, <1>5, <1>6, Bounds DEF Numbers
<1>9. next \in Numbers
  BY <1>8, NumberMod, Zenon
<1> HIDE DEF next
<1>11. CASE TIME_LESS_THAN(next, sys_now)
  <2>1. r \in sys_timeout(next_timeout, m, h)
    BY <1>7, <1>11, Zenon
  <2> QED
    BY <1>1, <1>3, <2>1, SysTimeout, Zenon DEF h
<1>12. CASE ~TIME_LESS_THAN(next, sys_now)
  <2> DEFINE x == Timer(h, next)
  <2>1. x \in TimerType /\ x.h = h /\ NotEarly(x, clock, time)
    BY <1>1, <1>3, <1>9, TimerIs, Zenon
  <2>2. r \in sys_timeout_abs(next_timeout, x)
    BY <1>7, <1>12, Zenon
  <2> HIDE DEF x
  <2> QED
    BY <1>1, <1>3, <2>1, <2>2, GoodInsert, Zenon DEF Outcome, h
<1> QED
  BY <1>11, <1>12, Zenon

\* The timer of a handler that goes on is in the list, or lost.
StartedOr(h) ==
    \/ UNCHANGED next_timeout /\ lost' = lost \cup {h}
    \/ With(next_timeout', next_timeout, h, clock, time) /\ UNCHANGED lost

LEMMA StartedIs ==
    ASSUME NEW lists, NEW h, ~Has(next_timeout, h), Started(h, lists),
           \A r \in lists : Outcome(r, h)
    PROVE  StartedOr(h)
<1>1. Outcome(next_timeout', h) /\ lost' = IF next_timeout' = next_timeout THEN lost \cup {h} ELSE lost
  BY Zenon DEF Started
<1>2. CASE next_timeout' = next_timeout
  BY <1>1, <1>2, Zenon DEF StartedOr
<1>3. CASE next_timeout' # next_timeout
  BY <1>1, <1>3, Zenon DEF StartedOr, Outcome
<1> QED
  BY <1>2, <1>3, Zenon

\* What that does to the list, whatever the step does to the rest.
LEMMA StartedMeans ==
    ASSUME Good(next_timeout, clock, time), NEW h, StartedOr(h),
           clock' = clock, time' = time
    PROVE  /\ Good(next_timeout', clock', time')
           /\ \A g : g # h => (Has(next_timeout', g) <=> Has(next_timeout, g)) /\ (g \in lost' <=> g \in lost)
           /\ \/ h \in lost' /\ (Has(next_timeout', h) <=> Has(next_timeout, h))
              \/ (h \in lost' <=> h \in lost) /\ Has(next_timeout', h)
<1>1. CASE UNCHANGED next_timeout /\ lost' = lost \cup {h}
  <2>1. Good(next_timeout', clock', time')
    BY <1>1, Zenon
  <2>2. \A g : Has(next_timeout', g) <=> Has(next_timeout, g)
    BY <1>1, Zenon
  <2>3. h \in lost' /\ \A g : g # h => (g \in lost' <=> g \in lost)
    BY <1>1, Zenon
  <2> QED
    BY <2>1, <2>2, <2>3, Zenon
<1>2. CASE With(next_timeout', next_timeout, h, clock, time) /\ UNCHANGED lost
  <2>1. Good(next_timeout', clock', time')
    BY <1>2, Zenon DEF With
  <2>2. \A g : Has(next_timeout', g) <=> Has(next_timeout, g) \/ g = h
    BY <1>2, Zenon DEF With
  <2>3. \A g : g \in lost' <=> g \in lost
    BY <1>2, Zenon
  <2> QED
    BY <2>1, <2>2, <2>3, Zenon
<1> QED
  BY <1>1, <1>2, Zenon DEF StartedOr

LEMMA IsSetHas ==
    ASSUME Good(next_timeout, clock, time), NEW h
    PROVE  IsSet(h) <=> Has(next_timeout, h)
BY GoodMeans, Zenon DEF IsSet, Has

\* A step that takes no time.
LEMMA SameTime ==
    ASSUME TimeInv, UNCHANGED <<time, clock, since, now>>,
           at' \in {"boot", "main", "check", "handler"},
           at' \in {"check", "handler"} => at \in {"check", "handler"}
    PROVE  TimeInv'
BY Zenon DEF TimeInv

LEMMA BootStep ==
    ASSUME TimersInv, NEW h \in DOMAIN Cyclic, sys_timeouts_init(h)
    PROVE  TimersInv'
<1>1. /\ at = "boot" /\ ~IsSet(h) /\ h \notin lost
      /\ Started(h, sys_timeout(next_timeout, Cyclic[h], h))
      /\ UNCHANGED <<time, clock, tcp_timer_active, tcp_pcbs, at, now, current, since>>
  BY Zenon DEF sys_timeouts_init
<1>2. TimeInv /\ Good(next_timeout, clock, time)
  BY Zenon DEF TimersInv
<1>3. h \in Handlers /\ Cyclic[h] \in Intervals /\ h # "tcp"
  BY TimeoutsAssumption, Zenon DEF Handlers, Intervals
<1>4. ~Has(next_timeout, h)
  BY <1>1, <1>2, IsSetHas, Zenon
<1>5. StartedOr(h)
  BY <1>1, <1>2, <1>3, <1>4, SysTimeout, StartedIs, Zenon
<1>6. /\ Good(next_timeout', clock', time')
      /\ \A g : g # h => (Has(next_timeout', g) <=> Has(next_timeout, g)) /\ (g \in lost' <=> g \in lost)
      /\ \/ h \in lost' /\ (Has(next_timeout', h) <=> Has(next_timeout, h))
         \/ (h \in lost' <=> h \in lost) /\ Has(next_timeout', h)
  BY <1>1, <1>2, <1>5, StartedMeans, Zenon
<1>7. TimeInv'
  BY <1>1, <1>2, SameTime, Zenon DEF TimeInv
<1>8. CurrentInv'
  BY <1>1, Zenon DEF CurrentInv
<1>9. GoesOn'
  <2>1. \A g \in Lasting : g \in lost => ~Has(next_timeout, g)
    BY Zenon DEF TimersInv, GoesOn
  <2>2. \A g \in Lasting : g \in lost' => ~Has(next_timeout', g)
    BY <1>1, <1>4, <1>6, <2>1, Zenon
  <2>3. \A g : ~Handling(g) /\ ~Handling(g)'
    BY <1>1, Zenon DEF Handling
  <2> QED
    BY <1>1, <1>3, <1>6, <2>2, <2>3, Zenon DEF TimersInv, GoesOn
<1> QED
  BY <1>6, <1>7, <1>8, <1>9, Zenon DEF TimersInv

LEMMA StartStep ==
    ASSUME TimersInv, timer_init
    PROVE  TimersInv'
<1>1. /\ at = "boot" /\ (\A h \in DOMAIN Cyclic : IsSet(h) \/ h \in lost) /\ clock' = 0 /\ at' = "main"
      /\ UNCHANGED <<time, next_timeout, tcp_timer_active, tcp_pcbs, lost, now, current, since>>
  BY Zenon DEF timer_init
<1>2. TimeInv /\ Good(next_timeout, clock, time)
  BY Zenon DEF TimersInv
<1>3. clock' \in 0 .. ClockPeriod - 1 /\ clock' \in Int /\ clock' - clock <= time - time
  BY <1>1, <1>2, Bounds DEF TimeInv
<1>4. TimeInv'
  BY <1>1, <1>2, <1>3, Zenon DEF TimeInv
<1>5. clock \in Int /\ time \in Int
  BY <1>2, Clock, Zenon
<1>6. Good(next_timeout', clock', time')
  BY <1>1, <1>2, <1>3, <1>5, GoodLater, Zenon
<1>7. CurrentInv'
  BY <1>1, Zenon DEF CurrentInv
<1>8. GoesOn'
  <2>1. \A h \in DOMAIN Cyclic : h \in lost \/ Has(next_timeout, h)
    BY <1>1, <1>2, IsSetHas, Zenon
  <2> QED
    BY <1>1, <2>1, Zenon DEF TimersInv, GoesOn, Handling
<1> QED
  BY <1>4, <1>6, <1>7, <1>8, Zenon DEF TimersInv

LEMMA TickStep ==
    ASSUME TimersInv, Tick
    PROVE  TimersInv'
<1>1. /\ time < MaxTime /\ at \in {"main", "handler"} /\ time' = time + 1
      /\ clock' = IF clock + 1 = ClockPeriod THEN 0 ELSE clock + 1
      /\ UNCHANGED <<next_timeout, tcp_timer_active, tcp_pcbs, at, lost, now, current, since>>
  BY Zenon DEF Tick
<1>2. TimeInv /\ Good(next_timeout, clock, time)
  BY Zenon DEF TimersInv
<1>3. time \in 0 .. MaxTime /\ clock \in 0 .. ClockPeriod - 1 /\ clock \in Int /\ time \in Int /\ since \in Int
  BY <1>2, Clock, Zenon DEF TimeInv
<1>4. /\ time' \in 0 .. MaxTime /\ clock' \in 0 .. ClockPeriod - 1 /\ clock' \in Int /\ time' \in Int
      /\ clock' - clock <= time' - time
  BY <1>1, <1>3, Bounds
<1>5. TimeInv'
  <2>1. at \in {"check", "handler"} =>
          now \in 0 .. ClockPeriod - 1 /\ since - now <= time' - clock'
    <3>1. at \in {"check", "handler"} =>
            now \in 0 .. ClockPeriod - 1 /\ since - now <= time - clock
      BY <1>2, Zenon DEF TimeInv
    <3>2. /\ clock \in Int /\ time \in Int /\ since \in Int /\ clock' \in Int /\ time' \in Int
          /\ clock' - clock <= time' - time
      BY <1>3, <1>4, Zenon
    <3>4. \A k \in Int : since - k <= time - clock => since - k <= time' - clock'
      <4>1. \A c, t, c2, t2, s, k \in Int : c2 - c <= t2 - t /\ s - k <= t - c => s - k <= t2 - c2
        OBVIOUS
      <4> QED
        BY <3>2, <4>1, Zenon
    <3>3. \A k \in 0 .. ClockPeriod - 1 : k \in Int
      BY Bounds
    <3> QED
      BY <3>1, <3>3, <3>4, Zenon
  <2> QED
    BY <1>1, <1>2, <1>4, <2>1, Zenon DEF TimeInv
<1>6. Good(next_timeout', clock', time')
  BY <1>1, <1>2, <1>3, <1>4, GoodLater, Zenon
<1>7. CurrentInv' /\ GoesOn'
  BY <1>1, Zenon DEF TimersInv, CurrentInv, GoesOn, Handling
<1> QED
  BY <1>5, <1>6, <1>7, Zenon DEF TimersInv

\* The application sets or cancels timers while sys_check_timeouts is at the same place.
LEMMA SetStep ==
    ASSUME TimersInv, NEW h \in OneShot, Set(h)
    PROVE  TimersInv'
<1>1. /\ at \in {"main", "handler"} /\ ~IsSet(h)
      /\ \E m \in Msecs : next_timeout' \in sys_timeout(next_timeout, m, h)
      /\ UNCHANGED <<time, clock, tcp_timer_active, tcp_pcbs, at, lost, now, current, since>>
  BY Zenon DEF Set
<1>2. TimeInv /\ Good(next_timeout, clock, time)
  BY Zenon DEF TimersInv
<1>3. h \in Handlers /\ Msecs \subseteq Intervals /\ h # "tcp" /\ h \notin DOMAIN Cyclic
  BY TimeoutsAssumption, Zenon DEF Handlers, Intervals
<1>4. PICK m \in Msecs : next_timeout' \in sys_timeout(next_timeout, m, h)
  BY <1>1, Zenon
<1>5. ~Has(next_timeout, h) /\ m \in Intervals
  BY <1>1, <1>2, <1>3, IsSetHas, Zenon
<1>6. Outcome(next_timeout', h)
  BY <1>2, <1>3, <1>4, <1>5, SysTimeout, Zenon
<1>7. TimeInv'
  BY <1>1, <1>2, SameTime, Zenon DEF TimeInv
<1>8. Good(next_timeout', clock', time') /\ \A g : g # h => (Has(next_timeout', g) <=> Has(next_timeout, g))
  BY <1>1, <1>2, <1>6, Zenon DEF Outcome, With
<1>10. CurrentInv'
  BY <1>1, <1>8, Zenon DEF TimersInv, CurrentInv
<1>11. GoesOn'
  <2>1. h \notin Lasting
    BY <1>3, Zenon DEF Lasting
  <2> QED
    BY <1>1, <1>3, <1>8, <2>1, Zenon DEF TimersInv, GoesOn, Handling
<1> QED
  BY <1>7, <1>8, <1>10, <1>11, Zenon DEF TimersInv

LEMMA CancelStep ==
    ASSUME TimersInv, NEW h \in OneShot, Cancel(h)
    PROVE  TimersInv'
<1>1. /\ at \in {"main", "handler"} /\ next_timeout' = sys_untimeout(next_timeout, h)
      /\ UNCHANGED <<time, clock, tcp_timer_active, tcp_pcbs, at, lost, now, current, since>>
  BY Zenon DEF Cancel
<1>2. TimeInv /\ Good(next_timeout, clock, time)
  BY Zenon DEF TimersInv
<1>3. h # "tcp" /\ h \notin DOMAIN Cyclic
  BY TimeoutsAssumption, Zenon
<1>4. Good(next_timeout', clock', time')
  BY <1>1, <1>2, GoodUntimeout, Zenon
<1>5. \A g : Has(next_timeout', g) <=> Has(next_timeout, g) /\ g # h
  <2>1. OneLess(next_timeout', next_timeout, h)
    BY <1>1, <1>2, GoodUntimeout, Zenon
  <2> QED
    BY <2>1, Zenon DEF OneLess
<1>6. TimeInv'
  BY <1>1, <1>2, SameTime, Zenon DEF TimeInv
<1>8. CurrentInv'
  BY <1>1, <1>5, Zenon DEF TimersInv, CurrentInv
<1>9. GoesOn'
  BY <1>1, <1>3, <1>5, Zenon DEF TimersInv, GoesOn, Handling
<1> QED
  BY <1>4, <1>6, <1>8, <1>9, Zenon DEF TimersInv

LEMMA TcpStep ==
    ASSUME TimersInv, tcp_timer_needed
    PROVE  TimersInv'
<1>1. /\ at \in {"main", "handler"} /\ tcp_pcbs' = TRUE /\ tcp_timer_active' = TRUE
      /\ IF tcp_timer_active THEN UNCHANGED <<next_timeout, lost>>
         ELSE Started("tcp", sys_timeout(next_timeout, TcpInterval, "tcp"))
      /\ UNCHANGED <<time, clock, at, now, current, since>>
  BY Zenon DEF tcp_timer_needed
<1>2. TimeInv /\ Good(next_timeout, clock, time)
  BY Zenon DEF TimersInv
<1>3. TimeInv'
  BY <1>1, <1>2, SameTime, Zenon DEF TimeInv
<1>4. CASE tcp_timer_active
  <2>1. next_timeout' = next_timeout /\ lost' = lost
    BY <1>1, <1>4, Zenon
  <2>2. Good(next_timeout', clock', time')
    BY <1>1, <1>2, <2>1, Zenon
  <2>3. CurrentInv'
    BY <1>1, <2>1, Zenon DEF TimersInv, CurrentInv
  <2>4. GoesOn'
    BY <1>1, <1>4, <2>1, Zenon DEF TimersInv, GoesOn, Handling
  <2> QED
    BY <1>3, <2>2, <2>3, <2>4, Zenon DEF TimersInv
<1>5. CASE ~tcp_timer_active
  <2>1. "tcp" \in Handlers /\ TcpInterval \in Intervals /\ "tcp" \notin DOMAIN Cyclic
    BY TimeoutsAssumption, Zenon DEF Handlers, Intervals
  <2>2. ~Has(next_timeout, "tcp") /\ ~Handling("tcp") /\ "tcp" \notin lost
    BY <1>5, Zenon DEF TimersInv, GoesOn
  <2>3. StartedOr("tcp")
    BY <1>1, <1>2, <1>5, <2>1, <2>2, SysTimeout, StartedIs, Zenon
  <2>4. /\ Good(next_timeout', clock', time')
        /\ \A g : g # "tcp" => (Has(next_timeout', g) <=> Has(next_timeout, g)) /\ (g \in lost' <=> g \in lost)
        /\ \/ "tcp" \in lost' /\ (Has(next_timeout', "tcp") <=> Has(next_timeout, "tcp"))
           \/ ("tcp" \in lost' <=> "tcp" \in lost) /\ Has(next_timeout', "tcp")
    BY <1>1, <1>2, <2>3, StartedMeans, Zenon
  <2>5. \A g : Handling(g)' <=> Handling(g)
    BY <1>1, Zenon DEF Handling
  <2>6. CurrentInv'
    BY <1>1, <2>2, <2>4, Zenon DEF TimersInv, CurrentInv, Handling
  <2>7. GoesOn'
    <3>1. \A g \in Lasting : g \in lost' => ~Has(next_timeout', g) /\ ~Handling(g)'
      BY <2>2, <2>4, <2>5, Zenon DEF TimersInv, GoesOn
    <3>2. at' # "boot" =>
            \A g \in DOMAIN Cyclic : g \in lost' \/ Has(next_timeout', g) \/ Handling(g)'
      BY <1>1, <2>1, <2>4, <2>5, Zenon DEF TimersInv, GoesOn
    <3> QED
      BY <1>1, <2>4, <3>1, <3>2, Zenon DEF GoesOn
  <2> QED
    BY <1>3, <2>4, <2>6, <2>7, Zenon DEF TimersInv
<1> QED
  BY <1>4, <1>5, Zenon

LEMMA GoneStep ==
    ASSUME TimersInv, PcbsGone
    PROVE  TimersInv'
<1>1. /\ tcp_pcbs' = FALSE
      /\ UNCHANGED <<time, clock, next_timeout, tcp_timer_active, at, lost, now, current, since>>
  BY Zenon DEF PcbsGone
<1>2. TimeInv /\ Good(next_timeout, clock, time)
  BY Zenon DEF TimersInv
<1>3. TimeInv' /\ Good(next_timeout', clock', time')
  BY <1>1, <1>2, SameTime, Zenon DEF TimeInv
<1>5. CurrentInv'
  BY <1>1, Zenon DEF TimersInv, CurrentInv
<1>6. GoesOn'
  BY <1>1, Zenon DEF TimersInv, GoesOn, Handling
<1> QED
  BY <1>3, <1>5, <1>6, Zenon DEF TimersInv

LEMMA CheckStep ==
    ASSUME TimersInv, sys_check_timeouts
    PROVE  TimersInv'
<1>1. /\ at = "main" /\ at' = "check" /\ now' = clock /\ since' = time
      /\ UNCHANGED <<time, clock, next_timeout, tcp_timer_active, tcp_pcbs, lost, current>>
  BY Zenon DEF sys_check_timeouts, sys_now
<1>2. TimeInv /\ Good(next_timeout, clock, time)
  BY Zenon DEF TimersInv
<1>3. time \in Int /\ clock \in Int /\ time - clock <= time - clock
  BY <1>2, Clock
<1>4. TimeInv'
  BY <1>1, <1>2, <1>3, Zenon DEF TimeInv
<1>5. Good(next_timeout', clock', time')
  BY <1>1, <1>2, Zenon
<1>6. CurrentInv' /\ GoesOn'
  BY <1>1, Zenon DEF TimersInv, CurrentInv, GoesOn, Handling
<1> QED
  BY <1>4, <1>5, <1>6, Zenon DEF TimersInv

\* How sys_check_timeouts sees the first timer.
LEMMA First ==
    ASSUME TimersInv, at = "check", next_timeout # <<>>
    PROVE  /\ 1 \in 1 .. Len(next_timeout) /\ Head(next_timeout) = next_timeout[1]
           /\ Head(next_timeout) \in TimerType /\ NotEarly(Head(next_timeout), clock, time)
           /\ now \in Int
           /\ TIME_LESS_THAN(now, Head(next_timeout).time) <=> now < Head(next_timeout).time
<1> DEFINE x == Head(next_timeout)
<1>1. TimeInv /\ Good(next_timeout, clock, time)
  BY Zenon DEF TimersInv
<1>2. 1 \in 1 .. Len(next_timeout) /\ x = next_timeout[1]
  BY <1>1, GoodTail, Zenon
<1>3. x \in TimerType /\ NotEarly(x, clock, time)
  BY <1>1, <1>2, GoodMeans, Zenon
<1>4. x.time \in Numbers
  BY <1>3, TimerMeans, Zenon
<1>5. now \in Numbers /\ now \in Int
  <2>1. now \in 0 .. ClockPeriod - 1
    BY <1>1, Zenon DEF TimeInv
  <2>2. TcpInterval \in Nat /\ ClockPeriod + TcpInterval <= LWIP_MAX_TIMEOUT + 1
    BY Bounds, Zenon DEF Intervals
  <2> QED
    BY <2>1, <2>2, Bounds DEF Numbers
<1> HIDE DEF x
<1>6. TIME_LESS_THAN(now, x.time) <=> now < x.time
  BY <1>4, <1>5, LessThan, Zenon
<1> QED
  BY <1>2, <1>3, <1>5, <1>6, Zenon DEF x

LEMMA ExpireStep ==
    ASSUME TimersInv, Expire
    PROVE  TimersInv' /\ (Steady => current'.due <= since)
<1>1. /\ at = "check" /\ next_timeout # <<>> /\ ~TIME_LESS_THAN(now, Head(next_timeout).time)
      /\ current' = Head(next_timeout) /\ next_timeout' = Tail(next_timeout) /\ at' = "handler"
      /\ UNCHANGED <<time, clock, tcp_timer_active, tcp_pcbs, lost, now, since>>
  BY Zenon DEF Expire
<1>2. TimeInv /\ Good(next_timeout, clock, time)
  BY Zenon DEF TimersInv
<1>3. TimeInv'
  BY <1>1, <1>2, SameTime, Zenon DEF TimeInv
<1>4. Good(next_timeout', clock', time')
  BY <1>1, <1>2, GoodTail, Zenon
<1>5. \A g : Has(next_timeout', g) <=> Has(next_timeout, g) /\ g # current'.h
  <2>1. OneLess(Tail(next_timeout), next_timeout, Head(next_timeout).h)
    BY <1>1, <1>2, GoodTail, Zenon
  <2> QED
    BY <1>1, <2>1, Zenon DEF OneLess
<1>6. Has(next_timeout, current'.h)
  <2>1. 1 \in 1 .. Len(next_timeout) /\ current' = next_timeout[1]
    BY <1>1, First, Zenon
  <2> QED
    BY <2>1, Zenon DEF Has
<1>7. /\ current' \in TimerType /\ NotEarly(current', clock, time)
      /\ now \in Int /\ ~(now < current'.time)
  BY <1>1, First, Zenon
<1>8. current'.time \in Int /\ current'.due \in Int
  BY <1>7, TimerMeans, Zenon
<1>9. current'.time <= now
  BY <1>7, <1>8
<1>10. Steady => current'.due <= since
  <2>1. clock \in Int /\ time \in Int /\ since \in Int
    BY <1>2, Clock, Zenon
  <2> QED
    BY <1>7, <1>8, <1>9, <2>1 DEF NotEarly, Steady, sys_now
<1>11. CurrentInv'
  BY <1>1, <1>5, <1>7, <1>9, Zenon DEF CurrentInv
<1>12. GoesOn'
  <2>1. \A g : Has(next_timeout, g) <=> Has(next_timeout', g) \/ current'.h = g
    BY <1>5, <1>6, Zenon
  <2>2. \A g : ~Handling(g) /\ (Handling(g)' <=> current'.h = g)
    BY <1>1, Zenon DEF Handling
  <2> QED
    BY <1>1, <2>1, <2>2, Zenon DEF TimersInv, GoesOn
<1> QED
  BY <1>3, <1>4, <1>10, <1>11, <1>12, Zenon DEF TimersInv

LEMMA DoneStep ==
    ASSUME TimersInv, CheckDone
    PROVE  /\ TimersInv'
           /\ \A i \in DOMAIN next_timeout :
                 InStep(next_timeout[i]) => next_timeout[i].due > since
<1>1. /\ at = "check" /\ at' = "main"
      /\ next_timeout # <<>> => TIME_LESS_THAN(now, Head(next_timeout).time)
      /\ UNCHANGED <<time, clock, next_timeout, tcp_timer_active, tcp_pcbs, lost, current, since>>
  BY Zenon DEF CheckDone
<1>2. TimeInv /\ Good(next_timeout, clock, time)
  BY Zenon DEF TimersInv
<1> DEFINE l == Len(next_timeout)
           D(i) == next_timeout[i].time
<1>3. next_timeout \in Seq(TimerType) /\ l \in Nat /\ DOMAIN next_timeout = 1 .. l
  BY <1>2, GoodMeans, Zenon
<1>4. \A i \in 1 .. l : D(i) \in Int /\ next_timeout[i].due \in Int
  BY <1>2, GoodMeans, TimerMeans, Zenon
<1>5. \A i, j \in 1 .. l : i < j => D(i) <= D(j)
  BY <1>2, Zenon DEF Good
<1>6. since \in Int /\ time \in Int /\ clock \in Int /\ since - now <= time - clock
  BY <1>1, <1>2, Clock, Zenon DEF TimeInv
<1>7. l # 0 => 1 \in 1 .. l /\ now < D(1) /\ now \in Int
  <2> SUFFICES ASSUME l # 0 PROVE 1 \in 1 .. l /\ now < D(1) /\ now \in Int
    BY Zenon
  <2>1. next_timeout # <<>>
    BY <1>3
  <2> QED
    BY <1>1, <2>1, First, Zenon
<1> HIDE DEF l, D
<1>8. ASSUME NEW i \in 1 .. l, InStep(next_timeout[i])
      PROVE  next_timeout[i].due > since
  <2>1. l # 0 /\ (1 < i \/ i = 1)
    BY <1>3
  <2>2. D(1) \in Int /\ D(i) \in Int /\ now < D(1) /\ now \in Int /\ (1 < i => D(1) <= D(i))
    BY <1>4, <1>5, <1>7, <2>1, Zenon
  <2>3. now < D(i)
    BY <2>1, <2>2
  <2>4. D(i) - clock = next_timeout[i].due - time /\ next_timeout[i].due \in Int
    BY <1>4, <1>8, Zenon DEF InStep, sys_now, D
  <2> QED
    BY <1>6, <2>2, <2>3, <2>4
<1>9. TimeInv'
  BY <1>1, <1>2, Zenon DEF TimeInv
<1>10. Good(next_timeout', clock', time')
  BY <1>1, <1>2, Zenon
<1>11. CurrentInv' /\ GoesOn'
  BY <1>1, Zenon DEF TimersInv, CurrentInv, GoesOn, Handling
<1> QED
  BY <1>3, <1>8, <1>9, <1>10, <1>11, Zenon DEF TimersInv

LEMMA HandlerStep ==
    ASSUME TimersInv, HandlerDone
    PROVE  TimersInv'
<1>1. at = "handler" /\ at' = "check" /\ UNCHANGED <<time, clock, tcp_pcbs, now, since>>
  BY Zenon DEF HandlerDone
<1>2. TimeInv /\ Good(next_timeout, clock, time)
  BY Zenon DEF TimersInv
<1>3. TimeInv'
  BY <1>1, <1>2, SameTime, Zenon DEF TimeInv
<1>4. CurrentInv'
  BY <1>1, Zenon DEF CurrentInv
<1>5. current \in TimerType /\ (current.h \notin OneShot => ~Has(next_timeout, current.h))
  BY <1>1, Zenon DEF TimersInv, CurrentInv
<1>6. current.h \in Handlers
  BY <1>5, TimerMeans, Zenon
<1>7. \A h : ~Handling(h)' /\ (Handling(h) <=> h = current.h)
  BY <1>1, Zenon DEF Handling
<1>8. CASE current.h = "tcp"
  <2>1. TcpTimerDone
    <3>1. current.h \notin DOMAIN Cyclic /\ current.h \notin OneShot
      BY <1>8, TimeoutsAssumption, Zenon
    <3> QED
      BY <1>8, <3>1, Zenon DEF HandlerDone
  <2>2. /\ IF tcp_pcbs THEN Started("tcp", sys_timeout(next_timeout, TcpInterval, "tcp"))
           ELSE UNCHANGED <<next_timeout, lost>>
        /\ tcp_timer_active' = tcp_pcbs
    BY <2>1, Zenon DEF TcpTimerDone
  <2>3. ~Has(next_timeout, "tcp") /\ "tcp" \notin DOMAIN Cyclic /\ "tcp" \notin lost
    BY <1>5, <1>7, <1>8, TimeoutsAssumption, Zenon DEF TimersInv, GoesOn, Lasting
  <2>4. CASE tcp_pcbs
    <3>1. StartedOr("tcp")
      <4>1. "tcp" \in Handlers /\ TcpInterval \in Intervals
        BY Zenon DEF Handlers, Intervals
      <4> QED
        BY <1>2, <2>2, <2>3, <2>4, <4>1, SysTimeout, StartedIs, Zenon
    <3>2. /\ Good(next_timeout', clock', time')
          /\ \A g : g # "tcp" => (Has(next_timeout', g) <=> Has(next_timeout, g)) /\ (g \in lost' <=> g \in lost)
          /\ \/ "tcp" \in lost' /\ (Has(next_timeout', "tcp") <=> Has(next_timeout, "tcp"))
             \/ ("tcp" \in lost' <=> "tcp" \in lost) /\ Has(next_timeout', "tcp")
      BY <1>1, <1>2, <3>1, StartedMeans, Zenon
    <3>3. \A g \in Lasting : g \in lost' => ~Has(next_timeout', g)
      BY <2>3, <3>2, Zenon DEF TimersInv, GoesOn
    <3>4. \A g \in DOMAIN Cyclic : g \in lost' \/ Has(next_timeout', g)
      BY <1>1, <1>7, <1>8, <2>3, <3>2, Zenon DEF TimersInv, GoesOn
    <3>5. GoesOn'
      BY <1>1, <1>7, <2>2, <2>4, <3>2, <3>3, <3>4, Zenon DEF TimersInv, GoesOn
    <3> QED
      BY <1>3, <1>4, <3>2, <3>5, Zenon DEF TimersInv
  <2>5. CASE ~tcp_pcbs
    <3>1. next_timeout' = next_timeout /\ lost' = lost
      BY <2>2, <2>5, Zenon
    <3>2. Good(next_timeout', clock', time')
      BY <1>1, <1>2, <3>1, Zenon
    <3>4. \A g \in Lasting : g \in lost' => ~Has(next_timeout', g)
      BY <3>1, Zenon DEF TimersInv, GoesOn
    <3>5. \A g \in DOMAIN Cyclic : g \in lost' \/ Has(next_timeout', g)
      BY <1>1, <1>7, <1>8, <2>3, <3>1, Zenon DEF TimersInv, GoesOn
    <3>6. tcp_pcbs' = tcp_pcbs /\ tcp_pcbs = FALSE /\ tcp_timer_active' = FALSE
      BY <1>1, <2>2, <2>5, Zenon DEF TimersInv, GoesOn
    <3>7. ~("tcp" \in lost' \/ Has(next_timeout', "tcp") \/ Handling("tcp")')
      BY <1>7, <2>3, <3>1, Zenon
    <3>3. GoesOn'
      BY <1>7, <3>4, <3>5, <3>6, <3>7, Zenon DEF GoesOn
    <3> QED
      BY <1>3, <1>4, <3>2, <3>3, Zenon DEF TimersInv
  <2> QED
    BY <2>4, <2>5, Zenon
<1>9. CASE current.h \in DOMAIN Cyclic
  <2>1. current.h # "tcp" /\ ~Has(next_timeout, current.h) /\ current.h \notin lost
    BY <1>5, <1>7, <1>9, TimeoutsAssumption, Zenon DEF TimersInv, GoesOn, Lasting
  <2>2. Started(current.h, lwip_cyclic_timer(current.h)) /\ tcp_timer_active' = tcp_timer_active
    <3>1. current.h \notin OneShot
      BY <1>9, TimeoutsAssumption, Zenon
    <3> QED
      BY <1>9, <2>1, <3>1, Zenon DEF HandlerDone
  <2>3. StartedOr(current.h)
    BY <1>1, <1>9, <2>1, <2>2, CyclicTimer, StartedIs, Zenon
  <2> DEFINE h == current.h
  <2>4. /\ Good(next_timeout', clock', time')
        /\ \A g : g # h => (Has(next_timeout', g) <=> Has(next_timeout, g)) /\ (g \in lost' <=> g \in lost)
        /\ \/ h \in lost' /\ (Has(next_timeout', h) <=> Has(next_timeout, h))
           \/ (h \in lost' <=> h \in lost) /\ Has(next_timeout', h)
    BY <1>1, <1>2, <2>3, StartedMeans, Zenon
  <2>5. \A g \in Lasting : g \in lost' => ~Has(next_timeout', g)
    BY <2>1, <2>4, Zenon DEF TimersInv, GoesOn
  <2>6. \A g \in DOMAIN Cyclic : g \in lost' \/ Has(next_timeout', g)
    BY <1>1, <1>7, <2>4, Zenon DEF TimersInv, GoesOn
  <2>7. GoesOn'
    BY <1>1, <1>7, <2>1, <2>2, <2>4, <2>5, <2>6, Zenon DEF TimersInv, GoesOn
  <2> QED
    BY <1>3, <1>4, <2>4, <2>7, Zenon DEF TimersInv
<1>10. CASE current.h \in OneShot
  <2>1. current.h # "tcp" /\ current.h \notin DOMAIN Cyclic
    BY <1>10, TimeoutsAssumption, Zenon
  <2>2. next_timeout' = next_timeout /\ tcp_timer_active' = tcp_timer_active /\ lost' = lost
    BY <1>10, <2>1, Zenon DEF HandlerDone
  <2>3. Good(next_timeout', clock', time')
    BY <1>1, <1>2, <2>2, Zenon
  <2>4. GoesOn'
    BY <1>1, <1>7, <2>1, <2>2, Zenon DEF TimersInv, GoesOn
  <2> QED
    BY <1>3, <1>4, <2>3, <2>4, Zenon DEF TimersInv
<1> QED
  BY <1>6, <1>8, <1>9, <1>10, Zenon DEF Handlers

-----------------------------------------------------------------------------
(* What the invariant says of the list.                                    *)

LEMMA InitHolds ==
    ASSUME TimersInit
    PROVE  TimersInv
<1>1. /\ time = 0 /\ clock \in StartCounters /\ next_timeout = <<>> /\ tcp_timer_active = FALSE
      /\ tcp_pcbs = FALSE /\ at = "boot" /\ lost = {} /\ since = 0
  BY Zenon DEF TimersInit
<1>2. clock \in 0 .. ClockPeriod - 1
  BY <1>1, TimeoutsAssumption, Zenon
<1>3. TimeInv
  <2>1. time \in 0 .. MaxTime /\ since \in Int
    BY <1>1, Bounds
  <2> QED
    BY <1>1, <1>2, <2>1, Zenon DEF TimeInv
<1>4. next_timeout \in Seq(TimerType) /\ \A i : i \notin 1 .. Len(next_timeout)
  BY <1>1
<1>5. Good(next_timeout, clock, time)
  BY <1>4, Zenon DEF Good
<1>6. \A h : ~Has(next_timeout, h)
  BY <1>4, Zenon DEF Has
<1>7. CurrentInv
  BY <1>1, Zenon DEF CurrentInv
<1>8. GoesOn
  BY <1>1, <1>6, Zenon DEF GoesOn, Handling
<1> QED
  BY <1>3, <1>5, <1>7, <1>8, Zenon DEF TimersInv

LEMMA NextHolds ==
    ASSUME TimersInv, TimersNext
    PROVE  TimersInv'
<1>1. ASSUME NEW h \in DOMAIN Cyclic, sys_timeouts_init(h)
      PROVE  TimersInv'
  BY <1>1, BootStep, Zenon
<1>2. ASSUME NEW h \in OneShot, Set(h) \/ Cancel(h)
      PROVE  TimersInv'
  BY <1>2, SetStep, CancelStep, Zenon
<1>3. CASE timer_init \/ Tick
  BY <1>3, StartStep, TickStep, Zenon
<1>4. CASE tcp_timer_needed \/ PcbsGone
  BY <1>4, TcpStep, GoneStep, Zenon
<1>5. CASE sys_check_timeouts \/ Expire \/ HandlerDone \/ CheckDone
  BY <1>5, CheckStep, ExpireStep, HandlerStep, DoneStep, Zenon
<1> QED
  BY <1>1, <1>2, <1>3, <1>4, <1>5, Zenon DEF TimersNext

LEMMA StutterHolds ==
    ASSUME TimersInv, UNCHANGED timer_vars
    PROVE  TimersInv'
<1>1. UNCHANGED <<time, clock, next_timeout, tcp_timer_active, tcp_pcbs, at, lost, now, current, since>>
  BY Zenon DEF timer_vars
<1>2. TimeInv' /\ Good(next_timeout', clock', time')
  BY <1>1, Zenon DEF TimersInv, TimeInv
<1>3. CurrentInv'
  BY <1>1, Zenon DEF TimersInv, CurrentInv
<1>4. GoesOn'
  BY <1>1, Zenon DEF TimersInv, GoesOn, Handling
<1> QED
  BY <1>2, <1>3, <1>4, Zenon DEF TimersInv

\* A timer that has to go on, and is in the list or being handled, goes on.
LEMMA GoingOnIs ==
    ASSUME TimersInv, NEW h, h \notin OneShot
    PROVE  /\ Has(next_timeout, h) \/ Handling(h) => GoingOn(h)
           /\ ~Has(next_timeout, h) => Places(h) = {}
<1>1. Good(next_timeout, clock, time)
  BY Zenon DEF TimersInv
<1>2. DOMAIN next_timeout = 1 .. Len(next_timeout)
  BY <1>1, GoodMeans, Zenon
<1>3. ~Has(next_timeout, h) => Places(h) = {}
  BY <1>2, Zenon DEF Has, Places
<1>4. CASE Has(next_timeout, h)
  <2>1. PICK i \in 1 .. Len(next_timeout) : next_timeout[i].h = h
    BY <1>4, Zenon DEF Has
  <2>2. \A j \in 1 .. Len(next_timeout) : next_timeout[j].h = h => j = i
    BY <1>1, <2>1, Zenon DEF Good
  <2>3. Places(h) = {i}
    BY <1>2, <2>1, <2>2, Zenon DEF Places
  <2>4. ~Handling(h)
    BY <1>4, Zenon DEF TimersInv, CurrentInv, Handling
  <2> QED
    BY <1>2, <1>4, <2>3, <2>4, Zenon DEF GoingOn
<1>5. CASE ~Has(next_timeout, h)
  BY <1>3, <1>5, Zenon DEF GoingOn
<1> QED
  BY <1>3, <1>4, <1>5, Zenon

LEMMA ListIsSound ==
    ASSUME TimersInv
    PROVE  ListSound
<1>1. Good(next_timeout, clock, time) /\ GoesOn
  BY Zenon DEF TimersInv
<1>2. ListInOrder
  <2>1. DOMAIN next_timeout = 1 .. Len(next_timeout)
    BY <1>1, GoodMeans, Zenon
  <2> QED
    BY <1>1, <2>1, Zenon DEF ListInOrder, Good
<1>3. "tcp" \notin OneShot /\ \A h \in DOMAIN Cyclic : h \notin OneShot
  BY TimeoutsAssumption, Zenon
<1>4. "tcp" \in Lasting /\ DOMAIN Cyclic \subseteq Lasting
  BY Zenon DEF Lasting
<1>5. CyclicGoesOn
  <2> SUFFICES ASSUME at # "boot", NEW h \in DOMAIN Cyclic
               PROVE  IF h \in lost THEN ~Handling(h) /\ Places(h) = {} ELSE GoingOn(h)
    BY Zenon DEF CyclicGoesOn
  <2> QED
    BY <1>1, <1>3, <1>4, GoingOnIs, Zenon DEF GoesOn
<1>6. TcpTimerRuns
  <2>1. tcp_pcbs \/ "tcp" \in lost => tcp_timer_active
    BY <1>1, Zenon DEF GoesOn
  <2>2. CASE tcp_timer_active /\ "tcp" \notin lost
    BY <1>1, <1>3, <2>1, <2>2, GoingOnIs, Zenon DEF TcpTimerRuns, GoesOn
  <2>3. CASE ~(tcp_timer_active /\ "tcp" \notin lost)
    <3>1. ~Has(next_timeout, "tcp") /\ ~Handling("tcp")
      BY <1>1, <1>4, <2>3, Zenon DEF GoesOn
    <3> QED
      BY <1>3, <2>1, <2>3, <3>1, GoingOnIs, Zenon DEF TcpTimerRuns
  <2> QED
    BY <2>2, <2>3, Zenon
<1> QED
  BY <1>2, <1>5, <1>6, Zenon DEF ListSound

-----------------------------------------------------------------------------
(* The results.                                                            *)

\* The invariant that sys_timeout_abs, sys_check_timeouts and the handlers keep: the list
\* is in the order of its numbers, no two of which are further apart than TIME_LESS_THAN
\* can tell; the clock, which only jumps back, shows none of them before its timer is due;
\* and every timer that has to go on is in the list or being handled, or was lost when
\* there was no memory for it.
THEOREM TimersInvariant == TimersSpec => []TimersInv
<1>1. TimersInit => TimersInv
  BY InitHolds, Zenon
<1>2. TimersInv /\ [TimersNext]_timer_vars => TimersInv'
  BY NextHolds, StutterHolds, Zenon
<1> QED
  BY <1>1, <1>2, PTL DEF TimersSpec

\* The list of timeouts.c is in the order in which the clock of time.c will show its
\* numbers, also across a jump of that clock; no cyclic timer is ever set twice, nor is
\* the TCP timer, and none is lost but when malloc fails in sys_timeout_abs, after which
\* it is never set again. For a clock that counts up to a quarter of the range of the
\* numbers, whatever it shows at the start, and any timers with intervals up to a quarter.
THEOREM ListSoundHolds == TimersSpec => []ListSound
<1>1. TimersInv => ListSound
  BY ListIsSound, Zenon
<1>2. TimersSpec => []TimersInv
  BY TimersInvariant, Zenon
<1> QED
  BY <1>1, <1>2, PTL

\* sys_check_timeouts calls no handler before its timer is due, unless the clock jumped
\* while it ran, and returns only when no timer is left that was due when it started,
\* but those that the clock has jumped back from since they were set.
THEOREM OnTimeHolds == TimersSpec => OnTime
<1> DEFINE A == /\ at = "check" /\ at' = "handler" /\ Steady => current'.due <= since
                /\ at = "check" /\ at' = "main" =>
                      \A i \in DOMAIN next_timeout :
                          InStep(next_timeout[i]) => next_timeout[i].due > since
<1>1. ASSUME TimersInv, [TimersNext]_timer_vars
      PROVE  A \/ UNCHANGED timer_vars
  <2>1. CASE Expire
    <3>1. (Steady => current'.due <= since) /\ at' = "handler"
      BY <1>1, <2>1, ExpireStep, Zenon DEF Expire
    <3> QED
      BY <3>1, Zenon
  <2>2. CASE CheckDone
    <3>1. at' = "main" /\ \A i \in DOMAIN next_timeout :
            InStep(next_timeout[i]) => next_timeout[i].due > since
      BY <1>1, <2>2, DoneStep, Zenon DEF CheckDone
    <3> QED
      BY <3>1, Zenon
  <2>3. ASSUME ~(at = "check") PROVE A
    BY <2>3, Zenon
  <2>4. CASE timer_init \/ Tick \/ tcp_timer_needed \/ PcbsGone \/ sys_check_timeouts
    <3>1. ~(at = "check")
      BY <2>4, Zenon DEF timer_init, Tick, tcp_timer_needed, PcbsGone, sys_check_timeouts
    <3> QED
      BY <2>3, <3>1, Zenon
  <2>5. CASE HandlerDone
    <3>1. ~(at = "check")
      BY <2>5, Zenon DEF HandlerDone
    <3> QED
      BY <2>3, <3>1, Zenon
  <2>6. CASE \E h \in DOMAIN Cyclic : sys_timeouts_init(h)
    <3>1. ~(at = "check")
      BY <2>6, Zenon DEF sys_timeouts_init
    <3> QED
      BY <2>3, <3>1, Zenon
  <2>7. CASE \E h \in OneShot : Set(h) \/ Cancel(h)
    <3>1. ~(at = "check")
      BY <2>7, Zenon DEF Set, Cancel
    <3> QED
      BY <2>3, <3>1, Zenon
  <2> QED
    BY <1>1, <2>1, <2>2, <2>4, <2>5, <2>6, <2>7, Zenon DEF TimersNext
<1>2. TimersInv /\ [TimersNext]_timer_vars => [A]_timer_vars
  BY <1>1, Zenon
<1>3. TimersSpec => []TimersInv
  BY TimersInvariant, Zenon
<1> QED
  BY <1>2, <1>3, PTL DEF TimersSpec, OnTime
=============================================================================
