-------------------------- MODULE UsbDevicesProofs --------------------------
(***************************************************************************)
(* Proofs about UsbDevices for any devices, of any kinds, and any amount   *)
(* of memory, with handlers nested to any depth.                           *)
(***************************************************************************)
EXTENDS UsbDevices, FiniteSetTheorems, TLAPS

(* The invariant.                                                          *)

DevFields == {"present", "kind", "enabled", "config", "alts"}
FrameFields == {"dev", "nconf", "config", "current_int", "todo", "subs", "eps", "netif", "at"}
NetifFields == {"state", "dev", "config", "int", "num"}

DevInv ==
    /\ DOMAIN dev = Devices
    /\ \A d \in Devices : /\ DOMAIN dev[d] = DevFields /\ dev[d].config \in Nat
                          /\ dev[d].kind \in DOMAIN Kinds \cup {NULL}

\* Before the loop over the configurations.
Starting == {"usb_WaitForEvents", "usb_GetDeviceDescriptor", "usb_GetConfiguration"}

\* In process_config_descriptor, after usb_SetConfiguration.
Searching == {"search", "subordinates", "usb_SetSubInterface", "usb_SetInterface", "malloc",
              "ecm_init_netif"}

\* What handler f has added from its device: interfaces of earlier configurations,
\* and earlier ones of this configuration.
Earlier(f, n) ==
    n.config < f.config \/ (n.config = f.config /\ f.at \in Searching /\ n.int < f.current_int)

Shape(f, dv) ==
    /\ DOMAIN f = FrameFields
    /\ f.dev \in Devices /\ dv[f.dev].kind # NULL
    /\ f.config \in Nat /\ f.nconf \in Nat /\ f.current_int \in Nat
    /\ f.netif \in NetifAddr \cup {NULL}
    /\ f.netif # NULL <=> f.at = "ecm_init_netif"
    /\ f.at \in Starting => f.config = 0

\* For the devices dv, and the interfaces nt, of which those in L are in the list.
FrameInv(f, dv, L, nt) ==
    /\ Shape(f, dv)
    /\ \A a \in L : nt[a].dev = f.dev => Earlier(f, nt[a])
    /\ f.netif # NULL =>
          /\ f.netif \notin L
          /\ nt[f.netif].dev = f.dev /\ nt[f.netif].config = f.config
          /\ nt[f.netif].int = f.current_int

StackInv ==
    /\ \E S : stack \in Seq(S)
    /\ \A i \in 1 .. Len(stack) : FrameInv(stack[i], dev, Listed, netif)
    /\ \A i, j \in 1 .. Len(stack) : i # j =>
          stack[i].dev # stack[j].dev /\ (stack[i].netif # NULL => stack[i].netif # stack[j].netif)

Entry(n, dv) ==
    /\ DOMAIN n = NetifFields
    /\ n.dev \in Devices /\ dv[n.dev].kind # NULL
    /\ n.config \in Nat /\ n.int \in Nat /\ n.num \in 0 .. NetifNums - 1

Apart(a, b) == a.num # b.num /\ <<a.dev, a.config, a.int>> # <<b.dev, b.config, b.int>>

ListInv ==
    /\ netif_list \in Seq(NetifAddr) /\ netif_num \in 0 .. NetifNums - 1
    /\ \A a \in Listed \cup Pending : a \in DOMAIN netif /\ Entry(netif[a], dev)
    /\ \A i, j \in 1 .. Len(netif_list) : i # j => Apart(netif[netif_list[i]], netif[netif_list[j]])

UsbInv == DevInv /\ StackInv /\ ListInv /\ HeapExact

-----------------------------------------------------------------------------
(* Sequences and sets.                                                     *)

LEMMA MinIs ==
    ASSUME NEW S, S \subseteq Nat, S # {}
    PROVE  Min(S) \in S
<1>1. PICK x \in S : \A y \in S : ~(<<y, x>> \in OpToRel(<, Nat))
  BY NatLessThanWellFounded, WFMin
<1>2. \A y \in S : ~(y < x)
  BY <1>1, Zenon DEF OpToRel
<1>3. \A y \in S : x <= y
  BY <1>2
<1> QED
  BY <1>3, Zenon DEF Min

\* What malloc returns is free.
LEMMA MallocIs ==
    ASSUME NEW addr, addr \subseteq Nat, NEW a \in malloc(addr)
    PROVE  a \in addr /\ a \notin heap
<1> DEFINE free == addr \ heap
<1>1. free # {} /\ a = Min(free)
  BY Zenon DEF malloc
<1>2. free \subseteq Nat
  BY Zenon
<1>3. a \in free
  BY <1>1, <1>2, MinIs, Zenon
<1> QED
  BY <1>3, Zenon

\* s is old with its first frame replaced by f, or without it.
Replaced(s, old, f) ==
    /\ \E S : s \in Seq(S)
    /\ Len(s) = Len(old) /\ 1 \in 1 .. Len(old) /\ s[1] = f
    /\ \A i \in 1 .. Len(old) : i # 1 => s[i] = old[i]

Dropped(s, old) ==
    /\ \E S : s \in Seq(S)
    /\ Len(old) \in Nat /\ Len(s) = Len(old) - 1
    /\ \A i \in 1 .. Len(s) : i + 1 \in 1 .. Len(old) /\ s[i] = old[i + 1]

LEMMA ReplacedIs ==
    ASSUME NEW S, NEW old \in Seq(S), old # <<>>, NEW f
    PROVE  Replaced(<<f>> \o Tail(old), old, f)
<1> DEFINE T == S \cup {f}
           s == <<f>> \o Tail(old)
<1>1. Tail(old) \in Seq(S) /\ Len(Tail(old)) = Len(old) - 1 /\ Len(old) \in Nat /\ Len(old) > 0
  OBVIOUS
<1>2. Tail(old) \in Seq(T) /\ <<f>> \in Seq(T)
  BY <1>1
<1>3. s \in Seq(T)
  BY <1>2
<1>4. Len(s) = Len(old) /\ s[1] = f
  BY <1>1, <1>2
<1>5. \A i \in 1 .. Len(old) : i # 1 => s[i] = old[i]
  BY <1>1, <1>2
<1>6. 1 \in 1 .. Len(old)
  BY <1>1
<1> QED
  BY <1>3, <1>4, <1>5, <1>6, Zenon DEF Replaced

LEMMA DroppedIs ==
    ASSUME NEW S, NEW old \in Seq(S), old # <<>>
    PROVE  Dropped(Tail(old), old)
<1>1. Tail(old) \in Seq(S) /\ Len(Tail(old)) = Len(old) - 1 /\ Len(old) \in Nat /\ Len(old) > 0
  OBVIOUS
<1>2. \A i \in 1 .. Len(Tail(old)) : i + 1 \in 1 .. Len(old) /\ Tail(old)[i] = old[i + 1]
  BY <1>1
<1> QED
  BY <1>1, <1>2, Zenon DEF Dropped

-----------------------------------------------------------------------------
(* Steps that leave the list and the memory alone.                         *)

LEMMA SetsAre ==
    ASSUME UsbInv
    PROVE  /\ Listed = {netif_list[i] : i \in 1 .. Len(netif_list)} /\ Listed \subseteq NetifAddr
           /\ Len(netif_list) \in Nat
           /\ Pending = {stack[i].netif : i \in 1 .. Len(stack)} \ {NULL} /\ Len(stack) \in Nat
<1>1. netif_list \in Seq(NetifAddr)
  BY Zenon DEF UsbInv, ListInv
<1>2. DOMAIN netif_list = 1 .. Len(netif_list) /\ Len(netif_list) \in Nat
  BY <1>1
<1>3. Listed = {netif_list[i] : i \in 1 .. Len(netif_list)}
  BY <1>2, Zenon DEF Listed, Range
<1>4. \A i \in 1 .. Len(netif_list) : netif_list[i] \in NetifAddr
  BY <1>1
<1>5. PICK S : stack \in Seq(S)
  BY Zenon DEF UsbInv, StackInv
<1>6. DOMAIN stack = 1 .. Len(stack) /\ Len(stack) \in Nat
  BY <1>5
<1>7. Frames = {stack[i] : i \in 1 .. Len(stack)}
  BY <1>6, Zenon DEF Frames, Range
<1>8. Pending = {stack[i].netif : i \in 1 .. Len(stack)} \ {NULL}
  BY <1>7, Zenon DEF Pending
<1> QED
  BY <1>2, <1>3, <1>4, <1>6, <1>8, Zenon

LEMMA NewSetsAre ==
    ASSUME UsbInv, NEW T, stack' \in Seq(T)
    PROVE  Pending' = {stack'[i].netif : i \in 1 .. Len(stack')} \ {NULL} /\ Len(stack') \in Nat
<1>1. DOMAIN stack' = 1 .. Len(stack') /\ Len(stack') \in Nat
  OBVIOUS
<1>2. Frames' = {stack'[i] : i \in 1 .. Len(stack')}
  BY <1>1, Zenon DEF Frames, Range
<1> QED
  BY <1>1, <1>2, Zenon DEF Pending

\* The device stays what it is.
DevSame ==
    /\ DOMAIN dev' = Devices
    /\ \A d \in Devices : /\ DOMAIN dev'[d] = DevFields /\ dev'[d].config \in Nat
                          /\ dev'[d].kind \in DOMAIN Kinds \cup {NULL}
                          /\ dev[d].kind # NULL => dev'[d].kind # NULL

\* g is what can become of frame f while nothing is added.
Ahead(f, g) ==
    \/ f.config < g.config
    \/ f.config = g.config /\ (f.at \in Searching => g.at \in Searching /\ f.current_int <= g.current_int)

Follows(f, g) ==
    /\ DOMAIN g = FrameFields /\ g.dev = f.dev
    /\ g.config \in Nat /\ g.nconf \in Nat /\ g.current_int \in Nat
    /\ g.netif = f.netif /\ (g.at = "ecm_init_netif" <=> f.at = "ecm_init_netif")
    /\ f.netif # NULL => g.config = f.config /\ g.current_int = f.current_int
    /\ g.at \in Starting => g.config = 0
    /\ Ahead(f, g)

LEMMA EarlierKept ==
    ASSUME NEW f, NEW g, Ahead(f, g), NEW n, n.config \in Nat, n.int \in Nat, Earlier(f, n),
           f.config \in Nat, g.config \in Nat, f.current_int \in Nat, g.current_int \in Nat
    PROVE  Earlier(g, n)
<1> DEFINE c == n.config  cf == f.config  cg == g.config
           i == n.int  jf == f.current_int  jg == g.current_int
<1>1. /\ c \in Nat /\ cf \in Nat /\ cg \in Nat /\ i \in Nat /\ jf \in Nat /\ jg \in Nat
      /\ c < cf \/ (c = cf /\ f.at \in Searching /\ i < jf)
      /\ cf < cg \/ (cf = cg /\ (f.at \in Searching => g.at \in Searching /\ jf <= jg))
  BY Zenon DEF Earlier, Ahead
<1> HIDE DEF c, cf, cg, i, jf, jg
<1>2. c < cg \/ (c = cg /\ g.at \in Searching /\ i < jg)
  BY <1>1
<1> QED
  BY <1>2, Zenon DEF Earlier, c, cg, i, jg

LEMMA FollowsSame ==
    ASSUME NEW f, Shape(f, dev)
    PROVE  Follows(f, f)
<1>1. f.current_int <= f.current_int
  BY DEF Shape
<1> QED
  BY <1>1, Zenon DEF Follows, Ahead, Shape

\* A frame that follows a good one is good, when the list stays.
LEMMA FrameKept ==
    ASSUME UsbInv, DevSame, UNCHANGED lists, NEW f, NEW g,
           FrameInv(f, dev, Listed, netif), Follows(f, g)
    PROVE  FrameInv(g, dev', Listed', netif')
<1>1. UNCHANGED <<netif_list, netif>> /\ Listed' = Listed
  BY Zenon DEF lists, Listed, Range
<1>2. Shape(f, dev)
  BY Zenon DEF FrameInv
<1>3. /\ DOMAIN g = FrameFields /\ g.dev = f.dev
      /\ g.config \in Nat /\ g.nconf \in Nat /\ g.current_int \in Nat
      /\ g.netif = f.netif /\ (g.at = "ecm_init_netif" <=> f.at = "ecm_init_netif")
      /\ f.netif # NULL => g.config = f.config /\ g.current_int = f.current_int
      /\ g.at \in Starting => g.config = 0
      /\ Ahead(f, g)
  BY Zenon DEF Follows
<1>4. dev'[g.dev].kind # NULL
  BY <1>2, <1>3, Zenon DEF Shape, DevSame
<1>5. Shape(g, dev')
  BY <1>2, <1>3, <1>4, Zenon DEF Shape
<1>6. ASSUME NEW a \in Listed, netif[a].dev = g.dev
      PROVE  Earlier(g, netif[a])
  <2>1. Earlier(f, netif[a])
    BY <1>3, <1>6, Zenon DEF FrameInv
  <2>2. netif[a].config \in Nat /\ netif[a].int \in Nat
    BY <1>6, Zenon DEF UsbInv, ListInv, Entry
  <2> QED
    BY <1>2, <1>3, <2>1, <2>2, EarlierKept, Zenon DEF Shape
<1>7. g.netif # NULL =>
          /\ g.netif \notin Listed
          /\ netif[g.netif].dev = g.dev /\ netif[g.netif].config = g.config
          /\ netif[g.netif].int = g.current_int
  BY <1>3, Zenon DEF FrameInv
<1> QED
  BY <1>1, <1>5, <1>6, <1>7, Zenon DEF FrameInv, Earlier

LEMMA ListKept ==
    ASSUME UsbInv, DevSame, UNCHANGED lists, Pending' = Pending
    PROVE  DevInv' /\ ListInv' /\ HeapExact'
<1>1. UNCHANGED <<netif_list, netif, netif_num, heap>> /\ Listed' = Listed
  BY Zenon DEF lists, Listed, Range
<1>2. DevInv'
  BY Zenon DEF DevInv, DevSame
<1>3. ASSUME NEW a \in Listed \cup Pending
      PROVE  a \in DOMAIN netif /\ Entry(netif[a], dev')
  BY <1>3, Zenon DEF UsbInv, ListInv, DevSame, Entry
<1>4. ListInv'
  BY <1>1, <1>3, Zenon DEF UsbInv, ListInv
<1>5. HeapExact'
  BY <1>1, Zenon DEF UsbInv, HeapExact
<1> QED
  BY <1>2, <1>4, <1>5, Zenon

\* The frames of stack' follow those of stack, of which the first k are gone.
Matches(k) ==
    /\ \E T : stack' \in Seq(T)
    /\ \A i \in 1 .. Len(stack') : i + k \in 1 .. Len(stack) /\ Follows(stack[i + k], stack'[i])

LEMMA Keeps ==
    ASSUME UsbInv, DevSame, UNCHANGED lists, NEW k \in Nat, Matches(k), Pending' = Pending
    PROVE  UsbInv'
<1>1. ASSUME NEW i \in 1 .. Len(stack')
      PROVE  FrameInv(stack'[i], dev', Listed', netif')
  <2>1. i + k \in 1 .. Len(stack) /\ Follows(stack[i + k], stack'[i])
    BY <1>1, Zenon DEF Matches
  <2>2. FrameInv(stack[i + k], dev, Listed, netif)
    BY <2>1, Zenon DEF UsbInv, StackInv
  <2> QED
    BY <2>1, <2>2, FrameKept, Zenon
<1>2. ASSUME NEW i \in 1 .. Len(stack'), NEW j \in 1 .. Len(stack'), i # j
      PROVE  /\ stack'[i].dev # stack'[j].dev
             /\ stack'[i].netif # NULL => stack'[i].netif # stack'[j].netif
  <2>1. /\ i + k \in 1 .. Len(stack) /\ Follows(stack[i + k], stack'[i])
        /\ j + k \in 1 .. Len(stack) /\ Follows(stack[j + k], stack'[j])
    BY <1>2, Zenon DEF Matches
  <2>2. \E T : stack' \in Seq(T)
    BY Zenon DEF Matches
  <2>3. i + k # j + k
    BY <1>2, <2>2
  <2>4. /\ stack[i + k].dev # stack[j + k].dev
        /\ stack[i + k].netif # NULL => stack[i + k].netif # stack[j + k].netif
    BY <2>1, <2>3, Zenon DEF UsbInv, StackInv
  <2> QED
    BY <2>1, <2>4, Zenon DEF Follows
<1>3. StackInv'
  BY <1>1, <1>2, Zenon DEF StackInv, Matches
<1> QED
  BY <1>3, ListKept, Zenon DEF UsbInv

\* The first frame goes on.
LEMMA KeepsReplaced ==
    ASSUME UsbInv, DevSame, UNCHANGED lists, NEW g, Replaced(stack', stack, g), Follows(stack[1], g)
    PROVE  UsbInv'
<1>1. /\ Len(stack') = Len(stack) /\ 1 \in 1 .. Len(stack) /\ stack'[1] = g
      /\ \A i \in 1 .. Len(stack) : i # 1 => stack'[i] = stack[i]
  BY Zenon DEF Replaced
<1>2. ASSUME NEW i \in 1 .. Len(stack')
      PROVE  i \in 1 .. Len(stack) /\ Follows(stack[i], stack'[i])
  <2>1. i # 1 => Follows(stack[i], stack[i])
    BY <1>1, <1>2, FollowsSame, Zenon DEF UsbInv, StackInv, FrameInv
  <2> QED
    BY <1>1, <1>2, <2>1, Zenon
<1>3. PICK T : stack' \in Seq(T)
  BY Zenon DEF Replaced
<1>4. \A i \in 1 .. Len(stack') : i + 0 = i
  BY <1>3
<1>5. Matches(0)
  BY <1>2, <1>3, <1>4, Zenon DEF Matches
<1>6. \A i \in 1 .. Len(stack) : stack'[i].netif = stack[i].netif
  BY <1>1, <1>2, Zenon DEF Follows
<1>7. Pending' = Pending
  <2>1. Pending = {stack[i].netif : i \in 1 .. Len(stack)} \ {NULL}
    BY SetsAre, Zenon
  <2>2. Pending' = {stack'[i].netif : i \in 1 .. Len(stack')} \ {NULL}
    BY <1>3, NewSetsAre, Zenon
  <2> QED
    BY <1>1, <1>6, <2>1, <2>2
<1>8. 0 \in Nat
  OBVIOUS
<1> QED
  BY <1>5, <1>7, <1>8, Keeps, Zenon

\* The first activation returns.
LEMMA KeepsDropped ==
    ASSUME UsbInv, DevSame, UNCHANGED lists, Dropped(stack', stack), stack[1].netif = NULL
    PROVE  UsbInv'
<1>1. /\ Len(stack) \in Nat /\ Len(stack') = Len(stack) - 1
      /\ \A i \in 1 .. Len(stack') : i + 1 \in 1 .. Len(stack) /\ stack'[i] = stack[i + 1]
  BY Zenon DEF Dropped
<1>2. PICK T : stack' \in Seq(T)
  BY Zenon DEF Dropped
<1>3. ASSUME NEW i \in 1 .. Len(stack')
      PROVE  i + 1 \in 1 .. Len(stack) /\ Follows(stack[i + 1], stack'[i])
  <2>1. Follows(stack[i + 1], stack[i + 1])
    BY <1>1, <1>3, FollowsSame, Zenon DEF UsbInv, StackInv, FrameInv
  <2> QED
    BY <1>1, <1>3, <2>1, Zenon
<1>4. Matches(1)
  BY <1>2, <1>3, Zenon DEF Matches
<1>5. \A j \in 1 .. Len(stack) : j # 1 => j - 1 \in 1 .. Len(stack') /\ (j - 1) + 1 = j
  BY <1>1, <1>2
<1>6. Pending' \subseteq Pending
  <2>1. Pending = {stack[i].netif : i \in 1 .. Len(stack)} \ {NULL}
    BY SetsAre, Zenon
  <2>2. Pending' = {stack'[i].netif : i \in 1 .. Len(stack')} \ {NULL}
    BY <1>2, NewSetsAre, Zenon
  <2> QED
    BY <1>1, <2>1, <2>2, Zenon
<1>7. ASSUME NEW x \in Pending
      PROVE  x \in Pending'
  <2>1. PICK j \in 1 .. Len(stack) : x = stack[j].netif /\ x # NULL
    BY <1>7, SetsAre, Zenon
  <2>2. j # 1
    BY <2>1, Zenon
  <2>3. j - 1 \in 1 .. Len(stack') /\ stack'[j - 1] = stack[j]
    BY <1>1, <1>5, <2>2, Zenon
  <2> QED
    BY <1>2, <2>1, <2>3, NewSetsAre, Zenon
<1>8. 1 \in Nat /\ Pending' = Pending
  BY <1>6, <1>7
<1> QED
  BY <1>4, <1>8, Keeps, Zenon

-----------------------------------------------------------------------------
(* How the running activation goes on.                                     *)

\* At a later configuration, or at interface n of the same one.
Onward(f, g, n) ==
    /\ DOMAIN g = FrameFields /\ g.dev = f.dev
    /\ g.config \in Nat /\ g.nconf \in Nat /\ g.current_int \in Nat
    /\ g.netif = NULL /\ g.at # "ecm_init_netif" /\ g.at \notin Starting
    /\ f.config < g.config \/ (g.config = f.config /\ g.at \in Searching /\ g.current_int = n)

Goes(f, n) ==
    Dropped(stack', stack) \/ \E g : Replaced(stack', stack, g) /\ Onward(f, g, n)

LEMMA HeadIs ==
    ASSUME UsbInv, stack # <<>>
    PROVE  /\ Head(stack) = stack[1] /\ 1 \in 1 .. Len(stack)
           /\ FrameInv(stack[1], dev, Listed, netif) /\ Shape(stack[1], dev)
<1>1. PICK S : stack \in Seq(S)
  BY Zenon DEF UsbInv, StackInv
<1>2. Head(stack) = stack[1] /\ 1 \in 1 .. Len(stack)
  BY <1>1
<1> QED
  BY <1>2, Zenon DEF UsbInv, StackInv, FrameInv

LEMMA GotoIs ==
    ASSUME UsbInv, stack # <<>>, NEW g, Goto(g)
    PROVE  Replaced(stack', stack, g)
<1>1. PICK S : stack \in Seq(S)
  BY Zenon DEF UsbInv, StackInv
<1> QED
  BY <1>1, ReplacedIs, Zenon DEF Goto

LEMMA ReturnIs ==
    ASSUME UsbInv, stack # <<>>, Return
    PROVE  Dropped(stack', stack)
<1>1. PICK S : stack \in Seq(S)
  BY Zenon DEF UsbInv, StackInv
<1> QED
  BY <1>1, DroppedIs, Zenon DEF Return

LEMMA GotoKeeps ==
    ASSUME UsbInv, stack # <<>>, DevSame, UNCHANGED lists, NEW g, Goto(g), Follows(stack[1], g)
    PROVE  UsbInv'
BY GotoIs, KeepsReplaced, Zenon

\* A frame that stays where it is in the loops.
LEMMA Within ==
    ASSUME NEW f, Shape(f, dev), f.at # "ecm_init_netif",
           NEW g, DOMAIN g = FrameFields, g.dev = f.dev, g.config = f.config,
           g.current_int = f.current_int, g.netif = f.netif, g.nconf \in Nat,
           g.at # "ecm_init_netif", f.at \in Searching => g.at \in Searching,
           g.at \in Starting => f.at \in Starting
    PROVE  Follows(f, g)
<1>1. f.current_int <= g.current_int
  BY DEF Shape
<1> QED
  BY <1>1, Zenon DEF Follows, Ahead, Shape

LEMMA NextConfigIs ==
    ASSUME UsbInv, stack # <<>>, NEW n, NEW f, DOMAIN f = FrameFields, f.netif = NULL,
           f.config \in Nat, f.nconf \in Nat, f.current_int \in Nat, NextConfig(f)
    PROVE  Goes(f, n)
<1> DEFINE g == [f EXCEPT !.config = @ + 1, !.at = "usb_GetConfigDescriptor"]
<1>1. Goto(g) \/ Return
  BY Zenon DEF NextConfig
<1>2. /\ DOMAIN g = FrameFields /\ g.dev = f.dev /\ g.nconf = f.nconf
      /\ g.current_int = f.current_int /\ g.netif = f.netif /\ g.config = f.config + 1
      /\ g.at = "usb_GetConfigDescriptor"
  BY DEF FrameFields
<1>3. g.config \in Nat /\ f.config < g.config
  BY <1>2
<1>4. g.at # "ecm_init_netif" /\ g.at \notin Starting
  BY <1>2 DEF Starting
<1>5. Onward(f, g, n)
  BY <1>2, <1>3, <1>4, Zenon DEF Onward
<1>6. CASE Goto(g)
  BY <1>5, <1>6, GotoIs, Zenon DEF Goes
<1>7. CASE Return
  BY <1>7, ReturnIs, Zenon DEF Goes
<1> QED
  BY <1>1, <1>6, <1>7, Zenon

LEMMA NextInterfaceIs ==
    ASSUME UsbInv, stack # <<>>, NEW n \in Nat, NEW f, Shape(f, dev), NextInterface(f, n)
    PROVE  Goes(f, n)
<1> DEFINE todo == AllCandidates[dev[f.dev].kind][f.config][n]
           g == [f EXCEPT !.at = "search", !.current_int = n, !.netif = NULL, !.todo = todo]
           h == [f EXCEPT !.todo = <<>>, !.netif = NULL]
<1>1. Goto(g) \/ NextConfig(h)
  BY Zenon DEF NextInterface
<1>2. DOMAIN f = FrameFields /\ f.config \in Nat /\ f.nconf \in Nat /\ f.current_int \in Nat
  BY Zenon DEF Shape
<1> HIDE DEF todo
<1>3. /\ DOMAIN g = FrameFields /\ g.dev = f.dev /\ g.nconf = f.nconf /\ g.config = f.config
      /\ g.current_int = n /\ g.netif = NULL /\ g.at = "search"
  BY <1>2 DEF FrameFields
<1>4. g.at # "ecm_init_netif" /\ g.at \notin Starting /\ g.at \in Searching
  BY <1>3 DEF Starting, Searching
<1>5. Onward(f, g, n)
  BY <1>2, <1>3, <1>4, Zenon DEF Onward
<1>6. CASE Goto(g)
  BY <1>5, <1>6, GotoIs, Zenon DEF Goes
<1>7. CASE NextConfig(h)
  <2>1. /\ DOMAIN h = FrameFields /\ h.dev = f.dev /\ h.nconf = f.nconf /\ h.config = f.config
        /\ h.current_int = f.current_int /\ h.netif = NULL
    BY <1>2 DEF FrameFields
  <2> HIDE DEF h
  <2>2. Goes(h, n)
    BY <1>2, <1>7, <2>1, NextConfigIs, Zenon
  <2> QED
    BY <2>1, <2>2, Zenon DEF Goes, Onward
<1> QED
  BY <1>1, <1>6, <1>7, Zenon

LEMMA BreakIs ==
    ASSUME UsbInv, stack # <<>>, NEW f, Shape(f, dev), Break(f)
    PROVE  Goes(f, f.current_int + 1)
<1>1. f.current_int + 1 \in Nat
  BY DEF Shape
<1> QED
  BY <1>1, NextInterfaceIs, Zenon DEF Break

LEMMA OnwardFollows ==
    ASSUME NEW f, Shape(f, dev), f.netif = NULL, NEW n \in Nat, NEW g, Onward(f, g, n),
           f.at \in Searching => f.current_int <= n
    PROVE  Follows(f, g)
<1>1. Ahead(f, g)
  BY Zenon DEF Onward, Ahead
<1> QED
  BY <1>1, Zenon DEF Onward, Follows, Shape

LEMMA KeepsGoing ==
    ASSUME UsbInv, stack # <<>>, DevSame, UNCHANGED lists, stack[1].netif = NULL, NEW n \in Nat,
           stack[1].at \in Searching => stack[1].current_int <= n, Goes(stack[1], n)
    PROVE  UsbInv'
<1>1. CASE Dropped(stack', stack)
  BY <1>1, KeepsDropped, Zenon
<1>2. ASSUME NEW g, Replaced(stack', stack, g), Onward(stack[1], g, n)
      PROVE  UsbInv'
  <2>1. Shape(stack[1], dev)
    BY HeadIs, Zenon
  <2>2. Follows(stack[1], g)
    BY <1>2, <2>1, OnwardFollows, Zenon
  <2> QED
    BY <1>2, <2>2, KeepsReplaced, Zenon
<1> QED
  BY <1>1, <1>2, Zenon DEF Goes

LEMMA BreakKeeps ==
    ASSUME UsbInv, stack # <<>>, DevSame, UNCHANGED lists, stack[1].netif = NULL, Break(stack[1])
    PROVE  UsbInv'
<1>1. Shape(stack[1], dev)
  BY HeadIs, Zenon
<1>2. stack[1].current_int + 1 \in Nat /\ stack[1].current_int <= stack[1].current_int + 1
  BY <1>1 DEF Shape
<1> QED
  BY <1>1, <1>2, BreakIs, KeepsGoing, Zenon

-----------------------------------------------------------------------------
(* The actions that add no interface.                                      *)

LEMMA DevKept ==
    ASSUME UsbInv, UNCHANGED dev
    PROVE  DevSame
BY Zenon DEF UsbInv, DevInv, DevSame

LEMMA DevSet ==
    ASSUME UsbInv, NEW d \in Devices, NEW v, DOMAIN v = DevFields, v.config \in Nat,
           v.kind = dev[d].kind, DOMAIN dev' = DOMAIN dev, dev'[d] = v,
           \A e \in Devices : e # d => dev'[e] = dev[e]
    PROVE  DevSame
<1>1. ASSUME NEW e \in Devices
      PROVE  /\ DOMAIN dev'[e] = DevFields /\ dev'[e].config \in Nat
             /\ dev'[e].kind \in DOMAIN Kinds \cup {NULL} /\ dev'[e].kind = dev[e].kind
  <2>1. CASE e = d
    BY <2>1, Zenon DEF UsbInv, DevInv
  <2>2. CASE e # d
    BY <1>1, <2>2, Zenon DEF UsbInv, DevInv
  <2> QED
    BY <2>1, <2>2, Zenon
<1> QED
  BY <1>1, Zenon DEF UsbInv, DevInv, DevSame

LEMMA GetDeviceDescriptorKeeps ==
    ASSUME UsbInv, stack # <<>>, NEW f, f = stack[1], GetDeviceDescriptor(f)
    PROVE  UsbInv'
<1>1. Shape(f, dev) /\ f.at = "usb_GetDeviceDescriptor"
  BY HeadIs, Zenon DEF GetDeviceDescriptor
<1>2. PICK r \in Results(f.dev) :
          Goto([f EXCEPT !.at = "usb_GetConfiguration",
                !.nconf = IF r = "USB_SUCCESS" THEN Len(Configs(f.dev)) ELSE 2])
  BY Zenon DEF GetDeviceDescriptor
<1> DEFINE k == IF r = "USB_SUCCESS" THEN Len(Configs(f.dev)) ELSE 2
           g == [f EXCEPT !.at = "usb_GetConfiguration", !.nconf = k]
<1>3. f.dev \in Devices /\ dev[f.dev].kind # NULL /\ DOMAIN f = FrameFields
  BY <1>1, Zenon DEF Shape
<1>4. dev[f.dev].kind \in DOMAIN Kinds
  BY <1>3, Zenon DEF UsbInv, DevInv
<1>5. Len(Configs(f.dev)) \in Nat
  BY <1>4, UsbAssumption, Zenon DEF Configs
<1>6. k \in Nat
  BY <1>5
<1> HIDE DEF k
<1>7. /\ DOMAIN g = FrameFields /\ g.dev = f.dev /\ g.nconf = k /\ g.config = f.config
      /\ g.current_int = f.current_int /\ g.netif = f.netif /\ g.at = "usb_GetConfiguration"
  BY <1>3 DEF FrameFields
<1>8. f.at # "ecm_init_netif" /\ f.at \notin Searching /\ f.at \in Starting /\ g.at # "ecm_init_netif"
  BY <1>1, <1>7 DEF Searching, Starting
<1>9. Goto(g)
  BY <1>2, Zenon DEF k
<1> HIDE DEF g
<1>10. Follows(f, g)
  BY <1>1, <1>6, <1>7, <1>8, Within, Zenon
<1>11. DevSame /\ UNCHANGED lists
  BY DevKept, Zenon DEF GetDeviceDescriptor
<1> QED
  BY <1>9, <1>10, <1>11, GotoKeeps, Zenon

LEMMA GetConfigurationKeeps ==
    ASSUME UsbInv, stack # <<>>, NEW f, f = stack[1], GetConfiguration(f)
    PROVE  UsbInv'
<1>1. Shape(f, dev) /\ f.at = "usb_GetConfiguration"
  BY HeadIs, Zenon DEF GetConfiguration
<1>2. PICK r \in Results(f.dev) :
          LET config == IF r = "USB_SUCCESS" THEN dev[f.dev].config ELSE 0
          IN  Goto([f EXCEPT !.at = "usb_GetConfigDescriptor",
                    !.config = IF config # 0 THEN config ELSE 1,
                    !.nconf = IF config # 0 THEN config ELSE f.nconf])
  BY Zenon DEF GetConfiguration
<1> DEFINE config == IF r = "USB_SUCCESS" THEN dev[f.dev].config ELSE 0
           c == IF config # 0 THEN config ELSE 1
           k == IF config # 0 THEN config ELSE f.nconf
           g == [f EXCEPT !.at = "usb_GetConfigDescriptor", !.config = c, !.nconf = k]
<1>3. Goto(g)
  BY <1>2, Zenon
<1>4. f.dev \in Devices /\ DOMAIN f = FrameFields /\ f.nconf \in Nat /\ f.current_int \in Nat
  BY <1>1, Zenon DEF Shape
<1>5. f.at \in Starting /\ f.at \notin Searching /\ f.at # "ecm_init_netif"
  BY <1>1 DEF Starting, Searching
<1>6. f.config = 0 /\ f.netif = NULL
  BY <1>1, <1>5, Zenon DEF Shape
<1>7. dev[f.dev].config \in Nat
  BY <1>4, Zenon DEF UsbInv, DevInv
<1>8. config \in Nat
  BY <1>7
<1> HIDE DEF config
<1>9. c \in Nat /\ 0 < c /\ k \in Nat
  BY <1>4, <1>8
<1> HIDE DEF c, k
<1>10. /\ DOMAIN g = FrameFields /\ g.dev = f.dev /\ g.nconf = k /\ g.config = c
       /\ g.current_int = f.current_int /\ g.netif = f.netif /\ g.at = "usb_GetConfigDescriptor"
  BY <1>4 DEF FrameFields
<1>11. g.at # "ecm_init_netif" /\ g.at \notin Starting
  BY <1>10 DEF Starting
<1> HIDE DEF g
<1>12. Follows(f, g)
  BY <1>4, <1>5, <1>6, <1>9, <1>10, <1>11, Zenon DEF Follows, Ahead
<1>13. DevSame /\ UNCHANGED lists
  BY DevKept, Zenon DEF GetConfiguration
<1> QED
  BY <1>3, <1>12, <1>13, GotoKeeps, Zenon

\* Onward to the next configuration, from a place outside the inner loops.
LEMMA NextConfigKeeps ==
    ASSUME UsbInv, stack # <<>>, DevSame, UNCHANGED lists, NEW f, f = stack[1], f.netif = NULL,
           f.at \notin Searching, NextConfig(f)
    PROVE  UsbInv'
<1>1. DOMAIN f = FrameFields /\ f.config \in Nat /\ f.nconf \in Nat /\ f.current_int \in Nat
  BY HeadIs, Zenon DEF Shape
<1>2. Goes(f, 0) /\ 0 \in Nat
  BY <1>1, NextConfigIs
<1> QED
  BY <1>2, KeepsGoing, Zenon

LEMMA GetConfigDescriptorKeeps ==
    ASSUME UsbInv, stack # <<>>, NEW f, f = stack[1], GetConfigDescriptor(f)
    PROVE  UsbInv'
<1> DEFINE g == [f EXCEPT !.at = "usb_SetConfiguration"]
<1>1. Shape(f, dev) /\ f.at = "usb_GetConfigDescriptor"
  BY HeadIs, Zenon DEF GetConfigDescriptor
<1>2. Goto(g) \/ NextConfig(f)
  BY Zenon DEF GetConfigDescriptor
<1>3. DevSame /\ UNCHANGED lists
  BY DevKept, Zenon DEF GetConfigDescriptor
<1>4. f.at # "ecm_init_netif" /\ f.at \notin Searching
  BY <1>1 DEF Searching
<1>5. CASE Goto(g)
  <2>1. /\ DOMAIN g = FrameFields /\ g.dev = f.dev /\ g.nconf = f.nconf /\ g.config = f.config
        /\ g.current_int = f.current_int /\ g.netif = f.netif /\ g.at = "usb_SetConfiguration"
        /\ f.nconf \in Nat
    BY <1>1 DEF FrameFields, Shape
  <2>2. g.at # "ecm_init_netif" /\ g.at \notin Starting
    BY <2>1 DEF Starting
  <2> HIDE DEF g
  <2>3. Follows(f, g)
    BY <1>1, <1>4, <2>1, <2>2, Within, Zenon
  <2> QED
    BY <1>3, <1>5, <2>3, GotoKeeps, Zenon
<1>6. CASE NextConfig(f)
  <2>1. f.netif = NULL
    BY <1>1, <1>4, Zenon DEF Shape
  <2> QED
    BY <1>3, <1>4, <1>6, <2>1, NextConfigKeeps, Zenon
<1> QED
  BY <1>2, <1>5, <1>6, Zenon

LEMMA SetConfigurationKeeps ==
    ASSUME UsbInv, stack # <<>>, NEW f, f = stack[1], SetConfiguration(f)
    PROVE  UsbInv'
<1>1. Shape(f, dev) /\ f.at = "usb_SetConfiguration" /\ UNCHANGED lists
  BY HeadIs, Zenon DEF SetConfiguration
<1>2. f.at # "ecm_init_netif" /\ f.at \notin Searching
  BY <1>1 DEF Searching
<1>3. f.netif = NULL /\ f.dev \in Devices /\ f.config \in Nat
  BY <1>1, <1>2, Zenon DEF Shape
<1>4. \/ /\ dev' = [dev EXCEPT ![f.dev].config = f.config, ![f.dev].alts = DefaultSettings(Conf(f))]
         /\ NextInterface(f, 0)
      \/ NextConfig(f) /\ UNCHANGED dev
  BY Zenon DEF SetConfiguration
<1>5. CASE /\ dev' = [dev EXCEPT ![f.dev].config = f.config, ![f.dev].alts = DefaultSettings(Conf(f))]
           /\ NextInterface(f, 0)
  <2> DEFINE alts == DefaultSettings(Conf(f))
             u == [dev[f.dev] EXCEPT !.config = f.config]
             v == [u EXCEPT !.alts = alts]
  <2>1. DOMAIN dev = Devices /\ DOMAIN dev[f.dev] = DevFields
    BY <1>3, Zenon DEF UsbInv, DevInv
  <2>2. dev' = [dev EXCEPT ![f.dev].config = f.config, ![f.dev].alts = alts]
    BY <1>5, Zenon
  <2> HIDE DEF alts
  <2>3. DOMAIN dev' = DOMAIN dev /\ dev'[f.dev] = v /\ \A e \in Devices : e # f.dev => dev'[e] = dev[e]
    BY <1>3, <2>1, <2>2
  <2>4. DOMAIN v = DevFields /\ v.config = f.config /\ v.kind = dev[f.dev].kind
    BY <2>1 DEF DevFields
  <2> HIDE DEF v
  <2>5. DevSame
    BY <1>3, <2>3, <2>4, DevSet, Zenon
  <2>6. 0 \in Nat
    OBVIOUS
  <2>7. Goes(f, 0)
    BY <1>1, <1>5, <2>6, NextInterfaceIs, Zenon
  <2> QED
    BY <1>1, <1>2, <1>3, <2>5, <2>6, <2>7, KeepsGoing, Zenon
<1>6. CASE NextConfig(f) /\ UNCHANGED dev
  BY <1>1, <1>2, <1>3, <1>6, DevKept, NextConfigKeeps, Zenon
<1> QED
  BY <1>4, <1>5, <1>6, Zenon

\* Places in the inner loops at which no interface is being added.
Trying == Searching \ {"ecm_init_netif"}

Inner(f, g) ==
    /\ DOMAIN g = FrameFields /\ g.dev = f.dev /\ g.config = f.config
    /\ g.current_int = f.current_int /\ g.netif = f.netif /\ g.nconf = f.nconf
    /\ f.at \in Trying /\ g.at \in Trying

LEMMA InnerKeeps ==
    ASSUME UsbInv, stack # <<>>, NEW f, f = stack[1], DevSame, UNCHANGED lists,
           NEW g, Goto(g), Inner(f, g)
    PROVE  UsbInv'
<1>1. Shape(f, dev)
  BY HeadIs, Zenon
<1>2. /\ DOMAIN g = FrameFields /\ g.dev = f.dev /\ g.config = f.config
      /\ g.current_int = f.current_int /\ g.netif = f.netif /\ g.nconf = f.nconf
  BY Zenon DEF Inner
<1>3. f.nconf \in Nat
  BY <1>1, Zenon DEF Shape
<1>4. /\ f.at # "ecm_init_netif" /\ g.at # "ecm_init_netif" /\ g.at \in Searching
      /\ g.at \notin Starting
  BY DEF Inner, Trying, Searching, Starting
<1>5. Follows(f, g)
  BY <1>1, <1>2, <1>3, <1>4, Within, Zenon
<1> QED
  BY <1>5, GotoKeeps, Zenon

\* The next setting is tried.
LEMMA ContinueInner ==
    ASSUME NEW f, Shape(f, dev), f.at \in Trying, Continue(f)
    PROVE  \E g : Goto(g) /\ Inner(f, g)
<1> DEFINE g == [f EXCEPT !.at = "search", !.todo = Tail(@)]
<1>1. Inner(f, g)
  BY DEF Inner, FrameFields, Shape, Trying, Searching
<1> QED
  BY <1>1, Zenon DEF Continue

LEMMA NextCandidateKeeps ==
    ASSUME UsbInv, stack # <<>>, NEW f, f = stack[1], NextCandidate(f)
    PROVE  UsbInv'
<1>1. Shape(f, dev) /\ f.at = "search" /\ UNCHANGED <<dev, lists>>
  BY HeadIs, Zenon DEF NextCandidate
<1>2. DevSame /\ UNCHANGED lists
  BY <1>1, DevKept, Zenon
<1>3. f.at \in Trying /\ f.at # "ecm_init_netif"
  BY <1>1 DEF Trying, Searching
<1> DEFINE subs == get_subordinate_ints(Conf(f), int_desc(f))
           g == [f EXCEPT !.at = "subordinates", !.eps = NoEndpoints, !.subs = subs]
<1>4. Break(f) \/ Goto(g)
  BY Zenon DEF NextCandidate
<1> HIDE DEF subs
<1>5. Inner(f, g)
  BY <1>1, <1>3 DEF Inner, FrameFields, Shape, Trying, Searching
<1> HIDE DEF g
<1>6. f.netif = NULL
  BY <1>1, <1>3, Zenon DEF Shape
<1> QED
  BY <1>2, <1>4, <1>5, <1>6, InnerKeeps, BreakKeeps, Zenon

LEMMA SubordinateKeeps ==
    ASSUME UsbInv, stack # <<>>, NEW f, f = stack[1], Subordinate(f)
    PROVE  UsbInv'
<1>1. Shape(f, dev) /\ f.at = "subordinates" /\ UNCHANGED <<dev, lists>>
  BY HeadIs, Zenon DEF Subordinate
<1>2. DevSame /\ UNCHANGED lists
  BY <1>1, DevKept, Zenon
<1> DEFINE r == AllPairs[dev[f.dev].kind][f.config][Head(f.subs)]
           eps == IF r.int_desc # None THEN r.eps ELSE f.eps
           g == [f EXCEPT !.at = "usb_SetSubInterface"]
           h == [f EXCEPT !.subs = Tail(@), !.eps = eps]
<1>3. Goto(g) \/ Goto(h)
  BY Zenon DEF Subordinate
<1> HIDE DEF eps
<1>4. Inner(f, g) /\ Inner(f, h)
  BY <1>1 DEF Inner, FrameFields, Shape, Trying, Searching
<1> HIDE DEF g, h
<1> QED
  BY <1>2, <1>3, <1>4, InnerKeeps, Zenon

LEMMA DevOther ==
    ASSUME UsbInv, NEW d \in Devices, NEW c \in {"present", "enabled", "alts"}, NEW x,
           dev' = [dev EXCEPT ![d] = [dev[d] EXCEPT ![c] = x]]
    PROVE  DevSame
<1> DEFINE v == [dev[d] EXCEPT ![c] = x]
<1>1. DOMAIN dev = Devices /\ DOMAIN dev[d] = DevFields /\ dev[d].config \in Nat
  BY Zenon DEF UsbInv, DevInv
<1>2. DOMAIN v = DevFields /\ v.config = dev[d].config /\ v.kind = dev[d].kind
  BY <1>1 DEF DevFields
<1>3. DOMAIN dev' = DOMAIN dev /\ dev'[d] = v /\ \A e \in Devices : e # d => dev'[e] = dev[e]
  BY <1>1
<1> HIDE DEF v
<1> QED
  BY <1>1, <1>2, <1>3, DevSet, Zenon

LEMMA SetSubInterfaceKeeps ==
    ASSUME UsbInv, stack # <<>>, NEW f, f = stack[1], SetSubInterface(f)
    PROVE  UsbInv'
<1>1. Shape(f, dev) /\ f.at = "usb_SetSubInterface" /\ UNCHANGED lists
  BY HeadIs, Zenon DEF SetSubInterface
<1> DEFINE s == AllPairs[dev[f.dev].kind][f.config][Head(f.subs)]
           alts == SelectSetting(dev[f.dev].alts, Conf(f), s.int_desc)
<1>2. PICK r \in Results(f.dev) :
          /\ Goto([f EXCEPT !.at = "subordinates", !.subs = Tail(@),
                   !.eps = IF r = "USB_SUCCESS" THEN s.eps ELSE @])
          /\ dev' = IF r = "USB_SUCCESS" THEN [dev EXCEPT ![f.dev].alts = alts] ELSE dev
  BY Zenon DEF SetSubInterface
<1> DEFINE eps == IF r = "USB_SUCCESS" THEN s.eps ELSE f.eps
           g == [f EXCEPT !.at = "subordinates", !.subs = Tail(@), !.eps = eps]
<1>3. Goto(g)
  BY <1>2, Zenon
<1>4. dev' = [dev EXCEPT ![f.dev] = [dev[f.dev] EXCEPT !["alts"] = alts]] \/ UNCHANGED dev
  BY <1>2, Zenon
<1> HIDE DEF s, alts, eps
<1>5. f.dev \in Devices /\ "alts" \in {"present", "enabled", "alts"}
  BY <1>1, Zenon DEF Shape
<1>6. DevSame
  BY <1>4, <1>5, DevKept, DevOther, Zenon
<1>7. Inner(f, g)
  BY <1>1 DEF Inner, FrameFields, Shape, Trying, Searching
<1> HIDE DEF g
<1> QED
  BY <1>1, <1>3, <1>6, <1>7, InnerKeeps, Zenon

LEMMA OwnEndpointsKeeps ==
    ASSUME UsbInv, stack # <<>>, NEW f, f = stack[1], OwnEndpoints(f)
    PROVE  UsbInv'
<1>1. Shape(f, dev) /\ f.at = "subordinates" /\ UNCHANGED <<dev, lists>>
  BY HeadIs, Zenon DEF OwnEndpoints
<1>2. DevSame /\ UNCHANGED lists
  BY <1>1, DevKept, Zenon
<1> DEFINE eps == get_endpoints(Conf(f), int_desc(f), f.eps)
           at == IF Conf(f)[int_desc(f)].bAlternateSetting # 0 THEN "usb_SetInterface" ELSE "malloc"
           g == [f EXCEPT !.eps = eps, !.at = at]
<1>3. Continue(f) \/ Goto(g)
  BY Zenon DEF OwnEndpoints
<1>4. at \in {"usb_SetInterface", "malloc"}
  BY Zenon
<1> HIDE DEF eps, at
<1>5. Inner(f, g) /\ f.at \in Trying
  BY <1>1, <1>4 DEF Inner, FrameFields, Shape, Trying, Searching
<1> HIDE DEF g
<1> QED
  BY <1>1, <1>2, <1>3, <1>5, ContinueInner, InnerKeeps, Zenon

LEMMA SetInterfaceKeeps ==
    ASSUME UsbInv, stack # <<>>, NEW f, f = stack[1], SetInterface(f)
    PROVE  UsbInv'
<1>1. Shape(f, dev) /\ f.at = "usb_SetInterface" /\ UNCHANGED lists
  BY HeadIs, Zenon DEF SetInterface
<1> DEFINE alts == SelectSetting(dev[f.dev].alts, Conf(f), int_desc(f))
           g == [f EXCEPT !.at = "malloc"]
<1>2. \/ Goto(g) /\ dev' = [dev EXCEPT ![f.dev] = [dev[f.dev] EXCEPT !["alts"] = alts]]
      \/ Break(f) /\ UNCHANGED dev
  BY Zenon DEF SetInterface
<1> HIDE DEF alts
<1>3. f.dev \in Devices /\ "alts" \in {"present", "enabled", "alts"}
  BY <1>1, Zenon DEF Shape
<1>4. DevSame
  BY <1>2, <1>3, DevKept, DevOther, Zenon
<1>5. Inner(f, g) /\ f.at # "ecm_init_netif"
  BY <1>1 DEF Inner, FrameFields, Shape, Trying, Searching
<1> HIDE DEF g
<1>6. f.netif = NULL
  BY <1>1, <1>5, Zenon DEF Shape
<1> QED
  BY <1>1, <1>2, <1>4, <1>5, <1>6, InnerKeeps, BreakKeeps, Zenon

LEMMA NoMemoryKeeps ==
    ASSUME UsbInv, stack # <<>>, NEW f, f = stack[1], NoMemory(f)
    PROVE  UsbInv'
<1>1. Shape(f, dev) /\ f.at = "malloc" /\ UNCHANGED <<dev, lists>> /\ Break(f)
  BY HeadIs, Zenon DEF NoMemory
<1>2. DevSame /\ UNCHANGED lists
  BY <1>1, DevKept, Zenon
<1>3. f.netif = NULL
  BY <1>1 DEF Shape
<1> QED
  BY <1>1, <1>2, <1>3, BreakKeeps, Zenon

-----------------------------------------------------------------------------
(* Events.                                                                 *)

LEMMA WokenIs ==
    ASSUME UsbInv
    PROVE  \/ Woken = stack
           \/ /\ stack # <<>>
              /\ \E g : Replaced(Woken, stack, g) /\ Follows(stack[1], g)
<1> DEFINE f == stack[1]
           g == [f EXCEPT !.at = "usb_GetDeviceDescriptor"]
<1>1. SUFFICES ASSUME stack # <<>>, Head(stack).at = "usb_WaitForEvents"
               PROVE  Replaced(Woken, stack, g) /\ Follows(f, g)
  BY Zenon DEF Woken
<1>2. Shape(f, dev) /\ f.at = "usb_WaitForEvents"
  BY <1>1, HeadIs, Zenon
<1>3. PICK S : stack \in Seq(S)
  BY Zenon DEF UsbInv, StackInv
<1>4. Woken = [stack EXCEPT ![1] = g]
  BY <1>1, Zenon DEF Woken
<1>5. Replaced(Woken, stack, g)
  <2> HIDE DEF g
  <2>1. Woken \in Seq(S \cup {g}) /\ Len(Woken) = Len(stack) /\ 1 \in 1 .. Len(stack) /\ Woken[1] = g
    BY <1>1, <1>3, <1>4
  <2>2. \A i \in 1 .. Len(stack) : i # 1 => Woken[i] = stack[i]
    BY <1>3, <1>4
  <2> QED
    BY <2>1, <2>2, Zenon DEF Replaced
<1>6. /\ DOMAIN g = FrameFields /\ g.dev = f.dev /\ g.nconf = f.nconf /\ g.config = f.config
      /\ g.current_int = f.current_int /\ g.netif = f.netif /\ g.at = "usb_GetDeviceDescriptor"
      /\ f.nconf \in Nat
  BY <1>2 DEF FrameFields, Shape
<1>7. /\ f.at # "ecm_init_netif" /\ g.at # "ecm_init_netif" /\ f.at \notin Searching
      /\ f.at \in Starting
  BY <1>2, <1>6 DEF Searching, Starting
<1> HIDE DEF f, g
<1>8. Follows(f, g)
  BY <1>2, <1>6, <1>7, Within, Zenon
<1> QED
  BY <1>5, <1>8, Zenon

\* Nothing but the devices changes.
LEMMA KeepsSame ==
    ASSUME UsbInv, DevSame, UNCHANGED <<stack, lists>>
    PROVE  UsbInv'
<1>1. PICK S : stack \in Seq(S)
  BY Zenon DEF UsbInv, StackInv
<1>2. \A i \in 1 .. Len(stack) : i + 0 = i
  BY <1>1
<1>3. ASSUME NEW i \in 1 .. Len(stack)
      PROVE  Follows(stack[i], stack[i])
  BY <1>3, FollowsSame, Zenon DEF UsbInv, StackInv, FrameInv
<1>4. Matches(0) /\ 0 \in Nat
  BY <1>1, <1>2, <1>3 DEF Matches
<1>5. Pending' = Pending
  BY Zenon DEF Pending, Frames, Range
<1> QED
  BY <1>4, <1>5, Keeps, Zenon

LEMMA WokenKeeps ==
    ASSUME UsbInv, DevSame, UNCHANGED lists, stack' = Woken
    PROVE  UsbInv'
BY WokenIs, KeepsSame, KeepsReplaced, Zenon

LEMMA EventKeeps ==
    ASSUME UsbInv, NEW d \in Devices, DeviceEnabled(d) \/ usb_handle_disconnect(d)
    PROVE  UsbInv'
<1>1. \/ dev' = [dev EXCEPT ![d] = [dev[d] EXCEPT !["enabled"] = "yes"]]
      \/ dev' = [dev EXCEPT ![d] = [dev[d] EXCEPT !["present"] = FALSE]]
  BY Zenon DEF DeviceEnabled, usb_handle_disconnect
<1>2. "enabled" \in {"present", "enabled", "alts"} /\ "present" \in {"present", "enabled", "alts"}
  BY Zenon
<1>3. DevSame
  BY <1>1, <1>2, DevOther, Zenon
<1>4. stack' = Woken /\ UNCHANGED lists
  BY Zenon DEF DeviceEnabled, usb_handle_disconnect
<1> QED
  BY <1>3, <1>4, WokenKeeps, Zenon

LEMMA WokenFollows ==
    ASSUME UsbInv
    PROVE  /\ \E T : Woken \in Seq(T)
           /\ Len(Woken) = Len(stack) /\ \A i \in 1 .. Len(stack) : Follows(stack[i], Woken[i])
<1>1. ASSUME NEW i \in 1 .. Len(stack)
      PROVE  Follows(stack[i], stack[i])
  BY <1>1, FollowsSame, Zenon DEF UsbInv, StackInv, FrameInv
<1>2. CASE Woken = stack
  BY <1>1, <1>2, Zenon DEF UsbInv, StackInv
<1>3. ASSUME NEW g, Replaced(Woken, stack, g), Follows(stack[1], g)
      PROVE  /\ \E T : Woken \in Seq(T)
             /\ Len(Woken) = Len(stack) /\ \A i \in 1 .. Len(stack) : Follows(stack[i], Woken[i])
  BY <1>1, <1>3, Zenon DEF Replaced
<1> QED
  BY <1>2, <1>3, WokenIs, Zenon

\* A connection is new: no activation and no interface is of this device.
LEMMA ConnectKeeps ==
    ASSUME UsbInv, NEW d \in Devices, usb_handle_connect(d)
    PROVE  UsbInv'
<1>1. dev[d].kind = NULL /\ UNCHANGED lists
  BY DEF usb_handle_connect, Unplugged
<1>2a. PICK kind \in DOMAIN Kinds, enabled \in BOOLEAN : \E config \in 0 .. Len(Kinds[kind]) :
          /\ dev' = [dev EXCEPT ![d] =
                [present |-> TRUE, kind |-> kind, config |-> config,
                 enabled |-> IF enabled THEN "yes" ELSE "resetting",
                 alts |-> IF config = 0 THEN {} ELSE DefaultSettings(Kinds[kind][config].descriptors)]]
          /\ stack' = <<[dev |-> d, nconf |-> 0, config |-> 0, current_int |-> 0,
                         todo |-> <<>>, subs |-> <<>>, eps |-> NoEndpoints, netif |-> NULL,
                         at |-> IF enabled THEN "usb_GetDeviceDescriptor"
                                ELSE "usb_WaitForEvents"]>> \o Woken
  BY Zenon DEF usb_handle_connect
<1>2. PICK config \in 0 .. Len(Kinds[kind]) :
          /\ dev' = [dev EXCEPT ![d] =
                [present |-> TRUE, kind |-> kind, config |-> config,
                 enabled |-> IF enabled THEN "yes" ELSE "resetting",
                 alts |-> IF config = 0 THEN {} ELSE DefaultSettings(Kinds[kind][config].descriptors)]]
          /\ stack' = <<[dev |-> d, nconf |-> 0, config |-> 0, current_int |-> 0,
                         todo |-> <<>>, subs |-> <<>>, eps |-> NoEndpoints, netif |-> NULL,
                         at |-> IF enabled THEN "usb_GetDeviceDescriptor"
                                ELSE "usb_WaitForEvents"]>> \o Woken
  BY <1>2a, Zenon
<1> DEFINE en == IF enabled THEN "yes" ELSE "resetting"
           alts == IF config = 0 THEN {} ELSE DefaultSettings(Kinds[kind][config].descriptors)
           v == [present |-> TRUE, kind |-> kind, config |-> config, enabled |-> en, alts |-> alts]
           at == IF enabled THEN "usb_GetDeviceDescriptor" ELSE "usb_WaitForEvents"
           f == [dev |-> d, nconf |-> 0, config |-> 0, current_int |-> 0, todo |-> <<>>,
                 subs |-> <<>>, eps |-> NoEndpoints, netif |-> NULL, at |-> at]
<1>3. dev' = [dev EXCEPT ![d] = v] /\ stack' = <<f>> \o Woken
  BY <1>2, Zenon
<1>4. at \in {"usb_GetDeviceDescriptor", "usb_WaitForEvents"}
  BY Zenon
<1> HIDE DEF en, alts, at
<1>5. config \in Nat
  BY UsbAssumption
<1>6. DOMAIN v = DevFields /\ v.kind = kind /\ v.config = config
  BY DEF DevFields
<1> HIDE DEF v
<1>7. /\ DOMAIN dev' = Devices /\ dev'[d] = v
      /\ \A e \in Devices : e # d => dev'[e] = dev[e]
  BY <1>3 DEF UsbInv, DevInv
<1>8. kind # NULL
  BY UsbAssumption, Zenon
<1>9. DevSame
  <2>1. ASSUME NEW e \in Devices
        PROVE  /\ DOMAIN dev'[e] = DevFields /\ dev'[e].config \in Nat
               /\ dev'[e].kind \in DOMAIN Kinds \cup {NULL}
               /\ dev[e].kind # NULL => dev'[e].kind # NULL
    <3>1. CASE e = d
      BY <1>1, <1>5, <1>6, <1>7, <3>1, Zenon
    <3>2. CASE e # d
      BY <1>7, <2>1, <3>2, Zenon DEF UsbInv, DevInv
    <3> QED
      BY <3>1, <3>2, Zenon
  <2> QED
    BY <1>7, <2>1, Zenon DEF DevSame
<1>10. /\ DOMAIN f = FrameFields /\ f.dev = d /\ f.nconf = 0 /\ f.config = 0 /\ f.current_int = 0
       /\ f.netif = NULL /\ f.at = at
  BY DEF FrameFields
<1> HIDE DEF f
<1>11. Shape(f, dev')
  BY <1>4, <1>6, <1>7, <1>8, <1>10 DEF Shape, Starting
<1>12. Listed' = Listed /\ UNCHANGED netif
  BY <1>1, Zenon DEF lists, Listed, Range
<1>13. \A a \in Listed : netif[a].dev # d
  BY <1>1, Zenon DEF UsbInv, ListInv, Entry
<1>14. FrameInv(f, dev', Listed', netif')
  BY <1>10, <1>11, <1>12, <1>13, Zenon DEF FrameInv
<1>15. PICK T : Woken \in Seq(T)
  BY WokenFollows, Zenon
<1>16. Len(Woken) = Len(stack) /\ \A i \in 1 .. Len(stack) : Follows(stack[i], Woken[i])
  BY WokenFollows, Zenon
<1>17. /\ stack' \in Seq(T \cup {f}) /\ Len(stack') = Len(stack) + 1 /\ stack'[1] = f
       /\ Len(stack) \in Nat
       /\ \A i \in 1 .. Len(stack') : i # 1 => i - 1 \in 1 .. Len(stack) /\ stack'[i] = Woken[i - 1]
  <2>1. Woken \in Seq(T \cup {f}) /\ <<f>> \in Seq(T \cup {f}) /\ Len(Woken) \in Nat
    BY <1>15
  <2> QED
    BY <1>3, <1>16, <2>1
<1>18. ASSUME NEW i \in 1 .. Len(stack'), i # 1
       PROVE  /\ i - 1 \in 1 .. Len(stack) /\ Follows(stack[i - 1], stack'[i])
              /\ Shape(stack[i - 1], dev) /\ FrameInv(stack'[i], dev', Listed', netif')
  <2>1. i - 1 \in 1 .. Len(stack) /\ Follows(stack[i - 1], stack'[i])
    BY <1>16, <1>17, <1>18, Zenon
  <2>2. FrameInv(stack[i - 1], dev, Listed, netif)
    BY <2>1, Zenon DEF UsbInv, StackInv
  <2> QED
    BY <1>1, <1>9, <2>1, <2>2, FrameKept, Zenon DEF FrameInv
<1>19. ASSUME NEW i \in 1 .. Len(stack'), i # 1
       PROVE  stack'[i].dev # d
  BY <1>1, <1>18, <1>19, Zenon DEF Follows, Shape
<1>20. ASSUME NEW i \in 1 .. Len(stack'), NEW j \in 1 .. Len(stack'), i # j
       PROVE  /\ stack'[i].dev # stack'[j].dev
              /\ stack'[i].netif # NULL => stack'[i].netif # stack'[j].netif
  <2>1. CASE i = 1 \/ j = 1
    BY <1>10, <1>17, <1>19, <1>20, <2>1, Zenon
  <2>2. CASE i # 1 /\ j # 1
    <3>1. i - 1 # j - 1
      BY <1>17, <1>20
    <3>2. /\ i - 1 \in 1 .. Len(stack) /\ Follows(stack[i - 1], stack'[i])
          /\ j - 1 \in 1 .. Len(stack) /\ Follows(stack[j - 1], stack'[j])
      BY <1>18, <2>2, Zenon
    <3>3. /\ stack[i - 1].dev # stack[j - 1].dev
          /\ stack[i - 1].netif # NULL => stack[i - 1].netif # stack[j - 1].netif
      BY <3>1, <3>2, Zenon DEF UsbInv, StackInv
    <3> QED
      BY <3>2, <3>3, Zenon DEF Follows
  <2> QED
    BY <2>1, <2>2, Zenon
<1>21. StackInv'
  <2>1. \A i \in 1 .. Len(stack') : FrameInv(stack'[i], dev', Listed', netif')
    BY <1>14, <1>17, <1>18, Zenon
  <2> QED
    BY <1>17, <1>20, <2>1, Zenon DEF StackInv
<1>22. Pending' = Pending
  <2>1. Pending = {stack[i].netif : i \in 1 .. Len(stack)} \ {NULL}
    BY SetsAre, Zenon
  <2>2. Pending' = {stack'[i].netif : i \in 1 .. Len(stack')} \ {NULL}
    BY <1>17, NewSetsAre, Zenon
  <2>3. \A i \in 1 .. Len(stack') : stack'[i].netif # NULL =>
            i - 1 \in 1 .. Len(stack) /\ stack'[i].netif = stack[i - 1].netif
    BY <1>10, <1>17, <1>18, Zenon DEF Follows
  <2>4. \A i \in 1 .. Len(stack) : i + 1 \in 1 .. Len(stack') /\ (i + 1) - 1 = i /\ i + 1 # 1
    BY <1>17
  <2>5. ASSUME NEW i \in 1 .. Len(stack)
        PROVE  stack[i].netif # NULL => stack[i].netif \in Pending'
    <3>1. i + 1 \in 1 .. Len(stack') /\ Follows(stack[(i + 1) - 1], stack'[i + 1])
      BY <1>18, <2>4, <2>5, Zenon
    <3>2. stack'[i + 1].netif = stack[i].netif
      BY <2>4, <2>5, <3>1, Zenon DEF Follows
    <3> QED
      BY <2>2, <3>1, <3>2, Zenon
  <2>6. \A x \in Pending' : x \in Pending
    BY <2>1, <2>2, <2>3, Zenon
  <2>7. \A x \in Pending : x \in Pending'
    BY <2>1, <2>5, Zenon
  <2> QED
    BY <2>6, <2>7
<1> QED
  BY <1>1, <1>9, <1>21, <1>22, ListKept, Zenon DEF UsbInv

-----------------------------------------------------------------------------
(* Adding an interface.                                                    *)

LEMMA InHeap ==
    ASSUME UsbInv
    PROVE  Listed \cup Pending \subseteq heap
<1>1. ASSUME NEW a \in Listed \cup Pending
      PROVE  a \in heap
  <2>1. a \in {a, netif[a].state}
    BY Zenon
  <2>2. heap = UNION {{x, netif[x].state} : x \in Listed \cup Pending}
    BY Zenon DEF UsbInv, HeapExact
  <2> QED
    BY <1>1, <2>1, <2>2, Zenon
<1> QED
  BY <1>1, Zenon

LEMMA AddNetifKeeps ==
    ASSUME UsbInv, stack # <<>>, NEW f, f = stack[1], AddNetif(f), EndpointsFound(f)
    PROVE  UsbInv'
<1>1. Shape(f, dev) /\ FrameInv(f, dev, Listed, netif) /\ 1 \in 1 .. Len(stack) /\ f.at = "malloc"
  BY HeadIs, Zenon DEF AddNetif
<1>2. UNCHANGED <<dev, netif_list, netif_num>>
  BY Zenon DEF AddNetif
<1>3. PICK a \in malloc(NetifAddr), b \in malloc(StateAddr) :
          /\ netif' = Stored(netif, a, [state |-> b, dev |-> f.dev, config |-> f.config,
                                        int |-> f.current_int, num |-> netif_num])
          /\ heap' = heap \cup {a, b}
          /\ Goto([f EXCEPT !.at = "ecm_init_netif", !.netif = a])
  BY Zenon DEF AddNetif
<1> DEFINE n == [state |-> b, dev |-> f.dev, config |-> f.config, int |-> f.current_int,
                 num |-> netif_num]
           g == [f EXCEPT !.at = "ecm_init_netif", !.netif = a]
<1>4. a \in NetifAddr /\ a \notin heap /\ a # NULL
  <2>1. NetifAddr \subseteq Nat /\ NULL \notin NetifAddr
    BY UsbAssumption, Zenon
  <2>2. a \in NetifAddr /\ a \notin heap
    BY <2>1, MallocIs, Zenon
  <2> QED
    BY <2>1, <2>2, Zenon
<1>5. a \notin Listed /\ a \notin Pending
  BY <1>4, InHeap, Zenon
<1>6. /\ DOMAIN g = FrameFields /\ g.dev = f.dev /\ g.config = f.config /\ g.nconf = f.nconf
      /\ g.current_int = f.current_int /\ g.netif = a /\ g.at = "ecm_init_netif"
  BY <1>1 DEF FrameFields, Shape
<1>7. /\ DOMAIN n = NetifFields /\ n.state = b /\ n.dev = f.dev /\ n.config = f.config
      /\ n.int = f.current_int /\ n.num = netif_num
  BY DEF NetifFields
<1>8. netif' = Stored(netif, a, n) /\ Goto(g)
  BY <1>3, Zenon
<1> HIDE DEF n, g
<1>9. /\ DOMAIN netif' = DOMAIN netif \cup {a} /\ netif'[a] = n
      /\ \A x \in DOMAIN netif : x # a => netif'[x] = netif[x]
  BY <1>8, Zenon DEF Stored
<1>10. \A x \in Listed \cup Pending : x \in DOMAIN netif /\ x # a /\ netif'[x] = netif[x]
  BY <1>5, <1>9, Zenon DEF UsbInv, ListInv
<1>11. Replaced(stack', stack, g)
  BY <1>8, GotoIs, Zenon
<1>12. /\ Len(stack') = Len(stack) /\ stack'[1] = g
       /\ \A i \in 1 .. Len(stack) : i # 1 => stack'[i] = stack[i]
  BY <1>11, Zenon DEF Replaced
<1>13. PICK T : stack' \in Seq(T)
  BY <1>11, Zenon DEF Replaced
<1>14. f.netif = NULL /\ f.at \in Searching /\ g.at \in Searching /\ g.at \notin Starting
  BY <1>1, <1>6 DEF Shape, Searching, Starting
<1>15. Listed' = Listed
  BY <1>2, Zenon DEF Listed, Range
<1>16. Pending = {stack[i].netif : i \in 1 .. Len(stack)} \ {NULL}
  BY SetsAre, Zenon
<1>17. Pending' = Pending \cup {a}
  <2>1. Pending' = {stack'[i].netif : i \in 1 .. Len(stack')} \ {NULL}
    BY <1>13, NewSetsAre, Zenon
  <2>2. \A x \in Pending : x \in Pending'
    BY <1>12, <1>14, <1>16, <2>1, Zenon
  <2>3. a \in Pending'
    BY <1>1, <1>4, <1>6, <1>12, <2>1, Zenon
  <2>4. \A x \in Pending' : x = a \/ x \in Pending
    BY <1>6, <1>12, <1>16, <2>1, Zenon
  <2> QED
    BY <2>2, <2>3, <2>4
<1>18. FrameInv(g, dev', Listed', netif')
  <2>1. Shape(g, dev')
    BY <1>1, <1>2, <1>4, <1>6, <1>14, Zenon DEF Shape
  <2>2. ASSUME NEW x \in Listed, netif'[x].dev = g.dev
        PROVE  Earlier(g, netif'[x])
    <3>1. Earlier(f, netif[x]) /\ netif'[x] = netif[x]
      BY <1>1, <1>6, <1>10, <2>2, Zenon DEF FrameInv
    <3> QED
      BY <1>6, <1>14, <3>1, Zenon DEF Earlier
  <2> QED
    BY <1>5, <1>6, <1>7, <1>9, <1>15, <2>1, <2>2, Zenon DEF FrameInv
<1>19. ASSUME NEW i \in 1 .. Len(stack), i # 1
       PROVE  FrameInv(stack[i], dev', Listed', netif')
  <2>1. FrameInv(stack[i], dev, Listed, netif)
    BY <1>19, Zenon DEF UsbInv, StackInv
  <2>2. stack[i].netif # NULL => stack[i].netif \in Pending
    BY <1>16, <1>19, Zenon
  <2> QED
    BY <1>2, <1>10, <1>15, <2>1, <2>2, Zenon DEF FrameInv
<1>20. StackInv'
  <2>1. \A i \in 1 .. Len(stack') : FrameInv(stack'[i], dev', Listed', netif')
    BY <1>12, <1>18, <1>19, Zenon
  <2>2. ASSUME NEW i \in 1 .. Len(stack'), NEW j \in 1 .. Len(stack'), i # j
        PROVE  /\ stack'[i].dev # stack'[j].dev
               /\ stack'[i].netif # NULL => stack'[i].netif # stack'[j].netif
    <3>1. /\ stack[i].dev # stack[j].dev
          /\ stack[i].netif # NULL => stack[i].netif # stack[j].netif
      BY <1>12, <2>2, Zenon DEF UsbInv, StackInv
    <3>2. \A k \in 1 .. Len(stack) : stack'[k].dev = stack[k].dev
      BY <1>6, <1>12, Zenon
    <3>3. \A k \in 1 .. Len(stack) : stack[k].netif # a
      BY <1>4, <1>5, <1>16, Zenon
    <3>4. stack'[i].dev # stack'[j].dev
      BY <1>12, <2>2, <3>1, <3>2, Zenon
    <3>5. stack[i].netif # a /\ stack[j].netif # a
      BY <1>12, <2>2, <3>3, Zenon
    <3>6. /\ i = 1 => stack'[i].netif = a
          /\ j = 1 => stack'[j].netif = a
      BY <1>6, <1>12, Zenon
    <3>7. /\ i # 1 => stack'[i] = stack[i]
          /\ j # 1 => stack'[j] = stack[j]
      BY <1>12, <2>2, Zenon
    <3>8. CASE i = 1
      <4>1. stack'[i].netif = a /\ stack'[j] = stack[j]
        BY <2>2, <3>6, <3>7, <3>8, Zenon
      <4> QED
        BY <3>4, <3>5, <4>1, Zenon
    <3>9. CASE j = 1
      <4>1. stack'[j].netif = a /\ stack'[i] = stack[i]
        BY <2>2, <3>6, <3>7, <3>9, Zenon
      <4> QED
        BY <3>4, <3>5, <4>1, Zenon
    <3>10. CASE i # 1 /\ j # 1
      <4>1. stack'[i] = stack[i] /\ stack'[j] = stack[j]
        BY <3>7, <3>10, Zenon
      <4> QED
        BY <3>1, <3>4, <4>1, Zenon
    <3> QED
      BY <3>8, <3>9, <3>10, Zenon
  <2> QED
    BY <1>13, <2>1, <2>2, Zenon DEF StackInv
<1>21. ListInv'
  <2>1. Entry(n, dev')
    BY <1>1, <1>2, <1>7, Zenon DEF Shape, Entry, UsbInv, ListInv
  <2>2. \A x \in Listed \cup Pending : Entry(netif'[x], dev')
    BY <1>2, <1>10, Zenon DEF UsbInv, ListInv
  <2>3. \A x \in Listed' \cup Pending' : x \in DOMAIN netif' /\ Entry(netif'[x], dev')
    BY <1>9, <1>10, <1>15, <1>17, <2>1, <2>2, Zenon
  <2>4. \A i \in 1 .. Len(netif_list) : netif'[netif_list[i]] = netif[netif_list[i]]
    BY <1>10, SetsAre, Zenon
  <2> QED
    BY <1>2, <2>3, <2>4, Zenon DEF UsbInv, ListInv
<1>22. HeapExact'
  <2>1. ASSUME NEW y \in heap'
        PROVE  \E x \in Listed' \cup Pending' : y \in {x, netif'[x].state}
    <3>1. CASE y \in {a, b}
      BY <1>7, <1>9, <1>17, <3>1, Zenon
    <3>2. CASE y \in heap
      <4>1. PICK x \in Listed \cup Pending : y \in {x, netif[x].state}
        BY <3>2, Zenon DEF UsbInv, HeapExact
      <4> QED
        BY <1>10, <1>15, <1>17, <4>1, Zenon
    <3> QED
      BY <1>3, <2>1, <3>1, <3>2, Zenon
  <2>2. ASSUME NEW x \in Listed' \cup Pending', NEW y \in {x, netif'[x].state}
        PROVE  y \in heap'
    <3>1. CASE x = a
      BY <1>3, <1>7, <1>9, <2>2, <3>1, Zenon
    <3>2. CASE x \in Listed \cup Pending
      BY <1>3, <1>10, <2>2, <3>2, Zenon DEF UsbInv, HeapExact
    <3> QED
      BY <1>15, <1>17, <2>2, <3>1, <3>2, Zenon
  <2>3. heap' = UNION {{x, netif'[x].state} : x \in Listed' \cup Pending'}
    BY <2>1, <2>2, Zenon
  <2> QED
    BY <2>3, Zenon DEF HeapExact
<1> QED
  BY <1>2, <1>20, <1>21, <1>22, Zenon DEF UsbInv, DevInv

LEMMA ModIs ==
    ASSUME NEW x \in Nat, NEW v \in 0 .. NetifNums - 1, x = v \/ x = v + NetifNums
    PROVE  x % NetifNums = v
<1>1. \A w \in Nat : w > 0 => \A u \in 0 .. w - 1 : u % w = u /\ (u + w) % w = u
  OBVIOUS
<1>2. NetifNums \in Nat /\ NetifNums > 0
  BY UsbAssumption
<1> QED
  BY <1>1, <1>2, Zenon

\* The loop of netif_add that looks for a number finds one, and it is free.
LEMMA UniqueNumIs ==
    ASSUME NEW num \in 0 .. NetifNums - 1, NEW used, IsFiniteSet(used),
           Cardinality(used) < NetifNums
    PROVE  UniqueNum(num, used) \in 0 .. NetifNums - 1 /\ UniqueNum(num, used) \notin used
<1> DEFINE steps == {k \in 0 .. NetifNums - 1 : (num + k) % NetifNums \notin used}
<1>1. NetifNums \in Nat /\ NetifNums > 0
  BY UsbAssumption
<1>2. steps # {}
  <2>1. IsFiniteSet(0 .. NetifNums - 1) /\ Cardinality(0 .. NetifNums - 1) = NetifNums
    BY <1>1, FS_Interval
  <2>2. SUFFICES ASSUME \A k \in 0 .. NetifNums - 1 : (num + k) % NetifNums \in used
                 PROVE  FALSE
    BY Zenon
  <2>3. ASSUME NEW v \in 0 .. NetifNums - 1
        PROVE  v \in used
    <3> DEFINE k == IF num <= v THEN v - num ELSE v + NetifNums - num
    <3>1. k \in 0 .. NetifNums - 1 /\ num + k \in Nat /\ (num + k = v \/ num + k = v + NetifNums)
      BY <1>1
    <3> HIDE DEF k
    <3>2. (num + k) % NetifNums = v
      BY <3>1, ModIs, Zenon
    <3> QED
      BY <2>2, <3>1, <3>2, Zenon
  <2>4. 0 .. NetifNums - 1 \in SUBSET used
    BY <2>3, Zenon
  <2>5. Cardinality(0 .. NetifNums - 1) <= Cardinality(used)
    BY <2>4, FS_Subset, Zenon
  <2>6. Cardinality(used) \in Nat
    BY FS_CardinalityType, Zenon
  <2> QED
    BY <1>1, <2>1, <2>5, <2>6
<1>3. steps \subseteq Nat
  BY <1>1
<1>4. Min(steps) \in steps
  BY <1>2, <1>3, MinIs, Zenon
<1>5. UniqueNum(num, used) = (num + Min(steps)) % NetifNums
  BY Zenon DEF UniqueNum
<1>6. ASSUME NEW k \in steps
      PROVE  (num + k) % NetifNums \in 0 .. NetifNums - 1 /\ (num + k) % NetifNums \notin used
  <2>1. k \in Nat /\ num \in Nat
    BY <1>1, <1>6
  <2>2. num + k \in Nat
    BY <2>1
  <2>3. (num + k) % NetifNums \in 0 .. NetifNums - 1
    BY <1>1, <2>2
  <2> QED
    BY <1>6, <2>3, Zenon
<1> HIDE DEF steps
<1> QED
  BY <1>4, <1>5, <1>6, Zenon

\* The interface being added needs memory of its own, so the others leave a number.
LEMMA NumbersLeft ==
    ASSUME UsbInv, NEW n \in NetifAddr, n \notin Listed
    PROVE  /\ IsFiniteSet({netif[a].num : a \in Listed})
           /\ Cardinality({netif[a].num : a \in Listed}) < NetifNums
<1> DEFINE used == {netif[a].num : a \in Listed}
           m == [a \in Listed |-> netif[a].num]
<1>1. IsFiniteSet(NetifAddr) /\ NetifNums \in Nat /\ Cardinality(NetifAddr) <= NetifNums
  BY UsbAssumption, Zenon
<1>2. Listed \in SUBSET (NetifAddr \ {n})
  BY SetsAre, Zenon
<1>3. /\ IsFiniteSet(NetifAddr \ {n}) /\ Cardinality(NetifAddr \ {n}) = Cardinality(NetifAddr) - 1
  BY <1>1, FS_RemoveElement
<1>4. IsFiniteSet(Listed) /\ Cardinality(Listed) <= Cardinality(NetifAddr \ {n})
  BY <1>2, <1>3, FS_Subset, Zenon
<1>5. m \in Surjection(Listed, used)
  BY Zenon DEF Surjection
<1> HIDE DEF m, used
<1>6. IsFiniteSet(used) /\ Cardinality(used) <= Cardinality(Listed)
  BY <1>4, <1>5, FS_Surjection, Zenon
<1>7. Cardinality(used) \in Nat /\ Cardinality(Listed) \in Nat /\ Cardinality(NetifAddr) \in Nat
  BY <1>1, <1>4, <1>6, FS_CardinalityType, Zenon
<1>8. Cardinality(used) < NetifNums
  BY <1>1, <1>3, <1>4, <1>6, <1>7
<1> QED
  BY <1>6, <1>8, Zenon DEF used

\* An interface at n, with number num, joins the list.
Joins(n, num) ==
    /\ n \in NetifAddr /\ n \notin Listed /\ n \in Pending
    /\ DOMAIN netif' = DOMAIN netif
    /\ \A x \in DOMAIN netif : x # n => netif'[x] = netif[x]
    /\ DOMAIN netif'[n] = NetifFields /\ netif'[n].num = num
    /\ netif'[n].state = netif[n].state /\ netif'[n].dev = netif[n].dev
    /\ netif'[n].config = netif[n].config /\ netif'[n].int = netif[n].int
    /\ netif_list' = <<n>> \o netif_list
    /\ num \in 0 .. NetifNums - 1 /\ \A a \in Listed : netif[a].num # num

LEMMA InitJoins ==
    ASSUME UsbInv, stack # <<>>, NEW f, f = stack[1], InitDone(f)
    PROVE  /\ \E num : Joins(f.netif, num) /\ netif_num' = NextNum(num)
           /\ f.at = "ecm_init_netif" /\ Goes(f, f.current_int + 1) /\ UNCHANGED <<dev, heap>>
<1> DEFINE n == f.netif
           used == {netif[a].num : a \in Listed}
           num == UniqueNum(netif[n].num, used)
<1>1. Shape(f, dev) /\ FrameInv(f, dev, Listed, netif) /\ 1 \in 1 .. Len(stack)
  BY HeadIs, Zenon
<1>2. /\ f.at = "ecm_init_netif" /\ Break(f) /\ UNCHANGED <<dev, heap>>
      /\ netif' = [netif EXCEPT ![n].num = num] /\ netif_num' = NextNum(num)
      /\ netif_list' = <<n>> \o netif_list
  BY Zenon DEF InitDone, Listed, AddedTo
<1>3. n # NULL /\ n \in NetifAddr /\ n \notin Listed
  BY <1>1, <1>2, Zenon DEF Shape, FrameInv
<1>4. n \in Pending
  BY <1>1, <1>3, SetsAre, Zenon
<1>5. n \in DOMAIN netif /\ Entry(netif[n], dev)
  BY <1>4, Zenon DEF UsbInv, ListInv
<1>6. netif[n].num \in 0 .. NetifNums - 1 /\ DOMAIN netif[n] = NetifFields
  BY <1>5, Zenon DEF Entry
<1>7. IsFiniteSet(used) /\ Cardinality(used) < NetifNums
  BY <1>3, NumbersLeft, Zenon
<1> HIDE DEF used, n
<1>8. num \in 0 .. NetifNums - 1 /\ num \notin used
  BY <1>6, <1>7, UniqueNumIs, Zenon
<1> HIDE DEF num
<1>9. /\ DOMAIN netif' = DOMAIN netif /\ netif'[n] = [netif[n] EXCEPT !.num = num]
      /\ \A x \in DOMAIN netif : x # n => netif'[x] = netif[x]
  BY <1>2, <1>5, Zenon
<1>10. /\ DOMAIN netif'[n] = NetifFields /\ netif'[n].num = num
       /\ netif'[n].state = netif[n].state /\ netif'[n].dev = netif[n].dev
       /\ netif'[n].config = netif[n].config /\ netif'[n].int = netif[n].int
  BY <1>6, <1>9 DEF NetifFields
<1>11. \A a \in Listed : netif[a].num # num
  BY <1>8, Zenon DEF used
<1>12. Joins(n, num)
  BY <1>2, <1>3, <1>4, <1>8, <1>9, <1>10, <1>11, Zenon DEF Joins
<1>13. Goes(f, f.current_int + 1)
  BY <1>1, <1>2, BreakIs, Zenon
<1> QED
  BY <1>2, <1>12, <1>13, Zenon DEF n

LEMMA JoinedList ==
    ASSUME UsbInv, NEW n, NEW num, Joins(n, num)
    PROVE  /\ netif_list' \in Seq(NetifAddr) /\ Listed' = Listed \cup {n}
           /\ Len(netif_list') = Len(netif_list) + 1 /\ netif_list'[1] = n
           /\ \A i \in 1 .. Len(netif_list') : i # 1 =>
                  i - 1 \in 1 .. Len(netif_list) /\ netif_list'[i] = netif_list[i - 1]
<1>1. netif_list \in Seq(NetifAddr) /\ n \in NetifAddr /\ netif_list' = <<n>> \o netif_list
  BY Zenon DEF UsbInv, ListInv, Joins
<1>2. /\ netif_list' \in Seq(NetifAddr)
      /\ Len(netif_list') = Len(netif_list) + 1 /\ netif_list'[1] = n
      /\ \A i \in 1 .. Len(netif_list') : i # 1 =>
             i - 1 \in 1 .. Len(netif_list) /\ netif_list'[i] = netif_list[i - 1]
      /\ \A i \in 1 .. Len(netif_list) : i + 1 \in 1 .. Len(netif_list') /\ netif_list'[i + 1] = netif_list[i]
      /\ 1 \in 1 .. Len(netif_list')
  BY <1>1
<1>3. DOMAIN netif_list' = 1 .. Len(netif_list')
  BY <1>2
<1>4. Listed' = {netif_list'[i] : i \in 1 .. Len(netif_list')}
  BY <1>3, Zenon DEF Listed, Range
<1>5. Listed = {netif_list[i] : i \in 1 .. Len(netif_list)}
  BY SetsAre, Zenon
<1>6. ASSUME NEW x \in Listed'
      PROVE  x = n \/ x \in Listed
  <2>1. PICK i \in 1 .. Len(netif_list') : x = netif_list'[i]
    BY <1>4, <1>6, Zenon
  <2>2. i = 1 \/ (i - 1 \in 1 .. Len(netif_list) /\ x = netif_list[i - 1])
    BY <1>2, <2>1, Zenon
  <2> QED
    BY <1>2, <1>5, <2>1, <2>2, Zenon
<1>7. n \in Listed' /\ \A x \in Listed : x \in Listed'
  BY <1>2, <1>4, <1>5, Zenon
<1>8. Listed' = Listed \cup {n}
  BY <1>6, <1>7
<1> QED
  BY <1>2, <1>8, Zenon

\* What joining does to the frames.
LEMMA OthersJoin ==
    ASSUME UsbInv, NEW num, Joins(stack[1].netif, num), UNCHANGED dev,
           NEW i \in 1 .. Len(stack), i # 1, 1 \in 1 .. Len(stack)
    PROVE  FrameInv(stack[i], dev', Listed', netif')
<1> DEFINE n == stack[1].netif
           g == stack[i]
<1>1. FrameInv(g, dev, Listed, netif) /\ FrameInv(stack[1], dev, Listed, netif)
  BY Zenon DEF UsbInv, StackInv
<1>2. g.dev # stack[1].dev /\ (g.netif # NULL => g.netif # n)
  BY Zenon DEF UsbInv, StackInv
<1>3. n # NULL /\ netif[n].dev = stack[1].dev
  <2>1. n \in Pending
    BY Zenon DEF Joins
  <2>2. n # NULL
    BY <2>1, Zenon DEF Pending
  <2> QED
    BY <1>1, <2>2, Zenon DEF FrameInv
<1>4. Listed' = Listed \cup {n} /\ netif'[n].dev = netif[n].dev /\ n \notin Listed
  <2>1. Joins(n, num)
    BY Zenon
  <2>2. Listed' = Listed \cup {n}
    BY <2>1, JoinedList, Zenon
  <2> QED
    BY <2>1, <2>2, Zenon DEF Joins
<1>5. \A x \in Listed : netif'[x] = netif[x]
  BY <1>4, Zenon DEF UsbInv, ListInv, Joins
<1>6. g.netif # NULL => netif'[g.netif] = netif[g.netif]
  <2>1. g.netif # NULL => g.netif \in Pending
    BY SetsAre, Zenon
  <2> QED
    BY <1>2, <2>1, Zenon DEF UsbInv, ListInv, Joins
<1> HIDE DEF n, g
<1>7. Shape(g, dev')
  BY <1>1, Zenon DEF FrameInv
<1>8. \A x \in Listed' : netif'[x].dev = g.dev => x \in Listed
  BY <1>2, <1>3, <1>4, Zenon
<1>9. \A x \in Listed' : netif'[x].dev = g.dev => Earlier(g, netif'[x])
  BY <1>1, <1>5, <1>8, Zenon DEF FrameInv
<1>10. g.netif # NULL => g.netif \notin Listed'
  BY <1>1, <1>2, <1>4, Zenon DEF FrameInv
<1> QED
  BY <1>1, <1>6, <1>7, <1>9, <1>10, Zenon DEF FrameInv, g

LEMMA RunningJoins ==
    ASSUME UsbInv, stack # <<>>, NEW num, Joins(stack[1].netif, num), UNCHANGED dev,
           NEW g, Onward(stack[1], g, stack[1].current_int + 1)
    PROVE  FrameInv(g, dev', Listed', netif')
<1> DEFINE f == stack[1]
           n == stack[1].netif
<1>1. FrameInv(f, dev, Listed, netif) /\ Shape(f, dev) /\ n \in Pending
  BY HeadIs, Zenon DEF Joins
<1>2. n # NULL
  BY <1>1, Zenon DEF Pending
<1>3. f.at \in Searching
  <2>1. f.at = "ecm_init_netif"
    BY <1>1, <1>2, Zenon DEF Shape
  <2> QED
    BY <2>1 DEF Searching
<1>4. /\ netif'[n].dev = f.dev /\ netif'[n].config = f.config /\ netif'[n].int = f.current_int
      /\ Listed' = Listed \cup {n} /\ n \notin Listed
  <2>1. Listed' = Listed \cup {n}
    BY JoinedList, Zenon
  <2>2. netif[n].dev = f.dev /\ netif[n].config = f.config /\ netif[n].int = f.current_int
    BY <1>1, <1>2, Zenon DEF FrameInv
  <2> QED
    BY <2>1, <2>2, Zenon DEF Joins
<1>5. \A x \in Listed : netif'[x] = netif[x]
  BY <1>4, Zenon DEF UsbInv, ListInv, Joins
<1> HIDE DEF f, n
<1>6. f.config \in Nat /\ f.current_int \in Nat
  BY <1>1, Zenon DEF Shape
<1>7. /\ g.config \in Nat /\ g.current_int \in Nat /\ g.netif = NULL /\ g.dev = f.dev
      /\ f.config < g.config
         \/ (g.config = f.config /\ g.at \in Searching /\ g.current_int = f.current_int + 1)
  BY Zenon DEF Onward, f
<1>8. g.at \in Searching /\ g.current_int = f.current_int + 1 =>
          f.current_int < g.current_int /\ f.current_int <= g.current_int
  BY <1>6, <1>7
<1>9. Ahead(f, g)
  BY <1>7, <1>8, Zenon DEF Ahead
<1>10. Earlier(g, netif'[n])
  BY <1>4, <1>7, <1>8, Zenon DEF Earlier
<1>11. ASSUME NEW x \in Listed, netif[x].dev = f.dev
       PROVE  Earlier(g, netif[x])
  <2>1. Earlier(f, netif[x])
    BY <1>1, <1>11, Zenon DEF FrameInv
  <2>2. netif[x].config \in Nat /\ netif[x].int \in Nat
    BY <1>11, Zenon DEF UsbInv, ListInv, Entry
  <2> QED
    BY <1>6, <1>7, <1>9, <2>1, <2>2, EarlierKept, Zenon
<1>12. \A x \in Listed' : netif'[x].dev = g.dev => Earlier(g, netif'[x])
  BY <1>4, <1>5, <1>7, <1>10, <1>11, Zenon
<1>13. Shape(g, dev')
  BY <1>1, Zenon DEF Shape, Onward, f
<1> QED
  BY <1>7, <1>12, <1>13, Zenon DEF FrameInv

\* The stack after the interface of its first frame has joined the list.
LEMMA JoinedStack ==
    ASSUME UsbInv, stack # <<>>, NEW num, Joins(stack[1].netif, num), UNCHANGED dev,
           Goes(stack[1], stack[1].current_int + 1)
    PROVE  StackInv' /\ Pending' = Pending \ {stack[1].netif}
<1> DEFINE n == stack[1].netif
<1>1. 1 \in 1 .. Len(stack)
  BY HeadIs, Zenon
<1>2. Pending = {stack[i].netif : i \in 1 .. Len(stack)} \ {NULL} /\ Len(stack) \in Nat
  BY SetsAre, Zenon
<1>3. n # NULL
  BY Zenon DEF Joins, Pending
<1>4. \A i, j \in 1 .. Len(stack) : i # j =>
          stack[i].dev # stack[j].dev /\ (stack[i].netif # NULL => stack[i].netif # stack[j].netif)
  BY Zenon DEF UsbInv, StackInv
<1>5. \A i \in 1 .. Len(stack) : i # 1 => stack[i].netif # n
  BY <1>1, <1>3, <1>4, Zenon
<1>6. \A i \in 1 .. Len(stack) : i # 1 => FrameInv(stack[i], dev', Listed', netif')
  BY <1>1, OthersJoin, Zenon
<1> HIDE DEF n
<1>7. ASSUME NEW g, Replaced(stack', stack, g), Onward(stack[1], g, stack[1].current_int + 1)
      PROVE  StackInv' /\ Pending' = Pending \ {n}
  <2>1. /\ Len(stack') = Len(stack) /\ stack'[1] = g
        /\ \A i \in 1 .. Len(stack) : i # 1 => stack'[i] = stack[i]
    BY <1>7, Zenon DEF Replaced
  <2>2. PICK T : stack' \in Seq(T)
    BY <1>7, Zenon DEF Replaced
  <2>3. FrameInv(g, dev', Listed', netif')
    BY <1>7, RunningJoins, Zenon
  <2>4. g.netif = NULL /\ g.dev = stack[1].dev
    BY <1>7, Zenon DEF Onward
  <2>5. \A i \in 1 .. Len(stack') : FrameInv(stack'[i], dev', Listed', netif')
    BY <1>6, <2>1, <2>3, Zenon
  <2>6. ASSUME NEW i \in 1 .. Len(stack'), NEW j \in 1 .. Len(stack'), i # j
        PROVE  /\ stack'[i].dev # stack'[j].dev
               /\ stack'[i].netif # NULL => stack'[i].netif # stack'[j].netif
    <3>1. \A k \in 1 .. Len(stack) : stack'[k].dev = stack[k].dev
      BY <2>1, <2>4, Zenon
    <3>2. stack'[i].dev # stack'[j].dev
      BY <1>4, <2>1, <2>6, <3>1, Zenon
    <3>3. stack[i].netif # NULL => stack[i].netif # stack[j].netif
      BY <1>4, <2>1, <2>6, Zenon
    <3>4. CASE i = 1
      BY <2>1, <2>4, <3>2, <3>4, Zenon
    <3>5. CASE i # 1 /\ j = 1
      BY <2>1, <2>4, <3>2, <3>5, Zenon
    <3>6. CASE i # 1 /\ j # 1
      BY <2>1, <2>6, <3>2, <3>3, <3>6, Zenon
    <3> QED
      BY <3>4, <3>5, <3>6, Zenon
  <2>7. StackInv'
    BY <2>2, <2>5, <2>6, Zenon DEF StackInv
  <2>8. Pending' = {stack'[i].netif : i \in 1 .. Len(stack')} \ {NULL}
    BY <2>2, NewSetsAre, Zenon
  <2>9. \A x \in Pending' : x \in Pending \ {n}
    BY <1>2, <1>5, <2>1, <2>4, <2>8, Zenon
  <2>10. \A x \in Pending \ {n} : x \in Pending'
    BY <1>2, <2>1, <2>8, Zenon DEF n
  <2> QED
    BY <2>7, <2>9, <2>10
<1>8. CASE Dropped(stack', stack)
  <2>1. /\ Len(stack') = Len(stack) - 1
        /\ \A i \in 1 .. Len(stack') : i + 1 \in 1 .. Len(stack) /\ stack'[i] = stack[i + 1]
    BY <1>8, Zenon DEF Dropped
  <2>2. PICK T : stack' \in Seq(T)
    BY <1>8, Zenon DEF Dropped
  <2>3. /\ \A i \in 1 .. Len(stack') : i + 1 # 1
        /\ \A i, j \in 1 .. Len(stack') : i # j => i + 1 # j + 1
        /\ \A j \in 1 .. Len(stack) : j # 1 => j - 1 \in 1 .. Len(stack') /\ (j - 1) + 1 = j
    BY <1>2, <2>1, <2>2
  <2>4. \A i \in 1 .. Len(stack') : FrameInv(stack'[i], dev', Listed', netif')
    BY <1>6, <2>1, <2>3, Zenon
  <2>5. ASSUME NEW i \in 1 .. Len(stack'), NEW j \in 1 .. Len(stack'), i # j
        PROVE  /\ stack'[i].dev # stack'[j].dev
               /\ stack'[i].netif # NULL => stack'[i].netif # stack'[j].netif
    <3>1. /\ i + 1 \in 1 .. Len(stack) /\ stack'[i] = stack[i + 1]
          /\ j + 1 \in 1 .. Len(stack) /\ stack'[j] = stack[j + 1] /\ i + 1 # j + 1
      BY <2>1, <2>3, <2>5, Zenon
    <3>2. /\ stack[i + 1].dev # stack[j + 1].dev
          /\ stack[i + 1].netif # NULL => stack[i + 1].netif # stack[j + 1].netif
      BY <1>4, <3>1, Zenon
    <3> QED
      BY <3>1, <3>2, Zenon
  <2>6. StackInv'
    BY <2>2, <2>4, <2>5, Zenon DEF StackInv
  <2>7. Pending' = {stack'[i].netif : i \in 1 .. Len(stack')} \ {NULL}
    BY <2>2, NewSetsAre, Zenon
  <2>8. ASSUME NEW x \in Pending'
        PROVE  x \in Pending \ {n}
    <3>1. PICK i \in 1 .. Len(stack') : x = stack'[i].netif /\ x # NULL
      BY <2>7, <2>8, Zenon
    <3>2. i + 1 \in 1 .. Len(stack) /\ x = stack[i + 1].netif /\ i + 1 # 1
      BY <2>1, <2>3, <3>1, Zenon
    <3> QED
      BY <1>2, <1>5, <3>1, <3>2, Zenon
  <2>9. ASSUME NEW x \in Pending \ {n}
        PROVE  x \in Pending'
    <3>1. PICK j \in 1 .. Len(stack) : x = stack[j].netif /\ x # NULL
      BY <1>2, <2>9, Zenon
    <3>2. j # 1
      BY <2>9, <3>1, Zenon DEF n
    <3>3. j - 1 \in 1 .. Len(stack') /\ stack'[j - 1] = stack[j]
      BY <2>1, <2>3, <3>2, Zenon
    <3> QED
      BY <2>7, <3>1, <3>3, Zenon
  <2>10. Pending' = Pending \ {n}
    BY <2>8, <2>9, Zenon
  <2> QED
    BY <2>6, <2>10, Zenon DEF n
<1> QED
  BY <1>7, <1>8, Zenon DEF Goes, n

LEMMA InitDoneKeeps ==
    ASSUME UsbInv, stack # <<>>, NEW f, f = stack[1], InitDone(f)
    PROVE  UsbInv'
<1> DEFINE n == f.netif
<1>1. PICK num : Joins(n, num) /\ netif_num' = NextNum(num)
  BY InitJoins, Zenon
<1>2. Goes(f, f.current_int + 1) /\ UNCHANGED <<dev, heap>>
  BY InitJoins, Zenon
<1>3. StackInv' /\ Pending' = Pending \ {n}
  BY <1>1, <1>2, JoinedStack, Zenon
<1>4. n \in Pending /\ n \notin Listed /\ Listed' = Listed \cup {n}
  <2>1. Listed' = Listed \cup {n}
    BY <1>1, JoinedList, Zenon
  <2> QED
    BY <1>1, <2>1, Zenon DEF Joins
<1>5. Listed' \cup Pending' = Listed \cup Pending
  BY <1>3, <1>4, Zenon
<1>6. /\ n # NULL /\ FrameInv(f, dev, Listed, netif) /\ Shape(f, dev)
  BY <1>4, HeadIs, Zenon DEF Pending
<1>7. \A x \in Listed \cup Pending : x \in DOMAIN netif /\ Entry(netif[x], dev)
  BY Zenon DEF UsbInv, ListInv
<1>8. \A x \in Listed \cup Pending : x # n => netif'[x] = netif[x]
  BY <1>1, <1>7, Zenon DEF Joins
<1>9. /\ DOMAIN netif' = DOMAIN netif /\ DOMAIN netif'[n] = NetifFields
      /\ netif'[n].num = num /\ num \in 0 .. NetifNums - 1
      /\ netif'[n].state = netif[n].state /\ netif'[n].dev = netif[n].dev
      /\ netif'[n].config = netif[n].config /\ netif'[n].int = netif[n].int
      /\ \A a \in Listed : netif[a].num # num
  BY <1>1, Zenon DEF Joins
<1> HIDE DEF n
<1>10. Entry(netif'[n], dev')
  <2>1. Entry(netif[n], dev)
    BY <1>4, <1>7, Zenon
  <2> QED
    BY <1>2, <1>9, <2>1, Zenon DEF Entry
<1>11. \A x \in Listed' \cup Pending' : x \in DOMAIN netif' /\ Entry(netif'[x], dev')
  BY <1>2, <1>5, <1>7, <1>8, <1>9, <1>10, Zenon
<1>12. netif_num' \in 0 .. NetifNums - 1
  <2>1. NetifNums \in Nat /\ NetifNums > 0 /\ num + 1 \in Nat
    BY <1>9, UsbAssumption
  <2>2. (num + 1) % NetifNums \in 0 .. NetifNums - 1
    BY <2>1
  <2> QED
    BY <1>1, <2>2, Zenon DEF NextNum
<1>13. ASSUME NEW y \in Listed
       PROVE  Apart(netif'[n], netif'[y]) /\ Apart(netif'[y], netif'[n])
  <2>1. netif'[y] = netif[y]
    BY <1>4, <1>8, <1>13, Zenon
  <2>2. netif'[n].num # netif[y].num
    BY <1>9, <1>13, Zenon
  <2>3. /\ netif'[n].dev = f.dev /\ netif'[n].config = f.config /\ netif'[n].int = f.current_int
    BY <1>6, <1>9, Zenon DEF FrameInv, n
  <2>4. netif[y].dev = f.dev => netif[y].config # f.config \/ netif[y].int # f.current_int
    <3>1. ASSUME netif[y].dev = f.dev
          PROVE  netif[y].config < f.config \/ netif[y].int < f.current_int
      BY <1>6, <1>13, <3>1, Zenon DEF FrameInv, Earlier
    <3>2. /\ netif[y].config \in Nat /\ netif[y].int \in Nat
          /\ f.config \in Nat /\ f.current_int \in Nat
      BY <1>6, <1>7, <1>13, Zenon DEF Entry, Shape
    <3> QED
      BY <3>1, <3>2
  <2>5. /\ <<netif'[n].dev, netif'[n].config, netif'[n].int>>
              # <<netif[y].dev, netif[y].config, netif[y].int>>
        /\ <<netif[y].dev, netif[y].config, netif[y].int>>
              # <<netif'[n].dev, netif'[n].config, netif'[n].int>>
    BY <2>3, <2>4
  <2> QED
    BY <2>1, <2>2, <2>5, Zenon DEF Apart
<1>14. /\ netif_list' \in Seq(NetifAddr)
       /\ Len(netif_list') = Len(netif_list) + 1 /\ netif_list'[1] = n
       /\ \A i \in 1 .. Len(netif_list') : i # 1 =>
              i - 1 \in 1 .. Len(netif_list) /\ netif_list'[i] = netif_list[i - 1]
  BY <1>1, JoinedList, Zenon
<1>15. \A i \in 1 .. Len(netif_list) : netif_list[i] \in Listed
  BY SetsAre, Zenon
<1>16. ASSUME NEW i \in 1 .. Len(netif_list'), NEW j \in 1 .. Len(netif_list'), i # j
       PROVE  Apart(netif'[netif_list'[i]], netif'[netif_list'[j]])
  <2>1. CASE i = 1
    <3>1. netif_list'[j] \in Listed
      BY <1>14, <1>15, <1>16, <2>1, Zenon
    <3> QED
      BY <1>13, <1>14, <2>1, <3>1, Zenon
  <2>2. CASE j = 1
    <3>1. netif_list'[i] \in Listed
      BY <1>14, <1>15, <1>16, <2>2, Zenon
    <3> QED
      BY <1>13, <1>14, <2>2, <3>1, Zenon
  <2>3. CASE i # 1 /\ j # 1
    <3>1. i - 1 # j - 1
      BY <1>14, <1>16
    <3>2. /\ i - 1 \in 1 .. Len(netif_list) /\ netif_list'[i] = netif_list[i - 1]
          /\ j - 1 \in 1 .. Len(netif_list) /\ netif_list'[j] = netif_list[j - 1]
      BY <1>14, <2>3, Zenon
    <3>3. Apart(netif[netif_list[i - 1]], netif[netif_list[j - 1]])
      BY <3>1, <3>2, Zenon DEF UsbInv, ListInv
    <3>4. \A x \in Listed : netif'[x] = netif[x]
      BY <1>4, <1>8, Zenon
    <3>5. /\ netif'[netif_list[i - 1]] = netif[netif_list[i - 1]]
          /\ netif'[netif_list[j - 1]] = netif[netif_list[j - 1]]
      BY <1>15, <3>2, <3>4, Zenon
    <3> QED
      BY <3>2, <3>3, <3>5, Zenon
  <2> QED
    BY <2>1, <2>2, <2>3, Zenon
<1>17. ListInv'
  BY <1>11, <1>12, <1>14, <1>16, Zenon DEF ListInv
<1>18. HeapExact'
  <2>1. \A x \in Listed \cup Pending : netif'[x].state = netif[x].state
    BY <1>8, <1>9, Zenon
  <2>2. ASSUME NEW y \in heap
        PROVE  \E x \in Listed \cup Pending : y \in {x, netif'[x].state}
    <3>1. PICK x \in Listed \cup Pending : y \in {x, netif[x].state}
      BY <2>2, Zenon DEF UsbInv, HeapExact
    <3> QED
      BY <2>1, <3>1, Zenon
  <2>3. ASSUME NEW x \in Listed \cup Pending, NEW y \in {x, netif'[x].state}
        PROVE  y \in heap
    BY <2>1, <2>3, Zenon DEF UsbInv, HeapExact
  <2>4. heap = UNION {{x, netif'[x].state} : x \in Listed \cup Pending}
    BY <2>2, <2>3, Zenon
  <2> QED
    BY <1>2, <1>5, <2>4, Zenon DEF HeapExact
<1> QED
  BY <1>2, <1>3, <1>17, <1>18, Zenon DEF UsbInv, DevInv

-----------------------------------------------------------------------------
(* The results.                                                            *)

LEMMA UsbInitial ==
    ASSUME UsbInit
    PROVE  UsbInv
<1>1. /\ dev = [d \in Devices |-> Unplugged] /\ stack = <<>> /\ netif_list = <<>>
      /\ netif_num = 0 /\ heap = {}
  BY Zenon DEF UsbInit
<1>2. stack \in Seq({}) /\ Len(stack) = 0 /\ netif_list \in Seq(NetifAddr) /\ Len(netif_list) = 0
  BY <1>1
<1>3. 1 .. 0 = {} /\ DOMAIN stack = {} /\ DOMAIN netif_list = {}
  BY <1>1
<1>4. Listed = {} /\ Pending = {}
  BY <1>3 DEF Listed, Pending, Frames, Range
<1>5. DOMAIN Unplugged = DevFields /\ Unplugged.config = 0 /\ Unplugged.kind = NULL
  BY DEF Unplugged, DevFields
<1>6. DevInv
  BY <1>1, <1>5 DEF DevInv
<1>7. StackInv
  BY <1>2, <1>3, Zenon DEF StackInv
<1>8. netif_num \in 0 .. NetifNums - 1
  BY <1>1, UsbAssumption
<1>9. ListInv
  BY <1>2, <1>3, <1>4, <1>8, Zenon DEF ListInv
<1>10. HeapExact
  BY <1>1, <1>4 DEF HeapExact
<1> QED
  BY <1>6, <1>7, <1>9, <1>10, Zenon DEF UsbInv

LEMMA UsbStep ==
    ASSUME UsbInv, ~dangling', [UsbNext]_usb_vars
    PROVE  UsbInv'
<1>1. CASE RunHandler
  <2> DEFINE f == stack[1]
  <2>1. stack # <<>> /\ Handler(f) /\ Head(stack) = f
    BY <1>1, HeadIs, Zenon DEF RunHandler
  <2>2. AddNetif(f) => EndpointsFound(f)
    BY Zenon DEF AddNetif
  <2> HIDE DEF f
  <2>3. f = stack[1]
    BY Zenon DEF f
  <2>4. CASE GetDeviceDescriptor(f) \/ GetConfiguration(f) \/ GetConfigDescriptor(f) \/ SetConfiguration(f)
    BY <2>1, <2>3, <2>4, GetDeviceDescriptorKeeps, GetConfigurationKeeps, GetConfigDescriptorKeeps,
       SetConfigurationKeeps, Zenon
  <2>5. CASE NextCandidate(f) \/ Subordinate(f) \/ SetSubInterface(f) \/ OwnEndpoints(f)
    BY <2>1, <2>3, <2>5, NextCandidateKeeps, SubordinateKeeps, SetSubInterfaceKeeps,
       OwnEndpointsKeeps, Zenon
  <2>6. CASE SetInterface(f) \/ NoMemory(f) \/ AddNetif(f) \/ InitDone(f)
    BY <2>1, <2>2, <2>3, <2>6, SetInterfaceKeeps, NoMemoryKeeps, AddNetifKeeps, InitDoneKeeps, Zenon
  <2>7. ~NoFreeNum(f)
    <3>1. NoFreeNum(f) => f.at = "ecm_init_netif" /\ f.netif \in Listed
      BY Zenon DEF NoFreeNum
    <3>2. FrameInv(f, dev, Listed, netif)
      BY <2>1, <2>3, HeadIs, Zenon
    <3> QED
      BY <3>1, <3>2, Zenon DEF FrameInv, Shape
  <2> QED
    BY <2>1, <2>4, <2>5, <2>6, <2>7, Zenon DEF Handler
<1>2. ASSUME NEW d \in Devices, usb_handle_connect(d)
      PROVE  UsbInv'
  BY <1>2, ConnectKeeps, Zenon
<1>3. ASSUME NEW d \in Devices, DeviceEnabled(d) \/ usb_handle_disconnect(d)
      PROVE  UsbInv'
  BY <1>3, EventKeeps, Zenon
<1>4. CASE OtherEvent
  BY <1>4, DevKept, WokenKeeps, Zenon DEF OtherEvent
<1>5. CASE UNCHANGED usb_vars
  BY <1>5, DevKept, KeepsSame, Zenon DEF usb_vars, lists
<1> QED
  BY <1>1, <1>2, <1>3, <1>4, <1>5, Zenon DEF UsbNext

LEMMA InvDistinct ==
    ASSUME UsbInv
    PROVE  NetifsDistinct
<1>1. \A i \in 1 .. Len(stack) : stack[i].netif # NULL => stack[i].netif \notin Listed
  BY Zenon DEF UsbInv, StackInv, FrameInv
<1>2. Pending \cap Listed = {}
  BY <1>1, SetsAre, Zenon
<1>3. DOMAIN stack = 1 .. Len(stack)
  BY DEF UsbInv, StackInv
<1>4. DOMAIN netif_list = 1 .. Len(netif_list)
  BY DEF UsbInv, ListInv
<1>5. \A i, j \in DOMAIN stack : i # j /\ stack[i].netif # NULL => stack[i].netif # stack[j].netif
  BY <1>3, Zenon DEF UsbInv, StackInv
<1>6. \A i, j \in DOMAIN netif_list : i # j => Apart(netif[netif_list[i]], netif[netif_list[j]])
  BY <1>4, Zenon DEF UsbInv, ListInv
<1> QED
  BY <1>2, <1>5, <1>6, Zenon DEF NetifsDistinct, Apart

LEMMA DanglingStays ==
    ASSUME dangling, [UsbNext]_usb_vars
    PROVE  dangling'
<1>1. CASE UNCHANGED lists \/ UNCHANGED usb_vars
  BY <1>1, Zenon DEF lists, usb_vars
<1>2. ASSUME NEW f, Handler(f)
      PROVE  dangling' \/ UNCHANGED lists
  <2>1. AddNetif(f) \/ InitDone(f) => dangling'
    BY Zenon DEF AddNetif, InitDone
  <2>2. GetDeviceDescriptor(f) \/ GetConfiguration(f) \/ GetConfigDescriptor(f) \/ SetConfiguration(f)
            => UNCHANGED lists
    BY Zenon DEF GetDeviceDescriptor, GetConfiguration, GetConfigDescriptor, SetConfiguration
  <2>3. NextCandidate(f) \/ Subordinate(f) \/ SetSubInterface(f) \/ OwnEndpoints(f)
            => UNCHANGED lists
    BY Zenon DEF NextCandidate, Subordinate, SetSubInterface, OwnEndpoints
  <2>4. SetInterface(f) \/ NoMemory(f) \/ NoFreeNum(f) => UNCHANGED lists
    BY Zenon DEF SetInterface, NoMemory, NoFreeNum
  <2> QED
    BY <1>2, <2>1, <2>2, <2>3, <2>4, Zenon DEF Handler
<1>3. CASE RunHandler
  BY <1>1, <1>2, <1>3, Zenon DEF RunHandler
<1>4. ASSUME NEW d \in Devices, usb_handle_connect(d) \/ usb_handle_disconnect(d) \/ DeviceEnabled(d)
      PROVE  UNCHANGED lists
  BY <1>4, Zenon DEF usb_handle_connect, usb_handle_disconnect, DeviceEnabled
<1>5. CASE OtherEvent
  BY <1>1, <1>5, Zenon DEF OtherEvent
<1> QED
  BY <1>1, <1>3, <1>4, <1>5, Zenon DEF UsbNext

\* The invariant holds until an endpoint is missing when an interface is added: then usb.c
\* frees the two structures and goes on using them.
THEOREM UsbInvariant == UsbSpec => [](dangling \/ UsbInv)
<1>1. UsbInit => UsbInv
  BY UsbInitial
<1>2. (dangling \/ UsbInv) /\ [UsbNext]_usb_vars => (dangling \/ UsbInv)'
  BY UsbStep, DanglingStays, Zenon
<1> QED
  BY <1>1, <1>2, PTL DEF UsbSpec

\* "netif already added": no interface is added twice, not by two nested handlers either,
\* every interface in the list has a number of its own, although netif_add takes it from
\* netif_num before it calls ecm_init_netif, and every interface of a device is added at
\* most once, until usb_GetDeviceEndpoint fails.
THEOREM NetifsDistinctHolds == UsbSpec => []NetifsDistinct
<1>1. dangling \/ UsbInv => NetifsDistinct
  BY InvDistinct, Zenon DEF NetifsDistinct
<1> QED
  BY <1>1, UsbInvariant, PTL

-----------------------------------------------------------------------------
(* The memory, also after an endpoint was missing.                         *)

\* A frame has an interface from the call of init on.
Busy == {"ecm_init_netif", "hung"}

Holds(f) == DOMAIN f = FrameFields /\ (f.netif # NULL <=> f.at \in Busy)

HeapInv ==
    /\ \E S : stack \in Seq(S)
    /\ \E S : netif_list \in Seq(S)
    /\ \A i \in 1 .. Len(stack) : Holds(stack[i])
    /\ \A a \in Listed \cup Pending : a \in DOMAIN netif /\ DOMAIN netif[a] = NetifFields
    /\ NothingLost

\* The running activation returns, or goes on without an interface.
Idle(g) == DOMAIN g = FrameFields /\ g.netif = NULL /\ g.at \notin Busy

Quiet == Return \/ \E g : Goto(g) /\ Idle(g)

LEMMA PendingIs ==
    ASSUME \E S : stack \in Seq(S)
    PROVE  Pending = {stack[i].netif : i \in 1 .. Len(stack)} \ {NULL}
<1>1. DOMAIN stack = 1 .. Len(stack)
  OBVIOUS
<1>2. Frames = {stack[i] : i \in 1 .. Len(stack)}
  BY <1>1, Zenon DEF Frames, Range
<1> QED
  BY <1>2, Zenon DEF Pending

LEMMA NewPendingIs ==
    ASSUME \E S : stack' \in Seq(S)
    PROVE  Pending' = {stack'[i].netif : i \in 1 .. Len(stack')} \ {NULL}
<1>1. DOMAIN stack' = 1 .. Len(stack')
  OBVIOUS
<1>2. Frames' = {stack'[i] : i \in 1 .. Len(stack')}
  BY <1>1, Zenon DEF Frames, Range
<1> QED
  BY <1>2, Zenon DEF Pending

\* What a handler that was not adding, or has added, its interface does to the stack.
LEMMA QuietIs ==
    ASSUME HeapInv, stack # <<>>, Quiet
    PROVE  /\ \E S : stack' \in Seq(S)
           /\ \A i \in 1 .. Len(stack') : Holds(stack'[i])
           /\ Pending' \subseteq Pending /\ Pending \subseteq Pending' \cup {stack[1].netif}
<1>1. PICK S : stack \in Seq(S)
  BY Zenon DEF HeapInv
<1>2. \A i \in 1 .. Len(stack) : Holds(stack[i])
  BY Zenon DEF HeapInv
<1>3. Pending = {stack[i].netif : i \in 1 .. Len(stack)} \ {NULL}
  BY <1>1, PendingIs, Zenon
<1>4. CASE Return
  <2>1. Dropped(stack', stack)
    BY <1>1, <1>4, DroppedIs, Zenon DEF Return
  <2>2. PICK T : stack' \in Seq(T)
    BY <2>1, Zenon DEF Dropped
  <2>3. /\ Len(stack) \in Nat /\ Len(stack') = Len(stack) - 1
        /\ \A i \in 1 .. Len(stack') : i + 1 \in 1 .. Len(stack) /\ stack'[i] = stack[i + 1]
    BY <2>1, Zenon DEF Dropped
  <2>4. \A i \in 1 .. Len(stack) : i # 1 => i - 1 \in 1 .. Len(stack') /\ (i - 1) + 1 = i
    BY <2>3
  <2>5. Pending' = {stack'[i].netif : i \in 1 .. Len(stack')} \ {NULL}
    BY <2>2, NewPendingIs, Zenon
  <2>6. \A x \in Pending' : x \in Pending
    BY <1>3, <2>3, <2>5, Zenon
  <2>7. ASSUME NEW i \in 1 .. Len(stack), stack[i].netif # NULL
        PROVE  stack[i].netif \in Pending' \cup {stack[1].netif}
    <3>1. CASE i = 1
      BY <3>1, Zenon
    <3>2. CASE i # 1
      <4>1. i - 1 \in 1 .. Len(stack') /\ stack'[i - 1] = stack[i]
        BY <2>3, <2>4, <2>7, <3>2, Zenon
      <4> QED
        BY <2>5, <2>7, <4>1, Zenon
    <3> QED
      BY <3>1, <3>2, Zenon
  <2>8. \A x \in Pending : x \in Pending' \cup {stack[1].netif}
    BY <1>3, <2>7, Zenon
  <2> QED
    BY <1>2, <2>2, <2>3, <2>6, <2>8, Zenon
<1>5. ASSUME NEW g, Goto(g), Idle(g)
      PROVE  /\ \E T : stack' \in Seq(T)
             /\ \A i \in 1 .. Len(stack') : Holds(stack'[i])
             /\ Pending' \subseteq Pending /\ Pending \subseteq Pending' \cup {stack[1].netif}
  <2>1. Replaced(stack', stack, g)
    BY <1>1, <1>5, ReplacedIs, Zenon DEF Goto
  <2>2. PICK T : stack' \in Seq(T)
    BY <2>1, Zenon DEF Replaced
  <2>3. /\ Len(stack') = Len(stack) /\ 1 \in 1 .. Len(stack) /\ stack'[1] = g
        /\ \A i \in 1 .. Len(stack) : i # 1 => stack'[i] = stack[i]
    BY <2>1, Zenon DEF Replaced
  <2>4. Pending' = {stack'[i].netif : i \in 1 .. Len(stack')} \ {NULL}
    BY <2>2, NewPendingIs, Zenon
  <2>5. Holds(g) /\ g.netif = NULL
    BY <1>5, Zenon DEF Holds, Idle
  <2>6. \A i \in 1 .. Len(stack') : Holds(stack'[i])
    BY <1>2, <2>3, <2>5, Zenon
  <2>7. \A x \in Pending' : x \in Pending
    BY <1>3, <2>3, <2>4, <2>5, Zenon
  <2>8. \A x \in Pending : x \in Pending' \cup {stack[1].netif}
    BY <1>3, <2>3, <2>4, Zenon
  <2> QED
    BY <2>2, <2>6, <2>7, <2>8, Zenon
<1> QED
  BY <1>4, <1>5, Zenon DEF Quiet

\* A step that neither adds nor stores an interface.
LEMMA HeapKept ==
    ASSUME HeapInv, UNCHANGED lists, \E S : stack' \in Seq(S),
           \A i \in 1 .. Len(stack') : Holds(stack'[i]), Pending' = Pending
    PROVE  HeapInv'
<1>1. UNCHANGED <<netif_list, netif, heap>> /\ Listed' = Listed
  BY Zenon DEF lists, Listed, Range
<1>2. NothingLost'
  BY <1>1, Zenon DEF HeapInv, NothingLost
<1> QED
  BY <1>1, <1>2, Zenon DEF HeapInv

LEMMA QuietKeeps ==
    ASSUME HeapInv, stack # <<>>, Quiet, UNCHANGED lists, stack[1].netif = NULL
    PROVE  HeapInv'
<1>1. \E S : stack \in Seq(S)
  BY Zenon DEF HeapInv
<1>2. NULL \notin Pending
  BY Zenon DEF Pending
<1>3. Pending' \subseteq Pending /\ Pending \subseteq Pending' \cup {NULL}
  BY QuietIs, Zenon
<1>4. Pending' = Pending
  BY <1>2, <1>3
<1> QED
  BY <1>4, QuietIs, HeapKept, Zenon

LEMMA NextConfigQuiet ==
    ASSUME NEW f, DOMAIN f = FrameFields, f.netif = NULL, NextConfig(f)
    PROVE  Quiet
<1> DEFINE g == [f EXCEPT !.config = @ + 1, !.at = "usb_GetConfigDescriptor"]
<1>1. Goto(g) \/ Return
  BY Zenon DEF NextConfig
<1>2. Idle(g)
  BY DEF FrameFields, Busy, Idle
<1> QED
  BY <1>1, <1>2, Zenon DEF Quiet

LEMMA NextInterfaceQuiet ==
    ASSUME NEW f, DOMAIN f = FrameFields, NEW n, NextInterface(f, n)
    PROVE  Quiet
<1> DEFINE todo == AllCandidates[dev[f.dev].kind][f.config][n]
           g == [f EXCEPT !.at = "search", !.current_int = n, !.netif = NULL, !.todo = todo]
           h == [f EXCEPT !.todo = <<>>, !.netif = NULL]
<1>1. Goto(g) \/ NextConfig(h)
  BY Zenon DEF NextInterface
<1> HIDE DEF todo
<1>2. Idle(g) /\ DOMAIN h = FrameFields /\ h.netif = NULL
  BY DEF FrameFields, Busy, Idle
<1> HIDE DEF g, h
<1> QED
  BY <1>1, <1>2, NextConfigQuiet, Zenon DEF Quiet

\* The actions that add no interface.
LEMMA HandlerQuiet ==
    ASSUME NEW f, Idle(f),
           \/ GetDeviceDescriptor(f) \/ GetConfiguration(f)
           \/ GetConfigDescriptor(f) \/ SetConfiguration(f)
           \/ NextCandidate(f) \/ Subordinate(f) \/ SetSubInterface(f)
           \/ OwnEndpoints(f) \/ SetInterface(f) \/ NoMemory(f)
    PROVE  Quiet /\ UNCHANGED lists
<1>1. ASSUME NEW n, NEW c, NEW k, NEW todo, NEW subs, NEW eps, NEW at, at \notin Busy,
             \/ Goto([f EXCEPT !.at = at, !.nconf = n])
             \/ Goto([f EXCEPT !.at = at, !.config = c, !.nconf = k])
             \/ Goto([f EXCEPT !.at = at])
             \/ Goto([f EXCEPT !.at = at, !.eps = eps, !.subs = subs])
             \/ Goto([f EXCEPT !.at = at, !.subs = subs, !.eps = eps])
             \/ Goto([f EXCEPT !.subs = subs, !.eps = eps])
             \/ Goto([f EXCEPT !.eps = eps, !.at = at])
             \/ Goto([f EXCEPT !.at = at, !.todo = todo])
      PROVE  Quiet
  <2>1. /\ Idle([f EXCEPT !.at = at, !.nconf = n])
        /\ Idle([f EXCEPT !.at = at, !.config = c, !.nconf = k])
        /\ Idle([f EXCEPT !.at = at])
        /\ Idle([f EXCEPT !.at = at, !.eps = eps, !.subs = subs])
    BY <1>1 DEF FrameFields, Idle
  <2>2. /\ Idle([f EXCEPT !.at = at, !.subs = subs, !.eps = eps])
        /\ Idle([f EXCEPT !.subs = subs, !.eps = eps])
        /\ Idle([f EXCEPT !.eps = eps, !.at = at])
        /\ Idle([f EXCEPT !.at = at, !.todo = todo])
    BY <1>1 DEF FrameFields, Idle
  <2>3. CASE \/ Goto([f EXCEPT !.at = at, !.nconf = n])
             \/ Goto([f EXCEPT !.at = at, !.config = c, !.nconf = k])
             \/ Goto([f EXCEPT !.at = at])
             \/ Goto([f EXCEPT !.at = at, !.eps = eps, !.subs = subs])
    BY <2>1, <2>3, Zenon DEF Quiet
  <2>4. CASE \/ Goto([f EXCEPT !.at = at, !.subs = subs, !.eps = eps])
             \/ Goto([f EXCEPT !.subs = subs, !.eps = eps])
             \/ Goto([f EXCEPT !.eps = eps, !.at = at])
             \/ Goto([f EXCEPT !.at = at, !.todo = todo])
    BY <2>2, <2>4, Zenon DEF Quiet
  <2> QED
    BY <1>1, <2>3, <2>4, Zenon
<1>2. Break(f) => Quiet
  BY NextInterfaceQuiet, Zenon DEF Break, Idle
<1>3. NextConfig(f) => Quiet
  BY NextConfigQuiet, Zenon DEF Idle
<1>0. /\ "usb_GetConfiguration" \notin Busy /\ "usb_GetConfigDescriptor" \notin Busy
      /\ "usb_SetConfiguration" \notin Busy /\ "subordinates" \notin Busy
      /\ "usb_SetSubInterface" \notin Busy /\ "search" \notin Busy
      /\ "usb_SetInterface" \notin Busy /\ "malloc" \notin Busy
  BY DEF Busy
<1>4. Continue(f) => Quiet
  BY <1>0, <1>1, Zenon DEF Continue
<1>5. CASE GetDeviceDescriptor(f)
  BY <1>0, <1>1, <1>5, Zenon DEF GetDeviceDescriptor
<1>6. CASE GetConfiguration(f)
  BY <1>0, <1>1, <1>6, Zenon DEF GetConfiguration
<1>7. CASE GetConfigDescriptor(f)
  BY <1>0, <1>1, <1>3, <1>7, Zenon DEF GetConfigDescriptor
<1>8. CASE SetConfiguration(f)
  <2>1. NextInterface(f, 0) \/ NextConfig(f)
    BY <1>8, Zenon DEF SetConfiguration
  <2> QED
    BY <1>3, <1>8, <2>1, NextInterfaceQuiet, Zenon DEF SetConfiguration, Idle
<1>9. CASE NextCandidate(f)
  BY <1>0, <1>1, <1>2, <1>9, Zenon DEF NextCandidate
<1>10. CASE Subordinate(f)
  BY <1>0, <1>1, <1>10, Zenon DEF Subordinate
<1>11. CASE SetSubInterface(f)
  BY <1>0, <1>1, <1>11, Zenon DEF SetSubInterface
<1>12. CASE OwnEndpoints(f)
  <2> DEFINE at == IF Conf(f)[int_desc(f)].bAlternateSetting # 0 THEN "usb_SetInterface" ELSE "malloc"
  <2>1. at \notin Busy
    BY <1>0, Zenon
  <2>2. Continue(f) \/ \E eps : Goto([f EXCEPT !.eps = eps, !.at = at])
    BY <1>12, Zenon DEF OwnEndpoints
  <2> HIDE DEF at
  <2> QED
    BY <1>1, <1>4, <1>12, <2>1, <2>2, Zenon DEF OwnEndpoints
<1>13. CASE SetInterface(f)
  BY <1>0, <1>1, <1>2, <1>13, Zenon DEF SetInterface
<1>14. CASE NoMemory(f)
  BY <1>2, <1>14, Zenon DEF NoMemory
<1> QED
  BY <1>5, <1>6, <1>7, <1>8, <1>9, <1>10, <1>11, <1>12, <1>13, <1>14, Zenon

\* usb_handle_connect and the other events: frames are woken, and one without an
\* interface may be added.
LEMMA EventHeapKept ==
    ASSUME HeapInv, UNCHANGED lists,
           \/ stack' = Woken
           \/ \E f : Idle(f) /\ stack' = <<f>> \o Woken
    PROVE  HeapInv'
<1>1. PICK S : stack \in Seq(S)
  BY Zenon DEF HeapInv
<1>2. \A i \in 1 .. Len(stack) : Holds(stack[i])
  BY Zenon DEF HeapInv
<1>3. Pending = {stack[i].netif : i \in 1 .. Len(stack)} \ {NULL}
  BY <1>1, PendingIs, Zenon
<1>4. /\ \E T : Woken \in Seq(T)
      /\ Len(Woken) = Len(stack)
      /\ \A i \in 1 .. Len(stack) : Holds(Woken[i]) /\ Woken[i].netif = stack[i].netif
  <2>1. CASE Woken = stack
    BY <1>1, <1>2, <2>1, Zenon
  <2>2. CASE Woken # stack
    <3> DEFINE f == stack[1]
               g == [f EXCEPT !.at = "usb_GetDeviceDescriptor"]
    <3>1. stack # <<>> /\ Head(stack).at = "usb_WaitForEvents" /\ Woken = [stack EXCEPT ![1] = g]
      BY <2>2, Zenon DEF Woken
    <3>2. Head(stack) = f /\ 1 \in 1 .. Len(stack)
      BY <1>1, <3>1
    <3>3. DOMAIN f = FrameFields /\ f.netif = NULL
      BY <1>2, <3>1, <3>2 DEF Holds, Busy
    <3>4. DOMAIN g = FrameFields /\ g.netif = NULL /\ g.at \notin Busy
      BY <3>3 DEF FrameFields, Busy
    <3>5. Holds(g) /\ g.netif = f.netif
      BY <3>3, <3>4, Zenon DEF Holds
    <3> HIDE DEF g
    <3>6. Woken \in Seq(S \cup {g}) /\ Len(Woken) = Len(stack) /\ Woken[1] = g
      BY <1>1, <3>1, <3>2
    <3>7. \A i \in 1 .. Len(stack) : i # 1 => Woken[i] = stack[i]
      BY <1>1, <3>1
    <3> QED
      BY <1>2, <3>5, <3>6, <3>7, Zenon
  <2> QED
    BY <2>1, <2>2, Zenon
<1>5. PICK T : Woken \in Seq(T)
  BY <1>4, Zenon
<1>6. CASE stack' = Woken
  <2>1. Pending' = {stack'[i].netif : i \in 1 .. Len(stack')} \ {NULL}
    BY <1>5, <1>6, NewPendingIs, Zenon
  <2>2. Pending' = Pending
    BY <1>3, <1>4, <1>6, <2>1
  <2> QED
    BY <1>4, <1>6, <2>2, HeapKept, Zenon
<1>7. ASSUME NEW f, Idle(f), stack' = <<f>> \o Woken
      PROVE  HeapInv'
  <2>1. Woken \in Seq(T \cup {f}) /\ <<f>> \in Seq(T \cup {f}) /\ Len(Woken) \in Nat
    BY <1>5
  <2>2. /\ stack' \in Seq(T \cup {f}) /\ Len(stack') = Len(stack) + 1 /\ stack'[1] = f
        /\ Len(stack) \in Nat
        /\ \A i \in 1 .. Len(stack') : i # 1 => i - 1 \in 1 .. Len(stack) /\ stack'[i] = Woken[i - 1]
    BY <1>4, <1>7, <2>1
  <2>3. \A i \in 1 .. Len(stack) : i + 1 \in 1 .. Len(stack') /\ stack'[i + 1] = Woken[i]
    BY <1>4, <1>7, <2>1
  <2>4. Holds(f) /\ f.netif = NULL
    BY <1>7, Zenon DEF Holds, Idle
  <2>5. \A i \in 1 .. Len(stack') : Holds(stack'[i])
    BY <1>4, <2>2, <2>4, Zenon
  <2>6. Pending' = {stack'[i].netif : i \in 1 .. Len(stack')} \ {NULL}
    BY <2>2, NewPendingIs, Zenon
  <2>7. ASSUME NEW i \in 1 .. Len(stack'), stack'[i].netif # NULL
        PROVE  stack'[i].netif \in Pending
    <3>1. i - 1 \in 1 .. Len(stack) /\ stack'[i] = Woken[i - 1]
      BY <2>2, <2>4, <2>7, Zenon
    <3>2. stack'[i].netif = stack[i - 1].netif
      BY <1>4, <3>1, Zenon
    <3> QED
      BY <1>3, <2>7, <3>1, <3>2, Zenon
  <2>8. ASSUME NEW i \in 1 .. Len(stack), stack[i].netif # NULL
        PROVE  stack[i].netif \in Pending'
    <3>1. i + 1 \in 1 .. Len(stack') /\ stack'[i + 1].netif = stack[i].netif
      BY <1>4, <2>3, <2>8, Zenon
    <3> QED
      BY <2>6, <2>8, <3>1, Zenon
  <2>9. Pending' = Pending
    <3>1. \A x \in Pending' : x \in Pending
      BY <2>6, <2>7, Zenon
    <3>2. \A x \in Pending : x \in Pending'
      BY <1>3, <2>8, Zenon
    <3> QED
      BY <3>1, <3>2
  <2> QED
    BY <2>2, <2>5, <2>9, HeapKept, Zenon
<1> QED
  BY <1>6, <1>7, Zenon

LEMMA AddNetifHeap ==
    ASSUME HeapInv, stack # <<>>, NEW f, f = stack[1], AddNetif(f)
    PROVE  HeapInv'
<1>1. PICK S : stack \in Seq(S)
  BY Zenon DEF HeapInv
<1>2. 1 \in 1 .. Len(stack) /\ f.at = "malloc"
  BY <1>1 DEF AddNetif
<1>3. DOMAIN f = FrameFields /\ f.netif = NULL
  BY <1>2 DEF HeapInv, Holds, Busy
<1>4. PICK a \in malloc(NetifAddr), b \in malloc(StateAddr) :
          /\ netif' = Stored(netif, a, [state |-> b, dev |-> f.dev, config |-> f.config,
                                        int |-> f.current_int, num |-> netif_num])
          /\ heap' = heap \cup {a, b} \/ heap' = heap
          /\ Goto([f EXCEPT !.at = "ecm_init_netif", !.netif = a])
  BY Zenon DEF AddNetif
<1> DEFINE n == [state |-> b, dev |-> f.dev, config |-> f.config, int |-> f.current_int,
                 num |-> netif_num]
           g == [f EXCEPT !.at = "ecm_init_netif", !.netif = a]
<1>5. a \notin heap /\ a # NULL
  <2>1. NetifAddr \subseteq Nat /\ NULL \notin NetifAddr
    BY UsbAssumption, Zenon
  <2>2. a \in NetifAddr /\ a \notin heap
    BY <2>1, MallocIs, Zenon
  <2> QED
    BY <2>1, <2>2, Zenon
<1>6. DOMAIN g = FrameFields /\ g.netif = a /\ g.at \in Busy
  BY <1>3 DEF FrameFields, Busy
<1>7. DOMAIN n = NetifFields /\ n.state = b
  BY DEF NetifFields
<1>8. netif' = Stored(netif, a, n) /\ Goto(g)
  BY <1>4, Zenon
<1> HIDE DEF n, g
<1>9. /\ DOMAIN netif' = DOMAIN netif \cup {a} /\ netif'[a] = n
      /\ \A x \in DOMAIN netif : x # a => netif'[x] = netif[x]
  BY <1>8, Zenon DEF Stored
<1>10. Replaced(stack', stack, g)
  BY <1>1, <1>8, ReplacedIs, Zenon DEF Goto
<1>11. /\ Len(stack') = Len(stack) /\ stack'[1] = g
       /\ \A i \in 1 .. Len(stack) : i # 1 => stack'[i] = stack[i]
  BY <1>10, Zenon DEF Replaced
<1>12. PICK T : stack' \in Seq(T)
  BY <1>10, Zenon DEF Replaced
<1>13. Holds(g)
  BY <1>5, <1>6, Zenon DEF Holds
<1>14. \A i \in 1 .. Len(stack') : Holds(stack'[i])
  BY <1>11, <1>13, Zenon DEF HeapInv
<1>15. Pending' = Pending \cup {a}
  <2>1. Pending = {stack[i].netif : i \in 1 .. Len(stack)} \ {NULL}
    BY <1>1, PendingIs, Zenon
  <2>2. Pending' = {stack'[i].netif : i \in 1 .. Len(stack')} \ {NULL}
    BY <1>12, NewPendingIs, Zenon
  <2>3. \A x \in Pending : x \in Pending'
    BY <1>3, <1>11, <2>1, <2>2, Zenon
  <2>4. a \in Pending'
    BY <1>2, <1>5, <1>6, <1>11, <2>2, Zenon
  <2>5. \A x \in Pending' : x = a \/ x \in Pending
    BY <1>6, <1>11, <2>1, <2>2, Zenon
  <2> QED
    BY <2>3, <2>4, <2>5
<1>16. Listed' = Listed /\ UNCHANGED netif_list
  BY Zenon DEF AddNetif, Listed, Range
<1>17. ASSUME NEW x \in Listed' \cup Pending'
       PROVE  x \in DOMAIN netif' /\ DOMAIN netif'[x] = NetifFields
  <2>1. CASE x = a
    BY <1>7, <1>9, <2>1, Zenon
  <2>2. CASE x # a
    BY <1>9, <1>15, <1>16, <1>17, <2>2, Zenon DEF HeapInv
  <2> QED
    BY <2>1, <2>2, Zenon
<1>18. ASSUME NEW y \in heap'
       PROVE  \E x \in (Listed' \cup Pending') \cap heap' : y \in {x, netif'[x].state}
  <2>1. CASE y \in heap
    <3>1. PICK x \in (Listed \cup Pending) \cap heap : y \in {x, netif[x].state}
      BY <2>1, Zenon DEF HeapInv, NothingLost
    <3>2. x # a /\ x \in DOMAIN netif
      BY <1>5, <3>1, Zenon DEF HeapInv
    <3>3. netif'[x] = netif[x] /\ x \in heap'
      BY <1>4, <1>9, <3>1, <3>2, Zenon
    <3> QED
      BY <1>15, <1>16, <3>1, <3>3, Zenon
  <2>2. CASE y \notin heap
    <3>1. heap' = heap \cup {a, b} /\ y \in {a, b}
      BY <1>4, <1>18, <2>2, Zenon
    <3>2. a \in (Listed' \cup Pending') \cap heap'
      BY <1>15, <3>1, Zenon
    <3>3. netif'[a].state = b
      BY <1>7, <1>9, Zenon
    <3> QED
      BY <3>1, <3>2, <3>3, Zenon
  <2> QED
    BY <2>1, <2>2, Zenon
<1>19. NothingLost'
  BY <1>18, Zenon DEF NothingLost
<1> QED
  BY <1>12, <1>14, <1>16, <1>17, <1>19, Zenon DEF HeapInv

LEMMA InitDoneHeap ==
    ASSUME HeapInv, stack # <<>>, NEW f, f = stack[1], InitDone(f)
    PROVE  HeapInv'
<1>1. PICK S : stack \in Seq(S)
  BY Zenon DEF HeapInv
<1>2. PICK L : netif_list \in Seq(L)
  BY Zenon DEF HeapInv
<1>3. 1 \in 1 .. Len(stack)
  BY <1>1
<1>4. DOMAIN f = FrameFields
  BY <1>3, Zenon DEF HeapInv, Holds
<1> DEFINE n == f.netif
<1>5. PICK num : netif' = [netif EXCEPT ![n].num = num]
  BY Zenon DEF InitDone
<1>6. Quiet
  BY <1>4, NextInterfaceQuiet, Zenon DEF InitDone, Break
<1>7. /\ \E T : stack' \in Seq(T)
      /\ \A i \in 1 .. Len(stack') : Holds(stack'[i])
      /\ Pending' \subseteq Pending /\ Pending \subseteq Pending' \cup {n}
  BY <1>6, QuietIs, Zenon
<1>8. netif_list' = <<n>> \o netif_list /\ heap' = heap
  BY Zenon DEF InitDone, AddedTo
<1> HIDE DEF n
<1>9. netif_list \in Seq(L \cup {n}) /\ <<n>> \in Seq(L \cup {n})
  BY <1>2
<1>10. netif_list' \in Seq(L \cup {n}) /\ Len(netif_list') = Len(netif_list) + 1
       /\ Len(netif_list) \in Nat /\ netif_list'[1] = n
       /\ \A i \in 1 .. Len(netif_list) : netif_list'[i + 1] = netif_list[i]
  BY <1>8, <1>9
<1>11. \A i \in 1 .. Len(netif_list) + 1 : i = 1 \/ \E j \in 1 .. Len(netif_list) : i = j + 1
  <2>1. ASSUME NEW i \in 1 .. Len(netif_list) + 1, i # 1
        PROVE  i - 1 \in 1 .. Len(netif_list) /\ i = (i - 1) + 1
    BY <1>10, <2>1
  <2> QED
    BY <2>1, Zenon
<1>12. \A j \in 1 .. Len(netif_list) : j + 1 \in 1 .. Len(netif_list) + 1
  BY <1>10
<1>13. 1 \in 1 .. Len(netif_list) + 1
  BY <1>10
<1>14. Listed' = Listed \cup {n}
  <2>1. DOMAIN netif_list' = 1 .. Len(netif_list) + 1
    BY <1>10
  <2>2. DOMAIN netif_list = 1 .. Len(netif_list)
    BY <1>9
  <2>3. Listed' = {netif_list'[i] : i \in 1 .. Len(netif_list) + 1}
    BY <2>1, Zenon DEF Listed, Range
  <2>4. Listed = {netif_list[i] : i \in 1 .. Len(netif_list)}
    BY <2>2, Zenon DEF Listed, Range
  <2>5. \A x \in Listed' : x \in Listed \cup {n}
    <3>1. ASSUME NEW i \in 1 .. Len(netif_list) + 1
          PROVE  netif_list'[i] \in Listed \cup {n}
      <4>1. CASE i = 1
        BY <1>10, <4>1, Zenon
      <4>2. ASSUME NEW j \in 1 .. Len(netif_list), i = j + 1
            PROVE  netif_list'[i] \in Listed
        BY <1>10, <2>4, <4>2, Zenon
      <4> QED
        BY <1>11, <4>1, <4>2, Zenon
    <3> QED
      BY <2>3, <3>1, Zenon
  <2>6. \A x \in Listed : x \in Listed'
    BY <1>10, <1>12, <2>3, <2>4, Zenon
  <2>7. n \in Listed'
    BY <1>10, <1>13, <2>3, Zenon
  <2> QED
    BY <2>5, <2>6, <2>7
<1>15. n # NULL /\ n \in Pending
  <2>1. Pending = {stack[i].netif : i \in 1 .. Len(stack)} \ {NULL}
    BY <1>1, PendingIs, Zenon
  <2>2. f.at \in Busy
    BY DEF InitDone, Busy
  <2>3. n # NULL
    BY <1>3, <2>2, Zenon DEF n, HeapInv, Holds
  <2> QED
    BY <1>3, <2>1, <2>3, Zenon DEF n
<1>16. \A x \in Listed \cup Pending : x \in DOMAIN netif /\ DOMAIN netif[x] = NetifFields
  BY Zenon DEF HeapInv
<1>17. /\ DOMAIN netif' = DOMAIN netif
       /\ DOMAIN netif'[n] = NetifFields /\ netif'[n].state = netif[n].state
       /\ \A x \in DOMAIN netif : x # n => netif'[x] = netif[x]
  BY <1>5, <1>15, <1>16 DEF NetifFields
<1>18. Listed' \cup Pending' = Listed \cup Pending
  BY <1>7, <1>14, <1>15
<1>19. \A x \in Listed' \cup Pending' : x \in DOMAIN netif' /\ DOMAIN netif'[x] = NetifFields
  BY <1>16, <1>17, <1>18, Zenon
<1>20. \A x \in Listed \cup Pending : netif'[x].state = netif[x].state
  BY <1>16, <1>17, Zenon
<1>21. ASSUME NEW y \in heap'
       PROVE  \E x \in (Listed' \cup Pending') \cap heap' : y \in {x, netif'[x].state}
  <2>1. PICK x \in (Listed \cup Pending) \cap heap : y \in {x, netif[x].state}
    BY <1>8, <1>21, Zenon DEF HeapInv, NothingLost
  <2>2. x \in (Listed' \cup Pending') \cap heap' /\ netif'[x].state = netif[x].state
    BY <1>8, <1>18, <1>20, <2>1, Zenon
  <2> QED
    BY <2>1, <2>2, Zenon
<1>22. NothingLost'
  BY <1>21, Zenon DEF NothingLost
<1> QED
  BY <1>7, <1>10, <1>19, <1>22, Zenon DEF HeapInv

LEMMA NoFreeNumHeap ==
    ASSUME HeapInv, stack # <<>>, NEW f, f = stack[1], NoFreeNum(f)
    PROVE  HeapInv'
<1> DEFINE g == [f EXCEPT !.at = "hung"]
<1>1. PICK S : stack \in Seq(S)
  BY Zenon DEF HeapInv
<1>2. 1 \in 1 .. Len(stack) /\ f.at \in Busy /\ Goto(g)
  BY <1>1 DEF NoFreeNum, Busy
<1>3. Holds(f)
  BY <1>2, Zenon DEF HeapInv
<1>4. DOMAIN g = FrameFields /\ g.netif = f.netif /\ g.at \in Busy
  BY <1>3 DEF FrameFields, Holds, Busy
<1>5. Holds(g)
  BY <1>2, <1>3, <1>4, Zenon DEF Holds
<1> HIDE DEF g
<1>6. Replaced(stack', stack, g)
  BY <1>1, <1>2, ReplacedIs, Zenon DEF Goto
<1>7. /\ Len(stack') = Len(stack) /\ stack'[1] = g
      /\ \A i \in 1 .. Len(stack) : i # 1 => stack'[i] = stack[i]
  BY <1>6, Zenon DEF Replaced
<1>8. PICK T : stack' \in Seq(T)
  BY <1>6, Zenon DEF Replaced
<1>9. \A i \in 1 .. Len(stack) : Holds(stack'[i]) /\ stack'[i].netif = stack[i].netif
  BY <1>4, <1>5, <1>7, Zenon DEF HeapInv
<1>10. Pending' = Pending
  <2>1. Pending = {stack[i].netif : i \in 1 .. Len(stack)} \ {NULL}
    BY <1>1, PendingIs, Zenon
  <2>2. Pending' = {stack'[i].netif : i \in 1 .. Len(stack')} \ {NULL}
    BY <1>8, NewPendingIs, Zenon
  <2> QED
    BY <1>7, <1>9, <2>1, <2>2
<1>11. UNCHANGED lists
  BY Zenon DEF NoFreeNum
<1> QED
  BY <1>7, <1>8, <1>9, <1>10, <1>11, HeapKept, Zenon

LEMMA HeapStep ==
    ASSUME HeapInv, [UsbNext]_usb_vars
    PROVE  HeapInv'
<1>1. CASE RunHandler
  <2> DEFINE f == stack[1]
  <2>1. stack # <<>> /\ 1 \in 1 .. Len(stack) /\ Head(stack) = f
    BY <1>1 DEF HeapInv, RunHandler
  <2>2. Handler(f)
    BY <1>1, <2>1, Zenon DEF RunHandler
  <2>3. DOMAIN f = FrameFields /\ (f.at \notin Busy => f.netif = NULL)
    BY <2>1, Zenon DEF HeapInv, Holds
  <2> HIDE DEF f
  <2>4. f = stack[1]
    BY Zenon DEF f
  <2>5. CASE AddNetif(f) \/ InitDone(f) \/ NoFreeNum(f)
    BY <2>1, <2>4, <2>5, AddNetifHeap, InitDoneHeap, NoFreeNumHeap, Zenon
  <2>6. CASE \/ GetDeviceDescriptor(f) \/ GetConfiguration(f)
             \/ GetConfigDescriptor(f) \/ SetConfiguration(f)
             \/ NextCandidate(f) \/ Subordinate(f) \/ SetSubInterface(f)
             \/ OwnEndpoints(f) \/ SetInterface(f) \/ NoMemory(f)
    <3>1. f.at \in {"usb_GetDeviceDescriptor", "usb_GetConfiguration", "usb_GetConfigDescriptor",
                    "usb_SetConfiguration", "search", "subordinates", "usb_SetSubInterface",
                    "usb_SetInterface", "malloc"}
      BY <2>6, Zenon DEF GetDeviceDescriptor, GetConfiguration, GetConfigDescriptor,
         SetConfiguration, NextCandidate, Subordinate, SetSubInterface, OwnEndpoints,
         SetInterface, NoMemory
    <3>2. f.at \notin Busy
      BY <3>1 DEF Busy
    <3>3. Idle(f)
      BY <2>3, <3>2, Zenon DEF Idle
    <3>4. Quiet /\ UNCHANGED lists
      BY <2>6, <3>3, HandlerQuiet, Zenon
    <3> QED
      BY <2>1, <2>3, <2>4, <3>2, <3>4, QuietKeeps, Zenon
  <2> QED
    BY <2>2, <2>5, <2>6, Zenon DEF Handler
<1>2. ASSUME NEW d \in Devices, usb_handle_connect(d)
      PROVE  HeapInv'
  <2>1. PICK at \in {"usb_GetDeviceDescriptor", "usb_WaitForEvents"} :
            stack' = <<[dev |-> d, nconf |-> 0, config |-> 0, current_int |-> 0,
                        todo |-> <<>>, subs |-> <<>>, eps |-> NoEndpoints, netif |-> NULL,
                        at |-> at]>> \o Woken
    BY <1>2, Zenon DEF usb_handle_connect
  <2> DEFINE f == [dev |-> d, nconf |-> 0, config |-> 0, current_int |-> 0, todo |-> <<>>,
                   subs |-> <<>>, eps |-> NoEndpoints, netif |-> NULL, at |-> at]
  <2>2. Idle(f)
    BY DEF FrameFields, Busy, Idle
  <2>3. UNCHANGED lists /\ stack' = <<f>> \o Woken
    BY <1>2, <2>1, Zenon DEF usb_handle_connect
  <2> QED
    BY <2>2, <2>3, EventHeapKept, Zenon
<1>3. ASSUME NEW d \in Devices, DeviceEnabled(d) \/ usb_handle_disconnect(d)
      PROVE  HeapInv'
  BY <1>3, EventHeapKept, Zenon DEF DeviceEnabled, usb_handle_disconnect
<1>4. CASE OtherEvent
  BY <1>4, EventHeapKept, Zenon DEF OtherEvent
<1>5. CASE UNCHANGED usb_vars
  <2>1. UNCHANGED lists /\ UNCHANGED stack
    BY <1>5, Zenon DEF usb_vars, lists
  <2>2. Pending' = Pending
    BY <2>1, Zenon DEF Pending, Frames, Range
  <2> QED
    BY <2>1, <2>2, HeapKept, Zenon DEF HeapInv
<1> QED
  BY <1>1, <1>2, <1>3, <1>4, <1>5, Zenon DEF UsbNext

LEMMA HeapInitial ==
    ASSUME UsbInit
    PROVE  HeapInv
<1>1. stack = <<>> /\ netif_list = <<>> /\ heap = {}
  BY Zenon DEF UsbInit
<1>2. stack \in Seq({}) /\ Len(stack) = 0 /\ netif_list \in Seq({})
  BY <1>1
<1>3. 1 .. 0 = {} /\ DOMAIN stack = {} /\ DOMAIN netif_list = {}
  BY <1>1
<1>4. Listed = {} /\ Pending = {}
  BY <1>3 DEF Listed, Pending, Frames, Range
<1>5. NothingLost
  BY <1>1, Zenon DEF NothingLost
<1> QED
  BY <1>2, <1>3, <1>4, <1>5, Zenon DEF HeapInv

\* No error path of process_config_descriptor loses memory, not even after an endpoint was
\* missing and freed memory is in use; and until then no structure in use was freed.
THEOREM HeapAccountedHolds == UsbSpec => []HeapAccounted
<1>1. UsbInit => HeapInv
  BY HeapInitial
<1>2. HeapInv /\ [UsbNext]_usb_vars => HeapInv'
  BY HeapStep
<1>3. UsbSpec => []HeapInv
  BY <1>1, <1>2, PTL DEF UsbSpec
<1>4. HeapInv /\ (dangling \/ UsbInv) => HeapAccounted
  BY Zenon DEF HeapInv, UsbInv, HeapAccounted
<1> QED
  BY <1>3, <1>4, UsbInvariant, PTL
=============================================================================
