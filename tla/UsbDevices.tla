----------------------------- MODULE UsbDevices -----------------------------
(***************************************************************************)
(* The device manager: usb_handle_event of src/src/device/usb.c, with      *)
(* netif_add of lwIP (src/src/lwIP/core/netif.c) and the part of           *)
(* ecm_init_netif (src/src/device/ecm.c) that decides about the interface  *)
(* list.                                                                   *)
(*                                                                         *)
(* A driver call that waits for the device dispatches events while it      *)
(* waits, so a handler can start in the middle of another: stack holds the *)
(* activations of usb_handle_connect, the running one first. A frame is    *)
(* what the activation knows, and "at" says where it is: inside the driver *)
(* call of that name, or at a place between two calls.                     *)
(***************************************************************************)
EXTENDS Descriptors

CONSTANTS
    NULL,
    Devices,    \* connections: a device that is plugged in again is another one
    Kinds,      \* what devices there are: a function to sequences of configurations
    NetifAddr, StateAddr,   \* heap addresses, for the two structures
    NetifNums   \* how many numbers an interface can have: 255 in the code

\* There is a number for every interface that there is room for.
ASSUME UsbAssumption ==
    /\ NULL \notin DOMAIN Kinds /\ \A k \in DOMAIN Kinds : Len(Kinds[k]) \in Nat
    /\ NetifAddr \subseteq Nat /\ StateAddr \subseteq Nat /\ NetifAddr \cap StateAddr = {}
    /\ NULL \notin NetifAddr
    /\ IsFiniteSet(NetifAddr) /\ NetifNums \in Nat \ {0} /\ Cardinality(NetifAddr) <= NetifNums

VARIABLES
    dev,            \* the devices, as the driver sees them
    stack,
    netif_list,     \* a sequence of addresses
    netif_default,
    netif,          \* what is stored at an address used as a struct netif
    netif_num,
    heap,           \* the addresses that malloc has given out
    benign,         \* no hub, so that one device is present at a time, and neither
                    \* malloc nor a control transfer to a present device fails
    dangling        \* history: an interface was added without one of its endpoints, and
                    \* its structures are in use although they were freed

usb_vars == <<dev, stack, netif_list, netif_default, netif, netif_num, heap, benign, dangling>>
lists == <<netif_list, netif_default, netif, netif_num, heap, benign, dangling>>

Unplugged == [present |-> FALSE, kind |-> NULL, enabled |-> "no", config |-> 0, alts |-> {}]

UsbInit ==
    /\ dev = [d \in Devices |-> Unplugged]
    /\ stack = <<>>
    /\ netif_list = <<>>
    /\ netif_default = NULL
    /\ netif = <<>>
    /\ netif_num = 0
    /\ heap = {}
    /\ benign \in BOOLEAN
    /\ dangling = FALSE

-----------------------------------------------------------------------------
(* The driver.                                                             *)

Calls == {"usb_WaitForEvents", "usb_GetDeviceDescriptor", "usb_GetConfiguration",
          "usb_GetConfigDescriptor", "usb_SetConfiguration", "usb_SetSubInterface",
          "usb_SetInterface", "ecm_init_netif"}

\* Events are dispatched by usb_HandleEvents of the main loop and in driver calls.
Dispatching == stack # <<>> => Head(stack).at \in Calls

\* Any event ends usb_WaitForEvents.
Woken == IF stack # <<>> /\ Head(stack).at = "usb_WaitForEvents"
         THEN [stack EXCEPT ![1].at = "usb_GetDeviceDescriptor"]
         ELSE stack

\* How a control transfer to d can end.
Results(d) == IF dev[d].present /\ dev[d].enabled = "yes"
              THEN {"USB_SUCCESS"} \cup (IF benign THEN {} ELSE {"USB_ERROR"})
              ELSE {"USB_ERROR"}

Configs(d) == Kinds[dev[d].kind]
Conf(f) == Configs(f.dev)[f.config].descriptors

\* The settings a configuration starts with, and after usb_SetInterface.
DefaultSettings(conf) ==
    {i \in DOMAIN conf : IsInterface(conf[i]) /\ conf[i].bAlternateSetting = 0}
SelectSetting(alts, conf, i) ==
    {i} \cup {j \in alts : conf[j].bInterfaceNumber # conf[i].bInterfaceNumber}

\* usb_GetDeviceEndpoint(d, address) # NULL.
HasEndpoint(f, address) ==
    /\ dev[f.dev].present
    /\ \E i \in dev[f.dev].alts : \E e \in Range(SettingBody(Conf(f), i)) :
          e.bDescriptorType = "endpoint" /\ e.bEndpointAddress = address

-----------------------------------------------------------------------------
(* The handlers. Goto(f) has the running activation continue as f.          *)

Goto(f) == stack' = <<f>> \o Tail(stack)
Return == stack' = Tail(stack)

\* A device is plugged in; it may have a configuration if it needs no reset.
\* usb_handle_event calls usb_handle_connect.
usb_handle_connect(d) ==
    /\ Dispatching
    /\ dev[d] = Unplugged
    /\ benign => \A e \in Devices : ~dev[e].present
    /\ \E kind \in DOMAIN Kinds, enabled \in BOOLEAN : \E config \in 0..Len(Kinds[kind]) :
          /\ ~enabled => config = 0
          /\ dev' = [dev EXCEPT ![d] =
                [present |-> TRUE, kind |-> kind, config |-> config,
                 enabled |-> IF enabled THEN "yes" ELSE "resetting",
                 alts |-> IF config = 0 THEN {} ELSE DefaultSettings(Kinds[kind][config].descriptors)]]
          /\ stack' = <<[dev |-> d, nconf |-> 0, config |-> 0, current_int |-> 0,
                         todo |-> <<>>, subs |-> <<>>, eps |-> NoEndpoints, netif |-> NULL,
                         at |-> IF enabled THEN "usb_GetDeviceDescriptor"
                                ELSE "usb_WaitForEvents"]>> \o Woken
    /\ UNCHANGED lists

\* The reset that usb_ResetDevice started is over.
DeviceEnabled(d) ==
    /\ Dispatching
    /\ dev[d].present /\ dev[d].enabled = "resetting"
    /\ dev' = [dev EXCEPT ![d].enabled = "yes"]
    /\ stack' = Woken
    /\ UNCHANGED lists

\* usb_handle_disconnect only logs.
usb_handle_disconnect(d) ==
    /\ Dispatching
    /\ dev[d].present
    /\ dev' = [dev EXCEPT ![d].present = FALSE]
    /\ stack' = Woken
    /\ UNCHANGED lists

\* An event that the handlers ignore, such as the end of a transfer.
OtherEvent ==
    /\ stack # <<>> /\ Woken # stack
    /\ \E a \in Range(netif_list) : dev[netif[a].dev].present
    /\ stack' = Woken
    /\ UNCHANGED <<dev, lists>>

GetDeviceDescriptor(f) ==
    /\ f.at = "usb_GetDeviceDescriptor"
    /\ \E r \in Results(f.dev) :
          Goto([f EXCEPT !.at = "usb_GetConfiguration",
                !.nconf = IF r = "USB_SUCCESS" THEN Len(Configs(f.dev)) ELSE 2])
    /\ UNCHANGED <<dev, lists>>

\* A configured device keeps its configuration: the loop is over that one only.
GetConfiguration(f) ==
    /\ f.at = "usb_GetConfiguration"
    /\ \E r \in Results(f.dev) :
          LET config == IF r = "USB_SUCCESS" THEN dev[f.dev].config ELSE 0
          IN  Goto([f EXCEPT !.at = "usb_GetConfigDescriptor",
                    !.config = IF config # 0 THEN config ELSE 1,
                    !.nconf = IF config # 0 THEN config ELSE f.nconf])
    /\ UNCHANGED <<dev, lists>>

\* Mutant of NextConfig: the loop ends one configuration early.
NextConfigM(f) == IF f.config < f.nconf - 1
                  THEN Goto([f EXCEPT !.config = @ + 1, !.at = "usb_GetConfigDescriptor"])
                  ELSE Return
NextConfig(f) == IF f.config < f.nconf
                 THEN Goto([f EXCEPT !.config = @ + 1, !.at = "usb_GetConfigDescriptor"])
                 ELSE Return

\* process_config_descriptor, up to usb_SetConfiguration.
GetConfigDescriptor(f) ==
    /\ f.at = "usb_GetConfigDescriptor"
    /\ \E r \in Results(f.dev) :
          IF r = "USB_SUCCESS" /\ f.config <= Len(Configs(f.dev))
                               /\ ~Configs(f.dev)[f.config].tooLong
          THEN Goto([f EXCEPT !.at = "usb_SetConfiguration"])
          ELSE NextConfig(f)
    /\ UNCHANGED <<dev, lists>>

\* The settings of each interface that have an Ethernet descriptor.
Candidates(conf, bNumInterfaces) ==
    [n \in 0..bNumInterfaces - 1 |->
        SelectSeq(SettingsOf(conf, 1, n), LAMBDA i : get_ether_desc(conf, i) # None)]

\* The results of the searches, for every kind and configuration.
AllCandidates ==
    [k \in DOMAIN Kinds |-> [c \in DOMAIN Kinds[k] |->
        Candidates(Kinds[k][c].descriptors, Kinds[k][c].bNumInterfaces)]]
AllPairs ==
    [k \in DOMAIN Kinds |-> [c \in DOMAIN Kinds[k] |->
        [n \in 0..Kinds[k][c].bNumInterfaces - 1 |->
            get_eps_any_setting(Kinds[k][c].descriptors, n)]]]

\* The loops over the interfaces and their settings: "break" goes on with the next
\* interface, "continue" with the next setting.
NextInterface(f, n) ==
    IF n < Configs(f.dev)[f.config].bNumInterfaces
    THEN Goto([f EXCEPT !.at = "search", !.current_int = n, !.netif = NULL,
               !.todo = AllCandidates[dev[f.dev].kind][f.config][n]])
    ELSE NextConfig([f EXCEPT !.todo = <<>>, !.netif = NULL])
Break(f) == NextInterface(f, f.current_int + 1)
Continue(f) == Goto([f EXCEPT !.at = "search", !.todo = Tail(@)])

SetConfiguration(f) ==
    /\ f.at = "usb_SetConfiguration"
    /\ \E r \in Results(f.dev) :
          IF r = "USB_SUCCESS"
          THEN /\ dev' = [dev EXCEPT ![f.dev].config = f.config,
                                     ![f.dev].alts = DefaultSettings(Conf(f))]
               /\ NextInterface(f, 0)
          ELSE NextConfig(f) /\ UNCHANGED dev
    /\ UNCHANGED lists

int_desc(f) == Head(f.todo)

NextCandidate(f) ==
    /\ f.at = "search"
    /\ IF f.todo = <<>> THEN Break(f)
       ELSE Goto([f EXCEPT !.at = "subordinates", !.eps = NoEndpoints,
                  !.subs = get_subordinate_ints(Conf(f), int_desc(f))])
    /\ UNCHANGED <<dev, lists>>

Subordinate(f) ==
    /\ f.at = "subordinates" /\ f.subs # <<>>
    /\ LET r == AllPairs[dev[f.dev].kind][f.config][Head(f.subs)]
       IN  IF r.int_desc # None /\ Head(f.subs) > 0
           THEN Goto([f EXCEPT !.at = "usb_SetSubInterface"])
           ELSE Goto([f EXCEPT !.subs = Tail(@),
                      !.eps = IF r.int_desc # None THEN r.eps ELSE @])
    /\ UNCHANGED <<dev, lists>>

SetSubInterface(f) ==
    /\ f.at = "usb_SetSubInterface"
    /\ LET s == AllPairs[dev[f.dev].kind][f.config][Head(f.subs)]
       IN  \E r \in Results(f.dev) :
             /\ Goto([f EXCEPT !.at = "subordinates", !.subs = Tail(@),
                      !.eps = IF r = "USB_SUCCESS" THEN s.eps ELSE @])
             /\ dev' = IF r = "USB_SUCCESS"
                       THEN [dev EXCEPT ![f.dev].alts = SelectSetting(@, Conf(f), s.int_desc)]
                       ELSE dev
    /\ UNCHANGED lists

OwnEndpoints(f) ==
    /\ f.at = "subordinates" /\ f.subs = <<>>
    /\ LET eps == get_endpoints(Conf(f), int_desc(f), f.eps)
       IN  IF eps.in = None \/ eps.out = None THEN Continue(f)
           ELSE Goto([f EXCEPT !.eps = eps,
                      !.at = IF Conf(f)[int_desc(f)].bAlternateSetting # 0
                             THEN "usb_SetInterface" ELSE "malloc"])
    /\ UNCHANGED <<dev, lists>>

SetInterface(f) ==
    /\ f.at = "usb_SetInterface"
    /\ \E r \in Results(f.dev) :
          IF r = "USB_SUCCESS"
          THEN /\ Goto([f EXCEPT !.at = "malloc"])
               /\ dev' = [dev EXCEPT ![f.dev].alts = SelectSetting(@, Conf(f), int_desc(f))]
          ELSE Break(f) /\ UNCHANGED dev
    /\ UNCHANGED lists

\* First fit: what was freed is given out again. Empty when there is no memory.
malloc(addr) ==
    LET free == addr \ heap IN IF free = {} THEN {} ELSE {Min(free)}

\* Mutant of NoMemory: netif is not freed when there is no memory for state.
NoMemoryM(f) ==
    /\ f.at = "malloc" /\ ~benign
    /\ \E a \in malloc(NetifAddr) : heap' \in {heap, heap \cup {a}}
    /\ Break(f)
    /\ UNCHANGED <<dev, netif_list, netif_default, netif, netif_num, benign, dangling>>
\* There is no memory for netif, or none for state and netif is freed again.
NoMemory(f) ==
    /\ f.at = "malloc" /\ ~benign
    /\ Break(f)
    /\ UNCHANGED <<dev, lists>>

EndpointsFound(f) == HasEndpoint(f, f.eps.in) /\ HasEndpoint(f, f.eps.out)

\* mem with v at address a.
Stored(mem, a, v) == [x \in DOMAIN mem \cup {a} |-> IF x = a THEN v ELSE mem[x]]

\* The two structures are filled in, up to the call of init in netif_add. The
\* memory is freed when an endpoint is missing, and used all the same: what is in it
\* stays until malloc gives it out again.
AddNetif(f) ==
    /\ f.at = "malloc"
    /\ \E a \in malloc(NetifAddr), b \in malloc(StateAddr) :
          /\ netif' = Stored(netif, a, [state |-> b, dev |-> f.dev, config |-> f.config,
                                        int |-> f.current_int, num |-> netif_num])
          /\ heap' = IF EndpointsFound(f) THEN heap \cup {a, b} ELSE heap
          /\ dangling' = (dangling \/ ~EndpointsFound(f))
          /\ Goto([f EXCEPT !.at = "ecm_init_netif", !.netif = a])
    /\ UNCHANGED <<dev, netif_list, netif_default, netif_num, benign>>

\* The first number from num on, round the end, that no interface has.
\* Mutant of UniqueNum: trusts the number taken before init was called.
UniqueNumM(num, used) == num
UniqueNum(num, used) ==
    LET steps == {k \in 0..NetifNums - 1 : (num + k) % NetifNums \notin used}
    IN  (num + Min(steps)) % NetifNums

NextNum(num) == (num + 1) % NetifNums

AddedTo(list, a) == <<a>> \o list

Listed == Range(netif_list)

\* netif_init_common, and the rest of netif_add. ecm_init_netif ignores errors.
InitDone(f) ==
    /\ f.at = "ecm_init_netif" /\ f.netif \notin Listed
    /\ LET num == UniqueNum(netif[f.netif].num, {netif[a].num : a \in Listed})
       IN  /\ netif' = [netif EXCEPT ![f.netif].num = num]
           /\ netif_num' = NextNum(num)
    /\ netif_default' = IF netif_default = NULL THEN f.netif ELSE netif_default
    /\ netif_list' = AddedTo(netif_list, f.netif)
    /\ Break(f)
    /\ UNCHANGED <<dev, heap, benign, dangling>>

\* An interface that is in the list already has the number of one in the list, whatever
\* the number: the loop of netif_add that looks for a free one does not end.
NoFreeNum(f) ==
    /\ f.at = "ecm_init_netif" /\ f.netif \in Listed
    /\ Goto([f EXCEPT !.at = "hung"])
    /\ UNCHANGED <<dev, lists>>

Handler(f) ==
    \/ GetDeviceDescriptor(f) \/ GetConfiguration(f)
    \/ GetConfigDescriptor(f) \/ SetConfiguration(f)
    \/ NextCandidate(f) \/ Subordinate(f) \/ SetSubInterface(f)
    \/ OwnEndpoints(f) \/ SetInterface(f)
    \/ NoMemory(f) \/ AddNetif(f) \/ InitDone(f) \/ NoFreeNum(f)

RunHandler == stack # <<>> /\ Handler(Head(stack))

UsbNext ==
    \/ RunHandler
    \/ \E d \in Devices : \/ usb_handle_connect(d) \/ usb_handle_disconnect(d)
                          \/ DeviceEnabled(d)
    \/ OtherEvent

\* Driver calls return, and a reset that was started comes to an end.
UsbFairness ==
    /\ WF_usb_vars(RunHandler)
    /\ \A d \in Devices : WF_usb_vars(DeviceEnabled(d))

UsbSpec == UsbInit /\ [][UsbNext]_usb_vars /\ UsbFairness

-----------------------------------------------------------------------------
Frames == Range(stack)

\* The interfaces between the first call of malloc and the list.
Pending == {f.netif : f \in Frames} \ {NULL}

\* What is in the heap is a structure of an interface that was not freed.
NothingLost == heap \subseteq UNION {{a, netif[a].state} : a \in (Listed \cup Pending) \cap heap}

\* The heap holds the structures in use, and nothing else.
HeapExact == heap = UNION {{a, netif[a].state} : a \in Listed \cup Pending}

\* No error path of process_config_descriptor loses memory: every structure that malloc
\* gave out is that of an interface in the list or of one being added, whatever call failed
\* on the way, that of usb_GetDeviceEndpoint and the use of freed memory that follows
\* included. And the reverse, that no structure in use was freed, as long as
\* usb_GetDeviceEndpoint has found both endpoints of every interface.
HeapAccounted == NothingLost /\ (~dangling => HeapExact)

\* "netif already added", the assertion of netif_add: an interface that is being added is
\* not in the list, and not being added by another handler. netif_add gives each a number
\* of its own, although it takes the number from netif_num before it calls
\* ecm_init_netif, in which other interfaces can be added. And an interface of a
\* configuration is added at most once while its device is plugged in, whatever its
\* settings: unplugging leaks, but no more than that. All of it only as long as no
\* endpoint was missing: the memory of an interface without one is given out again
\* while it is in the list.
NetifsDistinct ==
    ~dangling =>
    /\ Pending \cap Listed = {}
    /\ \A i, j \in DOMAIN stack : i # j /\ stack[i].netif # NULL => stack[i].netif # stack[j].netif
    /\ \A i, j \in DOMAIN netif_list :
        LET a == netif[netif_list[i]]  b == netif[netif_list[j]]
        IN  i # j => a.num # b.num /\ <<a.dev, a.config, a.int>> # <<b.dev, b.config, b.int>>

\* The interface at address a belongs to the configuration its device is in.
Usable(d) == \E a \in Listed : netif[a].dev = d /\ netif[a].config = dev[d].config

\* A device that offers Ethernet in its last configuration, or in the one it is
\* configured for, gets an interface of the configuration it ends up in, unless it
\* is unplugged, in a benign environment and as long as no endpoint was missing. (The
\* configurations are tried in turn, and each is selected: an interface of an earlier
\* one does not stay usable.)
OffersEthernet(d) ==
    /\ dev[d].present
    /\ LET last == IF dev[d].config # 0 THEN dev[d].config ELSE Len(Configs(d))
       IN  /\ \E n \in DOMAIN AllCandidates[dev[d].kind][last] :
                 AllCandidates[dev[d].kind][last][n] # <<>>
           /\ ~Configs(d)[last].tooLong
DeviceServed ==
    \A d \in Devices :
        benign /\ (\E f \in Frames : f.dev = d /\ f.config = 0) /\ OffersEthernet(d)
            ~> Usable(d) \/ ~dev[d].present \/ dangling
=============================================================================
