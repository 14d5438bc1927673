---------------------------- MODULE Descriptors ----------------------------
(***************************************************************************)
(* The searches of src/src/device/usb.c and ecm.c over the descriptors of  *)
(* a USB configuration, and the reading of the MAC address string.         *)
(*                                                                         *)
(* The configuration buffer is a sequence of descriptors: a pointer into   *)
(* it is an index, NULL is 0, and one past the last index is its end.      *)
(* Every bLength is right, so that NEXT_DESCRIPTOR is the next index.      *)
(***************************************************************************)
EXTENDS Integers, Sequences, FiniteSetsExt

None == 0                                   \* a NULL pointer, or no endpoint
NEXT_DESCRIPTOR(d) == d + 1

\* The fields that the searches read.
InterfaceDescriptor(n, alt) ==
    [bDescriptorType |-> "interface", bInterfaceNumber |-> n, bAlternateSetting |-> alt]
EndpointDescriptor(attributes, address) ==
    [bDescriptorType |-> "endpoint", bmAttributes |-> attributes, bEndpointAddress |-> address]
EthernetDescriptor ==
    [bDescriptorType |-> "cs_interface", bDescriptorSubtype |-> "ethernet"]
UnionDescriptor(subs) ==
    [bDescriptorType |-> "cs_interface", bDescriptorSubtype |-> "union",
     bSubordinateInterfaces |-> subs]

IsInterface(d) == d.bDescriptorType = "interface"
IsClassSpecific(d, subtype) ==
    d.bDescriptorType = "cs_interface" /\ d.bDescriptorSubtype = subtype
IsInput(address) == address >= 128          \* address & 0x80

-----------------------------------------------------------------------------
get_interface_descriptor(conf, start, n) ==
    LET from[d \in 1..Len(conf) + 1] ==
            IF d > Len(conf) THEN None
            ELSE IF IsInterface(conf[d]) /\ conf[d].bInterfaceNumber = n THEN d
            ELSE from[NEXT_DESCRIPTOR(d)]
    IN  from[start]

\* What get_endpoints, get_ether_desc and get_subordinate_ints loop over: the
\* descriptors after int_desc, up to the next interface or the end.
SettingBody(conf, int_desc) ==
    LET from[d \in 1..Len(conf) + 1] ==
            IF d > Len(conf) \/ IsInterface(conf[d]) THEN <<>>
            ELSE <<conf[d]>> \o from[NEXT_DESCRIPTOR(d)]
    IN  from[NEXT_DESCRIPTOR(int_desc)]

NoEndpoints == [in |-> None, out |-> None]

\* *inter is logged and not used.
ReadEndpoint(eps, d) ==
    CASE d.bDescriptorType # "endpoint" \/ d.bmAttributes # "bulk" -> eps
      [] OTHER -> IF IsInput(d.bEndpointAddress)
                  THEN [eps EXCEPT !.in = d.bEndpointAddress]
                  ELSE [eps EXCEPT !.out = d.bEndpointAddress]
get_endpoints(conf, int_desc, eps) ==
    LET body == SettingBody(conf, int_desc)
        read[d \in 0..Len(body)] == IF d = 0 THEN eps ELSE ReadEndpoint(read[d - 1], body[d])
    IN  read[Len(body)]

\* The first class specific descriptor of a subtype.
FirstSpecific(body, subtype) ==
    LET found == {d \in DOMAIN body : IsClassSpecific(body[d], subtype)}
    IN  IF found = {} THEN None ELSE Min(found)

get_ether_desc(conf, int_desc) == FirstSpecific(SettingBody(conf, int_desc), "ethernet")

get_subordinate_ints(conf, int_desc) ==
    LET body == SettingBody(conf, int_desc)
        d == FirstSpecific(body, "union")
    IN  IF d = None THEN <<>> ELSE body[d].bSubordinateInterfaces

\* The settings of interface n from start on, in the order in which the loops of
\* get_eps_any_setting and process_config_descriptor meet them.
SettingsOf(conf, start, n) ==
    LET from[d \in 1..Len(conf) + 1] ==
            LET i == get_interface_descriptor(conf, d, n)
            IN  IF i = None THEN <<>> ELSE <<i>> \o from[NEXT_DESCRIPTOR(i)]
    IN  from[start]

\* get_eps_any_setting up to usb_SetInterface: the setting it stops at, and the
\* endpoints. They accumulate from one setting to the next.
\* Mutant of get_eps_any_setting: one endpoint is enough.
get_eps_any_settingM(conf, n) ==
    LET settings == SettingsOf(conf, 1, n)
        eps[k \in 0..Len(settings)] ==
            IF k = 0 THEN NoEndpoints ELSE get_endpoints(conf, settings[k], eps[k - 1])
        found == {k \in DOMAIN settings : eps[k].in # None \/ eps[k].out # None}
    IN  IF found = {} THEN [int_desc |-> None, eps |-> NoEndpoints]
        ELSE [int_desc |-> settings[Min(found)], eps |-> eps[Min(found)]]
get_eps_any_setting(conf, n) ==
    LET settings == SettingsOf(conf, 1, n)
        eps[k \in 0..Len(settings)] ==
            IF k = 0 THEN NoEndpoints ELSE get_endpoints(conf, settings[k], eps[k - 1])
        found == {k \in DOMAIN settings : eps[k].in # None /\ eps[k].out # None}
    IN  IF found = {} THEN [int_desc |-> None, eps |-> NoEndpoints]
        ELSE [int_desc |-> settings[Min(found)], eps |-> eps[Min(found)]]

\* A character is its code.
wchar_hex_to_int(wchar) == IF wchar < 65 THEN (wchar - 48) % 256 ELSE (wchar - 65 + 10) % 256

\* One byte of the address from its two characters. (upper << 4) | lower is a sum
\* as long as lower has four bits.
ecm_get_mac_byte(upper, lower) ==
    (wchar_hex_to_int(upper) * 16 + wchar_hex_to_int(lower)) % 256
=============================================================================
