-------------------------- MODULE DescriptorSearch --------------------------
(***************************************************************************)
(* What the searches of Descriptors find, against definitions of what they *)
(* are for. conf grows by one descriptor at a time to every configuration  *)
(* of up to MaxLength descriptors; hex goes through the pairs of           *)
(* hexadecimal digits.                                                     *)
(***************************************************************************)
EXTENDS Descriptors

CONSTANTS Alphabet, MaxLength

VARIABLES conf, hex

search_vars == <<conf, hex>>

\* The digits of a MAC address string: 0-9 and A-F.
HexDigits == 48..57 \cup 65..70

SearchInit == conf = <<>> /\ hex = <<48, 48>>

AddDescriptor == /\ Len(conf) < MaxLength /\ hex = <<48, 48>>
                 /\ \E d \in Alphabet : conf' = Append(conf, d)
                 /\ UNCHANGED hex

ChooseDigits == /\ conf = <<>>
                /\ hex' \in HexDigits \X HexDigits
                /\ UNCHANGED conf

SearchNext == AddDescriptor \/ ChooseDigits

SearchSpec == SearchInit /\ [][SearchNext]_search_vars

-----------------------------------------------------------------------------
Numbers == {conf[d].bInterfaceNumber : d \in {e \in DOMAIN conf : IsInterface(conf[e])}}

\* The interface setting that descriptor d belongs to.
Owner(d) ==
    LET before == {i \in 1..d - 1 : IsInterface(conf[i])}
    IN  IF before = {} THEN None ELSE Max(before)

\* The bulk endpoints of setting i in one direction.
BulkEndpoints(i, input) ==
    {d \in DOMAIN conf :
        /\ Owner(d) = i
        /\ conf[d].bDescriptorType = "endpoint"
        /\ conf[d].bmAttributes = "bulk"
        /\ IsInput(conf[d].bEndpointAddress) = input}

LastAddress(ds) == IF ds = {} THEN None ELSE conf[Max(ds)].bEndpointAddress

\* The settings of interface n, and those of them up to setting i.
Settings(n) == {d \in DOMAIN conf : IsInterface(conf[d]) /\ conf[d].bInterfaceNumber = n}
BulkUpTo(n, i, input) == UNION {BulkEndpoints(j, input) : j \in {k \in Settings(n) : k <= i}}

\* The loops over get_interface_descriptor visit every setting of an interface,
\* each once and in order, whatever lies between them.
SettingsComplete ==
    \A n \in Numbers :
        LET s == SettingsOf(conf, 1, n)
        IN  /\ Range(s) = Settings(n)
            /\ \A j \in 1..Len(s) - 1 : s[j] < s[j + 1]

\* get_endpoints reports the last bulk endpoint in each direction of the setting it
\* is given, and nothing of the settings before and after it.
EndpointsBelong ==
    \A i \in DOMAIN conf : IsInterface(conf[i]) =>
        get_endpoints(conf, i, NoEndpoints) =
            [in |-> LastAddress(BulkEndpoints(i, TRUE)),
             out |-> LastAddress(BulkEndpoints(i, FALSE))]

\* get_ether_desc and get_subordinate_ints report the first descriptor of their kind
\* that belongs to the setting they are given.
SpecificsBelong ==
    \A i \in DOMAIN conf : IsInterface(conf[i]) =>
        LET Of(subtype) == {d \in DOMAIN conf : Owner(d) = i /\ IsClassSpecific(conf[d], subtype)}
        IN  /\ get_ether_desc(conf, i) = IF Of("ethernet") = {} THEN None ELSE Min(Of("ethernet")) - i
            /\ get_subordinate_ints(conf, i) =
                   IF Of("union") = {} THEN <<>> ELSE conf[Min(Of("union"))].bSubordinateInterfaces

\* get_eps_any_setting stops at the first setting of the interface up to which a bulk
\* endpoint in each direction was met, and returns the last one met in each, or nothing.
\* This is a pair of that setting exactly when the setting has both: otherwise one of the
\* two is of an earlier setting, and not there once usb_SetInterface has selected this one.
PairIsLastMet ==
    \A n \in Numbers :
        LET r == get_eps_any_setting(conf, n)
            ends == {i \in Settings(n) : BulkUpTo(n, i, TRUE) # {} /\ BulkUpTo(n, i, FALSE) # {}}
            Own(i) == [in |-> LastAddress(BulkEndpoints(i, TRUE)),
                       out |-> LastAddress(BulkEndpoints(i, FALSE))]
        IN  IF ends = {} THEN r = [int_desc |-> None, eps |-> NoEndpoints]
            ELSE /\ r.int_desc = Min(ends)
                 /\ r.eps = [in |-> LastAddress(BulkUpTo(n, Min(ends), TRUE)),
                             out |-> LastAddress(BulkUpTo(n, Min(ends), FALSE))]
                 /\ r.eps = Own(r.int_desc) <=> None \notin Range(Own(r.int_desc))

\* ecm_get_mac reads the byte that two hexadecimal digits stand for.
MacByteReadBack ==
    LET Value(c) == Cardinality({d \in HexDigits : d < c})
    IN  ecm_get_mac_byte(hex[1], hex[2]) = 16 * Value(hex[1]) + Value(hex[2])

\* Every search of usb.c and ecm.c over a list of descriptors, and the conversion of the
\* MAC address, gives what its reference definition gives: no setting is missed, no
\* descriptor is taken for one of another setting, and a pair of endpoints is of one setting
\* unless get_eps_any_setting stops at a setting that lacks one of the two: it keeps what it
\* found in the settings before.
SearchesAgree ==
    SettingsComplete /\ EndpointsBelong /\ SpecificsBelong /\ PairIsLastMet /\ MacByteReadBack
=============================================================================
