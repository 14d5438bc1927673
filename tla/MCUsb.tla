------------------------------- MODULE MCUsb -------------------------------
(***************************************************************************)
(* UsbDevices for TLC: two devices of five kinds.                          *)
(***************************************************************************)
EXTENDS UsbDevices

CONSTANTS d1, d2

Configuration(n, ds) == [bNumInterfaces |-> n, descriptors |-> ds, tooLong |-> FALSE]

\* Control interface 0 with data interface 1, whose endpoints are in setting 1.
Ecm == Configuration(2,
    <<InterfaceDescriptor(0, 0), UnionDescriptor(<<1>>), EthernetDescriptor,
      InterfaceDescriptor(1, 0),
      InterfaceDescriptor(1, 1), EndpointDescriptor("bulk", 129), EndpointDescriptor("bulk", 2)>>)

\* One interface with its own endpoints, in either of two settings.
Flat == Configuration(1,
    <<InterfaceDescriptor(0, 0), EthernetDescriptor,
      InterfaceDescriptor(0, 1), EthernetDescriptor,
      EndpointDescriptor("bulk", 129), EndpointDescriptor("bulk", 2),
      InterfaceDescriptor(0, 2), EthernetDescriptor,
      EndpointDescriptor("bulk", 131), EndpointDescriptor("bulk", 4)>>)

\* The endpoints are in two settings, of which only one can be selected.
Split == Configuration(2,
    <<InterfaceDescriptor(0, 0), UnionDescriptor(<<1>>), EthernetDescriptor,
      InterfaceDescriptor(1, 0), EndpointDescriptor("bulk", 129),
      InterfaceDescriptor(1, 1), EndpointDescriptor("bulk", 2)>>)

\* Something else, such as RNDIS, and a configuration that does not fit.
Other == Configuration(1, <<InterfaceDescriptor(0, 0), EndpointDescriptor("bulk", 129)>>)
TooLong == [Ecm EXCEPT !.tooLong = TRUE]

MCKinds == [ecm |-> <<Ecm>>, both |-> <<Ecm, Flat>>, second |-> <<Other, Flat>>,
            split |-> <<Split>>, tooLong |-> <<TooLong>>]

\* Room for four structures of each type.
Netifs4 == 1..4
States4 == 11..14

=============================================================================
