------------------------------ MODULE MCUsbCdc ------------------------------
(* Instances of UsbCdc for TLC.                                            *)
EXTENDS UsbCdc

Request(d, t, r, q, v, i, n) ==
  [dir |-> d, type |-> t, recipient |-> r, request |-> q,
   value |-> v, index |-> i, length |-> n]

StandardOut(r, q, v, i) == Request("OUT", "STANDARD", r, q, v, i, 0)
StandardIn(r, q, v, i, n) == Request("IN", "STANDARD", r, q, v, i, n)
Cdc(d, q, v, n) == Request(d, "CLASS", "INTERFACE", q, v, 0, n)

Configure == StandardOut("DEVICE", "SET_CONFIGURATION", 1, 0)
Unconfigure == StandardOut("DEVICE", "SET_CONFIGURATION", 0, 0)
Open == Cdc("OUT", "SET_CONTROL_LINE_STATE", 1, 0)
ReadDescriptor(value, n) == StandardIn("DEVICE", "GET_DESCRIPTOR", value, 0, n)

HaltFeature(request, endpoint) == StandardOut("ENDPOINT", request, 0, endpoint)
ClearIn == HaltFeature("CLEAR_FEATURE", 131)

(* Requests of every kind, with the boundary values of the conditions on   *)
(* them: what enumerates a device and opens its port, control reads of      *)
(* nothing, of less than a packet and of exactly one full packet, what is   *)
(* only acknowledged or refused, and the halt of a data endpoint.          *)
ControlSetups ==
  {Configure, Unconfigure, Open,
   StandardOut("DEVICE", "SET_CONFIGURATION", 2, 0),
   StandardOut("DEVICE", "SET_ADDRESS", 127, 0),
   StandardOut("DEVICE", "SET_ADDRESS", 128, 0),
   Cdc("OUT", "SET_LINE_CODING", 0, 7),
   ReadDescriptor(770, 65535),            \* a string of one full packet
   StandardIn("ENDPOINT", "GET_STATUS", 0, 131, 2),
   StandardIn("DEVICE", "GET_CONFIGURATION", 0, 0, 1),
   StandardIn("INTERFACE", "GET_INTERFACE", 0, 1, 1),
   StandardOut("INTERFACE", "SET_INTERFACE", 0, 1),
   Cdc("IN", "GET_LINE_CODING", 0, 7),
   Cdc("OUT", "SEND_BREAK", 100, 0),
   HaltFeature("SET_FEATURE", 131), ClearIn}

(* A host that opens the port, halts nothing, and clears the halt of the   *)
(* data endpoint.                                                          *)
ClearSetups == {Configure, Open, ClearIn}

=============================================================================
