------------------------------ MODULE MCUsbLink -----------------------------
(* Instances of UsbLink for TLC.                                           *)
EXTENDS UsbLink

Request(d, t, r, q, v, i, n) ==
  [dir |-> d, type |-> t, recipient |-> r, request |-> q,
   value |-> v, index |-> i, length |-> n]

Standard(d, q, v, n) == Request(d, "STANDARD", "DEVICE", q, v, 0, n)
Cdc(d, q, v, n) == Request(d, "CLASS", "INTERFACE", q, v, 0, n)

Configure == Standard("OUT", "SET_CONFIGURATION", 1, 0)
SetAddress5 == Standard("OUT", "SET_ADDRESS", 5, 0)
ReadDescriptor(v, n) == Standard("IN", "GET_DESCRIPTOR", v, n)

(* A read of exactly one full packet with more asked for, one of two of     *)
(* them with no more asked for, and what enumerates a device and opens its  *)
(* port, which it refuses while it is not configured.                       *)
LinkSetups ==
  {ReadDescriptor(770, 255), ReadDescriptor(512, 64),
   SetAddress5, Configure,
   Cdc("OUT", "SET_LINE_CODING", 0, 7),
   Cdc("OUT", "SET_CONTROL_LINE_STATE", 1, 0)}

=============================================================================
