--------------------------- MODULE UsbPeripheral ---------------------------
(***************************************************************************)
(* The USB full-speed device peripheral of the STM32F103 as the driver in  *)
(* firmware/src/usb_cdc.c uses it: endpoint status fields, transfer flags, *)
(* the interrupt status register, the device address and the packet memory *)
(* of endpoint 0.  The peripheral is not part of the repository; it is     *)
(* modelled from the registers the driver reads and writes and from what   *)
(* it relies on between an access and the next.                            *)
(*                                                                         *)
(* A bus transaction is one step.  Data toggles and the read-modify-write  *)
(* of an endpoint register are below this level: setting a status field    *)
(* is one assignment.                                                      *)
(***************************************************************************)
EXTENDS Integers

CONSTANTS
  Setups,       \* SETUP packets the host may send
  LineCodings,  \* values of the seven-byte CDC line coding
  MaxPacket     \* USB_EP0_MAX_PACKET_SIZE

ASSUME MaxPacketAssumption == MaxPacket \in Nat \ {0}

VARIABLES
  stat_tx,   \* STAT_TX field of every endpoint register
  stat_rx,   \* STAT_RX field of every endpoint register
  ctr_tx,    \* endpoints whose CTR_TX flag is set
  ctr_rx,    \* endpoints whose CTR_RX flag is set
  ep0_rx,    \* packet in the endpoint 0 receive buffer, while CTR_RX is set
  ep0_tx,    \* packet endpoint 0 has ready to send
  istr,      \* flags of USB_ISTR other than CTR, which ctr_tx and ctr_rx imply
  daddr,     \* USB_DADDR: the enable bit EF and the device address
  bus        \* "active" or "suspended"

hwvars == <<stat_tx, stat_rx, ctr_tx, ctr_rx, ep0_rx, ep0_tx, istr, daddr, bus>>

USB_EP0 == 0
USB_CDC_NOTIFICATION_EP == 1
USB_CDC_OUT_EP == 2
USB_CDC_IN_EP == 3
Endpoint == 0 .. 3

Address == {n \in Nat : n <= 127}

Status == {"DISABLED", "STALL", "NAK", "VALID"}

(* The packets of endpoint 0.  The SETUP bit of the register is the packet's *)
(* pid.  An OUT packet carries a byte count and, when it is the data stage   *)
(* of SET_LINE_CODING, a line coding.                                        *)
NoPacket == [pid |-> "NONE"]
SetupPacket(r) == [pid |-> "SETUP", req |-> r]
OutPacket(n, c) == [pid |-> "OUT", count |-> n, coding |-> c]
InPacket(s, o, n) == [pid |-> "IN", source |-> s, offset |-> o, length |-> n]

(* What a packet is filled from: a buffer by the name of its contents, with *)
(* the value of a reply.                                                     *)
Buffer(n, v) == [name |-> n, value |-> v]
BufferName == {"NULL", "device", "configuration", "language", "manufacturer",
               "product", "serial", "status", "configuration_value",
               "interface", "line_coding"}
Buffers == [name : BufferName, value : {0, 1} \cup LineCodings]

SetupPackets == {SetupPacket(r) : r \in Setups}
OutPackets == [pid : {"OUT"}, count : Nat, coding : LineCodings]
InPackets == [pid : {"IN"}, source : Buffers, offset : Nat, length : Nat]

HwTypeOK ==
  /\ stat_tx \in [Endpoint -> Status]
  /\ stat_rx \in [Endpoint -> Status]
  /\ ctr_tx \subseteq Endpoint
  /\ ctr_rx \subseteq Endpoint
  /\ ep0_rx \in {NoPacket} \cup SetupPackets \cup OutPackets
  /\ ep0_tx \in {NoPacket} \cup InPackets
  /\ istr \subseteq {"RESET", "PMAOVR", "ERR", "WKUP", "SUSP"}
  /\ daddr \in [ef : BOOLEAN, addr : Address]
  /\ bus \in {"active", "suspended"}

HwInit ==
  /\ stat_tx = [e \in Endpoint |-> "DISABLED"]
  /\ stat_rx = [e \in Endpoint |-> "DISABLED"]
  /\ ctr_tx = {}
  /\ ctr_rx = {}
  /\ ep0_rx = NoPacket
  /\ ep0_tx = NoPacket
  /\ istr = {}
  /\ daddr = [ef |-> FALSE, addr |-> 0]
  /\ bus = "active"

TransferPending == ctr_tx \cup ctr_rx # {}
InterruptPending == TransferPending \/ istr # {}

-----------------------------------------------------------------------------
(* Bus events.  The host sends nothing to a suspended bus, and leaves the  *)
(* device at least 10 ms after a reset or a resume: the handler has seen   *)
(* the change of the bus by then.                                          *)

Reachable ==
  bus = "active" /\ daddr.ef /\ istr \cap {"RESET", "WKUP", "SUSP"} = {}

(* A SETUP is accepted whatever the status of endpoint 0, unless the       *)
(* previous reception has not been acknowledged by the driver yet.         *)
HwSetup(r) ==
  /\ Reachable
  /\ USB_EP0 \notin ctr_rx
  /\ stat_rx[USB_EP0] # "DISABLED"
  /\ ep0_rx' = SetupPacket(r)
  /\ ctr_rx' = ctr_rx \cup {USB_EP0}
  /\ stat_tx' = [stat_tx EXCEPT ![USB_EP0] = "NAK"]
  /\ stat_rx' = [stat_rx EXCEPT ![USB_EP0] = "NAK"]
  /\ ep0_tx' = NoPacket
  /\ UNCHANGED <<ctr_tx, istr, daddr, bus>>

(* An OUT transaction on endpoint 0: a data or a status stage.             *)
HwOut0(n, c) ==
  /\ Reachable
  /\ USB_EP0 \notin ctr_rx
  /\ stat_rx[USB_EP0] = "VALID"
  /\ ep0_rx' = OutPacket(n, c)
  /\ ctr_rx' = ctr_rx \cup {USB_EP0}
  /\ stat_rx' = [stat_rx EXCEPT ![USB_EP0] = "NAK"]
  /\ UNCHANGED <<stat_tx, ctr_tx, ep0_tx, istr, daddr, bus>>

(* An OUT transaction on the CDC data endpoint.  Its bytes are discarded.  *)
HwOutBulk ==
  /\ Reachable
  /\ stat_rx[USB_CDC_OUT_EP] = "VALID"
  /\ ctr_rx' = ctr_rx \cup {USB_CDC_OUT_EP}
  /\ stat_rx' = [stat_rx EXCEPT ![USB_CDC_OUT_EP] = "NAK"]
  /\ UNCHANGED <<stat_tx, ctr_tx, ep0_rx, ep0_tx, istr, daddr, bus>>

(* The host takes the packet an endpoint has ready and acknowledges it.    *)
HwIn(e) ==
  /\ Reachable
  /\ stat_tx[e] = "VALID"
  /\ ctr_tx' = ctr_tx \cup {e}
  /\ stat_tx' = [stat_tx EXCEPT ![e] = "NAK"]
  /\ ep0_tx' = IF e = USB_EP0 THEN NoPacket ELSE ep0_tx
  /\ UNCHANGED <<stat_rx, ctr_rx, ep0_rx, istr, daddr, bus>>

(* A bus reset clears the endpoint registers, all but the CTR flags, and   *)
(* the address register.  A SETUP not yet read loses its SETUP bit: what   *)
(* remains is a reception of eight bytes.                                  *)
HwReset ==
  /\ "RESET" \notin istr
  /\ stat_tx' = [e \in Endpoint |-> "DISABLED"]
  /\ stat_rx' = [e \in Endpoint |-> "DISABLED"]
  /\ ep0_rx' \in IF ep0_rx.pid = "SETUP"
                 THEN {OutPacket(8, c) : c \in LineCodings}
                 ELSE {ep0_rx}
  /\ istr' = istr \cup {"RESET"}
  /\ daddr' = [ef |-> FALSE, addr |-> 0]
  /\ bus' = "active"
  /\ ep0_tx' = NoPacket
  /\ UNCHANGED <<ctr_tx, ctr_rx>>

(* Three milliseconds without traffic: every earlier event has been served. *)
HwSuspend ==
  /\ Reachable
  /\ ~ InterruptPending
  /\ bus' = "suspended"
  /\ istr' = {"SUSP"}
  /\ UNCHANGED <<stat_tx, stat_rx, ctr_tx, ctr_rx, ep0_rx, ep0_tx, daddr>>

(* Resume signalling lasts at least 20 ms: SUSP has been served before.    *)
(* That it raises WKUP is assumed of a driver that has not set FSUSP.      *)
HwResume ==
  /\ bus = "suspended"
  /\ "SUSP" \notin istr
  /\ bus' = "active"
  /\ istr' = istr \cup {"WKUP"}
  /\ UNCHANGED <<stat_tx, stat_rx, ctr_tx, ctr_rx, ep0_rx, ep0_tx, daddr>>

(* A damaged packet, or packet memory that could not be accessed in time.  *)
HwError(flag) ==
  /\ Reachable
  /\ flag \in {"ERR", "PMAOVR"} \ istr
  /\ istr' = istr \cup {flag}
  /\ UNCHANGED <<stat_tx, stat_rx, ctr_tx, ctr_rx, ep0_rx, ep0_tx, daddr, bus>>

=============================================================================
