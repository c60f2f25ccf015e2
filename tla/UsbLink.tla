------------------------------- MODULE UsbLink ------------------------------
(***************************************************************************)
(* The driver of UsbCdc with a USB host at the other end: a host that runs *)
(* one control transfer after another by the rules of the bus, gives up on *)
(* a transfer and starts another, resets and suspends the bus, and whose   *)
(* handshakes may get lost.  The host is outside the repository: what it   *)
(* does is what the driver's endpoint 0 states follow.                     *)
(*                                                                         *)
(* Timing: a SETUP reaches the device at least 10 us after the handshake   *)
(* of the transaction before it (a SETUP token and eight bytes at 12       *)
(* Mbit/s), and the handler has served that transaction by then.           *)
(***************************************************************************)
EXTENDS UsbCdc

VARIABLES
  h_stage,   \* stage of the host's control transfer
  h_req,     \* its request
  h_got,     \* bytes received in its data stage
  h_dup,     \* the device does not know that its last packet was received
  h_sent,    \* line coding sent in its data stage
  h_addr,    \* address by which the host calls the device
  h_config   \* configurations the device may have been in before the transfer, as
             \* far as the host knows

hostvars == <<h_stage, h_req, h_got, h_dup, h_sent, h_addr, h_config>>
linkvars == <<vars, hostvars>>

LinkInit ==
  /\ Init
  /\ h_stage = "none"
  /\ h_req = CHOOSE r \in Setups : TRUE
  /\ h_got = 0
  /\ h_dup = FALSE
  /\ h_sent = DefaultLineCoding
  /\ h_addr = 0
  /\ h_config = {0}

-----------------------------------------------------------------------------
(* Control transfers.                                                      *)

FirstStage(r) ==
  CASE r.length = 0 -> "status_in"
    [] r.length > 0 /\ r.dir = "IN" -> "data_in"
    [] r.length > 0 /\ r.dir = "OUT" -> "data_out"

Addressed == h_addr = daddr.addr /\ isr # "off" /\ UNCHANGED <<swvars, isr>>

Sets(r, request) == r.type = "STANDARD" /\ r.request = request

(* The configurations the device may be in: the host does not know whether *)
(* the request of the transfer has been followed yet.                      *)
ConfigurationsNow ==
  IF h_stage # "none" /\ Sets(h_req, "SET_CONFIGURATION")
  THEN h_config \cup {h_req.value} ELSE h_config

(* A new transfer; the previous one has ended or is given up.              *)
HostSetup(r) ==
  /\ Addressed
  /\ USB_EP0 \notin ctr_tx
  /\ HwSetup(r)
  /\ h_stage' = FirstStage(r)
  /\ h_req' = r
  /\ h_got' = 0
  /\ h_dup' = FALSE
  /\ h_config' = ConfigurationsNow
  /\ UNCHANGED <<h_sent, h_addr>>

(* What the host makes of a packet of the data stage.  A short packet ends *)
(* the stage, and so does the last byte asked for.                         *)
TakeData(p) ==
  LET got == h_got + p.length
  IN /\ h_got' = got
     /\ h_stage' = IF p.length < MaxPacket \/ got >= h_req.length
                   THEN "status_out" ELSE "data_in"
     /\ UNCHANGED <<h_req, h_sent, h_addr, h_config>>

(* What the host knew of the transfer does not matter any more.            *)
TransferOver ==
  /\ h_stage' = "none"
  /\ h_req' = CHOOSE r \in Setups : TRUE
  /\ h_got' = 0 /\ h_sent' = DefaultLineCoding

FinishRequest ==
  /\ TransferOver
  /\ h_addr' = IF Sets(h_req, "SET_ADDRESS") THEN h_req.value ELSE h_addr
  /\ h_config' = IF Sets(h_req, "SET_CONFIGURATION") THEN {h_req.value} ELSE h_config

HostDataIn ==
  /\ Addressed /\ h_stage = "data_in" /\ ~ h_dup
  /\ HwIn(USB_EP0)
  /\ TakeData(ep0_tx)
  /\ UNCHANGED h_dup

HostStatusIn ==
  /\ Addressed /\ h_stage = "status_in" /\ ~ h_dup
  /\ HwIn(USB_EP0)
  /\ FinishRequest
  /\ UNCHANGED h_dup

(* The host receives the packet and the device misses the handshake: the   *)
(* device keeps offering it.                                               *)
HostAckLost ==
  /\ Addressed /\ ~ h_dup
  /\ Reachable /\ stat_tx[USB_EP0] = "VALID"
  /\ \/ h_stage = "data_in" /\ TakeData(ep0_tx)
     \/ h_stage = "status_in" /\ FinishRequest
  /\ h_dup' = TRUE
  /\ UNCHANGED hwvars

(* The packet again: the host knows it by its data toggle and drops it.    *)
HostDuplicate ==
  /\ Addressed /\ h_stage = "data_in" /\ h_dup
  /\ HwIn(USB_EP0)
  /\ h_dup' = FALSE
  /\ UNCHANGED <<h_stage, h_req, h_got, h_sent, h_addr, h_config>>

HostDataOut(c) ==
  /\ Addressed /\ h_stage = "data_out"
  /\ HwOut0(h_req.length, c)
  /\ h_stage' = "status_in"
  /\ h_sent' = c
  /\ UNCHANGED <<h_req, h_got, h_dup, h_addr, h_config>>

HostStatusOut ==
  /\ Addressed /\ h_stage = "status_out"
  /\ HwOut0(0, h_sent)
  /\ TransferOver
  /\ UNCHANGED <<h_dup, h_addr, h_config>>

(* A STALL in the direction of the stage ends the transfer: the device has *)
(* refused the request.                                                    *)
HostStalled ==
  /\ Addressed /\ Reachable
  /\ \/ h_stage \in {"data_in", "status_in"} /\ stat_tx[USB_EP0] = "STALL"
     \/ h_stage \in {"data_out", "status_out"} /\ stat_rx[USB_EP0] = "STALL"
  /\ TransferOver
  /\ UNCHANGED <<hwvars, h_dup, h_addr, h_config>>

-----------------------------------------------------------------------------
(* The bus.                                                                *)

HostReset ==
  /\ isr # "off" /\ HwReset
  /\ TransferOver /\ h_dup' = FALSE
  /\ h_addr' = 0 /\ h_config' = {0}
  /\ UNCHANGED <<swvars, isr>>

HostSuspend ==
  /\ Addressed /\ h_stage = "none"
  /\ HwSuspend
  /\ UNCHANGED hostvars

HostResume ==
  /\ isr # "off" /\ HwResume
  /\ UNCHANGED <<swvars, isr, hostvars>>

(* The data endpoints of a configured device.                              *)
HostBulk ==
  /\ Addressed
  /\ HwOutBulk \/ HwIn(USB_CDC_IN_EP)
  /\ UNCHANGED hostvars

HostContinue ==
  \/ HostDataIn \/ HostStatusIn \/ HostDuplicate
  \/ \E c \in LineCodings : HostDataOut(c)
  \/ HostStatusOut \/ HostStalled

HostNext ==
  \/ \E r \in Setups : HostSetup(r)
  \/ HostContinue \/ HostAckLost
  \/ HostReset \/ HostSuspend \/ HostResume
  \/ HostBulk

Device == USB_LP_CAN1_RX0_IRQHandler /\ UNCHANGED hostvars

LinkNext ==
  \/ usb_cdc_init /\ UNCHANGED hostvars
  \/ Device
  \/ usb_cdc_try_write /\ UNCHANGED hostvars
  \/ HostNext

LinkSpec == LinkInit /\ [][LinkNext]_linkvars

(* The handler runs, the main loop keeps writing to an open port, and the   *)
(* host polls it and goes on with the transfer it has begun.                *)
FairLinkSpec == LinkSpec /\ WF_linkvars(HostContinue) /\ Fairness

-----------------------------------------------------------------------------
(* Properties.                                                             *)

ReadName(r) ==
  CASE r.request = "GET_DESCRIPTOR" -> (CHOOSE d \in find_descriptor(r.value) : TRUE).name
    [] r.request = "GET_STATUS" -> "status"
    [] r.request = "GET_CONFIGURATION" -> "configuration_value"
    [] r.request = "GET_INTERFACE" -> "interface"
    [] r.request = "GET_LINE_CODING" -> "line_coding"

(* A control read delivers the buffer its request names, from the first     *)
(* byte, each packet where the one before it ended, whatever transfer came  *)
(* before and however often the handshakes of its packets are lost.         *)
ReadsAreContiguous ==
  [][/\ HostDataIn \/ (HostAckLost /\ h_stage = "data_in")
     /\ ep0_tx.length > 0
     => ep0_tx.source.name = ReadName(h_req) /\ ep0_tx.offset = h_got]_linkvars

(* When the host has seen the end of the data stage, it has every byte      *)
(* there is or every byte it asked for: the driver ends a transfer that     *)
(* fills its last packet with a zero-length one exactly when the host still *)
(* waits for more.                                                          *)
ReadsAreComplete ==
  h_stage = "status_out" =>
    h_got = minimum_u16(BufferSize(ReadName(h_req)), h_req.length)

(* The device takes a new address only when the host already calls it by    *)
(* that address: after the status stage, never during it, and never for a   *)
(* request given up in between.  (A reset not yet handled overrides it.)    *)
AddressAfterStatus ==
  [][daddr' # daddr /\ "RESET" \notin istr' => daddr'.addr = h_addr']_linkvars

(* The configuration of the device is one the host knows it may be in:      *)
(* what the host was told has been set, is, and a request that the device   *)
(* has refused has changed nothing.                                         *)
ConfigurationKnown == "RESET" \notin istr => configuration_value \in ConfigurationsNow

(* How many bytes there are to read: none by a request that reads nothing.  *)
Readable(r) ==
  /\ r.request \in {"GET_STATUS", "GET_DESCRIPTOR", "GET_CONFIGURATION", "GET_INTERFACE",
                    "GET_LINE_CODING"}
  /\ r.request = "GET_DESCRIPTOR" => find_descriptor(r.value) # {}

Available(r) ==
  IF Readable(r) THEN minimum_u16(BufferSize(ReadName(r)), r.length) ELSE 0

(* The host's request; it has been followed when the driver has read it and *)
(* neither refused it nor waits for its data stage.                         *)
Requested == IF h_stage = "none" THEN <<>> ELSE <<h_req>>
Followed ==
  h_stage # "none" /\ ep0_rx.pid # "SETUP" /\ ep0_state \notin {"STALLED", "DATA_OUT"}

(* A data stage is complete and not served yet.                             *)
Arrived == IF ep0_rx.pid = "OUT" /\ DataOutComplete THEN {ep0_rx.coding} ELSE {}

Function == INSTANCE UsbFunction WITH
  Requests <- Setups, Codings <- LineCodings, InitialCoding <- DefaultLineCoding,
  Bytes <- [r \in Setups |-> Available(r)],
  request <- Requested, followed <- Followed, got <- h_got, arrived <- Arrived,
  configuration <- configuration_value, dtr <- usb_dtr_asserted, coding <- line_coding,
  resetting <- "RESET" \in istr

(* Packets, stages and lost handshakes add up to what UsbFunction promises: *)
(* every request takes effect once and as a whole, or not at all, and the   *)
(* host learns of its end only after its effect and with all it has read.   *)
LinkIsFunction == Function!FunctionSpec

(* When the host is told that a line coding was set, it is the one it sent. *)
LineCodingIsSet ==
  [][HostStatusIn /\ h_req.request = "SET_LINE_CODING" => line_coding = h_sent]_linkvars

(* The driver stalls only what it does not handle: a request that it        *)
(* accepts is never refused at a later stage.                               *)
OnlyUnhandledStall == [][HostStalled => ~ Handled(h_req)]_linkvars

(* Every control transfer ends, unless the host keeps giving up: it is      *)
(* never NAKed for ever.  (h_req' is the request it gives up for.)          *)
GiveUp == h_stage # "none" /\ HostSetup(h_req')

TransfersEnd ==
  <>[][~ GiveUp]_linkvars => (h_stage # "none" ~> h_stage = "none")

=============================================================================
