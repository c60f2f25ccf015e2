--------------------------- MODULE EndpointRegister ---------------------------
(***************************************************************************)
(* One endpoint register of the USB peripheral and the accessors of        *)
(* firmware/src/usb_cdc.c (lines 145-220).  An accessor reads the register *)
(* and writes it back, and the peripheral may complete a transaction, or   *)
(* the bus be reset, between the two.  Writing the register does not       *)
(* assign it: a one toggles a status or data toggle bit, a zero clears a   *)
(* CTR flag, SETUP is read-only.                                           *)
(*                                                                         *)
(* A register value is the set of its bits that are one, so that |, & and  *)
(* ^ are union, intersection and symmetric difference.  The endpoint is    *)
(* driven by the sequences of accesses that the operations of the driver   *)
(* make on it; UsbCdc takes each of them as assignments.                   *)
(***************************************************************************)
EXTENDS Integers, Sequences

CONSTANT
  Endpoints    \* endpoints to look at

ASSUME EndpointsAssumption == Endpoints \subseteq 0 .. 3

-----------------------------------------------------------------------------
(* The bits of the register.                                               *)

CtrBits == {"CTR_RX", "CTR_TX"}
TypeBits == {"TYPE1", "TYPE0"}
AddressBits == {"EA1", "EA0"}        \* four endpoints: two of the four bits
TxStat == {"STAT_TX1", "STAT_TX0"}
RxStat == {"STAT_RX1", "STAT_RX0"}
ToggleBits == TxStat \cup RxStat \cup {"DTOG_TX", "DTOG_RX"}
StoredBits == TypeBits \cup AddressBits \cup {"KIND"}

Xor(a, b) == (a \ b) \cup (b \ a)

(* USB_EP_TX_STALL and the like.                                           *)
TxStatus(s) == CASE s = "DISABLED" -> {}           [] s = "STALL" -> {"STAT_TX0"}
                 [] s = "NAK" -> {"STAT_TX1"}      [] s = "VALID" -> TxStat
RxStatus(s) == CASE s = "DISABLED" -> {}           [] s = "STALL" -> {"STAT_RX0"}
                 [] s = "NAK" -> {"STAT_RX1"}      [] s = "VALID" -> RxStat

USB_EPREG_MASK == CtrBits \cup StoredBits \cup {"SETUP"}
USB_EP_T_MASK == USB_EPREG_MASK \ TypeBits
USB_EPTX_DTOGMASK == TxStat \cup USB_EPREG_MASK
USB_EPRX_DTOGMASK == RxStat \cup USB_EPREG_MASK

(* The register after value is written to it.                              *)
endpoint_write(reg, value) ==
  (reg \cap {"SETUP"}) \cup (value \cap StoredBits)
    \cup (reg \cap value \cap CtrBits)
    \cup Xor(reg \cap ToggleBits, value \cap ToggleBits)

-----------------------------------------------------------------------------
(* The accessors: what each writes, given what it has read.                *)

endpoint_set_type(read, type) == (read \cap USB_EP_T_MASK) \cup type \cup CtrBits

(* Takes the address for all there is to write.                            *)
endpoint_set_address_only(read, address) == address \cup CtrBits

endpoint_set_address(read, address) == (read \cap USB_EPREG_MASK) \cup address \cup CtrBits

(* Writes the status as if the register could be assigned.                 *)
endpoint_assign_tx_status(read, status) ==
  (read \cap USB_EPREG_MASK) \cup status \cup CtrBits
endpoint_assign_rx_status(read, status) ==
  (read \cap USB_EPREG_MASK) \cup status \cup CtrBits

endpoint_set_tx_status(read, status) ==
  Xor(read \cap USB_EPTX_DTOGMASK, status) \cup CtrBits
endpoint_set_rx_status(read, status) ==
  Xor(read \cap USB_EPRX_DTOGMASK, status) \cup CtrBits

(* Writes back the other flag as it was read.                              *)
endpoint_clear_rx_interrupt_back(read) == read \cap (USB_EPREG_MASK \ {"CTR_RX"})

endpoint_clear_rx_interrupt(read) ==
  (read \cap (USB_EPREG_MASK \ {"CTR_RX"})) \cup {"CTR_TX"}
endpoint_clear_tx_interrupt(read) ==
  (read \cap (USB_EPREG_MASK \ {"CTR_TX"})) \cup {"CTR_RX"}

endpoint_clear_toggle(read, toggle) ==
  (read \cap USB_EPREG_MASK) \cup CtrBits \cup {toggle}

(* An access and its argument, a set of bits.                              *)
Access(op, bits) == [op |-> op, bits |-> bits]
Clears(op) == CASE op = "clear_rx_interrupt" -> {"CTR_RX"}
                [] op = "clear_tx_interrupt" -> {"CTR_TX"}
                [] OTHER -> {}

ValueOf(a, read) ==
  CASE a.op = "set_type" -> endpoint_set_type(read, a.bits)
    [] a.op = "set_address" -> endpoint_set_address(read, a.bits)
    [] a.op = "set_tx_status" -> endpoint_set_tx_status(read, a.bits)
    [] a.op = "set_rx_status" -> endpoint_set_rx_status(read, a.bits)
    [] a.op = "clear_rx_interrupt" -> endpoint_clear_rx_interrupt(read)
    [] a.op = "clear_tx_interrupt" -> endpoint_clear_tx_interrupt(read)
    [] a.op = "clear_tx_toggle" -> endpoint_clear_toggle(read, "DTOG_TX")
    [] a.op = "clear_rx_toggle" -> endpoint_clear_toggle(read, "DTOG_RX")

(* endpoint_clear_tx_toggle and its like write only to a one.              *)
NothingToClear(a, read) ==
  \/ a.op = "clear_tx_toggle" /\ "DTOG_TX" \notin read
  \/ a.op = "clear_rx_toggle" /\ "DTOG_RX" \notin read

-----------------------------------------------------------------------------

VARIABLES
  quiet_host,  \* the host uses no data endpoint while it configures or halts it
  endpoint,    \* which endpoint this is
  reg,         \* its register
  reset,       \* USB_ISTR.RESET
  todo,        \* accesses the driver still has to make
  value,       \* what it is about to write: <<v>>, or <<>> before it has read
  operation,   \* the operation they belong to
  isr,         \* the interrupt handler runs
  configured, busy   \* usb_configured, cdc_in_busy

(* What no step changes.                                                   *)
fixed == <<quiet_host, endpoint>>
vars == <<fixed, reg, reset, todo, value, operation, isr, configured, busy>>

(* endpoint_configure: bulk is type 00, control 01, interrupt 11.          *)
TypeOf(e) == CASE e = 0 -> {"TYPE0"} [] e = 1 -> TypeBits [] e \in {2, 3} -> {}
AddressOf(e) ==
  CASE e = 0 -> {} [] e = 1 -> {"EA0"} [] e = 2 -> {"EA1"} [] e = 3 -> AddressBits

(* The endpoints that only send: notifications and bulk IN.                *)
Sends == endpoint \in {1, 3}

SetTx(s) == Access("set_tx_status", TxStatus(s))
SetRx(s) == Access("set_rx_status", RxStatus(s))
ClearTxToggle == Access("clear_tx_toggle", {})
ClearRxToggle == Access("clear_rx_toggle", {})
ClearRxFlag == Access("clear_rx_interrupt", {})
ClearTxFlag == Access("clear_tx_interrupt", {})

OutStatus(c) == IF c THEN "VALID" ELSE "NAK"

(* What handle_ep0_setup does before it looks at the request.              *)
SetupAccesses == <<SetTx("NAK"), SetRx("VALID")>>

(* Endpoint 0 after a reception, and after a transmission.                 *)
RxReplies ==
  {<<SetRx("VALID"), SetTx("VALID")>>,      \* data or status stage to send
   <<SetTx("NAK"), SetRx("VALID")>>,        \* data stage to receive, or idle
   <<SetTx("STALL"), SetRx("STALL")>>}
TxReplies ==
  {<<SetTx("VALID")>>,                      \* next packet
   <<SetTx("NAK"), SetRx("VALID")>>,        \* end of the stage
   <<>>}                                    \* a completion that is too late

Init ==
  /\ quiet_host \in BOOLEAN
  /\ endpoint \in Endpoints
  /\ reg = {}
  /\ reset = TRUE
  /\ todo = <<>> /\ value = <<>>
  /\ operation = "none" /\ isr = FALSE
  /\ configured = FALSE /\ busy = FALSE

-----------------------------------------------------------------------------
(* The driver's operations, each a sequence of accesses.                   *)

Begin(name, accesses) ==
  /\ todo = <<>>
  /\ operation' = name
  /\ todo' = accesses
  /\ isr' = (name # "write")
  /\ UNCHANGED <<fixed, reg, value>>

usb_bus_reset ==
  /\ reset
  /\ reset' = FALSE
  /\ configured' = FALSE /\ busy' = FALSE
  /\ Begin("reset",
       <<Access("set_type", TypeOf(endpoint)), Access("set_address", AddressOf(endpoint)),
         ClearTxToggle, ClearRxToggle>>
       \o CASE endpoint = 0 -> <<SetTx("NAK"), SetRx("VALID")>>
            [] endpoint = 2 -> <<SetTx("DISABLED"), SetRx("NAK")>>
            [] Sends -> <<SetTx("NAK"), SetRx("DISABLED")>>)

(* The handler looks at RESET before the transfers and when none is left:  *)
(* a reset that comes in between waits until they are served.              *)
AmongTransfers == ~ reset \/ (isr /\ operation # "reset")

ServeRx ==
  /\ AmongTransfers /\ "CTR_RX" \in reg
  /\ \/ /\ endpoint = 0
        /\ \E r \in RxReplies :
             Begin("serve",
               <<ClearRxFlag>> \o (IF "SETUP" \in reg THEN SetupAccesses \o r ELSE r))
     \/ endpoint = 2 /\ Begin("serve", <<ClearRxFlag, SetRx(OutStatus(configured))>>)
  /\ UNCHANGED <<reset, configured, busy>>

ServeTx ==
  /\ AmongTransfers /\ "CTR_RX" \notin reg /\ "CTR_TX" \in reg
  /\ \/ /\ endpoint = 0
        /\ \E r \in TxReplies : Begin("serve", <<ClearTxFlag>> \o r)
        /\ UNCHANGED busy
     \/ /\ Sends
        /\ busy' = IF endpoint = 3 THEN FALSE ELSE busy
        /\ Begin("serve", <<ClearTxFlag, SetTx("NAK")>>)
  /\ UNCHANGED <<reset, configured>>

non_control_endpoints_set_configured(c) ==
  /\ AmongTransfers /\ endpoint # 0
  /\ configured' = c /\ busy' = FALSE
  /\ Begin("configure", IF endpoint = 2
                        THEN <<ClearRxToggle, SetRx(OutStatus(c))>>
                        ELSE <<ClearTxToggle, SetTx("NAK")>>)
  /\ UNCHANGED reset

endpoint_set_halt(halt) ==
  /\ AmongTransfers /\ endpoint # 0 /\ configured
  /\ Begin("halt",
       CASE Sends /\ halt -> <<SetTx("STALL")>>
         [] Sends /\ ~ halt -> <<ClearTxToggle, SetTx("NAK")>>
         [] endpoint = 2 /\ halt -> <<SetRx("STALL")>>
         [] endpoint = 2 /\ ~ halt -> <<ClearRxToggle, SetRx(OutStatus(configured))>>)
  /\ UNCHANGED <<reset, configured, busy>>

(* The handler returns when no flag is left.                               *)
LeaveHandler ==
  /\ isr /\ todo = <<>>
  /\ ~ reset /\ reg \cap CtrBits = {}
  /\ isr' = FALSE
  /\ UNCHANGED <<fixed, reg, reset, todo, value, operation, configured, busy>>

(* In the main loop, with interrupts masked.                               *)
usb_cdc_try_write ==
  /\ ~ isr
  /\ endpoint = 3 /\ configured /\ ~ busy
  /\ busy' = TRUE
  /\ Begin("write", <<SetTx("VALID")>>)
  /\ UNCHANGED <<reset, configured>>

Read ==
  /\ todo # <<>> /\ value = <<>>
  /\ IF NothingToClear(Head(todo), reg)
     THEN todo' = Tail(todo) /\ UNCHANGED value
     ELSE value' = <<ValueOf(Head(todo), reg)>> /\ UNCHANGED todo
  /\ UNCHANGED <<fixed, reg, reset, operation, isr, configured, busy>>

Write ==
  /\ value # <<>>
  /\ reg' = endpoint_write(reg, Head(value))
  /\ todo' = Tail(todo)
  /\ value' = <<>>
  /\ UNCHANGED <<fixed, reset, operation, isr, configured, busy>>

Driver ==
  \/ usb_bus_reset \/ ServeRx \/ ServeTx
  \/ \E c \in BOOLEAN : non_control_endpoints_set_configured(c) \/ endpoint_set_halt(c)
  \/ LeaveHandler \/ usb_cdc_try_write
  \/ Read \/ Write

-----------------------------------------------------------------------------
(* The peripheral.                                                         *)

(* Between a reset and the end of its handling the host sends nothing.     *)
Addressed ==
  /\ ~ reset /\ (operation = "reset" => todo = <<>>) /\ operation # "none"
  /\ quiet_host /\ operation \in {"configure", "halt"} => todo = <<>>

Completes(bits, stat, nak, flag, toggle) ==
  (bits \ (stat \cup {toggle})) \cup nak \cup {flag} \cup ({toggle} \ bits)

HwOut ==
  /\ Addressed
  /\ RxStat \subseteq reg
  /\ endpoint = 0 => "CTR_RX" \notin reg
  /\ reg' = Completes(reg, RxStat, RxStatus("NAK"), "CTR_RX", "DTOG_RX") \ {"SETUP"}
  /\ UNCHANGED <<fixed, reset, todo, value, operation, isr, configured, busy>>

HwIn ==
  /\ Addressed
  /\ TxStat \subseteq reg
  /\ reg' = Completes(reg, TxStat, TxStatus("NAK"), "CTR_TX", "DTOG_TX")
  /\ UNCHANGED <<fixed, reset, todo, value, operation, isr, configured, busy>>

(* A SETUP is taken whatever the status, unless the endpoint is DISABLED,  *)
(* and the data stages start with DATA1.                                   *)
HwSetup ==
  /\ Addressed
  /\ endpoint = 0 /\ "CTR_RX" \notin reg
  /\ reg \cap RxStat # {}
  /\ reg' = (reg \ ToggleBits) \cup RxStatus("NAK") \cup TxStatus("NAK")
            \cup {"SETUP", "CTR_RX", "DTOG_RX", "DTOG_TX"}
  /\ UNCHANGED <<fixed, reset, todo, value, operation, isr, configured, busy>>

HwReset ==
  /\ ~ reset
  /\ reset' = TRUE
  /\ reg' = reg \cap CtrBits
  /\ UNCHANGED <<fixed, todo, value, operation, isr, configured, busy>>

Next == Driver \/ HwOut \/ HwIn \/ HwSetup \/ HwReset

Spec == Init /\ [][Next]_vars

-----------------------------------------------------------------------------
(* Properties.                                                             *)

Idle == todo = <<>> /\ ~ reset /\ operation # "none"

(* The flag of a completed transaction is cleared only by the access that   *)
(* is made to clear it, whatever completes between a read and its write.    *)
FlagsSurvive ==
  [][\A f \in CtrBits : f \in reg /\ f \notin reg' =>
       /\ value # <<>> /\ f \in Clears(Head(todo).op)]_vars

(* Type and address survive every access, and a reset that hits the middle  *)
(* of one, whose write then puts stale bits into the cleared register, is   *)
(* made good by the handling of the reset.                                  *)
IdentityRestored ==
  Idle => reg \cap StoredBits = TypeOf(endpoint) \cup AddressOf(endpoint)

(* Even when a transaction falls into a read-modify-write, an endpoint that *)
(* has to receive is never left deaf: it accepts or refuses the next packet *)
(* or has one for the driver to serve.                                      *)
NeverDeaf ==
  Idle /\ (endpoint = 0 \/ (endpoint = 2 /\ configured)) =>
    "CTR_RX" \in reg \/ reg \cap RxStat \in {RxStatus("VALID"), RxStatus("STALL")}

(* With such a host a status access to a data endpoint is an assignment, as *)
(* UsbCdc has it: when a transaction falls into it, the result is that of   *)
(* the assignment followed by the transaction.                              *)
AsAssigned(op, stat, nak, flag) ==
  value # <<>> /\ value' = <<>> /\ Head(todo).op = op /\ ~ reset =>
    \/ reg' \cap stat = Head(todo).bits
    \/ Head(todo).bits = stat /\ reg' \cap stat = nak /\ flag \in reg'

StatusIsAssigned ==
  [][quiet_host /\ endpoint # 0 =>
       /\ AsAssigned("set_tx_status", TxStat, TxStatus("NAK"), "CTR_TX")
       /\ AsAssigned("set_rx_status", RxStat, RxStatus("NAK"), "CTR_RX")]_vars

===============================================================================
