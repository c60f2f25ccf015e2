------------------------------- MODULE UsbCdc -------------------------------
(***************************************************************************)
(* firmware/src/usb_cdc.c: the USB CDC driver of the control board.  Its   *)
(* interrupt handler answers the control requests of the host and follows  *)
(* the state of the bus; the main loop hands packets to the bulk IN        *)
(* endpoint with usb_cdc_try_write, which masks interrupts.                *)
(*                                                                         *)
(* Handling one completed transfer, or one flag of USB_ISTR, is one step;  *)
(* bus events come between steps.  The host may send any request of Setups *)
(* and any packet at any time.                                             *)
(***************************************************************************)
EXTENDS UsbPeripheral

CONSTANTS
  OutCounts,           \* byte counts of OUT packets on endpoint 0
  ManufacturerLength,  \* characters of manufacturer_string
  ProductLength        \* characters of product_string

Word == {n \in Nat : n < 2^16}    \* uint16_t

SetupType ==
  [dir : {"OUT", "IN"},
   type : {"STANDARD", "CLASS", "VENDOR"},
   recipient : {"DEVICE", "INTERFACE", "ENDPOINT", "OTHER"},
   request : STRING,
   value : Word, index : Word, length : Word]

ASSUME SetupsAssumption == Setups \subseteq SetupType
ASSUME LineCodingsAssumption == LineCodings # {}
ASSUME OutCountsAssumption == OutCounts \subseteq 0 .. MaxPacket
ASSUME StringsAssumption == ManufacturerLength \in Nat /\ ProductLength \in Nat

VARIABLES
  usb_configured, usb_dtr_asserted, usb_suspended, cdc_in_busy,
  configuration_value,
  ep0_state,
  ep0_out_action, ep0_out_expected,
  ep0_tx_data,          \* the buffer read from, and the offset into it
  ep0_tx_remaining, ep0_tx_needs_zlp,
  line_coding,
  pending_address_valid, pending_address,
  isr                   \* where the interrupt handler is

configvars == <<usb_configured, configuration_value, usb_dtr_asserted, cdc_in_busy>>
datavars == <<ep0_tx_data, ep0_tx_remaining, ep0_tx_needs_zlp>>
outvars == <<ep0_out_action, ep0_out_expected>>
addressvars == <<pending_address_valid, pending_address>>
swvars == <<configvars, usb_suspended, ep0_state, outvars, datavars,
            line_coding, addressvars>>
vars == <<hwvars, swvars, isr>>

Ep0State == {"IDLE", "DATA_IN", "DATA_OUT", "STATUS_IN", "STATUS_OUT", "STALLED"}
DefaultLineCoding == CHOOSE c \in LineCodings : TRUE

Init ==
  /\ HwInit
  /\ usb_configured = FALSE /\ usb_dtr_asserted = FALSE
  /\ usb_suspended = FALSE /\ cdc_in_busy = FALSE
  /\ configuration_value = 0
  /\ ep0_state = "IDLE"
  /\ ep0_out_action = "NONE" /\ ep0_out_expected = 0
  /\ ep0_tx_data = [source |-> Buffer("NULL", 0), offset |-> 0]
  /\ ep0_tx_remaining = 0 /\ ep0_tx_needs_zlp = FALSE
  /\ line_coding = DefaultLineCoding
  /\ pending_address_valid = FALSE /\ pending_address = 0
  /\ isr = "off"

-----------------------------------------------------------------------------
(* Descriptors: the buffer find_descriptor returns and its length.         *)

minimum_u16(left, right) == IF left < right THEN left ELSE right

make_string_descriptor(characters) ==
  2 + 2 * minimum_u16(characters, (MaxPacket - 2) \div 2)

Descriptors ==
  {[type |-> 1, index |-> 0, name |-> "device", length |-> 18],
   [type |-> 2, index |-> 0, name |-> "configuration", length |-> 67],
   [type |-> 3, index |-> 0, name |-> "language", length |-> 4],
   [type |-> 3, index |-> 1, name |-> "manufacturer",
    length |-> make_string_descriptor(ManufacturerLength)],
   [type |-> 3, index |-> 2, name |-> "product",
    length |-> make_string_descriptor(ProductLength)],
   [type |-> 3, index |-> 3, name |-> "serial", length |-> 50]}

find_descriptor(value) ==
  {d \in Descriptors : d.type = value \div 256 /\ d.index = value % 256}

-----------------------------------------------------------------------------
(* Endpoint 0 transfers.  tx and rx are the status fields as the request   *)
(* leaves them on the other endpoints.                                     *)

ZeroLengthPacket == InPacket(Buffer("NULL", 0), 0, 0)

ep0_set_status(tx, rx, t, r) ==
  /\ stat_tx' = [tx EXCEPT ![USB_EP0] = t]
  /\ stat_rx' = [rx EXCEPT ![USB_EP0] = r]

(* What the host asks for, whatever there is.                              *)
ep0_start_data_in_unbounded(source, available, requested) ==
  LET first == minimum_u16(requested, MaxPacket)
  IN /\ ep0_state' = "DATA_IN"
     /\ ep0_tx_data' = [source |-> source, offset |-> first]
     /\ ep0_tx_remaining' = requested - first
     /\ ep0_tx_needs_zlp' = FALSE
     /\ ep0_tx' = IF requested = 0 THEN ZeroLengthPacket ELSE InPacket(source, 0, first)
     /\ ep0_set_status(stat_tx, stat_rx, "VALID", "VALID")

(* Fills a packet to one byte less than its size.                          *)
ep0_start_data_in_short(source, available, requested) ==
  LET length == minimum_u16(available, requested)
      first == minimum_u16(length, MaxPacket - 1)
  IN /\ ep0_state' = "DATA_IN"
     /\ ep0_tx_data' = [source |-> source, offset |-> first]
     /\ ep0_tx_remaining' = length - first
     /\ ep0_tx_needs_zlp' = (0 < length /\ length < requested /\ length % MaxPacket = 0)
     /\ ep0_tx' = IF length = 0 THEN ZeroLengthPacket ELSE InPacket(source, 0, first)
     /\ ep0_set_status(stat_tx, stat_rx, "VALID", "VALID")

ep0_start_data_in(source, available, requested) ==
  LET length == minimum_u16(available, requested)
      first == minimum_u16(length, MaxPacket)
  IN /\ ep0_state' = "DATA_IN"
     /\ ep0_tx_data' = [source |-> source, offset |-> first]
     /\ ep0_tx_remaining' = length - first
     /\ ep0_tx_needs_zlp' = (0 < length /\ length < requested /\ length % MaxPacket = 0)
     /\ ep0_tx' = IF length = 0 THEN ZeroLengthPacket ELSE InPacket(source, 0, first)
     /\ ep0_set_status(stat_tx, stat_rx, "VALID", "VALID")

ep0_start_status_in(tx, rx) ==
  /\ ep0_state' = "STATUS_IN"
  /\ ep0_tx' = ZeroLengthPacket
  /\ ep0_set_status(tx, rx, "VALID", "VALID")
  /\ UNCHANGED datavars

ep0_start_data_out(length, action) ==
  /\ ep0_state' = "DATA_OUT"
  /\ ep0_out_expected' = length
  /\ ep0_out_action' = action
  /\ ep0_tx' = NoPacket
  /\ ep0_set_status(stat_tx, stat_rx, "NAK", "VALID")
  /\ UNCHANGED datavars

ep0_stall ==
  /\ ep0_state' = "STALLED"
  /\ ep0_tx' = NoPacket
  /\ ep0_set_status(stat_tx, stat_rx, "STALL", "STALL")
  /\ UNCHANGED datavars

(* Forgets to accept the next packet.                                      *)
ep0_wait_out_deaf(state) ==
  /\ ep0_state' = state
  /\ ep0_tx' = NoPacket
  /\ ep0_set_status(stat_tx, stat_rx, "NAK", "NAK")

(* The end of a transfer: nothing to send, ready for the next packet.      *)
ep0_wait_out(state) ==
  /\ ep0_state' = state
  /\ ep0_tx' = NoPacket
  /\ ep0_set_status(stat_tx, stat_rx, "NAK", "VALID")

-----------------------------------------------------------------------------
(* Endpoint addresses: 0x81 is the notification endpoint, 0x02 and 0x83    *)
(* are the data endpoints.                                                 *)

endpoint_address_valid(address) == address \in {129, 2, 131}

endpoint_is_stalled(address) ==
  IF address >= 128 THEN stat_tx[address - 128] = "STALL"
                    ELSE stat_rx[address] = "STALL"

OutStatus(configured) == IF configured THEN "VALID" ELSE "NAK"

endpoint_set_halt(address, halt) ==
  LET tx == IF address < 128 THEN stat_tx
            ELSE [stat_tx EXCEPT ![address - 128] = IF halt THEN "STALL" ELSE "NAK"]
      rx == IF address >= 128 THEN stat_rx
            ELSE [stat_rx EXCEPT ![address] = IF halt THEN "STALL"
                                              ELSE OutStatus(usb_configured)]
  IN ep0_start_status_in(tx, rx)

non_control_endpoints_set_configured(configured) ==
  /\ cdc_in_busy' = FALSE
  /\ ep0_start_status_in(
       [stat_tx EXCEPT ![USB_CDC_NOTIFICATION_EP] = "NAK", ![USB_CDC_IN_EP] = "NAK"],
       [stat_rx EXCEPT ![USB_CDC_OUT_EP] = OutStatus(configured)])

-----------------------------------------------------------------------------
(* Which requests are handled: the conditions of the request handlers.     *)

Is(s, dir, type, recipient, request) ==
  s.dir = dir /\ s.type = type /\ s.recipient = recipient /\ s.request = request

EndpointNamed(s) ==
  usb_configured /\ s.index <= 255 /\ endpoint_address_valid(s.index % 256)

IsGetStatus(s) ==
  /\ s.type = "STANDARD" /\ s.request = "GET_STATUS" /\ s.dir = "IN"
  /\ s.length = 2 /\ s.value = 0
  /\ \/ s.recipient = "DEVICE" /\ s.index = 0
     \/ s.recipient = "INTERFACE" /\ usb_configured /\ s.index < 2
     \/ s.recipient = "ENDPOINT" /\ EndpointNamed(s)

IsGetDescriptor(s) ==
  /\ Is(s, "IN", "STANDARD", "DEVICE", "GET_DESCRIPTOR")
  /\ find_descriptor(s.value) # {}

IsSetAddress(s) ==
  /\ Is(s, "OUT", "STANDARD", "DEVICE", "SET_ADDRESS")
  /\ s.index = 0 /\ s.length = 0 /\ s.value <= 127

IsGetConfiguration(s) ==
  /\ Is(s, "IN", "STANDARD", "DEVICE", "GET_CONFIGURATION")
  /\ s.value = 0 /\ s.index = 0 /\ s.length = 1

(* Any configuration the host names.                                       *)
IsSetConfigurationAny(s) ==
  /\ Is(s, "OUT", "STANDARD", "DEVICE", "SET_CONFIGURATION")
  /\ s.index = 0 /\ s.length = 0

IsSetConfiguration(s) ==
  /\ Is(s, "OUT", "STANDARD", "DEVICE", "SET_CONFIGURATION")
  /\ s.index = 0 /\ s.length = 0 /\ s.value <= 1

IsGetInterface(s) ==
  /\ Is(s, "IN", "STANDARD", "INTERFACE", "GET_INTERFACE")
  /\ usb_configured /\ s.value = 0 /\ s.index < 2 /\ s.length = 1

IsSetInterface(s) ==
  /\ Is(s, "OUT", "STANDARD", "INTERFACE", "SET_INTERFACE")
  /\ usb_configured /\ s.value = 0 /\ s.index < 2 /\ s.length = 0

IsEndpointHalt(s) ==
  /\ \/ Is(s, "OUT", "STANDARD", "ENDPOINT", "CLEAR_FEATURE")
     \/ Is(s, "OUT", "STANDARD", "ENDPOINT", "SET_FEATURE")
  /\ s.value = 0 /\ s.length = 0 /\ EndpointNamed(s)

IsCdc(s, dir, request, length) ==
  /\ Is(s, dir, "CLASS", "INTERFACE", request)
  /\ usb_configured /\ s.index = 0 /\ s.length = length

IsSetLineCoding(s) == IsCdc(s, "OUT", "SET_LINE_CODING", 7)
IsGetLineCoding(s) == IsCdc(s, "IN", "GET_LINE_CODING", 7)
IsSetControlLineState(s) == IsCdc(s, "OUT", "SET_CONTROL_LINE_STATE", 0)
IsSendBreak(s) == IsCdc(s, "OUT", "SEND_BREAK", 0)

Handled(s) ==
  \/ IsGetStatus(s) \/ IsGetDescriptor(s) \/ IsGetConfiguration(s)
  \/ IsGetInterface(s) \/ IsGetLineCoding(s)
  \/ IsSetAddress(s) \/ IsSetConfiguration(s) \/ IsSetInterface(s)
  \/ IsEndpointHalt(s) \/ IsSetLineCoding(s)
  \/ IsSetControlLineState(s) \/ IsSendBreak(s)

-----------------------------------------------------------------------------
(* What each handled request does.                                         *)

GetStatus(s) ==
  /\ IsGetStatus(s)
  /\ ep0_start_data_in(
       Buffer("status",
              IF \/ s.recipient = "DEVICE"
                 \/ s.recipient = "ENDPOINT" /\ endpoint_is_stalled(s.index)
              THEN 1 ELSE 0),
       2, s.length)
  /\ UNCHANGED configvars

GetDescriptor(s) ==
  /\ IsGetDescriptor(s)
  /\ \E d \in find_descriptor(s.value) :
       ep0_start_data_in(Buffer(d.name, 0), d.length, s.length)
  /\ UNCHANGED configvars

GetConfiguration(s) ==
  /\ IsGetConfiguration(s)
  /\ ep0_start_data_in(Buffer("configuration_value", configuration_value), 1, s.length)
  /\ UNCHANGED configvars

GetInterface(s) ==
  /\ IsGetInterface(s)
  /\ ep0_start_data_in(Buffer("interface", 0), 1, s.length)
  /\ UNCHANGED configvars

GetLineCoding(s) ==
  /\ IsGetLineCoding(s)
  /\ ep0_start_data_in(Buffer("line_coding", line_coding), 7, s.length)
  /\ UNCHANGED configvars

(* Configures the endpoints and forgets to store the value.                *)
SetConfigurationUnrecorded(s) ==
  /\ IsSetConfiguration(s)
  /\ usb_configured' = (s.value = 1)
  /\ usb_dtr_asserted' = FALSE
  /\ non_control_endpoints_set_configured(s.value = 1)
  /\ UNCHANGED configuration_value

SetConfiguration(s) ==
  /\ IsSetConfiguration(s)
  /\ configuration_value' = s.value
  /\ usb_configured' = (s.value = 1)
  /\ usb_dtr_asserted' = FALSE
  /\ non_control_endpoints_set_configured(s.value = 1)

SetControlLineState(s) ==
  /\ IsSetControlLineState(s)
  /\ usb_dtr_asserted' = (s.value % 2 = 1)
  /\ ep0_start_status_in(stat_tx, stat_rx)
  /\ UNCHANGED <<usb_configured, configuration_value, cdc_in_busy>>

EndpointHalt(s) ==
  /\ IsEndpointHalt(s)
  /\ endpoint_set_halt(s.index, s.request = "SET_FEATURE")
  /\ UNCHANGED configvars

(* Acknowledged and otherwise ignored.                                     *)
SetInterfaceOrSendBreak(s) ==
  /\ IsSetInterface(s) \/ IsSendBreak(s)
  /\ ep0_start_status_in(stat_tx, stat_rx)
  /\ UNCHANGED configvars

SetAddress(s) ==
  /\ IsSetAddress(s)
  /\ pending_address' = s.value
  /\ pending_address_valid' = TRUE
  /\ ep0_start_status_in(stat_tx, stat_rx)
  /\ ep0_out_action' = "NONE"
  /\ UNCHANGED <<configvars, ep0_out_expected>>

SetLineCoding(s) ==
  /\ IsSetLineCoding(s)
  /\ pending_address_valid' = FALSE
  /\ ep0_start_data_out(7, "SET_LINE_CODING")
  /\ UNCHANGED <<configvars, pending_address>>

StallRequest(s) ==
  /\ ~ Handled(s)
  /\ ep0_stall
  /\ UNCHANGED configvars

(* Leaves the pending address to an unrelated request.                     *)
handle_ep0_setup_keep_address(s) ==
  \/ SetAddress(s)
  \/ SetLineCoding(s)
  \/ /\ \/ GetStatus(s) \/ GetDescriptor(s) \/ GetConfiguration(s)
        \/ GetInterface(s) \/ GetLineCoding(s)
        \/ SetConfiguration(s) \/ SetControlLineState(s)
        \/ EndpointHalt(s) \/ SetInterfaceOrSendBreak(s)
        \/ StallRequest(s)
     /\ ep0_out_action' = "NONE"
     /\ UNCHANGED <<addressvars, ep0_out_expected>>

(* A request begins by forgetting the previous one.                        *)
handle_ep0_setup(s) ==
  \/ SetAddress(s)
  \/ SetLineCoding(s)
  \/ /\ \/ GetStatus(s) \/ GetDescriptor(s) \/ GetConfiguration(s)
        \/ GetInterface(s) \/ GetLineCoding(s)
        \/ SetConfiguration(s) \/ SetControlLineState(s)
        \/ EndpointHalt(s) \/ SetInterfaceOrSendBreak(s)
        \/ StallRequest(s)
     /\ pending_address_valid' = FALSE
     /\ ep0_out_action' = "NONE"
     /\ UNCHANGED <<pending_address, ep0_out_expected>>

-----------------------------------------------------------------------------
(* The interrupt handler.  EP_ID reports the lowest endpoint with a flag;  *)
(* its reception is served before its transmission.                        *)

ServedEndpoint == CHOOSE e \in ctr_tx \cup ctr_rx : \A f \in ctr_tx \cup ctr_rx : e <= f

ClearRx(e) ==
  /\ isr = "ctr"
  /\ TransferPending /\ ServedEndpoint = e /\ e \in ctr_rx
  /\ ctr_rx' = ctr_rx \ {e}
  /\ UNCHANGED <<ctr_tx, istr, bus, usb_suspended, isr>>

ClearTx(e) ==
  /\ isr = "ctr"
  /\ TransferPending /\ ServedEndpoint = e /\ e \notin ctr_rx
  /\ ctr_tx' = ctr_tx \ {e}
  /\ UNCHANGED <<ctr_rx, ep0_rx, istr, bus, usb_suspended, isr>>

ServeSetup ==
  /\ ep0_rx.pid = "SETUP"
  /\ ClearRx(USB_EP0)
  /\ handle_ep0_setup(ep0_rx.req)
  /\ ep0_rx' = NoPacket
  /\ UNCHANGED <<daddr, line_coding>>

(* Takes the expected count for a limit not to be reached.                 *)
DataOutCompleteBelow ==
  ep0_state = "DATA_OUT" /\ ep0_rx.count < ep0_out_expected

DataOutComplete ==
  ep0_state = "DATA_OUT" /\ ep0_rx.count = ep0_out_expected

StatusOutComplete ==
  ep0_state = "STATUS_OUT" /\ ep0_rx.count = 0

(* Clears the action before it looks at it.                                *)
handle_ep0_out_forgetful ==
  /\ ep0_rx.pid = "OUT"
  /\ ClearRx(USB_EP0)
  /\ \/ /\ DataOutComplete
        /\ ep0_out_action' = "NONE"
        /\ line_coding' = IF ep0_out_action' = "SET_LINE_CODING"
                          THEN ep0_rx.coding ELSE line_coding
        /\ ep0_start_status_in(stat_tx, stat_rx)
     \/ /\ ~ DataOutComplete /\ StatusOutComplete
        /\ ep0_wait_out("IDLE")
        /\ UNCHANGED <<datavars, line_coding, ep0_out_action>>
     \/ /\ ~ DataOutComplete /\ ~ StatusOutComplete
        /\ ep0_stall
        /\ UNCHANGED <<line_coding, ep0_out_action>>
  /\ ep0_rx' = NoPacket
  /\ UNCHANGED <<daddr, configvars, ep0_out_expected, addressvars>>

handle_ep0_out ==
  /\ ep0_rx.pid = "OUT"
  /\ ClearRx(USB_EP0)
  /\ \/ /\ DataOutComplete
        /\ line_coding' = IF ep0_out_action = "SET_LINE_CODING"
                          THEN ep0_rx.coding ELSE line_coding
        /\ ep0_out_action' = "NONE"
        /\ ep0_start_status_in(stat_tx, stat_rx)
     \/ /\ ~ DataOutComplete /\ StatusOutComplete
        /\ ep0_wait_out("IDLE")
        /\ UNCHANGED <<datavars, line_coding, ep0_out_action>>
     \/ /\ ~ DataOutComplete /\ ~ StatusOutComplete
        /\ ep0_stall
        /\ UNCHANGED <<line_coding, ep0_out_action>>
  /\ ep0_rx' = NoPacket
  /\ UNCHANGED <<daddr, configvars, ep0_out_expected, addressvars>>

(* Sends the first bytes of the buffer again.                              *)
ep0_send_first_data_packet ==
  LET length == minimum_u16(ep0_tx_remaining, MaxPacket)
  IN /\ ep0_tx' = InPacket(ep0_tx_data.source, 0, length)
     /\ ep0_tx_data' = [ep0_tx_data EXCEPT !.offset = @ + length]
     /\ ep0_tx_remaining' = ep0_tx_remaining - length
     /\ ep0_set_status(stat_tx, stat_rx, "VALID", stat_rx[USB_EP0])

ep0_send_next_data_packet ==
  LET length == minimum_u16(ep0_tx_remaining, MaxPacket)
  IN /\ ep0_tx' = InPacket(ep0_tx_data.source, ep0_tx_data.offset, length)
     /\ ep0_tx_data' = [ep0_tx_data EXCEPT !.offset = @ + length]
     /\ ep0_tx_remaining' = ep0_tx_remaining - length
     /\ ep0_set_status(stat_tx, stat_rx, "VALID", stat_rx[USB_EP0])

handle_ep0_in_data ==
  /\ ep0_state = "DATA_IN"
  /\ \/ /\ ep0_tx_remaining > 0
        /\ ep0_send_next_data_packet
        /\ UNCHANGED <<ep0_state, ep0_tx_needs_zlp>>
     \/ /\ ep0_tx_remaining = 0 /\ ep0_tx_needs_zlp
        /\ ep0_tx_needs_zlp' = FALSE
        /\ ep0_tx' = ZeroLengthPacket
        /\ ep0_set_status(stat_tx, stat_rx, "VALID", stat_rx[USB_EP0])
        /\ UNCHANGED <<ep0_state, ep0_tx_data, ep0_tx_remaining>>
     \/ /\ ep0_tx_remaining = 0 /\ ~ ep0_tx_needs_zlp
        /\ ep0_wait_out("STATUS_OUT")
        /\ UNCHANGED datavars
  /\ UNCHANGED <<daddr, addressvars>>

handle_ep0_in_status ==
  /\ ep0_state = "STATUS_IN"
  /\ daddr' = IF pending_address_valid
              THEN [ef |-> TRUE, addr |-> pending_address] ELSE daddr
  /\ pending_address_valid' = FALSE
  /\ ep0_wait_out("IDLE")
  /\ UNCHANGED <<datavars, pending_address>>

handle_ep0_in ==
  /\ ClearTx(USB_EP0)
  /\ \/ handle_ep0_in_data
     \/ handle_ep0_in_status
     \/ /\ ep0_state \notin {"DATA_IN", "STATUS_IN"}
        /\ UNCHANGED <<ep0_state, ep0_tx, stat_tx, stat_rx, datavars, daddr, addressvars>>
  /\ UNCHANGED <<configvars, outvars, line_coding>>

(* Accepts the next packet without looking at the configuration.           *)
ServeBulkOutAlways ==
  /\ ClearRx(USB_CDC_OUT_EP)
  /\ stat_rx' = [stat_rx EXCEPT ![USB_CDC_OUT_EP] = "VALID"]
  /\ UNCHANGED <<stat_tx, ep0_rx, ep0_tx, daddr, configvars, ep0_state, outvars,
                 datavars, line_coding, addressvars>>

ServeBulkOut ==
  /\ ClearRx(USB_CDC_OUT_EP)
  /\ stat_rx' = [stat_rx EXCEPT ![USB_CDC_OUT_EP] = OutStatus(usb_configured)]
  /\ UNCHANGED <<stat_tx, ep0_rx, ep0_tx, daddr, configvars, ep0_state, outvars,
                 datavars, line_coding, addressvars>>

(* Does not release the buffer.                                            *)
ServeBulkInBusy ==
  /\ ClearTx(USB_CDC_IN_EP)
  /\ stat_tx' = [stat_tx EXCEPT ![USB_CDC_IN_EP] = "NAK"]
  /\ UNCHANGED <<stat_rx, ep0_tx, daddr, configvars, ep0_state, outvars, datavars,
                 line_coding, addressvars>>

ServeBulkIn ==
  /\ ClearTx(USB_CDC_IN_EP)
  /\ cdc_in_busy' = FALSE
  /\ stat_tx' = [stat_tx EXCEPT ![USB_CDC_IN_EP] = "NAK"]
  /\ UNCHANGED <<stat_rx, ep0_tx, daddr, usb_configured, configuration_value,
                 usb_dtr_asserted, ep0_state, outvars, datavars, line_coding,
                 addressvars>>

handle_correct_transfer ==
  ServeSetup \/ handle_ep0_out \/ handle_ep0_in \/ ServeBulkOut \/ ServeBulkIn

-----------------------------------------------------------------------------
(* The flags of USB_ISTR, in the order in which the handler looks at them. *)

usb_bus_reset ==
  /\ usb_configured' = FALSE /\ usb_dtr_asserted' = FALSE
  /\ usb_suspended' = FALSE /\ cdc_in_busy' = FALSE
  /\ configuration_value' = 0
  /\ pending_address_valid' = FALSE
  /\ ep0_state' = "IDLE" /\ ep0_out_action' = "NONE"
  /\ daddr' = [ef |-> TRUE, addr |-> 0]
  /\ stat_tx' = [e \in Endpoint |-> IF e = USB_CDC_OUT_EP THEN "DISABLED" ELSE "NAK"]
  /\ stat_rx' = [e \in Endpoint |-> CASE e = USB_EP0 -> "VALID"
                                      [] e = USB_CDC_OUT_EP -> "NAK"
                                      [] OTHER -> "DISABLED"]
  /\ ep0_tx' = NoPacket
  /\ ep0_rx' = IF ep0_rx.pid = "OUT" THEN OutPacket(0, ep0_rx.coding) ELSE ep0_rx
  /\ UNCHANGED <<ctr_tx, ctr_rx, bus, pending_address, ep0_out_expected,
                 datavars, line_coding>>

usb_cdc_init ==
  /\ isr = "off"
  /\ isr' = "idle"
  /\ istr' = {}
  /\ usb_bus_reset

EnterHandler ==
  /\ isr = "idle" /\ InterruptPending
  /\ isr' = "irq"
  /\ UNCHANGED <<hwvars, swvars>>

HandleReset ==
  /\ isr = "irq" /\ "RESET" \in istr
  /\ istr' = istr \ {"RESET"}
  /\ usb_bus_reset
  /\ UNCHANGED isr

EnterTransfers ==
  /\ isr = "irq" /\ "RESET" \notin istr /\ TransferPending
  /\ isr' = "ctr"
  /\ usb_suspended' = FALSE
  /\ UNCHANGED <<hwvars, configvars, ep0_state, outvars, datavars, line_coding,
                 addressvars>>

(* Returns after one transfer, leaving the others to the next interrupt.   *)
LeaveTransfersEarly ==
  /\ isr = "ctr"
  /\ isr' = "idle"
  /\ UNCHANGED <<hwvars, swvars>>

LeaveTransfers ==
  /\ isr = "ctr" /\ ~ TransferPending
  /\ isr' = "irq"
  /\ UNCHANGED <<hwvars, swvars>>

(* The flags after RESET and CTR, the first one first.                     *)
Handling(flag, earlier) ==
  /\ isr = "irq" /\ ~ TransferPending
  /\ flag \in istr /\ istr \cap earlier = {}
  /\ istr' = istr \ {flag}
  /\ UNCHANGED <<stat_tx, stat_rx, ctr_tx, ctr_rx, ep0_rx, ep0_tx, daddr, bus,
                 configvars, ep0_state, outvars, datavars, line_coding,
                 addressvars, isr>>

HandleError ==
  /\ \/ Handling("PMAOVR", {"RESET"})
     \/ Handling("ERR", {"RESET", "PMAOVR"})
  /\ UNCHANGED usb_suspended

(* Leaves the end of a suspend to the next transfer.                       *)
HandleWakeupLazily ==
  /\ Handling("WKUP", {"RESET", "PMAOVR", "ERR"})
  /\ UNCHANGED usb_suspended

HandleWakeup ==
  /\ Handling("WKUP", {"RESET", "PMAOVR", "ERR"})
  /\ usb_suspended' = FALSE

HandleSuspend ==
  /\ Handling("SUSP", {"RESET", "PMAOVR", "ERR", "WKUP"})
  /\ usb_suspended' = TRUE

LeaveHandler ==
  /\ isr = "irq" /\ ~ InterruptPending
  /\ isr' = "idle"
  /\ UNCHANGED <<hwvars, swvars>>

USB_LP_CAN1_RX0_IRQHandler ==
  \/ EnterHandler \/ HandleReset
  \/ EnterTransfers \/ handle_correct_transfer \/ LeaveTransfers
  \/ HandleError \/ HandleWakeup \/ HandleSuspend
  \/ LeaveHandler

-----------------------------------------------------------------------------
(* The main loop.  It runs while the handler does not, and usb_cdc_try_write *)
(* runs with interrupts masked.                                              *)

usb_cdc_connected == usb_configured /\ usb_dtr_asserted /\ ~ usb_suspended

usb_cdc_try_write ==
  /\ isr = "idle"
  /\ usb_cdc_connected /\ ~ cdc_in_busy
  /\ cdc_in_busy' = TRUE
  /\ stat_tx' = [stat_tx EXCEPT ![USB_CDC_IN_EP] = "VALID"]
  /\ UNCHANGED <<stat_rx, ctr_tx, ctr_rx, ep0_rx, ep0_tx, istr, daddr, bus,
                 usb_configured, configuration_value, usb_dtr_asserted,
                 usb_suspended, ep0_state, outvars, datavars, line_coding,
                 addressvars, isr>>

-----------------------------------------------------------------------------

HwNext ==
  \/ \E r \in Setups : HwSetup(r)
  \/ \E n \in OutCounts, c \in LineCodings : HwOut0(n, c)
  \/ HwOutBulk
  \/ HwIn(USB_EP0)
  \/ HwIn(USB_CDC_IN_EP)
  \/ HwReset \/ HwSuspend \/ HwResume
  \/ \E flag \in {"ERR", "PMAOVR"} : HwError(flag)

BusEvent == isr # "off" /\ HwNext /\ UNCHANGED <<swvars, isr>>

Next ==
  \/ usb_cdc_init
  \/ USB_LP_CAN1_RX0_IRQHandler
  \/ usb_cdc_try_write
  \/ BusEvent

Spec == Init /\ [][Next]_vars

-----------------------------------------------------------------------------
(* Properties.                                                             *)

(* Every register field and every driver variable keeps to its type; in     *)
(* particular configuration_value, an arbitrary byte to the compiler, is    *)
(* only ever 0 or 1, and an address fits the seven bits of USB_DADDR.       *)
TypeOK ==
  /\ HwTypeOK
  /\ usb_configured \in BOOLEAN /\ usb_dtr_asserted \in BOOLEAN
  /\ usb_suspended \in BOOLEAN /\ cdc_in_busy \in BOOLEAN
  /\ configuration_value \in {0, 1}
  /\ ep0_state \in Ep0State
  /\ ep0_out_action \in {"NONE", "SET_LINE_CODING"}
  /\ ep0_out_expected \in {0, 7}
  /\ ep0_tx_data \in [source : Buffers, offset : Nat]
  /\ ep0_tx_remaining \in Nat /\ ep0_tx_needs_zlp \in BOOLEAN
  /\ line_coding \in LineCodings
  /\ pending_address_valid \in BOOLEAN /\ pending_address \in Address
  /\ isr \in {"off", "idle", "irq", "ctr"}

(* Whatever the host sends and in whatever order, endpoint 0 is never left  *)
(* in a state from which it does not answer: when the driver has nothing of *)
(* endpoint 0 to serve, the packet its state promises is armed, and the     *)
(* next packet of the host is accepted or refused by a STALL, never NAKed   *)
(* for ever.                                                                *)
Ep0Answers ==
  isr # "off" /\ "RESET" \notin istr /\ USB_EP0 \notin ctr_rx =>
    /\ stat_rx[USB_EP0] = IF ep0_state = "STALLED" THEN "STALL" ELSE "VALID"
    /\ ep0_state = "STALLED" => stat_tx[USB_EP0] = "STALL"
    /\ ep0_state \in {"DATA_IN", "STATUS_IN"} =>
         stat_tx[USB_EP0] = "VALID" \/ USB_EP0 \in ctr_tx
    /\ ep0_state \in {"IDLE", "DATA_OUT", "STATUS_OUT"} => stat_tx[USB_EP0] = "NAK"

(* Requests leave nothing behind: an address waits only for the status      *)
(* stage of its SET_ADDRESS, and received bytes are awaited only by a       *)
(* SET_LINE_CODING of a configured device.                                  *)
RequestsLeaveNothing ==
  /\ pending_address_valid => ep0_state \in {"STATUS_IN", "STALLED"}
  /\ ep0_out_action # "NONE" =>
       ep0_state \in {"DATA_OUT", "STALLED"} /\ ep0_out_expected = 7
  /\ ep0_state = "DATA_OUT" => ep0_out_action # "NONE" /\ usb_configured

BufferSize(name) ==
  IF name \in {d.name : d \in Descriptors}
  THEN (CHOOSE d \in Descriptors : d.name = name).length
  ELSE CASE name = "status" -> 2
         [] name \in {"configuration_value", "interface"} -> 1
         [] name = "line_coding" -> 7
         [] OTHER -> 0

(* A control read sends no byte from beyond the end of the buffer it reads, *)
(* in whatever order the packets of old and new requests complete, and no   *)
(* packet exceeds the packet size.                                          *)
ReadsInBounds ==
  /\ ep0_state = "DATA_IN" =>
       ep0_tx_data.offset + ep0_tx_remaining <= BufferSize(ep0_tx_data.source.name)
  /\ ep0_tx.pid = "IN" =>
       /\ ep0_tx.length <= MaxPacket
       /\ ep0_tx.offset + ep0_tx.length <= BufferSize(ep0_tx.source.name)

(* The data endpoints and the port follow the configuration, through resets *)
(* and reconfigurations that meet transfers not yet served: nothing is      *)
(* offered or accepted unless the device is configured, and a configured    *)
(* device never stops accepting received bytes (firmware/README.md:74).     *)
DataEndpointsFollowConfiguration ==
  /\ usb_configured <=> configuration_value = 1
  /\ usb_dtr_asserted => usb_configured
  /\ stat_tx[USB_CDC_IN_EP] = "VALID" => usb_configured /\ cdc_in_busy
  /\ stat_rx[USB_CDC_OUT_EP] = "VALID" => usb_configured
  /\ isr # "off" /\ "RESET" \notin istr /\ usb_configured /\ USB_CDC_OUT_EP \notin ctr_rx =>
       stat_rx[USB_CDC_OUT_EP] \in {"VALID", "STALL"}

(* Once the handler has caught up, usb_cdc_connected tells the truth about  *)
(* the bus: a port reported as open is on an active bus, and an open port   *)
(* on an active bus is reported, however resets, suspends and resumes were  *)
(* interleaved.                                                             *)
ConnectedTracksBus ==
  isr = "idle" /\ ~ InterruptPending =>
    usb_cdc_connected = (usb_configured /\ usb_dtr_asserted /\ bus = "active")

(* usb_cdc_try_write writes packet memory only when the endpoint does not   *)
(* own it and owes no completion for an earlier packet; the completion of a *)
(* dropped packet never releases the next one.                              *)
WritesAreExclusive ==
  [][usb_cdc_try_write =>
       stat_tx[USB_CDC_IN_EP] # "VALID" /\ USB_CDC_IN_EP \notin ctr_tx]_vars

(* The invariant behind it: a completion seen by the main loop belongs to   *)
(* the packet in flight.                                                    *)
CompletionIsExpected ==
  isr = "idle" /\ USB_CDC_IN_EP \in ctr_tx => cdc_in_busy

-----------------------------------------------------------------------------
(* Fairness.  The interrupt is taken and a handler runs.  A bus transaction *)
(* lasts longer than its handling, so the handler catches up again and      *)
(* again.  The main loop comes round to usb_cdc_try_write, and the host of  *)
(* an open port polls the IN endpoint.                                      *)

HandlerKeepsUp == []<>(isr \in {"off", "idle"})

Fairness ==
  /\ WF_vars(USB_LP_CAN1_RX0_IRQHandler)
  /\ SF_vars(usb_cdc_try_write)
  /\ SF_vars(HwIn(USB_CDC_IN_EP) /\ isr # "off" /\ UNCHANGED <<swvars, isr>>)
  /\ HandlerKeepsUp

FairSpec == Init /\ [][Next]_vars /\ WF_vars(usb_cdc_init) /\ Fairness

(* While the serial port is open, the firmware keeps sending lines          *)
(* (firmware/README.md:65): a port that stays connected accepts a packet    *)
(* again and again.                                                         *)
HeartbeatKeepsFlowing ==
  <>[]usb_cdc_connected => []<><<usb_cdc_try_write>>_vars

(* The buffer is never busy for nothing: a packet handed over is on offer   *)
(* to the host, or its completion is on the way, or a bus reset is about to *)
(* release it.  So it is as long as the host does not halt the endpoint.    *)
BusyHasPacket ==
  cdc_in_busy =>
    \/ stat_tx[USB_CDC_IN_EP] = "VALID"
    \/ USB_CDC_IN_EP \in ctr_tx
    \/ "RESET" \in istr

=============================================================================
