--------------------------- MODULE UsbCdc_proofs ----------------------------
(***************************************************************************)
(* Theorems about UsbCdc and UsbLink, for every set of requests, line      *)
(* codings and packet counts and every packet size.  The first part is     *)
(* about the driver (Spec) and uses nothing of UsbLink; the second is      *)
(* about the driver with a host at the other end (LinkSpec): what the host *)
(* believes of a control transfer is what the driver has done.             *)
(***************************************************************************)
EXTENDS UsbLink, TLAPS

-----------------------------------------------------------------------------
(* Type correctness.                                                       *)

Ep0TypeOK ==
  /\ stat_tx \in [Endpoint -> Status]
  /\ stat_rx \in [Endpoint -> Status]
  /\ ep0_state \in Ep0State
  /\ ep0_tx \in {NoPacket} \cup InPackets
  /\ ep0_tx_data \in [source : Buffers, offset : Nat]
  /\ ep0_tx_remaining \in Nat /\ ep0_tx_needs_zlp \in BOOLEAN

LEMMA Minimum ==
  ASSUME NEW a \in Nat, NEW b \in Nat
  PROVE  /\ minimum_u16(a, b) \in Nat
         /\ minimum_u16(a, b) <= a /\ minimum_u16(a, b) <= b
BY DEF minimum_u16

LEMMA StringLength ==
  ASSUME NEW n \in Nat
  PROVE  make_string_descriptor(n) \in Nat
<1>1. (MaxPacket - 2) \div 2 \in Int
  BY MaxPacketAssumption
<1>2. (MaxPacket - 2) \div 2 >= -1
  BY MaxPacketAssumption
<1>. QED BY <1>1, <1>2 DEF make_string_descriptor, minimum_u16

LEMMA DescriptorLength ==
  ASSUME NEW d \in Descriptors
  PROVE  d.length \in Nat /\ d.name \in BufferName
<1>1. make_string_descriptor(ManufacturerLength) \in Nat
  BY StringLength, StringsAssumption
<1>2. make_string_descriptor(ProductLength) \in Nat
  BY StringLength, StringsAssumption
<1>. QED BY <1>1, <1>2 DEF Descriptors, BufferName

LEMMA ZeroLengthPacketType == ZeroLengthPacket \in InPackets
BY DEF ZeroLengthPacket, InPacket, InPackets, Buffer, Buffers, BufferName

LEMMA DataInType ==
  ASSUME TypeOK,
         NEW source \in Buffers, NEW available \in Nat, NEW requested \in Nat,
         ep0_start_data_in(source, available, requested)
  PROVE  Ep0TypeOK'
<1>. DEFINE length == minimum_u16(available, requested)
            first == minimum_u16(length, MaxPacket)
<1>1. length \in Nat
  BY Minimum
<1>2. first \in Nat /\ first <= length
  BY <1>1, Minimum, MaxPacketAssumption
<1>3. length - first \in Nat
  BY <1>1, <1>2
<1>4. InPacket(source, 0, first) \in InPackets
  BY <1>2 DEF InPacket, InPackets
<1>. HIDE DEF length, first
<1>5. /\ ep0_state' = "DATA_IN"
      /\ ep0_tx_data' = [source |-> source, offset |-> first]
      /\ ep0_tx_remaining' = length - first
      /\ ep0_tx_needs_zlp' \in BOOLEAN
      /\ ep0_tx' = IF length = 0 THEN ZeroLengthPacket ELSE InPacket(source, 0, first)
      /\ ep0_set_status(stat_tx, stat_rx, "VALID", "VALID")
  BY DEF ep0_start_data_in, length, first
<1>. QED
  BY <1>2, <1>3, <1>4, <1>5, ZeroLengthPacketType
  DEF TypeOK, HwTypeOK, Ep0TypeOK, Ep0State, ep0_set_status, Endpoint, Status, USB_EP0

LEMMA StatusInType ==
  ASSUME TypeOK,
         NEW tx \in [Endpoint -> Status], NEW rx \in [Endpoint -> Status],
         ep0_start_status_in(tx, rx)
  PROVE  Ep0TypeOK'
BY ZeroLengthPacketType
   DEF TypeOK, HwTypeOK, Ep0TypeOK, Ep0State, ep0_start_status_in, ep0_set_status,
       datavars, Endpoint, Status, USB_EP0

LEMMA StallType ==
  ASSUME TypeOK, ep0_stall
  PROVE  Ep0TypeOK'
BY DEF TypeOK, HwTypeOK, Ep0TypeOK, Ep0State, ep0_stall, ep0_set_status,
       datavars, Endpoint, Status, USB_EP0

LEMMA SetupFields ==
  ASSUME NEW s \in Setups
  PROVE  s.value \in Nat /\ s.index \in Nat /\ s.length \in Nat
<1>1. s \in SetupType
  BY SetupsAssumption
<1>2. Word \subseteq Nat
  BY DEF Word
<1>. QED BY <1>1, <1>2 DEF SetupType

LEMMA DescriptorSize ==
  ASSUME NEW d \in Descriptors
  PROVE  BufferSize(d.name) = d.length
<1>1. \A e \in Descriptors : e.name = d.name => e = d
  BY DEF Descriptors
<1>2. (CHOOSE e \in Descriptors : e.name = d.name) = d
  BY <1>1
<1>3. d.name \in {e.name : e \in Descriptors}
  OBVIOUS
<1>. DEFINE Named == {e.name : e \in Descriptors}
<1>4. d.name \in Named
  BY <1>3
<1>. HIDE DEF Named
<1>5. \A n \in Named : BufferSize(n) = (CHOOSE e \in Descriptors : e.name = n).length
  BY DEF BufferSize, Named
<1>. QED BY <1>2, <1>4, <1>5

LEMMA ReplySize ==
  /\ BufferSize("status") = 2
  /\ BufferSize("configuration_value") = 1
  /\ BufferSize("interface") = 1
  /\ BufferSize("line_coding") = 7
  /\ BufferSize("NULL") = 0
<1>1. \A e \in Descriptors : e.name \notin {"status", "configuration_value",
                                           "interface", "line_coding", "NULL"}
  BY DEF Descriptors
<1>. DEFINE Named == {e.name : e \in Descriptors}
<1>2. {"status", "configuration_value", "interface", "line_coding", "NULL"} \cap Named = {}
  BY <1>1
<1>. HIDE DEF Named
<1>3. \A n : BufferSize(n) =
        IF n \in Named THEN (CHOOSE d \in Descriptors : d.name = n).length
        ELSE CASE n = "status" -> 2
               [] n \in {"configuration_value", "interface"} -> 1
               [] n = "line_coding" -> 7
               [] OTHER -> 0
  BY DEF BufferSize, Named
<1>4. BufferSize("status") = 2
  BY <1>2, <1>3
<1>5. BufferSize("configuration_value") = 1 /\ BufferSize("interface") = 1
  BY <1>2, <1>3
<1>6. BufferSize("line_coding") = 7 /\ BufferSize("NULL") = 0
  BY <1>2, <1>3
<1>. QED BY <1>4, <1>5, <1>6

(* What endpoint 0 does after a request: one of four things, and a read is *)
(* given the length of the buffer it reads.                                *)
DataIn ==
  \E source \in Buffers, requested \in Nat :
    /\ BufferSize(source.name) \in Nat
    /\ ep0_start_data_in(source, BufferSize(source.name), requested)

StatusIn ==
  \E tx \in [Endpoint -> Status], rx \in [Endpoint -> Status] :
    ep0_start_status_in(tx, rx)

LEMMA SetupResponse ==
  ASSUME TypeOK, NEW s \in Setups, handle_ep0_setup(s)
  PROVE  \/ DataIn \/ StatusIn
         \/ ep0_start_data_out(7, "SET_LINE_CODING")
         \/ ep0_stall
<1>a. s.length \in Nat
  BY SetupFields
<1>b. /\ stat_tx \in [Endpoint -> Status] /\ stat_rx \in [Endpoint -> Status]
      /\ line_coding \in LineCodings /\ configuration_value \in {0, 1}
  BY DEF TypeOK, HwTypeOK
<1>c. ASSUME NEW n \in BufferName, NEW v \in {0, 1} \cup LineCodings,
             BufferSize(n) \in Nat,
             ep0_start_data_in(Buffer(n, v), BufferSize(n), s.length)
      PROVE  DataIn
  <2>1. Buffer(n, v) \in Buffers /\ Buffer(n, v).name = n
    BY DEF Buffer, Buffers
  <2>. QED BY <1>a, <1>c, <2>1 DEF DataIn
<1>1. CASE SetAddress(s)
  BY <1>1, <1>b DEF SetAddress, StatusIn
<1>2. CASE SetLineCoding(s)
  BY <1>2 DEF SetLineCoding
<1>3. CASE GetStatus(s)
  <2>. DEFINE v == IF \/ s.recipient = "DEVICE"
                      \/ s.recipient = "ENDPOINT" /\ endpoint_is_stalled(s.index)
                   THEN 1 ELSE 0
  <2>1. ep0_start_data_in(Buffer("status", v), 2, s.length)
    BY <1>3 DEF GetStatus
  <2>2. v \in {0, 1} \cup LineCodings
    OBVIOUS
  <2>. HIDE DEF v
  <2>3. "status" \in BufferName /\ BufferSize("status") = 2
    BY ReplySize DEF BufferName
  <2>. QED BY <1>c, <2>1, <2>2, <2>3
<1>4. CASE GetDescriptor(s)
  <2>1. PICK d \in find_descriptor(s.value) :
               ep0_start_data_in(Buffer(d.name, 0), d.length, s.length)
    BY <1>4 DEF GetDescriptor
  <2>2. d \in Descriptors
    BY DEF find_descriptor
  <2>3. d.name \in BufferName /\ d.length \in Nat /\ BufferSize(d.name) = d.length
    BY <2>2, DescriptorLength, DescriptorSize
  <2>. QED BY <1>c, <2>1, <2>3
<1>5. CASE GetConfiguration(s)
  <2>1. ep0_start_data_in(Buffer("configuration_value", configuration_value), 1, s.length)
    BY <1>5 DEF GetConfiguration
  <2>2. "configuration_value" \in BufferName /\ BufferSize("configuration_value") = 1
    BY ReplySize DEF BufferName
  <2>. QED BY <1>b, <1>c, <2>1, <2>2
<1>6. CASE GetInterface(s)
  <2>1. ep0_start_data_in(Buffer("interface", 0), 1, s.length)
    BY <1>6 DEF GetInterface
  <2>2. "interface" \in BufferName /\ BufferSize("interface") = 1
    BY ReplySize DEF BufferName
  <2>. QED BY <1>c, <2>1, <2>2
<1>7. CASE GetLineCoding(s)
  <2>1. ep0_start_data_in(Buffer("line_coding", line_coding), 7, s.length)
    BY <1>7 DEF GetLineCoding
  <2>2. "line_coding" \in BufferName /\ BufferSize("line_coding") = 7
    BY ReplySize DEF BufferName
  <2>3. line_coding \in {0, 1} \cup LineCodings /\ BufferSize("line_coding") \in Nat
    BY <1>b, <2>2
  <2>4. ep0_start_data_in(Buffer("line_coding", line_coding), BufferSize("line_coding"), s.length)
    BY <2>1, <2>2
  <2>. QED BY <1>c, <2>2, <2>3, <2>4
<1>8. CASE SetConfiguration(s)
  <2>. DEFINE tx == [stat_tx EXCEPT ![USB_CDC_NOTIFICATION_EP] = "NAK", ![USB_CDC_IN_EP] = "NAK"]
              rx == [stat_rx EXCEPT ![USB_CDC_OUT_EP] = OutStatus(s.value = 1)]
  <2>1. tx \in [Endpoint -> Status] /\ rx \in [Endpoint -> Status]
    BY <1>b DEF OutStatus, Status
  <2>2. ep0_start_status_in(tx, rx)
    BY <1>8 DEF SetConfiguration, non_control_endpoints_set_configured
  <2>. HIDE DEF tx, rx
  <2>. QED BY <2>1, <2>2 DEF StatusIn
<1>9. CASE SetControlLineState(s)
  BY <1>9, <1>b DEF SetControlLineState, StatusIn
<1>10. CASE EndpointHalt(s)
  <2>. DEFINE tx == IF s.index < 128 THEN stat_tx
                    ELSE [stat_tx EXCEPT ![s.index - 128] =
                            IF s.request = "SET_FEATURE" THEN "STALL" ELSE "NAK"]
              rx == IF s.index >= 128 THEN stat_rx
                    ELSE [stat_rx EXCEPT ![s.index] =
                            IF s.request = "SET_FEATURE" THEN "STALL"
                            ELSE OutStatus(usb_configured)]
  <2>1. tx \in [Endpoint -> Status]
    BY <1>b DEF Status
  <2>2. rx \in [Endpoint -> Status]
    BY <1>b DEF Status, OutStatus
  <2>3. ep0_start_status_in(tx, rx)
    BY <1>10 DEF EndpointHalt, endpoint_set_halt
  <2>. HIDE DEF tx, rx
  <2>. QED BY <2>1, <2>2, <2>3 DEF StatusIn
<1>11. CASE SetInterfaceOrSendBreak(s)
  BY <1>11, <1>b DEF SetInterfaceOrSendBreak, StatusIn
<1>12. CASE StallRequest(s)
  BY <1>12 DEF StallRequest
<1>. QED
  BY <1>1, <1>2, <1>3, <1>4, <1>5, <1>6, <1>7, <1>8, <1>9, <1>10, <1>11, <1>12
  DEF handle_ep0_setup

(* A request leaves the driver and endpoint 0 typed.                       *)
LEMMA SetupType_Ep0 ==
  ASSUME TypeOK, NEW s \in Setups, handle_ep0_setup(s)
  PROVE  Ep0TypeOK'
<1>1. CASE DataIn
  BY <1>1, DataInType DEF DataIn
<1>2. CASE StatusIn
  BY <1>2, StatusInType DEF StatusIn
<1>3. CASE ep0_start_data_out(7, "SET_LINE_CODING")
  BY <1>3 DEF ep0_start_data_out, ep0_set_status, Ep0TypeOK, Ep0State, datavars,
              Endpoint, Status, USB_EP0, TypeOK, HwTypeOK
<1>. QED BY <1>1, <1>2, <1>3, SetupResponse, StallType

(* All requests but two leave the configuration and the port alone.        *)
LEMMA RequestKeepsConfig ==
  ASSUME NEW s,
         \/ GetStatus(s) \/ GetDescriptor(s) \/ GetConfiguration(s)
         \/ GetInterface(s) \/ GetLineCoding(s) \/ EndpointHalt(s)
         \/ SetInterfaceOrSendBreak(s) \/ StallRequest(s)
  PROVE  UNCHANGED configvars
BY DEF GetStatus, GetDescriptor, GetConfiguration, GetInterface, GetLineCoding,
       EndpointHalt, SetInterfaceOrSendBreak, StallRequest

LEMMA SetupType_Config ==
  ASSUME TypeOK, NEW s \in Setups, handle_ep0_setup(s)
  PROVE  /\ usb_configured' \in BOOLEAN /\ usb_dtr_asserted' \in BOOLEAN
         /\ cdc_in_busy' \in BOOLEAN
         /\ configuration_value' \in {0, 1}
         /\ ep0_out_action' \in {"NONE", "SET_LINE_CODING"}
         /\ ep0_out_expected' \in {0, 7}
         /\ pending_address_valid' \in BOOLEAN /\ pending_address' \in Address
<1>. USE DEF TypeOK, configvars
<1>a. s.value \in Nat
  BY SetupFields
<1>1. CASE SetAddress(s)
  BY <1>a, <1>1 DEF SetAddress, IsSetAddress, Address
<1>2. CASE SetLineCoding(s)
  BY <1>2 DEF SetLineCoding, ep0_start_data_out
<1>3. CASE /\ \/ SetConfiguration(s) \/ SetControlLineState(s)
              \/ UNCHANGED configvars
           /\ pending_address_valid' = FALSE
           /\ ep0_out_action' = "NONE"
           /\ UNCHANGED <<pending_address, ep0_out_expected>>
  <2>1. CASE SetConfiguration(s)
    <3>1. /\ configuration_value' = s.value /\ s.value <= 1
          /\ usb_configured' = (s.value = 1)
          /\ usb_dtr_asserted' = FALSE /\ cdc_in_busy' = FALSE
      BY <2>1 DEF SetConfiguration, IsSetConfiguration,
                  non_control_endpoints_set_configured
    <3>2. configuration_value' \in {0, 1}
      BY <1>a, <3>1
    <3>3. usb_configured' \in BOOLEAN
      BY <3>1
    <3>. QED BY <1>3, <3>1, <3>2, <3>3
  <2>2. CASE SetControlLineState(s)
    BY <1>3, <2>2 DEF SetControlLineState
  <2>3. CASE UNCHANGED configvars
    BY <1>3, <2>3
  <2>. QED BY <1>3, <2>1, <2>2, <2>3
<1>. QED
  BY <1>1, <1>2, <1>3, RequestKeepsConfig DEF handle_ep0_setup

(* The peripheral's own steps.                                             *)
LEMMA BusEventType ==
  ASSUME TypeOK, HwNext, UNCHANGED <<swvars, isr>>
  PROVE  TypeOK'
<1>1. HwTypeOK'
  <2>. USE DEF TypeOK, HwTypeOK, Endpoint, Status, USB_EP0, USB_CDC_OUT_EP, USB_CDC_IN_EP
  <2>1. CASE \E r \in Setups : HwSetup(r)
    BY <2>1 DEF HwSetup, SetupPacket, SetupPackets
  <2>2. CASE \E n \in OutCounts, c \in LineCodings : HwOut0(n, c)
    BY <2>2, OutCountsAssumption, MaxPacketAssumption
    DEF HwOut0, OutPacket, OutPackets
  <2>3. CASE HwOutBulk
    BY <2>3 DEF HwOutBulk
  <2>4. ASSUME NEW e \in Endpoint, HwIn(e) PROVE HwTypeOK'
    BY <2>4 DEF HwIn
  <2>5. CASE HwReset
    <3>1. ep0_rx' \in {NoPacket} \cup SetupPackets \cup OutPackets
      BY <2>5 DEF HwReset, OutPacket, OutPackets
    <3>2. daddr' \in [ef : BOOLEAN, addr : Address]
      BY <2>5 DEF HwReset, Address
    <3>. QED BY <2>5, <3>1, <3>2 DEF HwReset
  <2>6. CASE HwSuspend
    BY <2>6 DEF HwSuspend
  <2>7. CASE HwResume
    BY <2>7 DEF HwResume
  <2>8. CASE \E flag \in {"ERR", "PMAOVR"} : HwError(flag)
    BY <2>8 DEF HwError
  <2>. QED
    BY <2>1, <2>2, <2>3, <2>4, <2>5, <2>6, <2>7, <2>8 DEF HwNext
<1>. QED
  BY <1>1 DEF TypeOK, swvars, configvars, outvars, datavars, addressvars

LEMMA BusResetType ==
  ASSUME TypeOK, usb_bus_reset, istr' \subseteq istr, isr' \in {"idle", "irq"}
  PROVE  TypeOK'
<1>1. stat_tx' \in [Endpoint -> Status]
  BY DEF usb_bus_reset, Status
<1>2. stat_rx' \in [Endpoint -> Status]
  BY DEF usb_bus_reset, Status
<1>3. ep0_rx' \in {NoPacket} \cup SetupPackets \cup OutPackets
  BY DEF usb_bus_reset, TypeOK, HwTypeOK, OutPacket, OutPackets, SetupPackets,
         SetupPacket, NoPacket
<1>4. daddr' \in [ef : BOOLEAN, addr : Address]
  BY DEF usb_bus_reset, Address
<1>5. HwTypeOK'
  BY <1>1, <1>2, <1>3, <1>4 DEF usb_bus_reset, TypeOK, HwTypeOK
<1>. QED
  BY <1>5 DEF usb_bus_reset, TypeOK, Ep0State, datavars

(* Serving one transfer.                                                   *)
LEMMA ServeSetupType ==
  ASSUME TypeOK, ServeSetup
  PROVE  TypeOK'
<1>1. ep0_rx.req \in Setups /\ handle_ep0_setup(ep0_rx.req)
  BY DEF ServeSetup, TypeOK, HwTypeOK, NoPacket, SetupPackets, SetupPacket, OutPackets
<1>2. Ep0TypeOK'
  BY <1>1, SetupType_Ep0
<1>3. /\ usb_configured' \in BOOLEAN /\ usb_dtr_asserted' \in BOOLEAN
      /\ cdc_in_busy' \in BOOLEAN
      /\ configuration_value' \in {0, 1}
      /\ ep0_out_action' \in {"NONE", "SET_LINE_CODING"}
      /\ ep0_out_expected' \in {0, 7}
      /\ pending_address_valid' \in BOOLEAN /\ pending_address' \in Address
  BY <1>1, SetupType_Config
<1>4. /\ UNCHANGED <<ctr_tx, istr, bus, usb_suspended, isr, daddr, line_coding>>
      /\ ctr_rx' \subseteq ctr_rx /\ ep0_rx' = NoPacket
  BY DEF ServeSetup, ClearRx
<1>. QED BY <1>2, <1>3, <1>4 DEF TypeOK, HwTypeOK, Ep0TypeOK

LEMMA Ep0OutType ==
  ASSUME TypeOK, handle_ep0_out
  PROVE  TypeOK'
<1>1. /\ UNCHANGED <<ctr_tx, istr, bus, usb_suspended, isr, daddr>>
      /\ UNCHANGED <<configvars, ep0_out_expected, addressvars>>
      /\ ctr_rx' \subseteq ctr_rx /\ ep0_rx' = NoPacket
  BY DEF handle_ep0_out, ClearRx
<1>2. /\ Ep0TypeOK'
      /\ line_coding' \in {line_coding, ep0_rx.coding}
      /\ ep0_out_action' \in {"NONE", ep0_out_action}
  <2>1. CASE ep0_start_status_in(stat_tx, stat_rx)
    BY <2>1, StatusInType DEF handle_ep0_out, TypeOK, HwTypeOK
  <2>2. CASE ep0_wait_out("IDLE") /\ UNCHANGED <<datavars, line_coding, ep0_out_action>>
    BY <2>2 DEF ep0_wait_out, ep0_set_status, TypeOK, HwTypeOK, Ep0TypeOK, Ep0State,
                datavars, Endpoint, Status, USB_EP0
  <2>3. CASE ep0_stall
    BY <2>3, StallType DEF handle_ep0_out
  <2>. QED BY <2>1, <2>2, <2>3 DEF handle_ep0_out
<1>3. ep0_rx.coding \in LineCodings
  BY DEF handle_ep0_out, TypeOK, HwTypeOK, NoPacket, SetupPackets, SetupPacket, OutPackets
<1>. QED
  BY <1>1, <1>2, <1>3 DEF TypeOK, HwTypeOK, Ep0TypeOK, configvars, addressvars

LEMMA NextPacketType ==
  ASSUME TypeOK, ep0_send_next_data_packet,
         UNCHANGED <<ep0_state, ep0_tx_needs_zlp>>
  PROVE  Ep0TypeOK'
<1>. DEFINE length == minimum_u16(ep0_tx_remaining, MaxPacket)
<1>1. length \in Nat /\ length <= ep0_tx_remaining
  BY Minimum, MaxPacketAssumption DEF TypeOK
<1>2. /\ ep0_tx' = InPacket(ep0_tx_data.source, ep0_tx_data.offset, length)
      /\ ep0_tx_data' = [ep0_tx_data EXCEPT !.offset = @ + length]
      /\ ep0_tx_remaining' = ep0_tx_remaining - length
      /\ ep0_set_status(stat_tx, stat_rx, "VALID", stat_rx[USB_EP0])
  BY DEF ep0_send_next_data_packet
<1>. HIDE DEF length
<1>3. ep0_tx' \in InPackets /\ ep0_tx_remaining' \in Nat
  BY <1>1, <1>2 DEF InPacket, InPackets, TypeOK
<1>4. ep0_tx_data' \in [source : Buffers, offset : Nat]
  BY <1>1, <1>2 DEF TypeOK
<1>. QED
  BY <1>2, <1>3, <1>4 DEF TypeOK, HwTypeOK, Ep0TypeOK, ep0_set_status, Endpoint,
                         Status, USB_EP0

LEMMA Ep0InType ==
  ASSUME TypeOK, handle_ep0_in
  PROVE  TypeOK'
<1>1. /\ UNCHANGED <<ctr_rx, ep0_rx, istr, bus, usb_suspended, isr>>
      /\ UNCHANGED <<configvars, outvars, line_coding>>
      /\ ctr_tx' \subseteq ctr_tx
  BY DEF handle_ep0_in, ClearTx
<1>2. /\ Ep0TypeOK'
      /\ daddr' \in [ef : BOOLEAN, addr : Address]
      /\ pending_address_valid' \in BOOLEAN /\ pending_address' \in Address
  <2>1. CASE handle_ep0_in_data
    <3>1. UNCHANGED <<daddr, addressvars>>
      BY <2>1 DEF handle_ep0_in_data
    <3>2. CASE ep0_send_next_data_packet /\ UNCHANGED <<ep0_state, ep0_tx_needs_zlp>>
      BY <3>1, <3>2, NextPacketType DEF TypeOK, HwTypeOK, addressvars
    <3>3. CASE /\ ep0_tx_needs_zlp' = FALSE /\ ep0_tx' = ZeroLengthPacket
               /\ ep0_set_status(stat_tx, stat_rx, "VALID", stat_rx[USB_EP0])
               /\ UNCHANGED <<ep0_state, ep0_tx_data, ep0_tx_remaining>>
      BY <3>1, <3>3, ZeroLengthPacketType
      DEF TypeOK, HwTypeOK, Ep0TypeOK, ep0_set_status, addressvars, Endpoint, Status, USB_EP0
    <3>4. CASE ep0_wait_out("STATUS_OUT") /\ UNCHANGED datavars
      BY <3>1, <3>4
      DEF TypeOK, HwTypeOK, Ep0TypeOK, Ep0State, ep0_wait_out, ep0_set_status, datavars,
          addressvars, Endpoint, Status, USB_EP0
    <3>. QED BY <2>1, <3>2, <3>3, <3>4 DEF handle_ep0_in_data
  <2>2. CASE handle_ep0_in_status
    BY <2>2
    DEF handle_ep0_in_status, TypeOK, HwTypeOK, Ep0TypeOK, Ep0State, ep0_wait_out,
        ep0_set_status, datavars, Endpoint, Status, USB_EP0
  <2>3. CASE UNCHANGED <<ep0_state, ep0_tx, stat_tx, stat_rx, datavars, daddr, addressvars>>
    BY <2>3 DEF TypeOK, HwTypeOK, Ep0TypeOK, datavars, addressvars
  <2>. QED BY <2>1, <2>2, <2>3 DEF handle_ep0_in
<1>. QED
  BY <1>1, <1>2 DEF TypeOK, HwTypeOK, Ep0TypeOK, configvars, outvars

LEMMA BulkType ==
  ASSUME TypeOK, ServeBulkOut \/ ServeBulkIn
  PROVE  TypeOK'
<1>1. stat_tx' \in [Endpoint -> Status] /\ stat_rx' \in [Endpoint -> Status]
  BY DEF TypeOK, HwTypeOK, ServeBulkOut, ServeBulkIn, OutStatus, Status
<1>2. cdc_in_busy' \in BOOLEAN /\ ctr_tx' \subseteq ctr_tx /\ ctr_rx' \subseteq ctr_rx
  BY DEF TypeOK, ServeBulkOut, ServeBulkIn, ClearRx, ClearTx, configvars
<1>3. /\ UNCHANGED <<istr, bus, usb_suspended, isr, ep0_rx, ep0_tx, daddr>>
      /\ UNCHANGED <<usb_configured, configuration_value, usb_dtr_asserted>>
      /\ UNCHANGED <<ep0_state, outvars, datavars, line_coding, addressvars>>
  BY DEF ServeBulkOut, ServeBulkIn, ClearRx, ClearTx, configvars
<1>. QED
  BY <1>1, <1>2, <1>3 DEF TypeOK, HwTypeOK, outvars, datavars, addressvars

(* Moving about in the handler and handling a flag.                        *)
LEMMA FlagType ==
  ASSUME TypeOK, isr' \in {"idle", "irq", "ctr"},
         usb_suspended' \in {TRUE, FALSE, usb_suspended},
         istr' \subseteq istr,
         UNCHANGED <<stat_tx, stat_rx, ctr_tx, ctr_rx, ep0_rx, ep0_tx, daddr, bus,
                     configvars, ep0_state, outvars, datavars, line_coding,
                     addressvars>>
  PROVE  TypeOK'
<1>1. usb_suspended' \in BOOLEAN
  BY DEF TypeOK
<1>. QED BY <1>1 DEF TypeOK, HwTypeOK, configvars, outvars, datavars, addressvars

LEMMA TypeStep ==
  ASSUME TypeOK, [Next]_vars
  PROVE  TypeOK'
<1>1. CASE usb_cdc_init
  BY <1>1, BusResetType DEF usb_cdc_init
<1>2. CASE HandleReset
  BY <1>2, BusResetType DEF HandleReset
<1>3. CASE handle_correct_transfer
  BY <1>3, ServeSetupType, Ep0OutType, Ep0InType, BulkType DEF handle_correct_transfer
<1>4. CASE EnterHandler \/ LeaveTransfers \/ LeaveHandler
  <2>1. UNCHANGED <<hwvars, swvars>> /\ isr' \in {"idle", "irq"}
    BY <1>4 DEF EnterHandler, LeaveTransfers, LeaveHandler
  <2>. QED BY <2>1, FlagType DEF swvars, hwvars
<1>5. CASE EnterTransfers
  BY <1>5, FlagType DEF EnterTransfers, hwvars
<1>6. CASE HandleError \/ HandleWakeup \/ HandleSuspend
  BY <1>6, FlagType DEF HandleError, HandleWakeup, HandleSuspend, Handling, TypeOK
<1>7. CASE usb_cdc_try_write
  <2>1. stat_tx' \in [Endpoint -> Status] /\ cdc_in_busy' \in BOOLEAN
    BY <1>7 DEF usb_cdc_try_write, TypeOK, HwTypeOK, Status
  <2>. QED
    BY <1>7, <2>1
    DEF usb_cdc_try_write, TypeOK, HwTypeOK, outvars, datavars, addressvars
<1>8. CASE BusEvent
  BY <1>8, BusEventType DEF BusEvent
<1>9. CASE UNCHANGED vars
  BY <1>9 DEF vars, TypeOK, HwTypeOK, hwvars, swvars, configvars, outvars, datavars,
              addressvars
<1>. QED
  BY <1>1, <1>2, <1>3, <1>4, <1>5, <1>6, <1>7, <1>8, <1>9
  DEF Next, USB_LP_CAN1_RX0_IRQHandler

LEMMA InitType == Init => TypeOK
<1>1. Buffer("NULL", 0) \in Buffers
  <2>1. "NULL" \in BufferName
    BY DEF BufferName
  <2>. QED BY <2>1 DEF Buffer, Buffers
<1>2. DefaultLineCoding \in LineCodings
  BY LineCodingsAssumption DEF DefaultLineCoding
<1>3. Init => HwTypeOK
  BY DEF Init, HwInit, HwTypeOK, Status, Address
<1>4. Init => ep0_tx_data \in [source : Buffers, offset : Nat]
  BY <1>1 DEF Init
<1>5. Init => /\ ep0_state \in Ep0State /\ pending_address \in Address
              /\ configuration_value \in {0, 1} /\ ep0_out_expected \in {0, 7}
              /\ ep0_out_action \in {"NONE", "SET_LINE_CODING"}
              /\ ep0_tx_remaining \in Nat
  BY DEF Init, Ep0State, Address
<1>6. Init => /\ usb_configured \in BOOLEAN /\ usb_dtr_asserted \in BOOLEAN
              /\ usb_suspended \in BOOLEAN /\ cdc_in_busy \in BOOLEAN
              /\ ep0_tx_needs_zlp \in BOOLEAN /\ pending_address_valid \in BOOLEAN
  BY DEF Init
<1>7. Init => line_coding \in LineCodings /\ isr \in {"off", "idle", "irq", "ctr"}
  BY <1>2 DEF Init
<1>. QED
  BY <1>3, <1>4, <1>5, <1>6, <1>7 DEF TypeOK

(* The driver and the peripheral keep to their types.                      *)
THEOREM TypeCorrect == Spec => []TypeOK
BY InitType, TypeStep, PTL DEF Spec

-----------------------------------------------------------------------------
(* Endpoint 0 answers.  The invariant is inductive with the types: every    *)
(* way in which the driver leaves endpoint 0 arms what its state promises.  *)

Armed ==
  /\ stat_rx[USB_EP0] = IF ep0_state = "STALLED" THEN "STALL" ELSE "VALID"
  /\ ep0_state = "STALLED" => stat_tx[USB_EP0] = "STALL"
  /\ ep0_state \in {"DATA_IN", "STATUS_IN"} =>
       stat_tx[USB_EP0] = "VALID" \/ USB_EP0 \in ctr_tx
  /\ ep0_state \in {"IDLE", "DATA_OUT", "STATUS_OUT"} => stat_tx[USB_EP0] = "NAK"

LEMMA SetStatus ==
  ASSUME NEW tx \in [Endpoint -> Status], NEW rx \in [Endpoint -> Status],
         NEW t, NEW r, ep0_set_status(tx, rx, t, r)
  PROVE  /\ stat_tx'[USB_EP0] = t /\ stat_rx'[USB_EP0] = r
         /\ \A e \in Endpoint \ {USB_EP0} : stat_tx'[e] = tx[e] /\ stat_rx'[e] = rx[e]
BY DEF ep0_set_status, Endpoint, USB_EP0

LEMMA ArmedAfter ==
  ASSUME TypeOK,
         \/ DataIn \/ StatusIn \/ ep0_start_data_out(7, "SET_LINE_CODING") \/ ep0_stall
         \/ \E state \in {"IDLE", "STATUS_OUT"} : ep0_wait_out(state)
  PROVE  Armed'
<1>. stat_tx \in [Endpoint -> Status] /\ stat_rx \in [Endpoint -> Status]
  BY DEF TypeOK, HwTypeOK
<1>1. CASE DataIn
  <2>1. ep0_state' = "DATA_IN" /\ ep0_set_status(stat_tx, stat_rx, "VALID", "VALID")
    BY <1>1 DEF DataIn, ep0_start_data_in
  <2>. QED BY <2>1, SetStatus DEF Armed
<1>2. CASE StatusIn
  <2>1. PICK tx \in [Endpoint -> Status], rx \in [Endpoint -> Status] :
               ep0_start_status_in(tx, rx)
    BY <1>2 DEF StatusIn
  <2>. QED BY <2>1, SetStatus DEF Armed, ep0_start_status_in
<1>3. CASE ep0_start_data_out(7, "SET_LINE_CODING")
  BY <1>3, SetStatus DEF Armed, ep0_start_data_out
<1>4. CASE ep0_stall
  BY <1>4, SetStatus DEF Armed, ep0_stall
<1>5. ASSUME NEW state \in {"IDLE", "STATUS_OUT"}, ep0_wait_out(state)
      PROVE  Armed'
  BY <1>5, SetStatus DEF Armed, ep0_wait_out
<1>. QED BY <1>1, <1>2, <1>3, <1>4, <1>5

LEMMA Ep0AnswersStep ==
  ASSUME TypeOK, Ep0Answers, [Next]_vars
  PROVE  Ep0Answers'
<1>. stat_tx \in [Endpoint -> Status] /\ stat_rx \in [Endpoint -> Status]
  BY DEF TypeOK, HwTypeOK
<1>. DEFINE Quiet == isr # "off" /\ "RESET" \notin istr /\ USB_EP0 \notin ctr_rx
<1>a. Ep0Answers <=> (Quiet => Armed)
  BY DEF Ep0Answers, Armed
<1>c. Quiet /\ UNCHANGED <<stat_tx, stat_rx, ep0_state, ctr_tx>> => Armed'
  BY <1>a DEF Armed
<1>d. (Quiet' => Armed') => Ep0Answers'
  BY DEF Ep0Answers, Armed
<1>1. CASE usb_bus_reset
  BY <1>1, <1>d DEF usb_bus_reset, Armed, Endpoint, USB_EP0, USB_CDC_OUT_EP
<1>2. CASE ServeSetup
  <2>1. ep0_rx.req \in Setups /\ handle_ep0_setup(ep0_rx.req)
    BY <1>2 DEF ServeSetup, TypeOK, HwTypeOK, NoPacket, SetupPackets, SetupPacket, OutPackets
  <2>. QED BY <2>1, <1>d, SetupResponse, ArmedAfter
<1>3. CASE handle_ep0_out
  <2>1. StatusIn \/ ep0_wait_out("IDLE") \/ ep0_stall
    BY <1>3 DEF handle_ep0_out, StatusIn
  <2>. QED BY <2>1, <1>d, ArmedAfter
<1>4. CASE handle_ep0_in
  <2>1. /\ UNCHANGED <<ctr_rx, istr, isr>> /\ isr = "ctr" /\ USB_EP0 \notin ctr_rx
        /\ ctr_tx' = ctr_tx \ {USB_EP0}
    BY <1>4 DEF handle_ep0_in, ClearTx
  <2>2. CASE ep0_wait_out("STATUS_OUT") \/ ep0_wait_out("IDLE")
    BY <2>2, <1>d, ArmedAfter
  <2>3. CASE /\ ep0_state = "DATA_IN" /\ UNCHANGED ep0_state
             /\ ep0_set_status(stat_tx, stat_rx, "VALID", stat_rx[USB_EP0])
    BY <2>1, <2>3, <1>a, <1>d, SetStatus DEF Armed
  <2>4. CASE /\ ep0_state \notin {"DATA_IN", "STATUS_IN"}
             /\ UNCHANGED <<ep0_state, stat_tx, stat_rx>>
    BY <2>1, <2>4, <1>a, <1>d DEF Armed
  <2>. QED
    BY <1>4, <2>2, <2>3, <2>4
    DEF handle_ep0_in, handle_ep0_in_data, handle_ep0_in_status, ep0_send_next_data_packet
<1>5. CASE ServeBulkOut \/ ServeBulkIn
  <2>1. /\ isr = "ctr" /\ UNCHANGED <<istr, isr, ep0_state>>
        /\ ctr_rx' \in {ctr_rx, ctr_rx \ {USB_CDC_OUT_EP}}
        /\ ctr_tx' \in {ctr_tx, ctr_tx \ {USB_CDC_IN_EP}}
        /\ stat_tx'[USB_EP0] = stat_tx[USB_EP0] /\ stat_rx'[USB_EP0] = stat_rx[USB_EP0]
    BY <1>5 DEF ServeBulkOut, ServeBulkIn, ClearRx, ClearTx, Endpoint, USB_EP0,
                USB_CDC_OUT_EP, USB_CDC_IN_EP
  <2>. QED BY <2>1, <1>a, <1>d DEF Armed, USB_EP0, USB_CDC_OUT_EP, USB_CDC_IN_EP
<1>7. CASE usb_cdc_try_write
  BY <1>7, <1>a, <1>d DEF usb_cdc_try_write, Armed, Endpoint, USB_EP0, USB_CDC_IN_EP
<1>8. CASE BusEvent
  <2>1. isr # "off" /\ UNCHANGED <<isr, ep0_state>>
    BY <1>8 DEF BusEvent, swvars
  <2>2. CASE \E r \in Setups : HwSetup(r)
    BY <2>2, <1>d DEF HwSetup
  <2>3. CASE \E n \in OutCounts, c \in LineCodings : HwOut0(n, c)
    BY <2>3, <1>d DEF HwOut0
  <2>4. CASE HwOutBulk
    BY <2>1, <2>4, <1>a, <1>d DEF HwOutBulk, Armed, Endpoint, USB_EP0, USB_CDC_OUT_EP
  <2>5. CASE HwIn(USB_EP0)
    BY <2>1, <2>5, <1>a, <1>d DEF HwIn, Armed, Endpoint, USB_EP0
  <2>6. CASE HwIn(USB_CDC_IN_EP)
    BY <2>1, <2>6, <1>a, <1>d DEF HwIn, Armed, Endpoint, USB_EP0, USB_CDC_IN_EP
  <2>7. CASE HwReset
    BY <2>7, <1>d DEF HwReset
  <2>8. CASE HwSuspend \/ HwResume \/ \E flag \in {"ERR", "PMAOVR"} : HwError(flag)
    <3>1. /\ UNCHANGED <<stat_tx, stat_rx, ctr_tx, ctr_rx>>
          /\ "RESET" \in istr => "RESET" \in istr'
      BY <2>8 DEF HwSuspend, HwResume, HwError, InterruptPending
    <3>. QED BY <2>1, <3>1, <1>a, <1>c, <1>d
  <2>. QED
    BY <1>8, <2>2, <2>3, <2>4, <2>5, <2>6, <2>7, <2>8 DEF BusEvent, HwNext
<1>9. CASE \/ EnterHandler \/ EnterTransfers \/ LeaveTransfers \/ LeaveHandler
           \/ HandleError \/ HandleWakeup \/ HandleSuspend
  <2>1. /\ UNCHANGED <<stat_tx, stat_rx, ctr_tx, ctr_rx, ep0_state>>
        /\ isr # "off"
        /\ "RESET" \in istr => "RESET" \in istr'
    BY <1>9 DEF EnterHandler, EnterTransfers, LeaveTransfers, LeaveHandler, HandleError,
                HandleWakeup, HandleSuspend, Handling, hwvars, swvars
  <2>. QED BY <2>1, <1>a, <1>c, <1>d
<1>10. CASE UNCHANGED vars
  BY <1>10, <1>a, <1>c, <1>d DEF vars, hwvars, swvars
<1>. QED
  BY <1>1, <1>2, <1>3, <1>4, <1>5, <1>7, <1>8, <1>9, <1>10
  DEF Next, USB_LP_CAN1_RX0_IRQHandler, handle_correct_transfer, usb_cdc_init, HandleReset

(* Whatever the host sends, endpoint 0 is never left unable to answer.     *)
THEOREM EndpointZeroAnswers == Spec => []Ep0Answers
<1>1. Init => Ep0Answers
  BY DEF Init, Ep0Answers
<1>2. TypeOK /\ Ep0Answers /\ [Next]_vars => Ep0Answers'
  BY Ep0AnswersStep
<1>. QED BY <1>1, <1>2, TypeCorrect, PTL DEF Spec

-----------------------------------------------------------------------------
(* The data endpoints.  What a control transfer may do to them is one of    *)
(* four things, whatever its request.                                       *)

DataKept ==
  /\ stat_tx'[USB_CDC_IN_EP] = stat_tx[USB_CDC_IN_EP]
  /\ stat_rx'[USB_CDC_OUT_EP] = stat_rx[USB_CDC_OUT_EP]
  /\ UNCHANGED <<usb_configured, configuration_value, cdc_in_busy>>
  /\ usb_dtr_asserted' => usb_dtr_asserted \/ usb_configured

Configured(value) ==
  /\ value \in {0, 1}
  /\ configuration_value' = value /\ usb_configured' = (value = 1)
  /\ usb_dtr_asserted' = FALSE /\ cdc_in_busy' = FALSE
  /\ stat_tx'[USB_CDC_IN_EP] = "NAK"
  /\ stat_rx'[USB_CDC_OUT_EP] = OutStatus(value = 1)

InHalted(s) ==
  /\ usb_configured
  /\ UNCHANGED <<usb_configured, configuration_value, usb_dtr_asserted, cdc_in_busy>>
  /\ s.request \in {"CLEAR_FEATURE", "SET_FEATURE"} /\ s.index = 131
  /\ stat_tx'[USB_CDC_IN_EP] \in {"STALL", "NAK"}
  /\ stat_rx'[USB_CDC_OUT_EP] = stat_rx[USB_CDC_OUT_EP]

OutHalted ==
  /\ usb_configured
  /\ UNCHANGED <<usb_configured, configuration_value, usb_dtr_asserted, cdc_in_busy>>
  /\ stat_tx'[USB_CDC_IN_EP] = stat_tx[USB_CDC_IN_EP]
  /\ stat_rx'[USB_CDC_OUT_EP] \in {"STALL", "VALID"}

LEMMA Ep0Only ==
  ASSUME TypeOK, NEW t, NEW r, ep0_set_status(stat_tx, stat_rx, t, r)
  PROVE  /\ stat_tx'[USB_CDC_IN_EP] = stat_tx[USB_CDC_IN_EP]
         /\ stat_rx'[USB_CDC_OUT_EP] = stat_rx[USB_CDC_OUT_EP]
BY SetStatus DEF TypeOK, HwTypeOK, Endpoint, USB_EP0, USB_CDC_IN_EP, USB_CDC_OUT_EP

LEMMA DataInOnly ==
  ASSUME TypeOK, NEW a, NEW b, NEW c, ep0_start_data_in(a, b, c)
  PROVE  /\ stat_tx'[USB_CDC_IN_EP] = stat_tx[USB_CDC_IN_EP]
         /\ stat_rx'[USB_CDC_OUT_EP] = stat_rx[USB_CDC_OUT_EP]
<1>1. ep0_set_status(stat_tx, stat_rx, "VALID", "VALID")
  BY DEF ep0_start_data_in
<1>. QED BY <1>1, Ep0Only

LEMMA SetupOnDataEndpoints ==
  ASSUME TypeOK, NEW s \in Setups, handle_ep0_setup(s)
  PROVE  \/ DataKept
         \/ \E value \in {0, 1} : Configured(value)
         \/ InHalted(s)
         \/ OutHalted
<1>a. s.value \in Nat
  BY SetupFields
<1>b. stat_tx \in [Endpoint -> Status] /\ stat_rx \in [Endpoint -> Status]
  BY DEF TypeOK, HwTypeOK
<1>1. CASE SetAddress(s) \/ SetLineCoding(s) \/ SetInterfaceOrSendBreak(s) \/ StallRequest(s)
  <2>1. UNCHANGED <<usb_configured, configuration_value, usb_dtr_asserted, cdc_in_busy>>
    BY <1>1 DEF SetAddress, SetLineCoding, SetInterfaceOrSendBreak, StallRequest, configvars
  <2>2. \E t, r : ep0_set_status(stat_tx, stat_rx, t, r)
    BY <1>1 DEF SetAddress, SetLineCoding, SetInterfaceOrSendBreak, StallRequest,
                ep0_start_status_in, ep0_start_data_out, ep0_stall
  <2>. QED BY <2>1, <2>2, Ep0Only DEF DataKept
<1>2. CASE GetStatus(s) \/ GetDescriptor(s) \/ GetConfiguration(s) \/ GetInterface(s)
           \/ GetLineCoding(s)
  <2>1. UNCHANGED <<usb_configured, configuration_value, usb_dtr_asserted, cdc_in_busy>>
    BY <1>2, RequestKeepsConfig DEF configvars
  <2>2. \E a, b, c : ep0_start_data_in(a, b, c)
    BY <1>2 DEF GetStatus, GetDescriptor, GetConfiguration, GetInterface, GetLineCoding
  <2>. QED BY <2>1, <2>2, DataInOnly DEF DataKept
<1>3. CASE SetConfiguration(s)
  <2>. DEFINE tx == [stat_tx EXCEPT ![USB_CDC_NOTIFICATION_EP] = "NAK", ![USB_CDC_IN_EP] = "NAK"]
              rx == [stat_rx EXCEPT ![USB_CDC_OUT_EP] = OutStatus(s.value = 1)]
  <2>1. /\ configuration_value' = s.value /\ usb_configured' = (s.value = 1)
        /\ usb_dtr_asserted' = FALSE /\ cdc_in_busy' = FALSE
        /\ s.value <= 1 /\ ep0_set_status(tx, rx, "VALID", "VALID")
    BY <1>3 DEF SetConfiguration, IsSetConfiguration, non_control_endpoints_set_configured,
                ep0_start_status_in
  <2>2. tx \in [Endpoint -> Status] /\ rx \in [Endpoint -> Status]
    BY <1>b DEF OutStatus, Status
  <2>3. tx[USB_CDC_IN_EP] = "NAK" /\ rx[USB_CDC_OUT_EP] = OutStatus(s.value = 1)
    BY <1>b DEF Endpoint, USB_CDC_IN_EP, USB_CDC_OUT_EP, USB_CDC_NOTIFICATION_EP
  <2>. HIDE DEF tx, rx
  <2>4. /\ stat_tx'[USB_CDC_IN_EP] = "NAK"
        /\ stat_rx'[USB_CDC_OUT_EP] = OutStatus(s.value = 1)
    BY <2>1, <2>2, <2>3, SetStatus DEF Endpoint, USB_EP0, USB_CDC_IN_EP, USB_CDC_OUT_EP
  <2>5. s.value \in {0, 1}
    BY <1>a, <2>1
  <2>. QED BY <2>1, <2>4, <2>5 DEF Configured
<1>4. CASE SetControlLineState(s)
  <2>1. /\ UNCHANGED <<usb_configured, configuration_value, cdc_in_busy>> /\ usb_configured
        /\ ep0_set_status(stat_tx, stat_rx, "VALID", "VALID")
    BY <1>4 DEF SetControlLineState, IsSetControlLineState, IsCdc, ep0_start_status_in
  <2>. QED BY <2>1, Ep0Only DEF DataKept
<1>5. CASE EndpointHalt(s)
  <2>. DEFINE halt == s.request = "SET_FEATURE"
              tx == IF s.index < 128 THEN stat_tx
                    ELSE [stat_tx EXCEPT ![s.index - 128] = IF halt THEN "STALL" ELSE "NAK"]
              rx == IF s.index >= 128 THEN stat_rx
                    ELSE [stat_rx EXCEPT ![s.index] = IF halt THEN "STALL"
                                                      ELSE OutStatus(usb_configured)]
  <2>1. /\ UNCHANGED <<usb_configured, configuration_value, usb_dtr_asserted, cdc_in_busy>>
        /\ usb_configured
        /\ s.request \in {"CLEAR_FEATURE", "SET_FEATURE"} /\ s.index <= 255
        /\ endpoint_address_valid(s.index % 256)
        /\ ep0_set_status(tx, rx, "VALID", "VALID")
    BY <1>5 DEF EndpointHalt, IsEndpointHalt, Is, EndpointNamed, endpoint_set_halt,
                ep0_start_status_in, configvars
  <2>2. s.index \in {129, 2, 131}
    <3>1. s.index \in Nat /\ s.index % 256 = s.index
      BY <2>1, SetupFields
    <3>. QED BY <2>1, <3>1 DEF endpoint_address_valid
  <2>3. tx \in [Endpoint -> Status] /\ rx \in [Endpoint -> Status]
    BY <1>b DEF Status, OutStatus
  <2>4. stat_tx'[USB_CDC_IN_EP] = tx[USB_CDC_IN_EP] /\ stat_rx'[USB_CDC_OUT_EP] = rx[USB_CDC_OUT_EP]
    <3>. HIDE DEF tx, rx
    <3>. QED BY <2>1, <2>3, SetStatus DEF Endpoint, USB_EP0, USB_CDC_IN_EP, USB_CDC_OUT_EP
  <2>5. CASE s.index = 131
    BY <1>b, <2>1, <2>4, <2>5 DEF InHalted, Endpoint, USB_CDC_IN_EP
  <2>6. CASE s.index = 2
    BY <1>b, <2>1, <2>4, <2>6 DEF OutHalted, OutStatus, Endpoint, USB_CDC_OUT_EP
  <2>7. CASE s.index = 129
    <3>1. /\ stat_tx'[USB_CDC_IN_EP] = stat_tx[USB_CDC_IN_EP]
          /\ stat_rx'[USB_CDC_OUT_EP] = stat_rx[USB_CDC_OUT_EP]
      BY <1>b, <2>4, <2>7 DEF Endpoint, USB_CDC_IN_EP
    <3>. QED BY <2>1, <3>1 DEF DataKept
  <2>. QED BY <2>2, <2>5, <2>6, <2>7
<1>. QED
  BY <1>1, <1>2, <1>3, <1>4, <1>5 DEF handle_ep0_setup

(* Endpoint 0 transfers other than requests leave the data endpoints alone. *)
LEMMA Ep0TransferKeeps ==
  ASSUME TypeOK, handle_ep0_out \/ handle_ep0_in
  PROVE  DataKept /\ UNCHANGED usb_dtr_asserted
<1>1. \/ UNCHANGED <<stat_tx, stat_rx>>
      \/ \E t, r : ep0_set_status(stat_tx, stat_rx, t, r)
  BY DEF handle_ep0_out, handle_ep0_in, handle_ep0_in_data, handle_ep0_in_status,
         ep0_send_next_data_packet, ep0_start_status_in, ep0_wait_out, ep0_stall
<1>2. UNCHANGED <<usb_configured, configuration_value, usb_dtr_asserted, cdc_in_busy>>
  BY DEF handle_ep0_out, handle_ep0_in, configvars
<1>. QED BY <1>1, <1>2, Ep0Only DEF DataKept

(* The parts of DataEndpointsFollowConfiguration, by name.                  *)
ConfigurationOK ==
  /\ usb_configured <=> configuration_value = 1
  /\ usb_dtr_asserted => usb_configured
InOffered == stat_tx[USB_CDC_IN_EP] = "VALID" => usb_configured /\ cdc_in_busy
OutAccepted == stat_rx[USB_CDC_OUT_EP] = "VALID" => usb_configured
OutOpen ==
  isr # "off" /\ "RESET" \notin istr /\ usb_configured /\ USB_CDC_OUT_EP \notin ctr_rx =>
    stat_rx[USB_CDC_OUT_EP] \in {"VALID", "STALL"}

OffQuiet == isr = "off" => ctr_tx = {}

DataInv == OffQuiet /\ ConfigurationOK /\ InOffered /\ OutAccepted /\ OutOpen /\ CompletionIsExpected

LEMMA DataStep ==
  ASSUME TypeOK, DataInv, [Next]_vars
  PROVE  DataInv'
<1>. stat_tx \in [Endpoint -> Status] /\ stat_rx \in [Endpoint -> Status]
  BY DEF TypeOK, HwTypeOK
<1>. USE DEF DataInv
<1>1. CASE usb_bus_reset /\ isr \in {"off", "irq"} /\ (isr = "off" => isr' = "idle")
           /\ (isr = "irq" => isr' = "irq")
  <2>1. /\ usb_configured' = FALSE /\ usb_dtr_asserted' = FALSE /\ configuration_value' = 0
        /\ stat_tx'[USB_CDC_IN_EP] = "NAK" /\ stat_rx'[USB_CDC_OUT_EP] = "NAK"
    BY <1>1 DEF usb_bus_reset, Endpoint, USB_EP0, USB_CDC_OUT_EP, USB_CDC_IN_EP
  <2>2. CompletionIsExpected' /\ OffQuiet'
    BY <1>1 DEF usb_bus_reset, CompletionIsExpected, OffQuiet
  <2>. QED
    BY <2>1, <2>2 DEF ConfigurationOK, InOffered, OutAccepted, OutOpen
<1>2. CASE ServeSetup
  <2>. DEFINE s == ep0_rx.req
  <2>1. s \in Setups /\ handle_ep0_setup(s)
    BY <1>2 DEF ServeSetup, TypeOK, HwTypeOK, NoPacket, SetupPackets, SetupPacket, OutPackets
  <2>2. /\ isr = "ctr" /\ UNCHANGED <<isr, istr, ctr_tx>>
        /\ USB_CDC_OUT_EP \in ctr_rx' <=> USB_CDC_OUT_EP \in ctr_rx
    BY <1>2 DEF ServeSetup, ClearRx, USB_EP0, USB_CDC_OUT_EP
  <2>. HIDE DEF s
  <2>3. CompletionIsExpected' /\ OffQuiet'
    BY <2>2 DEF CompletionIsExpected, OffQuiet
  <2>4. CASE DataKept
    BY <2>2, <2>3, <2>4 DEF DataKept, ConfigurationOK, InOffered, OutAccepted, OutOpen
  <2>5. CASE \E value \in {0, 1} : Configured(value)
    BY <2>2, <2>3, <2>5 DEF Configured, OutStatus, ConfigurationOK, InOffered, OutAccepted,
                            OutOpen
  <2>6. CASE InHalted(s)
    BY <2>2, <2>3, <2>6 DEF InHalted, ConfigurationOK, InOffered, OutAccepted, OutOpen
  <2>7. CASE OutHalted
    BY <2>2, <2>3, <2>7 DEF OutHalted, ConfigurationOK, InOffered, OutAccepted, OutOpen
  <2>. QED BY <2>1, <2>4, <2>5, <2>6, <2>7, SetupOnDataEndpoints
<1>3. CASE handle_ep0_out \/ handle_ep0_in
  <2>1. /\ isr = "ctr" /\ UNCHANGED <<isr, istr>>
        /\ USB_CDC_OUT_EP \in ctr_rx' <=> USB_CDC_OUT_EP \in ctr_rx
    BY <1>3 DEF handle_ep0_out, handle_ep0_in, ClearRx, ClearTx, USB_EP0, USB_CDC_OUT_EP
  <2>2. DataKept /\ UNCHANGED usb_dtr_asserted
    BY <1>3, Ep0TransferKeeps
  <2>. QED
    BY <2>1, <2>2 DEF DataKept, ConfigurationOK, InOffered, OutAccepted, OutOpen,
                      CompletionIsExpected, OffQuiet
<1>4. CASE ServeBulkOut
  BY <1>4 DEF ServeBulkOut, ClearRx, OutStatus, configvars, ConfigurationOK, InOffered,
              OutAccepted, OutOpen, CompletionIsExpected, OffQuiet, Endpoint, USB_CDC_OUT_EP
<1>5. CASE ServeBulkIn
  BY <1>5 DEF ServeBulkIn, ClearTx, ConfigurationOK, InOffered, OutAccepted, OutOpen,
              CompletionIsExpected, OffQuiet, Endpoint, USB_CDC_IN_EP
<1>6. CASE usb_cdc_try_write
  BY <1>6 DEF usb_cdc_try_write, usb_cdc_connected, ConfigurationOK, InOffered, OutAccepted,
              OutOpen, CompletionIsExpected, OffQuiet, Endpoint, USB_CDC_IN_EP
<1>7. CASE BusEvent
  <2>1. UNCHANGED <<isr, configvars>> /\ isr # "off"
    BY <1>7 DEF BusEvent, swvars
  <2>2. ConfigurationOK'
    BY <2>1 DEF ConfigurationOK, configvars
  <2>3. CASE /\ UNCHANGED <<ctr_tx, stat_tx, stat_rx>>
             /\ ctr_rx \subseteq ctr_rx' /\ ("RESET" \in istr => "RESET" \in istr')
    BY <2>1, <2>2, <2>3 DEF InOffered, OutAccepted, OutOpen, CompletionIsExpected, OffQuiet, configvars
  <2>4. CASE \E r \in Setups : HwSetup(r)
    BY <2>1, <2>2, <2>4 DEF HwSetup, InOffered, OutAccepted, OutOpen, CompletionIsExpected, OffQuiet,
                            configvars, Endpoint, USB_EP0, USB_CDC_OUT_EP, USB_CDC_IN_EP
  <2>5. CASE \E n \in OutCounts, c \in LineCodings : HwOut0(n, c)
    BY <2>1, <2>2, <2>5 DEF HwOut0, InOffered, OutAccepted, OutOpen, CompletionIsExpected, OffQuiet,
                            configvars, Endpoint, USB_EP0, USB_CDC_OUT_EP
  <2>6. CASE HwOutBulk
    BY <2>1, <2>2, <2>6 DEF HwOutBulk, InOffered, OutAccepted, OutOpen, CompletionIsExpected, OffQuiet,
                            configvars, Endpoint, USB_CDC_OUT_EP
  <2>7. CASE HwIn(USB_EP0) \/ HwIn(USB_CDC_IN_EP)
    BY <2>1, <2>2, <2>7 DEF HwIn, InOffered, OutAccepted, OutOpen, CompletionIsExpected, OffQuiet,
                            configvars, Endpoint, USB_EP0, USB_CDC_IN_EP
  <2>8. CASE HwReset
    BY <2>1, <2>2, <2>8 DEF HwReset, InOffered, OutAccepted, OutOpen, CompletionIsExpected, OffQuiet,
                            configvars, Endpoint, USB_CDC_OUT_EP, USB_CDC_IN_EP
  <2>9. CASE HwSuspend \/ HwResume \/ \E flag \in {"ERR", "PMAOVR"} : HwError(flag)
    <3>1. /\ UNCHANGED <<ctr_tx, ctr_rx, stat_tx, stat_rx>>
          /\ "RESET" \in istr => "RESET" \in istr'
      BY <2>9 DEF HwSuspend, HwResume, HwError, InterruptPending
    <3>. QED BY <2>3, <3>1
  <2>. QED
    BY <1>7, <2>4, <2>5, <2>6, <2>7, <2>8, <2>9 DEF BusEvent, HwNext
<1>8. CASE \/ EnterHandler \/ EnterTransfers \/ LeaveTransfers
           \/ HandleError \/ HandleWakeup \/ HandleSuspend
  <2>1. /\ UNCHANGED <<stat_tx, stat_rx, ctr_tx, ctr_rx, configvars>>
        /\ isr # "off" /\ isr' \in {"irq", "ctr"}
        /\ "RESET" \in istr => "RESET" \in istr'
    BY <1>8 DEF EnterHandler, EnterTransfers, LeaveTransfers, HandleError,
                HandleWakeup, HandleSuspend, Handling, hwvars, swvars
  <2>. QED
    BY <2>1 DEF ConfigurationOK, InOffered, OutAccepted, OutOpen, CompletionIsExpected, OffQuiet,
                configvars
<1>9. CASE LeaveHandler
  <2>1. /\ UNCHANGED <<stat_tx, stat_rx, ctr_tx, ctr_rx, istr, configvars>>
        /\ isr = "irq" /\ ctr_tx = {}
    BY <1>9 DEF LeaveHandler, InterruptPending, TransferPending, hwvars, swvars
  <2>. QED
    BY <2>1 DEF ConfigurationOK, InOffered, OutAccepted, OutOpen, CompletionIsExpected, OffQuiet,
                configvars
<1>10. CASE UNCHANGED vars
  BY <1>10 DEF vars, hwvars, swvars, configvars, ConfigurationOK, InOffered, OutAccepted,
               OutOpen, CompletionIsExpected, OffQuiet
<1>. QED
  BY <1>1, <1>2, <1>3, <1>4, <1>5, <1>6, <1>7, <1>8, <1>9, <1>10
  DEF Next, USB_LP_CAN1_RX0_IRQHandler, handle_correct_transfer, usb_cdc_init, HandleReset

LEMMA DataInvariant == Spec => []DataInv
<1>1. Init => DataInv
  <2>1. Init => ConfigurationOK
    BY DEF Init, ConfigurationOK
  <2>2. Init => InOffered /\ OutAccepted /\ OutOpen
    BY DEF Init, HwInit, InOffered, OutAccepted, OutOpen, Endpoint, USB_CDC_OUT_EP,
           USB_CDC_IN_EP
  <2>3. Init => CompletionIsExpected /\ OffQuiet
    BY DEF Init, HwInit, CompletionIsExpected, OffQuiet
  <2>. QED BY <2>1, <2>2, <2>3 DEF DataInv
<1>2. TypeOK /\ DataInv /\ [Next]_vars => DataInv'
  BY DataStep
<1>. QED BY <1>1, <1>2, TypeCorrect, PTL DEF Spec

(* The data endpoints follow the configuration.                            *)
THEOREM DataEndpointsFollow == Spec => []DataEndpointsFollowConfiguration
<1>1. DataInv => DataEndpointsFollowConfiguration
  BY DEF DataInv, ConfigurationOK, InOffered, OutAccepted, OutOpen,
         DataEndpointsFollowConfiguration
<1>. QED BY <1>1, DataInvariant, PTL

(* A completion the main loop can see is that of the packet in flight.     *)
THEOREM CompletionExpected == Spec => []CompletionIsExpected
<1>1. DataInv => CompletionIsExpected
  BY DEF DataInv
<1>. QED BY <1>1, DataInvariant, PTL

(* usb_cdc_try_write writes only a buffer that is not on offer and not owed *)
(* a completion.                                                            *)
THEOREM ExclusiveWrites == Spec => WritesAreExclusive
<1>1. DataInv /\ [Next]_vars =>
        [usb_cdc_try_write =>
           stat_tx[USB_CDC_IN_EP] # "VALID" /\ USB_CDC_IN_EP \notin ctr_tx]_vars
  BY DEF DataInv, InOffered, CompletionIsExpected, usb_cdc_try_write
<1>2. Spec => [][Next]_vars
  BY DEF Spec
<1>. QED BY <1>1, <1>2, DataInvariant, PTL DEF WritesAreExclusive

-----------------------------------------------------------------------------
(* The buffer is not busy for nothing, as long as the host sends no halt    *)
(* request to the IN endpoint, 0x83.                                        *)

NoHaltOfIn ==
  \A s \in Setups : s.request \in {"CLEAR_FEATURE", "SET_FEATURE"} => s.index # 131

LEMMA BusyStep ==
  ASSUME NoHaltOfIn, TypeOK, BusyHasPacket, [Next]_vars
  PROVE  BusyHasPacket'
<1>. stat_tx \in [Endpoint -> Status] /\ stat_rx \in [Endpoint -> Status]
  BY DEF TypeOK, HwTypeOK
<1>a. ~ cdc_in_busy' => BusyHasPacket'
  BY DEF BusyHasPacket
<1>b. /\ UNCHANGED cdc_in_busy
      /\ stat_tx'[USB_CDC_IN_EP] = stat_tx[USB_CDC_IN_EP]
      /\ USB_CDC_IN_EP \in ctr_tx => USB_CDC_IN_EP \in ctr_tx'
      /\ "RESET" \in istr => "RESET" \in istr'
      => BusyHasPacket'
  BY DEF BusyHasPacket
<1>1. CASE usb_cdc_init \/ HandleReset
  BY <1>1, <1>a DEF usb_cdc_init, HandleReset, usb_bus_reset
<1>2. CASE ServeSetup
  <2>. DEFINE s == ep0_rx.req
  <2>1. s \in Setups /\ handle_ep0_setup(s)
    BY <1>2 DEF ServeSetup, TypeOK, HwTypeOK, NoPacket, SetupPackets, SetupPacket, OutPackets
  <2>2. UNCHANGED <<ctr_tx, istr>>
    BY <1>2 DEF ServeSetup, ClearRx
  <2>. HIDE DEF s
  <2>3. DataKept \/ (\E value \in {0, 1} : Configured(value)) \/ OutHalted
    BY <2>1, SetupOnDataEndpoints DEF NoHaltOfIn, InHalted
  <2>. QED BY <2>2, <2>3, <1>a, <1>b DEF DataKept, Configured, OutHalted
<1>3. CASE handle_ep0_out \/ handle_ep0_in
  <2>1. UNCHANGED istr /\ ctr_tx' \in {ctr_tx, ctr_tx \ {USB_EP0}}
    BY <1>3 DEF handle_ep0_out, handle_ep0_in, ClearRx, ClearTx
  <2>2. DataKept
    BY <1>3, Ep0TransferKeeps
  <2>. QED BY <2>1, <2>2, <1>b DEF DataKept, USB_EP0, USB_CDC_IN_EP
<1>4. CASE ServeBulkOut
  BY <1>4, <1>b DEF ServeBulkOut, ClearRx, configvars
<1>5. CASE ServeBulkIn
  BY <1>5, <1>a DEF ServeBulkIn
<1>6. CASE usb_cdc_try_write
  BY <1>6 DEF usb_cdc_try_write, BusyHasPacket, Endpoint, USB_CDC_IN_EP
<1>7. CASE BusEvent
  <2>1. UNCHANGED cdc_in_busy
    BY <1>7 DEF BusEvent, swvars, configvars
  <2>2. CASE HwIn(USB_CDC_IN_EP) \/ HwReset
    BY <2>2 DEF HwIn, HwReset, BusyHasPacket
  <2>3. CASE (\E r \in Setups : HwSetup(r)) \/ HwIn(USB_EP0)
    BY <2>1, <2>3, <1>b DEF HwSetup, HwIn, Endpoint, USB_EP0, USB_CDC_IN_EP
  <2>4. CASE \/ \E n \in OutCounts, c \in LineCodings : HwOut0(n, c)
             \/ HwOutBulk \/ HwSuspend \/ HwResume
             \/ \E flag \in {"ERR", "PMAOVR"} : HwError(flag)
    <3>1. UNCHANGED <<stat_tx, ctr_tx>> /\ ("RESET" \in istr => "RESET" \in istr')
      BY <2>4 DEF HwOut0, HwOutBulk, HwSuspend, HwResume, HwError, InterruptPending
    <3>. QED BY <2>1, <3>1, <1>b
  <2>. QED BY <1>7, <2>2, <2>3, <2>4 DEF BusEvent, HwNext
<1>8. CASE \/ EnterHandler \/ EnterTransfers \/ LeaveTransfers \/ LeaveHandler
           \/ HandleError \/ HandleWakeup \/ HandleSuspend \/ UNCHANGED vars
  <2>1. /\ UNCHANGED <<stat_tx, ctr_tx, cdc_in_busy>>
        /\ "RESET" \in istr => "RESET" \in istr'
    BY <1>8 DEF EnterHandler, EnterTransfers, LeaveTransfers, LeaveHandler, HandleError,
                HandleWakeup, HandleSuspend, Handling, hwvars, swvars, configvars, vars
  <2>. QED BY <2>1, <1>b
<1>. QED
  BY <1>1, <1>2, <1>3, <1>4, <1>5, <1>6, <1>7, <1>8
  DEF Next, USB_LP_CAN1_RX0_IRQHandler, handle_correct_transfer

(* Unless the host halts the IN endpoint, the completion of the packet in   *)
(* flight can always come.                                                  *)
THEOREM BusyFulfilled ==
  ASSUME NoHaltOfIn
  PROVE  Spec => []BusyHasPacket
<1>1. Init => BusyHasPacket
  BY DEF Init, BusyHasPacket
<1>2. TypeOK /\ BusyHasPacket /\ [Next]_vars => BusyHasPacket'
  BY BusyStep
<1>. QED BY <1>1, <1>2, TypeCorrect, PTL DEF Spec

-----------------------------------------------------------------------------
(* The steps that are not the handler's work on endpoint 0.                *)
Elsewhere == UNCHANGED <<usb_configured, ep0_state, outvars, datavars, addressvars>>

LEMMA ElsewhereSteps ==
  ASSUME \/ EnterHandler \/ EnterTransfers \/ LeaveTransfers \/ LeaveHandler
         \/ HandleError \/ HandleWakeup \/ HandleSuspend
         \/ ServeBulkOut \/ ServeBulkIn
         \/ usb_cdc_try_write \/ BusEvent \/ UNCHANGED vars
  PROVE  Elsewhere
BY DEF Elsewhere, EnterHandler, EnterTransfers, LeaveTransfers, LeaveHandler, HandleError,
       HandleWakeup, HandleSuspend, Handling, ServeBulkOut, ServeBulkIn, usb_cdc_try_write,
       BusEvent, vars, swvars, configvars

LEMMA NextSteps ==
  ASSUME [Next]_vars
  PROVE  \/ usb_bus_reset \/ ServeSetup \/ handle_ep0_out \/ handle_ep0_in
         \/ EnterHandler \/ EnterTransfers \/ LeaveTransfers \/ LeaveHandler
         \/ HandleError \/ HandleWakeup \/ HandleSuspend
         \/ ServeBulkOut \/ ServeBulkIn
         \/ usb_cdc_try_write \/ BusEvent \/ UNCHANGED vars
BY DEF Next, USB_LP_CAN1_RX0_IRQHandler, handle_correct_transfer, usb_cdc_init, HandleReset

LEMMA ServedSetup ==
  ASSUME TypeOK, ServeSetup
  PROVE  ep0_rx.req \in Setups /\ handle_ep0_setup(ep0_rx.req)
BY DEF ServeSetup, TypeOK, HwTypeOK, NoPacket, SetupPackets, SetupPacket, OutPackets

-----------------------------------------------------------------------------
(* Requests leave nothing behind.                                          *)

LEMMA SetupLeavesNothing ==
  ASSUME RequestsLeaveNothing, TypeOK, NEW s \in Setups, handle_ep0_setup(s)
  PROVE  RequestsLeaveNothing'
<1>1. CASE SetAddress(s)
  BY <1>1 DEF SetAddress, ep0_start_status_in, RequestsLeaveNothing
<1>2. CASE SetLineCoding(s)
  BY <1>2 DEF SetLineCoding, IsSetLineCoding, IsCdc, ep0_start_data_out, configvars,
              RequestsLeaveNothing
<1>3. CASE /\ \/ GetStatus(s) \/ GetDescriptor(s) \/ GetConfiguration(s)
              \/ GetInterface(s) \/ GetLineCoding(s)
              \/ SetConfiguration(s) \/ SetControlLineState(s)
              \/ EndpointHalt(s) \/ SetInterfaceOrSendBreak(s)
              \/ StallRequest(s)
           /\ pending_address_valid' = FALSE
           /\ ep0_out_action' = "NONE"
  <2>1. ep0_state' # "DATA_OUT"
    <3>1. CASE \/ GetStatus(s) \/ GetDescriptor(s) \/ GetConfiguration(s)
               \/ GetInterface(s) \/ GetLineCoding(s)
      <4>1. \E a, b, c : ep0_start_data_in(a, b, c)
        BY <3>1 DEF GetStatus, GetDescriptor, GetConfiguration, GetInterface, GetLineCoding
      <4>. QED BY <4>1 DEF ep0_start_data_in
    <3>2. CASE \/ SetConfiguration(s) \/ SetControlLineState(s)
               \/ EndpointHalt(s) \/ SetInterfaceOrSendBreak(s)
      BY <3>2 DEF SetConfiguration, non_control_endpoints_set_configured, SetControlLineState,
                  EndpointHalt, endpoint_set_halt, SetInterfaceOrSendBreak,
                  ep0_start_status_in
    <3>3. CASE StallRequest(s)
      BY <3>3 DEF StallRequest, ep0_stall
    <3>. QED BY <1>3, <3>1, <3>2, <3>3
  <2>. QED BY <1>3, <2>1 DEF RequestsLeaveNothing
<1>. QED BY <1>1, <1>2, <1>3 DEF handle_ep0_setup

LEMMA LeaveNothingStep ==
  ASSUME TypeOK, RequestsLeaveNothing, [Next]_vars
  PROVE  RequestsLeaveNothing'
<1>1. CASE usb_bus_reset
  BY <1>1 DEF usb_bus_reset, RequestsLeaveNothing
<1>2. CASE ServeSetup
  BY <1>2, ServedSetup, SetupLeavesNothing
<1>3. CASE handle_ep0_out
  <2>1. UNCHANGED <<configvars, ep0_out_expected, addressvars>>
    BY <1>3 DEF handle_ep0_out
  <2>2. CASE /\ DataOutComplete /\ ep0_out_action' = "NONE"
             /\ ep0_start_status_in(stat_tx, stat_rx)
    BY <2>1, <2>2 DEF ep0_start_status_in, RequestsLeaveNothing
  <2>3. CASE StatusOutComplete /\ ep0_wait_out("IDLE") /\ UNCHANGED ep0_out_action
    BY <2>1, <2>3 DEF StatusOutComplete, ep0_wait_out, RequestsLeaveNothing, addressvars
  <2>4. CASE ep0_stall /\ UNCHANGED ep0_out_action
    BY <2>1, <2>4 DEF ep0_stall, RequestsLeaveNothing, addressvars
  <2>. QED BY <1>3, <2>2, <2>3, <2>4 DEF handle_ep0_out
<1>4. CASE handle_ep0_in
  <2>1. UNCHANGED <<configvars, outvars>>
    BY <1>4 DEF handle_ep0_in
  <2>2. CASE handle_ep0_in_data
    <3>1. ep0_state = "DATA_IN" /\ ep0_state' \in {"DATA_IN", "STATUS_OUT"}
          /\ UNCHANGED addressvars
      BY <2>2 DEF handle_ep0_in_data, ep0_wait_out
    <3>. QED BY <2>1, <3>1 DEF RequestsLeaveNothing, outvars, addressvars
  <2>3. CASE handle_ep0_in_status
    BY <2>1, <2>3 DEF handle_ep0_in_status, ep0_wait_out, RequestsLeaveNothing, outvars
  <2>4. CASE UNCHANGED <<ep0_state, addressvars>>
    BY <2>1, <2>4 DEF RequestsLeaveNothing, configvars, outvars, addressvars
  <2>. QED BY <1>4, <2>2, <2>3, <2>4 DEF handle_ep0_in
<1>5. CASE Elsewhere
  BY <1>5 DEF Elsewhere, RequestsLeaveNothing, outvars, addressvars
<1>. QED BY <1>1, <1>2, <1>3, <1>4, <1>5, NextSteps, ElsewhereSteps

(* No request leaves an address or an awaited data stage to a later one.   *)
THEOREM NothingLeft == Spec => []RequestsLeaveNothing
<1>1. Init => RequestsLeaveNothing
  BY DEF Init, RequestsLeaveNothing
<1>2. TypeOK /\ RequestsLeaveNothing /\ [Next]_vars => RequestsLeaveNothing'
  BY LeaveNothingStep
<1>. QED BY <1>1, <1>2, TypeCorrect, PTL DEF Spec

-----------------------------------------------------------------------------
(* Reads stay within the buffer they read.                                 *)

Fits(packet) ==
  packet.pid = "IN" =>
    /\ packet.length <= MaxPacket
    /\ packet.offset + packet.length <= BufferSize(packet.source.name)

LEMMA BufferSizes ==
  ASSUME NEW source \in Buffers
  PROVE  BufferSize(source.name) \in Nat
<1>1. source.name \in BufferName
  BY DEF Buffers
<1>2. CASE \E d \in Descriptors : d.name = source.name
  BY <1>2, DescriptorSize, DescriptorLength
<1>3. CASE source.name \in {"NULL", "status", "configuration_value", "interface",
                            "line_coding"}
  BY <1>3, ReplySize
<1>. QED BY <1>1, <1>2, <1>3 DEF BufferName, Descriptors

LEMMA NoPacketFits == Fits(NoPacket)
BY DEF Fits, NoPacket

LEMMA ZeroLengthPacketFits == Fits(ZeroLengthPacket)
BY ReplySize, MaxPacketAssumption DEF Fits, ZeroLengthPacket, InPacket, Buffer

LEMMA FirstPacketFits ==
  ASSUME DataIn
  PROVE  ReadsInBounds'
<1>1. PICK source \in Buffers, requested \in Nat :
             /\ BufferSize(source.name) \in Nat
             /\ ep0_start_data_in(source, BufferSize(source.name), requested)
  BY DEF DataIn
<1>. DEFINE size == BufferSize(source.name)
            length == minimum_u16(size, requested)
            first == minimum_u16(length, MaxPacket)
<1>2. length \in Nat /\ length <= size
  BY <1>1, Minimum
<1>3. first \in Nat /\ first <= length /\ first <= MaxPacket
  BY <1>2, Minimum, MaxPacketAssumption
<1>4. /\ ep0_state' = "DATA_IN"
      /\ ep0_tx_data' = [source |-> source, offset |-> first]
      /\ ep0_tx_remaining' = length - first
      /\ ep0_tx' = IF length = 0 THEN ZeroLengthPacket ELSE InPacket(source, 0, first)
  BY <1>1 DEF ep0_start_data_in
<1>. size \in Nat
  BY <1>1
<1>. HIDE DEF size, length, first
<1>5. first + (length - first) <= size /\ 0 + first <= size
  BY <1>2, <1>3
<1>6. /\ ep0_tx_data'.offset = first /\ ep0_tx_data'.source.name = source.name
      /\ BufferSize(source.name) = size
  BY <1>4 DEF size
<1>7. ep0_tx_data'.offset + ep0_tx_remaining' <= BufferSize(ep0_tx_data'.source.name)
  BY <1>4, <1>5, <1>6
<1>8. Fits(InPacket(source, 0, first))
  BY <1>3, <1>5, <1>6 DEF Fits, InPacket
<1>9. Fits(ep0_tx')
  BY <1>4, <1>8, ZeroLengthPacketFits
<1>. QED BY <1>7, <1>9 DEF ReadsInBounds, Fits

LEMMA NextPacketFits ==
  ASSUME TypeOK, ReadsInBounds, ep0_state = "DATA_IN", UNCHANGED ep0_state,
         ep0_send_next_data_packet
  PROVE  ReadsInBounds'
<1>. DEFINE length == minimum_u16(ep0_tx_remaining, MaxPacket)
            offset == ep0_tx_data.offset
            source == ep0_tx_data.source
            size == BufferSize(source.name)
<1>1. length \in Nat /\ length <= ep0_tx_remaining /\ length <= MaxPacket
  BY Minimum, MaxPacketAssumption DEF TypeOK
<1>2. ep0_tx_data \in [source : Buffers, offset : Nat] /\ ep0_tx_remaining \in Nat
  BY DEF TypeOK
<1>3. /\ ep0_tx' = InPacket(source, offset, length)
      /\ ep0_tx_data' = [ep0_tx_data EXCEPT !.offset = @ + length]
      /\ ep0_tx_remaining' = ep0_tx_remaining - length
  BY DEF ep0_send_next_data_packet
<1>. HIDE DEF length
<1>4. /\ ep0_tx_data'.offset = offset + length
      /\ ep0_tx_data'.source = source
  BY <1>2, <1>3
<1>5. offset + ep0_tx_remaining <= size
  BY DEF ReadsInBounds
<1>6. size \in Nat
  <2>1. source \in Buffers
    BY <1>2
  <2>. QED BY <2>1, BufferSizes
<1>7. (offset + length) + (ep0_tx_remaining - length) <= size /\ offset + length <= size
  BY <1>1, <1>2, <1>5, <1>6
<1>. QED BY <1>1, <1>3, <1>4, <1>7 DEF ReadsInBounds, InPacket

LEMMA ReadsStep ==
  ASSUME TypeOK, ReadsInBounds, [Next]_vars
  PROVE  ReadsInBounds'
<1>a. ep0_state' # "DATA_IN" /\ Fits(ep0_tx') => ReadsInBounds'
  BY DEF ReadsInBounds, Fits
<1>b. ep0_state' # "DATA_IN" /\ ep0_tx' \in {NoPacket, ZeroLengthPacket} => ReadsInBounds'
  BY <1>a, NoPacketFits, ZeroLengthPacketFits
<1>c. UNCHANGED <<ep0_state, datavars>> /\ ep0_tx' \in {NoPacket, ep0_tx} => ReadsInBounds'
  BY NoPacketFits DEF ReadsInBounds, Fits, datavars
<1>1. CASE usb_bus_reset
  BY <1>1, <1>b DEF usb_bus_reset
<1>2. CASE ServeSetup
  <2>1. CASE DataIn
    BY <2>1, FirstPacketFits
  <2>2. CASE StatusIn \/ ep0_start_data_out(7, "SET_LINE_CODING") \/ ep0_stall
    BY <2>2, <1>b DEF StatusIn, ep0_start_status_in, ep0_start_data_out, ep0_stall
  <2>. QED BY <1>2, <2>1, <2>2, ServedSetup, SetupResponse
<1>3. CASE handle_ep0_out
  BY <1>3, <1>b DEF handle_ep0_out, ep0_start_status_in, ep0_wait_out, ep0_stall
<1>4. CASE handle_ep0_in
  <2>1. CASE /\ ep0_state = "DATA_IN" /\ UNCHANGED ep0_state
             /\ ep0_send_next_data_packet
    BY <2>1, NextPacketFits
  <2>2. CASE /\ ep0_state = "DATA_IN" /\ UNCHANGED <<ep0_state, ep0_tx_data, ep0_tx_remaining>>
             /\ ep0_tx' = ZeroLengthPacket
    BY <2>2, ZeroLengthPacketFits DEF ReadsInBounds, Fits
  <2>3. CASE ep0_wait_out("STATUS_OUT") \/ ep0_wait_out("IDLE")
    BY <2>3, <1>b DEF ep0_wait_out
  <2>4. CASE UNCHANGED <<ep0_state, ep0_tx, datavars>>
    BY <2>4, <1>c
  <2>. QED
    BY <1>4, <2>1, <2>2, <2>3, <2>4
    DEF handle_ep0_in, handle_ep0_in_data, handle_ep0_in_status
<1>5. CASE BusEvent
  <2>1. ep0_tx' \in {NoPacket, ep0_tx}
    BY <1>5 DEF BusEvent, HwNext, HwSetup, HwOut0, HwOutBulk, HwIn, HwReset, HwSuspend,
                HwResume, HwError
  <2>. QED BY <1>5, <2>1, <1>c, ElsewhereSteps DEF Elsewhere
<1>6. CASE \/ EnterHandler \/ EnterTransfers \/ LeaveTransfers \/ LeaveHandler
           \/ HandleError \/ HandleWakeup \/ HandleSuspend
           \/ ServeBulkOut \/ ServeBulkIn
           \/ usb_cdc_try_write \/ UNCHANGED vars
  <2>1. UNCHANGED ep0_tx
    BY <1>6 DEF EnterHandler, EnterTransfers, LeaveTransfers, LeaveHandler, HandleError,
       HandleWakeup, HandleSuspend, Handling, ServeBulkOut, ServeBulkIn, usb_cdc_try_write,
       vars, hwvars
  <2>. QED BY <1>6, <2>1, <1>c, ElsewhereSteps DEF Elsewhere
<1>. QED BY <1>1, <1>2, <1>3, <1>4, <1>5, <1>6, NextSteps

(* A control read sends no byte from beyond the end of its buffer.         *)
THEOREM ReadsBounded == Spec => []ReadsInBounds
<1>1. Init => ReadsInBounds
  BY NoPacketFits DEF Init, HwInit, ReadsInBounds, Fits
<1>2. TypeOK /\ ReadsInBounds /\ [Next]_vars => ReadsInBounds'
  BY ReadsStep
<1>. QED BY <1>1, <1>2, TypeCorrect, PTL DEF Spec

-----------------------------------------------------------------------------
(* usb_cdc_connected and the bus.  The invariant behind it: what the driver *)
(* believes, together with the flags it has not seen yet, is the state of   *)
(* the bus.  A reset may leave SUSP behind, and with it the belief that an  *)
(* active bus is suspended; the device is not configured then, and the      *)
(* transfer that would configure it ends the belief.                        *)

TransfersAwake == isr = "ctr" => ~ usb_suspended
SetupUnread == ep0_rx.pid # "NONE" => USB_EP0 \in ctr_rx
NoSetupAtSuspend == "SUSP" \in istr => ep0_rx.pid # "SETUP"
SuspendedSeen ==
  bus = "suspended" =>
    /\ isr # "off" /\ ~ TransferPending
    /\ "RESET" \notin istr /\ "WKUP" \notin istr
    /\ usb_suspended \/ "SUSP" \in istr
ResumeAfterSuspend == "WKUP" \in istr => "SUSP" \notin istr
StaleSuspend ==
  /\ bus = "active" /\ "RESET" \notin istr /\ "WKUP" \notin istr
  /\ usb_suspended \/ "SUSP" \in istr
  => ~ usb_configured

BusInv ==
  /\ TransfersAwake /\ SetupUnread /\ NoSetupAtSuspend
  /\ SuspendedSeen /\ ResumeAfterSuspend /\ StaleSuspend

LEMMA BusInvEvent ==
  ASSUME TypeOK, BusInv, BusEvent
  PROVE  BusInv'
<1>. USE DEF BusInv, TransfersAwake, SetupUnread, NoSetupAtSuspend, SuspendedSeen,
             ResumeAfterSuspend, StaleSuspend, TransferPending, InterruptPending
<1>1. isr # "off" /\ UNCHANGED <<isr, usb_suspended, usb_configured>>
  BY DEF BusEvent, swvars, configvars
<1>2. CASE \/ \E r \in Setups : HwSetup(r)
           \/ \E n \in OutCounts, c \in LineCodings : HwOut0(n, c)
  BY <1>1, <1>2 DEF HwSetup, HwOut0, Reachable, SetupPacket, OutPacket
<1>3. CASE HwOutBulk \/ HwIn(USB_EP0) \/ HwIn(USB_CDC_IN_EP)
  BY <1>1, <1>3 DEF HwOutBulk, HwIn, Reachable
<1>4. CASE HwReset
  BY <1>1, <1>4 DEF HwReset, OutPacket
<1>5. CASE HwSuspend
  BY <1>1, <1>5 DEF HwSuspend, Reachable
<1>6. CASE HwResume
  BY <1>1, <1>6 DEF HwResume
<1>7. CASE \E flag \in {"ERR", "PMAOVR"} : HwError(flag)
  BY <1>1, <1>7 DEF HwError, Reachable
<1>. QED BY <1>2, <1>3, <1>4, <1>5, <1>6, <1>7 DEF BusEvent, HwNext

LEMMA BusInvStep ==
  ASSUME TypeOK, BusInv, [Next]_vars
  PROVE  BusInv'
<1>. USE DEF BusInv, TransfersAwake, SetupUnread, NoSetupAtSuspend, SuspendedSeen,
             ResumeAfterSuspend, StaleSuspend, TransferPending
<1>1. CASE usb_cdc_init \/ HandleReset
  <2>1. /\ usb_configured' = FALSE /\ isr' \in {"idle", "irq"}
        /\ UNCHANGED <<ctr_rx, ctr_tx, bus>> /\ istr' \subseteq istr
        /\ isr = "off" \/ "RESET" \in istr
    BY <1>1 DEF usb_cdc_init, HandleReset, usb_bus_reset
  <2>2. ep0_rx'.pid = ep0_rx.pid
    BY <1>1 DEF usb_cdc_init, HandleReset, usb_bus_reset, OutPacket
  <2>. QED BY <2>1, <2>2
<1>2. CASE ServeSetup \/ handle_ep0_out
  <2>1. /\ isr = "ctr" /\ UNCHANGED <<isr, istr, bus, usb_suspended, ctr_tx>>
        /\ ctr_rx' \subseteq ctr_rx /\ ctr_rx # {}
        /\ ep0_rx'.pid = "NONE"
    BY <1>2 DEF ServeSetup, handle_ep0_out, ClearRx, NoPacket
  <2>2. "SUSP" \in istr => UNCHANGED usb_configured
    BY <1>2 DEF ServeSetup, handle_ep0_out, configvars
  <2>. QED BY <2>1, <2>2
<1>3. CASE handle_ep0_in \/ ServeBulkOut \/ ServeBulkIn
  <2>1. /\ UNCHANGED <<isr, istr, bus, usb_suspended, ep0_rx, usb_configured>>
        /\ ctr_rx' \in {ctr_rx, ctr_rx \ {USB_CDC_OUT_EP}} /\ ctr_tx' \subseteq ctr_tx
    BY <1>3 DEF handle_ep0_in, ServeBulkOut, ServeBulkIn, ClearRx, ClearTx, configvars
  <2>. QED BY <2>1 DEF USB_EP0, USB_CDC_OUT_EP
<1>4. CASE EnterHandler \/ LeaveTransfers \/ LeaveHandler
  BY <1>4 DEF EnterHandler, LeaveTransfers, LeaveHandler, hwvars, swvars, configvars
<1>5. CASE EnterTransfers
  BY <1>5 DEF EnterTransfers, hwvars, configvars
<1>6. CASE HandleError \/ HandleWakeup \/ HandleSuspend
  <2>1. /\ isr = "irq" /\ UNCHANGED <<isr, bus, ctr_rx, ctr_tx, ep0_rx, usb_configured>>
        /\ istr' \subseteq istr /\ "RESET" \notin istr
    BY <1>6 DEF HandleError, HandleWakeup, HandleSuspend, Handling, configvars
  <2>2. CASE HandleError
    <3>1. UNCHANGED usb_suspended
          /\ ("SUSP" \in istr => "SUSP" \in istr') /\ ("WKUP" \in istr => "WKUP" \in istr')
      BY <2>2 DEF HandleError, Handling
    <3>. QED BY <2>1, <3>1
  <2>3. CASE HandleWakeup
    BY <2>1, <2>3 DEF HandleWakeup, Handling
  <2>4. CASE HandleSuspend
    BY <2>1, <2>4 DEF HandleSuspend, Handling
  <2>. QED BY <1>6, <2>2, <2>3, <2>4
<1>7. CASE usb_cdc_try_write
  BY <1>7 DEF usb_cdc_try_write
<1>8. CASE BusEvent
  BY <1>8, BusInvEvent
<1>9. CASE UNCHANGED vars
  BY <1>9 DEF vars, hwvars, swvars, configvars
<1>. QED
  BY <1>1, <1>2, <1>3, <1>4, <1>5, <1>6, <1>7, <1>8, <1>9
  DEF Next, USB_LP_CAN1_RX0_IRQHandler, handle_correct_transfer

(* Once the handler has caught up, the driver's view of the bus is right.  *)
THEOREM ConnectedIsTrue == Spec => []ConnectedTracksBus
<1>1. Init => BusInv
  BY DEF Init, HwInit, BusInv, TransfersAwake, SetupUnread, NoSetupAtSuspend, SuspendedSeen,
         ResumeAfterSuspend, StaleSuspend, NoPacket
<1>2. TypeOK /\ BusInv /\ [Next]_vars => BusInv'
  BY BusInvStep
<1>3. TypeOK /\ BusInv => ConnectedTracksBus
  <2>1. TypeOK => /\ usb_configured \in BOOLEAN /\ usb_dtr_asserted \in BOOLEAN
                  /\ usb_suspended \in BOOLEAN /\ bus \in {"active", "suspended"}
    BY DEF TypeOK, HwTypeOK
  <2>. QED
    BY <2>1 DEF BusInv, SuspendedSeen, StaleSuspend, ConnectedTracksBus, InterruptPending,
                usb_cdc_connected
<1>. QED BY <1>1, <1>2, <1>3, TypeCorrect, PTL DEF Spec

-----------------------------------------------------------------------------
(* The driver and its host.  The argument is one invariant that says for    *)
(* each stage of the host's transfer where the driver may be in it, packet  *)
(* for packet.                                                              *)

HostTypeOK ==
  /\ h_stage \in {"none", "data_in", "data_out", "status_in", "status_out"}
  /\ h_stage # "none" => h_req \in Setups
  /\ h_got \in Nat /\ h_dup \in BOOLEAN
  /\ h_sent \in LineCodings

(* After a reset the host starts afresh.                                   *)
AfterReset ==
  "RESET" \in istr \/ isr = "off" => h_stage = "none" /\ h_addr = 0 /\ h_config = {0}

(* A SETUP not served yet is the host's request, and all there is.         *)
SetupIsRequest ==
  ep0_rx.pid = "SETUP" =>
    /\ "RESET" \notin istr
    /\ USB_EP0 \in ctr_rx /\ USB_EP0 \notin ctr_tx
    /\ stat_tx[USB_EP0] = "NAK" /\ stat_rx[USB_EP0] = "NAK"
    /\ h_req = ep0_rx.req /\ h_stage = FirstStage(h_req)
    /\ h_got = 0 /\ ~ h_dup
    /\ configuration_value \in h_config

NoTransfer == USB_EP0 \notin ctr_rx /\ USB_EP0 \notin ctr_tx

Refused ==
  /\ ~ Handled(h_req)
  /\ NoTransfer /\ ep0_state = "STALLED"
  /\ configuration_value \in h_config
  /\ h_stage # "status_out"

(* The data stage of a control read.  The driver sends Total bytes, and     *)
(* then a packet of none if the last one was full and the host asked for    *)
(* more.                                                                    *)
Total == minimum_u16(BufferSize(ReadName(h_req)), h_req.length)

MoreExpected ==
  ep0_tx_needs_zlp <=> Total < h_req.length /\ ep0_tx_remaining % MaxPacket = 0

(* The packet on offer is the next one the host expects ...                 *)
Offered ==
  /\ h_stage = "data_in" /\ ~ h_dup
  /\ USB_EP0 \notin ctr_tx /\ stat_tx[USB_EP0] = "VALID"
  /\ ep0_tx.pid = "IN"
  /\ h_got + ep0_tx.length = ep0_tx_data.offset
  /\ ep0_tx.length > 0 => ep0_tx.source.name = ReadName(h_req) /\ ep0_tx.offset = h_got
  /\ \/ ep0_tx.length < MaxPacket /\ ep0_tx_remaining = 0 /\ ~ ep0_tx_needs_zlp
     \/ ep0_tx.length = MaxPacket /\ MoreExpected

(* ... or the host has it, and the driver may not know that yet.            *)
Taken ==
  /\ h_got = ep0_tx_data.offset
  /\ \/ h_dup /\ USB_EP0 \notin ctr_tx /\ stat_tx[USB_EP0] = "VALID"
     \/ ~ h_dup /\ USB_EP0 \in ctr_tx /\ stat_tx[USB_EP0] = "NAK"
  /\ \/ h_stage = "data_in" /\ h_got < h_req.length /\ MoreExpected
     \/ h_stage = "status_out" /\ ep0_tx_remaining = 0 /\ ~ ep0_tx_needs_zlp

Sending ==
  /\ ep0_state = "DATA_IN"
  /\ ep0_tx_data.source.name = ReadName(h_req)
  /\ ep0_tx_data.offset + ep0_tx_remaining = Total
  /\ Offered \/ Taken

Sent ==
  /\ ep0_state = "STATUS_OUT" /\ h_stage = "status_out" /\ h_got = Total
  /\ USB_EP0 \notin ctr_tx

Reading ==
  /\ Readable(h_req)
  /\ USB_EP0 \notin ctr_rx
  /\ configuration_value \in h_config
  /\ Sending \/ Sent

(* SET_LINE_CODING: the driver waits for the line coding, or has it.        *)
Receiving ==
  /\ h_req.request = "SET_LINE_CODING" /\ h_req.length = 7
  /\ ep0_state = "DATA_OUT"
  /\ ep0_out_action = "SET_LINE_CODING" /\ ep0_out_expected = 7
  /\ USB_EP0 \notin ctr_tx /\ ~ h_dup /\ h_got = 0
  /\ configuration_value \in h_config
  /\ stat_tx[USB_EP0] = "NAK"
  /\ \/ h_stage = "data_out" /\ USB_EP0 \notin ctr_rx
     \/ /\ h_stage = "status_in" /\ USB_EP0 \in ctr_rx
        /\ ep0_rx = OutPacket(7, h_sent)

(* The status stage of a request without a read: it has been followed.  A   *)
(* read of nothing looks like one to the host.                              *)
Finishing ==
  /\ h_stage = "status_in" /\ ~ h_dup
  /\ NoTransfer /\ stat_tx[USB_EP0] = "VALID"
  /\ ep0_state \in {"STATUS_IN", "DATA_IN"}
  /\ pending_address_valid => Sets(h_req, "SET_ADDRESS") /\ pending_address = h_req.value
  /\ IF Sets(h_req, "SET_CONFIGURATION") THEN configuration_value = h_req.value
                                         ELSE configuration_value \in h_config
  /\ h_req.request = "SET_LINE_CODING" => line_coding = h_sent
  /\ h_got = 0 /\ Available(h_req) = 0

InTransfer ==
  "RESET" \notin istr /\ h_stage # "none" /\ ep0_rx.pid # "SETUP" =>
    Refused \/ Reading \/ Receiving \/ Finishing

(* Between transfers: the status stage of a SET_ADDRESS that the driver has *)
(* not seen the end of, is over for the host.                               *)
AddressKnown ==
  /\ "RESET" \notin istr /\ pending_address_valid
  /\ ep0_state = "STATUS_IN" /\ USB_EP0 \in ctr_tx
  => h_addr = pending_address

Between ==
  "RESET" \notin istr /\ h_stage = "none" => configuration_value \in h_config

LinkInv ==
  /\ HostTypeOK
  /\ AfterReset /\ SetupIsRequest /\ InTransfer /\ AddressKnown /\ Between

-----------------------------------------------------------------------------
(* Arithmetic of packets.                                                  *)

LEMMA Remainder ==
  ASSUME NEW r \in Nat, NEW m \in Nat \ {0}
  PROVE  /\ r < m => r % m = r
         /\ m <= r => (r - m) % m = r % m
<1>1. ASSUME r < m PROVE r % m = r
  BY <1>1
<1>2. ASSUME m <= r PROVE (r - m) % m = r % m
  <2>. DEFINE q == r \div m
              t == r % m
              p == (r - m) \div m
              s == (r - m) % m
  <2>1. q \in Int /\ t \in 0 .. m - 1 /\ r = m * q + t
    OBVIOUS
  <2>2. p \in Int /\ s \in 0 .. m - 1 /\ r - m = m * p + s
    <3>1. r - m \in Nat
      BY <1>2
    <3>. QED BY <3>1
  <2>. HIDE DEF q, t, p, s
  <2>3. ASSUME NEW d \in Int, d # 0 PROVE m * d >= m \/ m * d <= 0 - m
    <3>1. CASE d >= 1
      BY <3>1
    <3>2. CASE d <= -1
      BY <3>2
    <3>. QED BY <2>3, <3>1, <3>2
  <2>4. m * (q - 1 - p) = s - t
    <3>1. m * (q - 1 - p) = m * q - m - m * p
      BY <2>1, <2>2
    <3>. QED BY <3>1, <2>1, <2>2
  <2>5. q - 1 - p = 0
    BY <2>1, <2>2, <2>3, <2>4
  <2>6. s = t
    BY <2>1, <2>2, <2>4, <2>5
  <2>. QED BY <2>6 DEF s, t
<1>. QED BY <1>1, <1>2

LEMMA Stages ==
  ASSUME NEW r \in Setups
  PROVE  /\ r.length = 0 => FirstStage(r) = "status_in"
         /\ r.length > 0 /\ r.dir = "IN" => FirstStage(r) = "data_in"
         /\ r.length > 0 /\ r.dir = "OUT" => FirstStage(r) = "data_out"
         /\ FirstStage(r) \in {"data_in", "data_out", "status_in"}
<1>1. r.length \in Nat /\ r.dir \in {"OUT", "IN"}
  BY SetupFields, SetupsAssumption DEF SetupType
<1>. QED BY <1>1 DEF FirstStage

(* find_descriptor finds at most one descriptor.                           *)
LEMMA ReadDescriptorName ==
  ASSUME NEW r, r.request = "GET_DESCRIPTOR", NEW d \in find_descriptor(r.value)
  PROVE  ReadName(r) = d.name
<1>1. \A e \in find_descriptor(r.value) : e = d
  BY DEF find_descriptor, Descriptors
<1>2. (CHOOSE e \in find_descriptor(r.value) : TRUE) = d
  BY <1>1
<1>. QED BY <1>2 DEF ReadName

-----------------------------------------------------------------------------
(* The driver at the end of the link behaves as before, whatever the length *)
(* of the packet the host sends.                                           *)

AnyOut ==
  /\ isr # "off" /\ UNCHANGED <<swvars, isr>>
  /\ \E n \in Nat, c \in LineCodings : HwOut0(n, c)

LEMMA LinkSteps ==
  ASSUME HostTypeOK, [LinkNext]_linkvars
  PROVE  [Next]_vars \/ AnyOut
<1>. USE DEF Addressed
<1>1. CASE usb_cdc_init \/ Device \/ usb_cdc_try_write
  BY <1>1 DEF Next, Device
<1>2. CASE (\E r \in Setups : HostSetup(r)) \/ HostDataIn \/ HostStatusIn \/ HostDuplicate
  BY <1>2 DEF HostSetup, HostDataIn, HostStatusIn, HostDuplicate, Next, BusEvent, HwNext
<1>3. CASE HostReset \/ HostSuspend \/ HostResume \/ HostBulk
  BY <1>3 DEF HostReset, HostSuspend, HostResume, HostBulk, Next, BusEvent, HwNext
<1>4. ASSUME NEW c \in LineCodings, HostDataOut(c) PROVE AnyOut
  <2>1. h_req.length \in Nat
    BY <1>4, SetupFields DEF HostDataOut, HostTypeOK
  <2>. QED BY <1>4, <2>1 DEF HostDataOut, AnyOut
<1>5. CASE HostStatusOut
  BY <1>5 DEF HostStatusOut, AnyOut, HostTypeOK
<1>6. CASE HostAckLost \/ HostStalled
  BY <1>6 DEF HostAckLost, HostStalled, vars
<1>7. CASE UNCHANGED linkvars
  BY <1>7 DEF linkvars
<1>. QED
  BY <1>1, <1>2, <1>3, <1>4, <1>5, <1>6, <1>7 DEF LinkNext, HostNext, HostContinue

DriverInv == TypeOK /\ Ep0Answers /\ RequestsLeaveNothing

LEMMA DriverStep ==
  ASSUME DriverInv, HostTypeOK, [LinkNext]_linkvars
  PROVE  DriverInv'
<1>1. CASE [Next]_vars
  BY <1>1, TypeStep, Ep0AnswersStep, LeaveNothingStep DEF DriverInv
<1>2. CASE AnyOut
  <2>1. PICK n \in Nat, c \in LineCodings : HwOut0(n, c)
    BY <1>2 DEF AnyOut
  <2>2. HwTypeOK'
    BY <2>1 DEF DriverInv, TypeOK, HwTypeOK, HwOut0, OutPacket, OutPackets, Endpoint, Status,
                USB_EP0
  <2>3. TypeOK'
    BY <1>2, <2>2 DEF AnyOut, DriverInv, TypeOK, swvars, configvars, outvars, datavars,
                      addressvars
  <2>4. Ep0Answers'
    BY <2>1 DEF HwOut0, Ep0Answers
  <2>5. RequestsLeaveNothing'
    BY <1>2 DEF AnyOut, DriverInv, RequestsLeaveNothing, swvars, configvars, outvars,
                addressvars
  <2>. QED BY <2>3, <2>4, <2>5 DEF DriverInv
<1>. QED BY <1>1, <1>2, LinkSteps

-----------------------------------------------------------------------------
(* Steps that do not concern endpoint 0.                                   *)

LEMMA HandledKept ==
  ASSUME UNCHANGED <<usb_configured, h_req>>
  PROVE  Handled(h_req)' <=> Handled(h_req)
BY DEF Handled, IsGetStatus, IsGetDescriptor, IsGetConfiguration, IsGetInterface,
       IsGetLineCoding, IsSetAddress, IsSetConfiguration, IsSetInterface, IsEndpointHalt,
       IsSetLineCoding, IsSetControlLineState, IsSendBreak, IsCdc, Is, EndpointNamed

Ep0Kept ==
  /\ UNCHANGED <<hostvars, usb_configured, configuration_value, usb_dtr_asserted, ep0_state, outvars,
                 datavars, addressvars, line_coding, ep0_rx, ep0_tx>>
  /\ stat_tx'[USB_EP0] = stat_tx[USB_EP0] /\ stat_rx'[USB_EP0] = stat_rx[USB_EP0]
  /\ USB_EP0 \in ctr_rx' <=> USB_EP0 \in ctr_rx
  /\ USB_EP0 \in ctr_tx' <=> USB_EP0 \in ctr_tx
  /\ "RESET" \in istr' <=> "RESET" \in istr
  /\ isr' = "off" <=> isr = "off"

LEMMA Frame ==
  ASSUME LinkInv, Ep0Kept
  PROVE  LinkInv'
<1>. USE DEF Ep0Kept, hostvars, outvars, datavars, addressvars
<1>1. HostTypeOK' /\ AfterReset' /\ SetupIsRequest' /\ AddressKnown' /\ Between'
  BY DEF LinkInv, HostTypeOK, AfterReset, SetupIsRequest, AddressKnown, Between
<1>2. Refused => Refused'
  BY HandledKept DEF Refused, NoTransfer
<1>3. Reading => Reading'
  <2>1. Total' = Total
    BY DEF Total
  <2>2. MoreExpected' <=> MoreExpected
    BY <2>1 DEF MoreExpected
  <2>3. Offered => Offered'
    BY <2>2 DEF Offered
  <2>4. Taken => Taken'
    BY <2>2 DEF Taken
  <2>. QED BY <2>1, <2>3, <2>4 DEF Reading, Readable, Sending, Sent
<1>4. Receiving => Receiving'
  BY DEF Receiving
<1>5. Finishing => Finishing'
  BY DEF Finishing, NoTransfer
<1>. QED BY <1>1, <1>2, <1>3, <1>4, <1>5 DEF LinkInv, InTransfer

LEMMA KeptSteps ==
  ASSUME DriverInv,
         \/ /\ \/ EnterHandler \/ EnterTransfers \/ LeaveTransfers \/ LeaveHandler
               \/ HandleError \/ HandleWakeup \/ HandleSuspend
               \/ ServeBulkOut \/ ServeBulkIn
               \/ usb_cdc_try_write
            /\ UNCHANGED hostvars
         \/ HostSuspend \/ HostResume \/ HostBulk
         \/ UNCHANGED linkvars
  PROVE  Ep0Kept
<1>. stat_tx \in [Endpoint -> Status] /\ stat_rx \in [Endpoint -> Status]
  BY DEF DriverInv, TypeOK, HwTypeOK
<1>. USE DEF Ep0Kept
<1>1. CASE /\ EnterHandler \/ LeaveTransfers \/ LeaveHandler
           /\ UNCHANGED hostvars
  BY <1>1 DEF EnterHandler, LeaveTransfers, LeaveHandler, hwvars, swvars, configvars
<1>2. CASE EnterTransfers /\ UNCHANGED hostvars
  BY <1>2 DEF EnterTransfers, hwvars, configvars
<1>3. CASE /\ HandleError \/ HandleWakeup \/ HandleSuspend
           /\ UNCHANGED hostvars
  BY <1>3 DEF HandleError, HandleWakeup, HandleSuspend, Handling, configvars
<1>4. CASE ServeBulkOut /\ UNCHANGED hostvars
  BY <1>4 DEF ServeBulkOut, ClearRx, configvars, Endpoint, USB_EP0, USB_CDC_OUT_EP
<1>5. CASE ServeBulkIn /\ UNCHANGED hostvars
  BY <1>5 DEF ServeBulkIn, ClearTx, configvars, Endpoint, USB_EP0, USB_CDC_IN_EP
<1>6. CASE usb_cdc_try_write /\ UNCHANGED hostvars
  BY <1>6 DEF usb_cdc_try_write, Endpoint, USB_EP0, USB_CDC_IN_EP
<1>7. CASE HostSuspend
  BY <1>7 DEF HostSuspend, HwSuspend, InterruptPending, Addressed, swvars, configvars
<1>8. CASE HostResume
  BY <1>8 DEF HostResume, HwResume, swvars, configvars
<1>9. CASE HostBulk
  BY <1>9 DEF HostBulk, HwOutBulk, HwIn, Addressed, swvars, configvars, Endpoint, USB_EP0,
              USB_CDC_OUT_EP, USB_CDC_IN_EP
<1>10. CASE UNCHANGED linkvars
  BY <1>10 DEF linkvars, vars, hwvars, swvars, configvars
<1>. QED BY <1>1, <1>2, <1>3, <1>4, <1>5, <1>6, <1>7, <1>8, <1>9, <1>10

-----------------------------------------------------------------------------
(* The driver's steps on endpoint 0.                                       *)

LEMMA ResetLink ==
  ASSUME DriverInv, LinkInv, UNCHANGED hostvars,
         usb_bus_reset, "RESET" \in istr \/ isr = "off",
         "RESET" \notin istr', isr' # "off"
  PROVE  LinkInv'
<1>1. h_stage = "none" /\ h_config = {0} /\ UNCHANGED <<h_stage, h_config>>
  BY DEF LinkInv, AfterReset, hostvars
<1>2. HostTypeOK' /\ AfterReset'
  BY DEF LinkInv, HostTypeOK, AfterReset, hostvars
<1>3. ep0_rx'.pid # "SETUP"
  <2>1. ep0_rx.pid # "SETUP"
    <3>. SUFFICES ASSUME ep0_rx.pid = "SETUP" PROVE FALSE
      OBVIOUS
    <3>1. ep0_rx.req \in Setups
      BY DEF DriverInv, TypeOK, HwTypeOK, NoPacket, SetupPackets, SetupPacket, OutPackets
    <3>2. h_stage = FirstStage(ep0_rx.req)
      BY DEF LinkInv, SetupIsRequest
    <3>. QED BY <1>1, <3>1, <3>2, Stages
  <2>. QED BY <2>1 DEF usb_bus_reset, OutPacket
<1>4. AddressKnown' /\ Between'
  BY <1>1 DEF usb_bus_reset, AddressKnown, Between
<1>. QED BY <1>1, <1>2, <1>3, <1>4 DEF LinkInv, SetupIsRequest, InTransfer

(* What a request finds, and what serving it leaves alone.                  *)
LEMMA SetupFinds ==
  ASSUME DriverInv, LinkInv, ServeSetup, UNCHANGED hostvars
  PROVE  /\ h_stage = FirstStage(h_req) /\ h_req = ep0_rx.req /\ h_req \in Setups
         /\ h_got = 0 /\ ~ h_dup /\ UNCHANGED <<h_stage, h_req, h_got, h_dup, h_sent>>
         /\ UNCHANGED <<h_addr, h_config, isr, istr, ctr_tx, line_coding>>
         /\ "RESET" \notin istr /\ isr = "ctr"
         /\ NoTransfer' /\ ep0_rx' = NoPacket
         /\ configuration_value \in h_config
         /\ handle_ep0_setup(h_req)
<1>1. ep0_rx.pid = "SETUP" /\ handle_ep0_setup(ep0_rx.req)
  BY DEF ServeSetup
<1>2. h_req = ep0_rx.req /\ h_stage = FirstStage(h_req) /\ h_got = 0 /\ ~ h_dup
      /\ "RESET" \notin istr /\ configuration_value \in h_config /\ USB_EP0 \notin ctr_tx
  BY <1>1 DEF LinkInv, SetupIsRequest
<1>3. h_req \in Setups
  BY <1>2, ServedSetup DEF DriverInv
<1>. QED BY <1>1, <1>2, <1>3 DEF ServeSetup, ClearRx, NoTransfer, hostvars

(* A control read, whatever it reads.                                      *)
LEMMA ReadStarts ==
  ASSUME DriverInv, LinkInv, ServeSetup, UNCHANGED hostvars,
         Readable(h_req), h_req.dir = "IN",
         NEW source \in Buffers, source.name = ReadName(h_req),
         ep0_start_data_in(source, BufferSize(source.name), h_req.length),
         UNCHANGED configvars, ~ pending_address_valid'
  PROVE  Reading' \/ Finishing'
<1>. DEFINE length == minimum_u16(BufferSize(source.name), h_req.length)
            first == minimum_u16(length, MaxPacket)
<1>1. /\ h_req \in Setups /\ h_got = 0 /\ ~ h_dup /\ h_stage = FirstStage(h_req)
      /\ UNCHANGED <<h_stage, h_req, h_got, h_dup, h_config>>
      /\ NoTransfer' /\ configuration_value \in h_config
  BY SetupFinds
<1>2. h_req.length \in Nat /\ BufferSize(source.name) \in Nat /\ MaxPacket \in Nat \ {0}
  BY <1>1, SetupFields, BufferSizes, MaxPacketAssumption
<1>3. /\ length \in Nat /\ length <= h_req.length
      /\ length = Total /\ Total' = Total
  BY <1>1, <1>2, Minimum DEF Total
<1>4. /\ first \in Nat /\ first <= length
      /\ (first < MaxPacket /\ first = length) \/ first = MaxPacket
  BY <1>2, <1>3 DEF minimum_u16
<1>5. /\ ep0_state' = "DATA_IN"
      /\ ep0_tx_data' = [source |-> source, offset |-> first]
      /\ ep0_tx_remaining' = length - first
      /\ ep0_tx_needs_zlp' = (0 < length /\ length < h_req.length /\ length % MaxPacket = 0)
      /\ ep0_tx' = IF length = 0 THEN ZeroLengthPacket ELSE InPacket(source, 0, first)
      /\ ep0_set_status(stat_tx, stat_rx, "VALID", "VALID")
  BY DEF ep0_start_data_in
<1>. HIDE DEF length, first
<1>6. stat_tx'[USB_EP0] = "VALID"
  BY <1>5, SetStatus DEF DriverInv, TypeOK, HwTypeOK
<1>7. ~ Sets(h_req, "SET_CONFIGURATION") /\ h_req.request # "SET_LINE_CODING"
      /\ UNCHANGED configuration_value
  BY DEF Readable, Sets, configvars
<1>8. CASE h_req.length = 0
  <2>1. h_stage' = "status_in"
    BY <1>1, <1>8, Stages
  <2>2. Available(h_req) = 0
    BY <1>2, <1>8 DEF Available, minimum_u16
  <2>. QED
    BY <2>1, <2>2, <1>1, <1>5, <1>6, <1>7 DEF Finishing, Sets
<1>9. CASE h_req.length # 0
  <2>1. h_stage' = "data_in" /\ h_req.length > 0
    BY <1>1, <1>2, <1>9, Stages
  <2>2. /\ ep0_tx'.pid = "IN" /\ ep0_tx'.length = first
        /\ first > 0 => ep0_tx'.source.name = ReadName(h_req) /\ ep0_tx'.offset = 0
    <3>1. CASE length = 0
      BY <3>1, <1>4, <1>5 DEF ZeroLengthPacket, InPacket
    <3>2. CASE length # 0
      BY <3>2, <1>5 DEF InPacket
    <3>. QED BY <3>1, <3>2
  <2>3. ep0_tx_data'.offset = first /\ ep0_tx_data'.source.name = ReadName(h_req)
    BY <1>5
  <2>4. first < MaxPacket => ep0_tx_remaining' = 0 /\ ~ ep0_tx_needs_zlp'
    <3>. SUFFICES ASSUME first < MaxPacket PROVE ep0_tx_remaining' = 0 /\ ~ ep0_tx_needs_zlp'
      OBVIOUS
    <3>1. first = length /\ length < MaxPacket
      BY <1>2, <1>4
    <3>2. length % MaxPacket = length
      BY <3>1, <1>2, <1>3, Remainder
    <3>3. ~ (0 < length /\ length % MaxPacket = 0)
      BY <3>2, <1>3
    <3>4. ~ ep0_tx_needs_zlp'
      BY <3>3, <1>5
    <3>5. ep0_tx_remaining' = 0
      BY <3>1, <1>3, <1>5
    <3>. QED BY <3>4, <3>5
  <2>5. first = MaxPacket => MoreExpected'
    <3>. SUFFICES ASSUME first = MaxPacket PROVE MoreExpected'
      OBVIOUS
    <3>1. MaxPacket <= length /\ 0 < length
      BY <1>2, <1>3, <1>4
    <3>2. ep0_tx_remaining' % MaxPacket = length % MaxPacket
      BY <3>1, <1>2, <1>3, <1>5, Remainder
    <3>3. ep0_tx_needs_zlp' = (length < h_req.length /\ length % MaxPacket = 0)
      BY <3>1, <1>5
    <3>. QED BY <3>2, <3>3, <1>1, <1>3 DEF MoreExpected
  <2>6. first \in Nat /\ first + (length - first) = length
    BY <1>3, <1>4
  <2>7. Offered'
    <3>1. 0 + first = first
      BY <2>6
    <3>2. first < MaxPacket \/ first = MaxPacket
      BY <1>4
    <3>. QED BY <2>1, <2>2, <2>3, <2>4, <2>5, <3>1, <3>2, <1>1, <1>6 DEF Offered, NoTransfer
  <2>8. Sending'
    BY <2>3, <2>6, <2>7, <1>1, <1>3, <1>5 DEF Sending
  <2>. QED BY <2>8, <1>1, <1>7 DEF Reading, Readable, NoTransfer
<1>. QED BY <1>8, <1>9

(* A request without a data stage that is followed.                        *)
LEMMA StatusStarts ==
  ASSUME DriverInv, LinkInv, ServeSetup, UNCHANGED hostvars,
         h_req.length = 0, h_req.request # "SET_LINE_CODING", ~ Readable(h_req),
         NEW tx \in [Endpoint -> Status], NEW rx \in [Endpoint -> Status],
         ep0_start_status_in(tx, rx),
         pending_address_valid' =>
           Sets(h_req, "SET_ADDRESS") /\ pending_address' = h_req.value,
         IF Sets(h_req, "SET_CONFIGURATION") THEN configuration_value' = h_req.value
                                             ELSE UNCHANGED configuration_value
  PROVE  Finishing'
<1>1. /\ h_req \in Setups /\ h_got = 0 /\ ~ h_dup /\ h_stage = FirstStage(h_req)
      /\ UNCHANGED <<h_stage, h_req, h_got, h_dup, h_config>>
      /\ NoTransfer' /\ configuration_value \in h_config
  BY SetupFinds
<1>2. h_stage' = "status_in"
  BY <1>1, Stages
<1>3. ep0_state' = "STATUS_IN" /\ stat_tx'[USB_EP0] = "VALID"
  BY SetStatus DEF ep0_start_status_in
<1>. QED BY <1>1, <1>2, <1>3 DEF Finishing, Sets, Available

LEMMA ServeSetupLink ==
  ASSUME DriverInv, LinkInv, ServeSetup, UNCHANGED hostvars
  PROVE  (Refused \/ Reading \/ Receiving \/ Finishing)'
<1>. DEFINE s == h_req
<1>a. /\ s \in Setups /\ h_got = 0 /\ ~ h_dup /\ h_stage = FirstStage(s)
      /\ UNCHANGED <<h_stage, h_req, h_got, h_dup, h_config>>
      /\ NoTransfer' /\ configuration_value \in h_config
      /\ handle_ep0_setup(s)
  BY SetupFinds
<1>b. /\ stat_tx \in [Endpoint -> Status] /\ stat_rx \in [Endpoint -> Status]
      /\ line_coding \in LineCodings /\ configuration_value \in {0, 1}
  BY DEF DriverInv, TypeOK, HwTypeOK
<1>c. ASSUME NEW n \in BufferName, NEW v \in {0, 1} \cup LineCodings,
             Readable(s), s.dir = "IN", n = ReadName(s),
             ep0_start_data_in(Buffer(n, v), BufferSize(n), s.length),
             UNCHANGED configvars, ~ pending_address_valid'
      PROVE  Reading' \/ Finishing'
  <2>1. Buffer(n, v) \in Buffers /\ Buffer(n, v).name = n
    BY DEF Buffer, Buffers
  <2>. QED BY <1>c, <2>1, ReadStarts
<1>d. ASSUME NEW tx \in [Endpoint -> Status], NEW rx \in [Endpoint -> Status],
             ep0_start_status_in(tx, rx), UNCHANGED configvars, ~ pending_address_valid',
             s.length = 0, s.request \notin {"SET_LINE_CODING", "SET_CONFIGURATION"},
             ~ Readable(s)
      PROVE  Finishing'
  BY <1>d, StatusStarts DEF Sets, configvars
<1>1. CASE SetAddress(s)
  BY <1>1, <1>b, StatusStarts DEF SetAddress, IsSetAddress, Is, Sets, Readable, configvars
<1>2. CASE SetLineCoding(s)
  <2>1. /\ s.request = "SET_LINE_CODING" /\ s.length = 7 /\ s.dir = "OUT"
        /\ ep0_start_data_out(7, "SET_LINE_CODING") /\ UNCHANGED configvars
    BY <1>2 DEF SetLineCoding, IsSetLineCoding, IsCdc, Is
  <2>2. h_stage = "data_out"
    BY <1>a, <2>1, Stages
  <2>3. stat_tx'[USB_EP0] = "NAK"
    BY <1>b, <2>1, SetStatus DEF ep0_start_data_out
  <2>. QED BY <1>a, <2>1, <2>2, <2>3 DEF Receiving, NoTransfer, ep0_start_data_out, configvars
<1>3. CASE StallRequest(s)
  <2>1. ~ Handled(s) /\ ep0_state' = "STALLED" /\ UNCHANGED configvars
    BY <1>3 DEF StallRequest, ep0_stall
  <2>2. h_stage # "status_out"
    BY <1>a, Stages
  <2>. QED BY <1>a, <2>1, <2>2, HandledKept DEF Refused, configvars
<1>4. CASE /\ \/ GetStatus(s) \/ GetDescriptor(s) \/ GetConfiguration(s)
              \/ GetInterface(s) \/ GetLineCoding(s)
           /\ pending_address_valid' = FALSE
  <2>. USE DEF Readable, ReadName, BufferName
  <2>1. CASE GetStatus(s)
    <3>1. PICK v \in {0, 1} : ep0_start_data_in(Buffer("status", v), 2, s.length)
      BY <2>1 DEF GetStatus
    <3>2. s.request = "GET_STATUS" /\ s.dir = "IN" /\ UNCHANGED configvars
      BY <2>1 DEF GetStatus, IsGetStatus
    <3>. QED BY <1>4, <3>1, <3>2, <1>c, ReplySize
  <2>2. CASE GetDescriptor(s)
    <3>1. PICK d \in find_descriptor(s.value) :
                 ep0_start_data_in(Buffer(d.name, 0), d.length, s.length)
      BY <2>2 DEF GetDescriptor
    <3>2. s.request = "GET_DESCRIPTOR" /\ s.dir = "IN" /\ UNCHANGED configvars
      BY <2>2 DEF GetDescriptor, IsGetDescriptor, Is
    <3>3. d.name = ReadName(s)
      BY <3>2, ReadDescriptorName
    <3>4. d \in Descriptors
      BY DEF find_descriptor
    <3>5. d.name \in BufferName /\ BufferSize(d.name) = d.length
      BY <3>4, DescriptorLength, DescriptorSize
    <3>. HIDE DEF ReadName, BufferName
    <3>. QED BY <1>4, <3>1, <3>2, <3>3, <3>5, <1>c
  <2>3. CASE GetConfiguration(s)
    BY <2>3, <1>4, <1>b, <1>c, ReplySize DEF GetConfiguration, IsGetConfiguration, Is
  <2>4. CASE GetInterface(s)
    BY <2>4, <1>4, <1>c, ReplySize DEF GetInterface, IsGetInterface, Is
  <2>5. CASE GetLineCoding(s)
    BY <2>5, <1>4, <1>b, <1>c, ReplySize DEF GetLineCoding, IsGetLineCoding, IsCdc, Is
  <2>. QED BY <1>4, <2>1, <2>2, <2>3, <2>4, <2>5
<1>5. CASE SetConfiguration(s) /\ pending_address_valid' = FALSE
  <2>. DEFINE tx == [stat_tx EXCEPT ![USB_CDC_NOTIFICATION_EP] = "NAK", ![USB_CDC_IN_EP] = "NAK"]
              rx == [stat_rx EXCEPT ![USB_CDC_OUT_EP] = OutStatus(s.value = 1)]
  <2>1. tx \in [Endpoint -> Status] /\ rx \in [Endpoint -> Status]
    BY <1>b DEF OutStatus, Status
  <2>2. ep0_start_status_in(tx, rx) /\ configuration_value' = s.value
    BY <1>5 DEF SetConfiguration, non_control_endpoints_set_configured
  <2>3. /\ s.length = 0 /\ s.request = "SET_CONFIGURATION" /\ s.type = "STANDARD"
    BY <1>5 DEF SetConfiguration, IsSetConfiguration, Is
  <2>. HIDE DEF tx, rx
  <2>. QED BY <1>5, <2>1, <2>2, <2>3, StatusStarts DEF Sets, Readable
<1>6. CASE SetControlLineState(s) /\ pending_address_valid' = FALSE
  <2>1. /\ s.length = 0 /\ s.request = "SET_CONTROL_LINE_STATE"
        /\ ep0_start_status_in(stat_tx, stat_rx) /\ UNCHANGED configuration_value
    BY <1>6 DEF SetControlLineState, IsSetControlLineState, IsCdc, Is
  <2>. QED BY <1>6, <1>b, <2>1, StatusStarts DEF Sets, Readable
<1>7. CASE EndpointHalt(s) /\ pending_address_valid' = FALSE
  <2>. DEFINE tx == IF s.index < 128 THEN stat_tx
                    ELSE [stat_tx EXCEPT ![s.index - 128] =
                            IF s.request = "SET_FEATURE" THEN "STALL" ELSE "NAK"]
              rx == IF s.index >= 128 THEN stat_rx
                    ELSE [stat_rx EXCEPT ![s.index] =
                            IF s.request = "SET_FEATURE" THEN "STALL"
                            ELSE OutStatus(usb_configured)]
  <2>1. tx \in [Endpoint -> Status]
    BY <1>b DEF Status
  <2>2. rx \in [Endpoint -> Status]
    BY <1>b DEF Status, OutStatus
  <2>3. ep0_start_status_in(tx, rx) /\ UNCHANGED configvars
    BY <1>7 DEF EndpointHalt, endpoint_set_halt
  <2>4. s.length = 0 /\ s.request \in {"CLEAR_FEATURE", "SET_FEATURE"}
    BY <1>7 DEF EndpointHalt, IsEndpointHalt, Is
  <2>. HIDE DEF tx, rx
  <2>. QED BY <1>7, <1>d, <2>1, <2>2, <2>3, <2>4 DEF Readable
<1>8. CASE SetInterfaceOrSendBreak(s) /\ pending_address_valid' = FALSE
  BY <1>8, <1>b, <1>d
  DEF SetInterfaceOrSendBreak, IsSetInterface, IsSendBreak, IsCdc, Is, Readable
<1>. QED
  BY <1>a, <1>1, <1>2, <1>3, <1>4, <1>5, <1>6, <1>7, <1>8 DEF handle_ep0_setup

LEMMA SetupLink ==
  ASSUME DriverInv, LinkInv, ServeSetup, UNCHANGED hostvars
  PROVE  LinkInv'
<1>1. /\ h_req \in Setups /\ h_stage = FirstStage(h_req)
      /\ UNCHANGED <<h_stage, h_req, h_got, h_dup, h_sent, h_addr, h_config, isr, istr>>
      /\ "RESET" \notin istr /\ isr = "ctr"
      /\ NoTransfer' /\ ep0_rx' = NoPacket
  BY SetupFinds
<1>2. HostTypeOK' /\ AfterReset'
  BY <1>1 DEF LinkInv, HostTypeOK, AfterReset
<1>3. h_stage' # "none" /\ ep0_rx'.pid # "SETUP"
  BY <1>1, Stages DEF NoPacket
<1>4. AddressKnown'
  BY <1>1 DEF AddressKnown, NoTransfer
<1>. QED
  BY <1>2, <1>3, <1>4, ServeSetupLink DEF LinkInv, SetupIsRequest, InTransfer, Between

LEMMA OutLink ==
  ASSUME DriverInv, LinkInv, handle_ep0_out, UNCHANGED hostvars
  PROVE  LinkInv'
<1>1. /\ isr = "ctr" /\ USB_EP0 \in ctr_rx /\ ctr_rx' = ctr_rx \ {USB_EP0}
      /\ UNCHANGED <<ctr_tx, istr, isr, usb_configured, configuration_value>>
      /\ UNCHANGED <<pending_address_valid, pending_address, ep0_out_expected>>
      /\ UNCHANGED <<h_stage, h_req, h_got, h_dup, h_sent, h_addr, h_config>>
      /\ ep0_rx.pid = "OUT" /\ ep0_rx' = NoPacket
  BY DEF handle_ep0_out, ClearRx, configvars, addressvars, hostvars
<1>2. HostTypeOK' /\ AfterReset' /\ Between'
  BY <1>1 DEF LinkInv, HostTypeOK, AfterReset, Between
<1>3. SetupIsRequest'
  BY <1>1 DEF SetupIsRequest, NoPacket
<1>4. AddressKnown'
  <2>1. ep0_state' = "STATUS_IN" => ep0_state = "DATA_OUT"
    BY DEF handle_ep0_out, DataOutComplete, ep0_wait_out, ep0_stall
  <2>2. ep0_state = "DATA_OUT" => ~ pending_address_valid
    BY DEF DriverInv, RequestsLeaveNothing
  <2>. QED BY <1>1, <2>1, <2>2 DEF AddressKnown
<1>5. ASSUME "RESET" \notin istr, h_stage # "none" PROVE Finishing'
  <2>1. Receiving /\ h_stage = "status_in" /\ ep0_rx = OutPacket(7, h_sent)
    BY <1>1, <1>5
    DEF LinkInv, InTransfer, Refused, Reading, Receiving, Finishing, NoTransfer
  <2>2. ep0_state = "DATA_OUT" /\ ep0_rx.count = ep0_out_expected /\ ep0_rx.coding = h_sent
    BY <2>1 DEF Receiving, OutPacket
  <2>3. line_coding' = h_sent /\ ep0_start_status_in(stat_tx, stat_rx)
    BY <2>1, <2>2 DEF handle_ep0_out, DataOutComplete, Receiving
  <2>4. ep0_state' = "STATUS_IN" /\ stat_tx'[USB_EP0] = "VALID"
    BY <2>3, SetStatus DEF ep0_start_status_in, DriverInv, TypeOK, HwTypeOK
  <2>5. ~ pending_address_valid
    BY <2>2 DEF DriverInv, RequestsLeaveNothing
  <2>. QED BY <1>1, <2>1, <2>3, <2>4, <2>5 DEF Finishing, NoTransfer, Receiving, Sets,
       Available, Readable
<1>. QED BY <1>1, <1>2, <1>3, <1>4, <1>5 DEF LinkInv, InTransfer

(* The next packet of a read, after one that was not the last.             *)
LEMMA NextOffered ==
  ASSUME DriverInv, LinkInv, h_stage = "data_in", ~ h_dup, Taken, Sending,
         h_req \in Setups, UNCHANGED <<h_stage, h_req, h_got, h_dup>>,
         USB_EP0 \notin ctr_tx', ep0_send_next_data_packet, ep0_tx_remaining > 0,
         UNCHANGED <<ep0_state, ep0_tx_needs_zlp>>
  PROVE  Sending'
<1>. DEFINE length == minimum_u16(ep0_tx_remaining, MaxPacket)
            offset == ep0_tx_data.offset
<1>1. /\ MaxPacket \in Nat \ {0} /\ ep0_tx_remaining \in Nat
      /\ ep0_tx_data \in [source : Buffers, offset : Nat]
      /\ stat_tx \in [Endpoint -> Status]
  BY MaxPacketAssumption DEF DriverInv, TypeOK, HwTypeOK
<1>2. /\ length \in Nat /\ 0 < length
      /\ length < MaxPacket => length = ep0_tx_remaining
      /\ length <= MaxPacket /\ length <= ep0_tx_remaining
  BY <1>1 DEF minimum_u16
<1>3. /\ ep0_tx' = InPacket(ep0_tx_data.source, offset, length)
      /\ ep0_tx_data' = [ep0_tx_data EXCEPT !.offset = @ + length]
      /\ ep0_tx_remaining' = ep0_tx_remaining - length
      /\ ep0_set_status(stat_tx, stat_rx, "VALID", stat_rx[USB_EP0])
  BY DEF ep0_send_next_data_packet
<1>. HIDE DEF length
<1>4. stat_tx'[USB_EP0] = "VALID"
  BY <1>1, <1>3, SetStatus DEF DriverInv, TypeOK, HwTypeOK
<1>5. ep0_tx_data'.offset = offset + length /\ ep0_tx_data'.source = ep0_tx_data.source
  BY <1>1, <1>3
<1>6. /\ ep0_tx'.pid = "IN" /\ ep0_tx'.source = ep0_tx_data.source
      /\ ep0_tx'.offset = offset /\ ep0_tx'.length = length
  BY <1>3 DEF InPacket
<1>7. /\ h_got = offset /\ MoreExpected /\ h_got < h_req.length
      /\ ep0_tx_data.source.name = ReadName(h_req) /\ offset + ep0_tx_remaining = Total
      /\ ep0_state = "DATA_IN"
  BY DEF Taken, Sending
<1>8. Total' = Total /\ Total \in Nat
  <2>1. offset \in Nat
    BY <1>1
  <2>. QED BY <1>1, <1>7, <2>1 DEF Total
<1>9. length < MaxPacket => ep0_tx_remaining' = 0 /\ ~ ep0_tx_needs_zlp'
  <2>. SUFFICES ASSUME length < MaxPacket
                PROVE  ep0_tx_remaining' = 0 /\ ~ ep0_tx_needs_zlp'
    OBVIOUS
  <2>1. length = ep0_tx_remaining /\ ep0_tx_remaining % MaxPacket = ep0_tx_remaining
    BY <1>1, <1>2, Remainder
  <2>2. ep0_tx_remaining % MaxPacket # 0
    BY <2>1, <1>2
  <2>3. ~ ep0_tx_needs_zlp
    BY <2>2, <1>7 DEF MoreExpected
  <2>. QED BY <2>1, <2>3, <1>1, <1>3
<1>10. length = MaxPacket => MoreExpected'
  <2>. SUFFICES ASSUME length = MaxPacket PROVE MoreExpected'
    OBVIOUS
  <2>1. ep0_tx_remaining' % MaxPacket = ep0_tx_remaining % MaxPacket
    BY <1>1, <1>2, <1>3, Remainder
  <2>. QED BY <2>1, <1>7, <1>8 DEF MoreExpected
<1>11. (offset + length) + (ep0_tx_remaining - length) = offset + ep0_tx_remaining
  BY <1>1, <1>2
<1>12. length < MaxPacket \/ length = MaxPacket
  BY <1>1, <1>2
<1>13. Offered'
  BY <1>4, <1>5, <1>6, <1>7, <1>9, <1>10, <1>12 DEF Offered
<1>. QED BY <1>3, <1>5, <1>7, <1>8, <1>11, <1>13 DEF Sending

LEMMA ServedPending ==
  ASSUME TypeOK, TransferPending
  PROVE  ServedEndpoint \in ctr_tx \cup ctr_rx
<1>. DEFINE S == ctr_tx \cup ctr_rx
<1>1. S \subseteq 0 .. 3 /\ S # {}
  BY DEF TypeOK, HwTypeOK, Endpoint, TransferPending
<1>. HIDE DEF S
<1>2. \E e \in S : \A f \in S : e <= f
  <2>1. CASE 0 \in S
    BY <1>1, <2>1
  <2>2. CASE 0 \notin S /\ 1 \in S
    BY <1>1, <2>2
  <2>3. CASE 0 \notin S /\ 1 \notin S /\ 2 \in S
    BY <1>1, <2>3
  <2>4. CASE 0 \notin S /\ 1 \notin S /\ 2 \notin S
    <3>1. \A f \in S : f = 3
      BY <1>1, <2>4
    <3>2. PICK e : e \in S
      BY <1>1
    <3>3. e = 3 /\ 3 <= 3
      BY <3>1, <3>2
    <3>. QED BY <3>1, <3>2, <3>3
  <2>. QED BY <2>1, <2>2, <2>3, <2>4
<1>. DEFINE Least(e) == \A f \in S : e <= f
<1>3. \E e \in S : Least(e)
  BY <1>2
<1>. HIDE DEF Least
<1>4. (CHOOSE e \in S : Least(e)) \in S
  BY <1>3
<1>. QED BY <1>4 DEF ServedEndpoint, S, Least

LEMMA InLink ==
  ASSUME DriverInv, LinkInv, handle_ep0_in, UNCHANGED hostvars
  PROVE  LinkInv'
<1>1. /\ isr = "ctr" /\ USB_EP0 \notin ctr_rx /\ USB_EP0 \in ctr_tx
      /\ ctr_tx' = ctr_tx \ {USB_EP0}
      /\ UNCHANGED <<ctr_rx, ep0_rx, istr, isr, usb_configured, configuration_value>>
      /\ UNCHANGED <<h_stage, h_req, h_got, h_dup, h_sent, h_addr, h_config>>
  BY ServedPending DEF handle_ep0_in, ClearTx, configvars, hostvars, DriverInv
<1>2. HostTypeOK' /\ AfterReset' /\ Between'
  BY <1>1 DEF LinkInv, HostTypeOK, AfterReset, Between
<1>3. ep0_rx.pid # "SETUP"
  BY <1>1 DEF LinkInv, SetupIsRequest
<1>4. SetupIsRequest' /\ AddressKnown'
  BY <1>1, <1>3 DEF SetupIsRequest, AddressKnown
<1>5. ASSUME "RESET" \notin istr, h_stage # "none" PROVE Reading'
  <2>1. Reading /\ Sending /\ Taken /\ ~ h_dup /\ ep0_state = "DATA_IN"
    <3>1. ~ Refused /\ ~ Receiving /\ ~ Finishing /\ ~ Offered /\ ~ Sent
      BY <1>1 DEF Refused, Receiving, Finishing, NoTransfer, Offered, Sent
    <3>2. Reading
      BY <1>3, <1>5, <3>1 DEF LinkInv, InTransfer
    <3>. QED BY <1>1, <3>1, <3>2 DEF Reading, Sending, Taken
  <2>2. h_req \in Setups
    BY <1>5 DEF LinkInv, HostTypeOK
  <2>3. handle_ep0_in_data
    BY <2>1 DEF handle_ep0_in, handle_ep0_in_status
  <2>4. /\ ep0_tx_remaining \in Nat /\ ep0_tx_data \in [source : Buffers, offset : Nat]
        /\ MaxPacket \in Nat \ {0} /\ stat_tx \in [Endpoint -> Status]
        /\ stat_rx \in [Endpoint -> Status] /\ h_got \in Nat
    BY MaxPacketAssumption DEF DriverInv, TypeOK, HwTypeOK, LinkInv, HostTypeOK
  <2>5. h_req.length \in Nat /\ BufferSize(ReadName(h_req)) \in Nat
    <3>1. ep0_tx_data.source.name = ReadName(h_req) /\ ep0_tx_data.source \in Buffers
      BY <2>1, <2>4 DEF Sending
    <3>. QED BY <2>2, <3>1, SetupFields, BufferSizes
  <2>6. h_got + ep0_tx_remaining = Total /\ Total' = Total
    BY <1>1, <2>1 DEF Sending, Taken, Total
  <2>7. Total \in Nat
    BY <2>5, Minimum DEF Total
  <2>8. Sending' \/ Sent'
    <3>1. CASE h_stage = "data_in"
      <4>1. h_got = ep0_tx_data.offset /\ h_got < h_req.length /\ MoreExpected
        BY <2>1, <3>1 DEF Taken
      <4>2. CASE /\ ep0_tx_remaining > 0 /\ ep0_send_next_data_packet
                 /\ UNCHANGED <<ep0_state, ep0_tx_needs_zlp>>
        BY <1>1, <2>1, <2>2, <3>1, <4>2, NextOffered
      <4>3. CASE ep0_tx_remaining = 0
        <5>1. Total < h_req.length
          BY <2>4, <2>6, <4>1, <4>3
        <5>2. ep0_tx_remaining % MaxPacket = 0
          BY <2>4, <4>3, Remainder
        <5>3. ep0_tx_needs_zlp
          BY <4>1, <5>1, <5>2 DEF MoreExpected
        <5>4. /\ ep0_tx_needs_zlp' = FALSE /\ ep0_tx' = ZeroLengthPacket
              /\ ep0_set_status(stat_tx, stat_rx, "VALID", stat_rx[USB_EP0])
              /\ UNCHANGED <<ep0_state, ep0_tx_data, ep0_tx_remaining>>
          BY <2>3, <4>3, <5>3 DEF handle_ep0_in_data
        <5>5. stat_tx'[USB_EP0] = "VALID"
          BY <2>4, <5>4, SetStatus
        <5>6. ep0_tx'.pid = "IN" /\ ep0_tx'.length = 0
          BY <5>4 DEF ZeroLengthPacket, InPacket
        <5>7. h_got + 0 = h_got /\ 0 < MaxPacket
          BY <2>4
        <5>8. Offered'
          BY <1>1, <2>1, <3>1, <4>1, <4>3, <5>4, <5>5, <5>6, <5>7 DEF Offered
        <5>. QED BY <1>1, <2>1, <2>6, <5>4, <5>8 DEF Sending
      <4>. QED BY <2>3, <2>4, <4>2, <4>3 DEF handle_ep0_in_data
    <3>2. CASE h_stage = "status_out"
      <4>1. ep0_tx_remaining = 0 /\ ~ ep0_tx_needs_zlp
        BY <2>1, <3>2 DEF Taken
      <4>2. ep0_wait_out("STATUS_OUT")
        BY <2>3, <4>1 DEF handle_ep0_in_data
      <4>3. h_got = Total
        BY <2>4, <2>6, <4>1
      <4>. QED BY <1>1, <2>6, <3>2, <4>2, <4>3 DEF Sent, ep0_wait_out
    <3>. QED BY <2>1, <3>1, <3>2 DEF Taken
  <2>. QED BY <1>1, <2>1, <2>8 DEF Reading, Readable
<1>. QED BY <1>1, <1>2, <1>3, <1>4, <1>5 DEF LinkInv, InTransfer

LEMMA DeviceLink ==
  ASSUME DriverInv, LinkInv,
         usb_cdc_init \/ USB_LP_CAN1_RX0_IRQHandler \/ usb_cdc_try_write,
         UNCHANGED hostvars
  PROVE  LinkInv'
<1>1. CASE usb_cdc_init
  BY <1>1, ResetLink DEF usb_cdc_init
<1>2. CASE HandleReset
  BY <1>2, ResetLink DEF HandleReset
<1>3. CASE ServeSetup
  BY <1>3, SetupLink
<1>4. CASE handle_ep0_out
  BY <1>4, OutLink
<1>5. CASE handle_ep0_in
  BY <1>5, InLink
<1>. QED
  BY <1>1, <1>2, <1>3, <1>4, <1>5, KeptSteps, Frame
  DEF USB_LP_CAN1_RX0_IRQHandler, handle_correct_transfer

-----------------------------------------------------------------------------
(* The host's steps.                                                       *)

LEMMA ConfigurationFound ==
  ASSUME LinkInv
  PROVE  ConfigurationKnown
<1>. SUFFICES ASSUME "RESET" \notin istr
              PROVE  configuration_value \in ConfigurationsNow
  BY DEF ConfigurationKnown
<1>1. h_config \subseteq ConfigurationsNow
  BY DEF ConfigurationsNow
<1>2. CASE h_stage = "none" \/ ep0_rx.pid = "SETUP"
  BY <1>1, <1>2 DEF LinkInv, Between, SetupIsRequest
<1>3. CASE h_stage # "none" /\ ep0_rx.pid # "SETUP"
  <2>1. CASE Refused \/ Reading \/ Receiving
    BY <1>1, <2>1 DEF Refused, Reading, Receiving
  <2>2. CASE Finishing
    BY <1>3, <2>2 DEF Finishing, ConfigurationsNow
  <2>. QED BY <1>3, <2>1, <2>2 DEF LinkInv, InTransfer
<1>. QED BY <1>2, <1>3

(* A device that does not answer by NAK has served the host's request.      *)
LEMMA HostFinds ==
  ASSUME DriverInv, LinkInv, Addressed, Reachable, h_stage # "none",
         stat_tx[USB_EP0] # "NAK" \/ stat_rx[USB_EP0] # "NAK"
  PROVE  /\ "RESET" \notin istr /\ isr # "off" /\ ep0_rx.pid # "SETUP" /\ h_req \in Setups
         /\ Refused \/ Reading \/ Receiving \/ Finishing
         /\ Refused => stat_tx[USB_EP0] = "STALL" /\ stat_rx[USB_EP0] = "STALL"
<1>1. "RESET" \notin istr /\ isr # "off"
  BY DEF Reachable, Addressed
<1>2. ep0_rx.pid # "SETUP" /\ h_req \in Setups
  BY DEF LinkInv, SetupIsRequest, HostTypeOK
<1>3. Refused \/ Reading \/ Receiving \/ Finishing
  BY <1>1, <1>2 DEF LinkInv, InTransfer
<1>4. Refused => stat_tx[USB_EP0] = "STALL" /\ stat_rx[USB_EP0] = "STALL"
  BY <1>1 DEF Refused, NoTransfer, DriverInv, Ep0Answers
<1>. QED BY <1>1, <1>2, <1>3, <1>4

(* A packet that the host has not seen yet is the next one of its read.     *)
LEMMA OfferFound ==
  ASSUME DriverInv, LinkInv, Addressed, Reachable, h_stage = "data_in", ~ h_dup,
         stat_tx[USB_EP0] = "VALID"
  PROVE  Reading /\ Sending /\ Offered
<1>1. Reading
  BY HostFinds DEF Receiving, Finishing
<1>2. Sending
  BY <1>1 DEF Reading, Sent
<1>3. Offered
  BY <1>2 DEF Sending, Taken
<1>. QED BY <1>1, <1>2, <1>3

LEMMA HostSetupLink ==
  ASSUME DriverInv, LinkInv, NEW r \in Setups, HostSetup(r)
  PROVE  LinkInv'
<1>1. /\ "RESET" \notin istr' /\ isr' # "off" /\ USB_EP0 \notin ctr_tx' /\ USB_EP0 \in ctr_rx'
      /\ ep0_rx'.pid = "SETUP" /\ ep0_rx'.req = r /\ h_req' = r /\ h_stage' = FirstStage(r)
      /\ h_got' = 0 /\ h_dup' = FALSE /\ h_config' = ConfigurationsNow
      /\ UNCHANGED <<h_sent, configuration_value>>
  BY DEF HostSetup, HwSetup, Reachable, Addressed, SetupPacket, swvars, configvars
<1>2. stat_tx'[USB_EP0] = "NAK" /\ stat_rx'[USB_EP0] = "NAK"
  BY DEF HostSetup, HwSetup, DriverInv, TypeOK, HwTypeOK, Endpoint, USB_EP0
<1>3. configuration_value' \in h_config'
  BY <1>1, ConfigurationFound DEF ConfigurationKnown, HostSetup, HwSetup
<1>4. HostTypeOK'
  BY <1>1, Stages DEF LinkInv, HostTypeOK
<1>5. AfterReset' /\ AddressKnown' /\ InTransfer'
  BY <1>1 DEF AfterReset, AddressKnown, InTransfer
<1>6. SetupIsRequest' /\ Between'
  BY <1>1, <1>2, <1>3 DEF SetupIsRequest, Between
<1>. QED BY <1>4, <1>5, <1>6 DEF LinkInv

LEMMA StatusInLink ==
  ASSUME DriverInv, LinkInv, Addressed, Reachable, h_stage = "status_in",
         stat_tx[USB_EP0] = "VALID", FinishRequest, h_dup' \in BOOLEAN,
         UNCHANGED <<ep0_rx, ctr_rx, istr>>
  PROVE  LinkInv'
<1>1. Finishing /\ "RESET" \notin istr' /\ isr' # "off" /\ ep0_rx'.pid # "SETUP"
  BY HostFinds DEF Reading, Sending, Offered, Taken, Sent, Receiving, Addressed
<1>2. h_stage' = "none" /\ h_got' = 0 /\ h_sent' \in LineCodings
  BY LineCodingsAssumption DEF FinishRequest, TransferOver, DefaultLineCoding
<1>3. UNCHANGED <<pending_address_valid, pending_address, configuration_value, ep0_state>>
  BY DEF Addressed, swvars, configvars, addressvars
<1>4. HostTypeOK' /\ AfterReset' /\ SetupIsRequest' /\ InTransfer'
  BY <1>1, <1>2 DEF HostTypeOK, AfterReset, SetupIsRequest, InTransfer
<1>5. AddressKnown'
  BY <1>1, <1>3 DEF AddressKnown, Finishing, FinishRequest
<1>6. configuration_value' \in h_config'
  BY <1>1, <1>3 DEF Finishing, FinishRequest
<1>. QED BY <1>4, <1>5, <1>6 DEF LinkInv, Between

LEMMA DataInLink ==
  ASSUME DriverInv, LinkInv, Addressed, Reachable, h_stage = "data_in", ~ h_dup,
         stat_tx[USB_EP0] = "VALID", TakeData(ep0_tx),
         UNCHANGED <<ep0_rx, ctr_rx, istr>>,
         \/ h_dup' = TRUE /\ UNCHANGED <<stat_tx, ctr_tx>>
         \/ /\ h_dup' = FALSE
            /\ USB_EP0 \in ctr_tx' /\ stat_tx'[USB_EP0] = "NAK"
  PROVE  LinkInv'
<1>1. Reading /\ Sending /\ Offered
  BY OfferFound
<1>2. "RESET" \notin istr' /\ isr' # "off" /\ ep0_rx'.pid # "SETUP" /\ h_req \in Setups
  BY HostFinds DEF Addressed
<1>3. /\ UNCHANGED <<ep0_state, ep0_tx_data, ep0_tx_remaining, ep0_tx_needs_zlp>>
      /\ UNCHANGED <<h_req, h_sent, h_addr, h_config, configuration_value>>
  BY DEF Addressed, swvars, configvars, datavars, TakeData
<1>4. /\ ep0_tx_remaining \in Nat /\ ep0_tx_data \in [source : Buffers, offset : Nat]
      /\ MaxPacket \in Nat \ {0} /\ h_got \in Nat
  BY MaxPacketAssumption DEF DriverInv, TypeOK, LinkInv, HostTypeOK
<1>5. ep0_tx_data.offset \in Nat /\ h_req.length \in Nat
  BY <1>2, <1>4, SetupFields
<1>6. /\ h_got' = ep0_tx_data.offset
      /\ h_stage' = IF ep0_tx.length < MaxPacket \/ h_got' >= h_req.length
                    THEN "status_out" ELSE "data_in"
  BY <1>1 DEF TakeData, Offered
<1>7. h_got' + ep0_tx_remaining = Total /\ Total' = Total
  BY <1>1, <1>3, <1>6 DEF Sending, Total
<1>8. Total <= h_req.length
  <2>1. ep0_tx_data.source.name = ReadName(h_req) /\ ep0_tx_data.source \in Buffers
    BY <1>1, <1>4 DEF Sending
  <2>. QED BY <1>5, <2>1, BufferSizes, Minimum DEF Total
<1>9. \/ h_stage' = "data_in" /\ h_got' < h_req.length /\ MoreExpected'
      \/ h_stage' = "status_out" /\ ep0_tx_remaining = 0 /\ ~ ep0_tx_needs_zlp
  <2>1. CASE ep0_tx.length < MaxPacket /\ ep0_tx_remaining = 0 /\ ~ ep0_tx_needs_zlp
    BY <1>6, <2>1
  <2>2. CASE ep0_tx.length = MaxPacket /\ MoreExpected
    <3>1. CASE h_got' >= h_req.length
      <4>1. h_stage' = "status_out"
        BY <1>6, <3>1
      <4>2. ep0_tx_remaining = 0 /\ ~ (Total < h_req.length)
        BY <1>4, <1>5, <1>6, <1>7, <1>8, <3>1
      <4>. QED BY <2>2, <4>1, <4>2 DEF MoreExpected
    <3>2. CASE h_got' < h_req.length
      <4>1. h_stage' = "data_in"
        BY <1>4, <1>5, <1>6, <2>2, <3>2
      <4>. QED BY <1>3, <1>7, <2>2, <3>2, <4>1 DEF MoreExpected
    <3>. QED BY <1>5, <1>6, <3>1, <3>2
  <2>. QED BY <1>1, <2>1, <2>2 DEF Offered
<1>10. Taken'
  BY <1>1, <1>3, <1>6, <1>9 DEF Taken, Offered
<1>11. Reading'
  <2>1. Sending'
    BY <1>1, <1>3, <1>7, <1>10 DEF Sending
  <2>. QED BY <1>1, <1>3, <2>1 DEF Reading, Readable
<1>12. HostTypeOK' /\ AfterReset' /\ SetupIsRequest' /\ Between'
  BY <1>2, <1>3, <1>5, <1>6 DEF LinkInv, HostTypeOK, AfterReset, SetupIsRequest, Between
<1>13. AddressKnown'
  BY <1>1, <1>3 DEF AddressKnown, Sending
<1>. QED BY <1>11, <1>12, <1>13 DEF LinkInv, InTransfer

LEMMA DuplicateLink ==
  ASSUME DriverInv, LinkInv, HostDuplicate
  PROVE  LinkInv'
<1>1. /\ h_stage = "data_in" /\ h_dup /\ Reachable /\ Addressed
      /\ stat_tx[USB_EP0] = "VALID" /\ h_dup' = FALSE
      /\ UNCHANGED <<h_stage, h_req, h_got, h_sent, h_addr, h_config>>
      /\ UNCHANGED <<ep0_rx, ctr_rx, istr>> /\ USB_EP0 \in ctr_tx'
  BY DEF HostDuplicate, HwIn
<1>2. stat_tx'[USB_EP0] = "NAK"
  BY DEF HostDuplicate, HwIn, DriverInv, TypeOK, HwTypeOK, Endpoint, USB_EP0
<1>3. Reading /\ Sending /\ Taken
  <2>1. Reading
    BY <1>1, HostFinds DEF Receiving, Finishing
  <2>2. Sending
    BY <1>1, <2>1 DEF Reading, Sent
  <2>3. Taken
    BY <1>1, <2>2 DEF Sending, Offered
  <2>. QED BY <2>1, <2>2, <2>3
<1>4. "RESET" \notin istr' /\ isr' # "off" /\ ep0_rx'.pid # "SETUP"
  BY <1>1, HostFinds DEF Addressed
<1>5. UNCHANGED <<ep0_state, ep0_tx_data, ep0_tx_remaining, ep0_tx_needs_zlp,
                  configuration_value>>
  BY <1>1 DEF Addressed, swvars, configvars, datavars
<1>6. Total' = Total
  BY <1>1 DEF Total
<1>7. Taken'
  BY <1>1, <1>2, <1>3, <1>5, <1>6 DEF Taken, MoreExpected
<1>8. Reading'
  BY <1>1, <1>3, <1>5, <1>6, <1>7 DEF Reading, Readable, Sending
<1>9. HostTypeOK' /\ AfterReset' /\ SetupIsRequest' /\ Between' /\ AddressKnown'
  BY <1>1, <1>3, <1>4, <1>5
  DEF LinkInv, HostTypeOK, AfterReset, SetupIsRequest, Between, AddressKnown, Sending
<1>. QED BY <1>8, <1>9 DEF LinkInv, InTransfer

LEMMA DataOutLink ==
  ASSUME DriverInv, LinkInv, NEW c \in LineCodings, HostDataOut(c)
  PROVE  LinkInv'
<1>1. /\ h_stage = "data_out" /\ Reachable /\ Addressed
      /\ stat_rx[USB_EP0] = "VALID" /\ h_stage' = "status_in" /\ h_sent' = c
      /\ UNCHANGED <<h_req, h_got, h_dup, h_addr, h_config>>
      /\ ep0_rx' = OutPacket(h_req.length, c) /\ USB_EP0 \in ctr_rx'
      /\ UNCHANGED <<stat_tx, ctr_tx, istr>>
  BY DEF HostDataOut, HwOut0
<1>2. Receiving
  BY <1>1, HostFinds DEF Reading, Sending, Offered, Taken, Sent, Finishing
<1>3. "RESET" \notin istr' /\ isr' # "off" /\ ep0_rx'.pid # "SETUP"
  BY <1>1, HostFinds DEF Addressed, OutPacket
<1>4. UNCHANGED <<ep0_state, ep0_out_action, ep0_out_expected, configuration_value>>
  BY <1>1 DEF Addressed, swvars, configvars, outvars
<1>5. Receiving'
  BY <1>1, <1>2, <1>4 DEF Receiving
<1>6. HostTypeOK' /\ AfterReset' /\ SetupIsRequest' /\ Between' /\ AddressKnown'
  BY <1>1, <1>2, <1>3
  DEF LinkInv, HostTypeOK, AfterReset, SetupIsRequest, Between, AddressKnown, Receiving
<1>. QED BY <1>5, <1>6 DEF LinkInv, InTransfer

LEMMA StatusOutLink ==
  ASSUME DriverInv, LinkInv, HostStatusOut
  PROVE  LinkInv'
<1>1. /\ h_stage = "status_out" /\ Reachable /\ Addressed
      /\ stat_rx[USB_EP0] = "VALID" /\ h_stage' = "none" /\ h_got' = 0
      /\ h_sent' = DefaultLineCoding
      /\ UNCHANGED <<h_dup, h_addr, h_config>>
      /\ ep0_rx' = OutPacket(0, h_sent) /\ UNCHANGED <<ctr_tx, istr>>
  BY DEF HostStatusOut, HwOut0, TransferOver
<1>2. Reading /\ ep0_state # "STATUS_IN" /\ configuration_value \in h_config
  <2>1. Reading
    BY <1>1, HostFinds DEF Receiving, Finishing
  <2>. QED BY <2>1 DEF Reading, Sending, Sent
<1>3. "RESET" \notin istr' /\ isr' # "off" /\ ep0_rx'.pid # "SETUP"
  BY <1>1, HostFinds DEF Addressed, OutPacket
<1>4. UNCHANGED <<ep0_state, configuration_value>>
  BY <1>1 DEF Addressed, swvars, configvars
<1>5. HostTypeOK'
  BY <1>1, LineCodingsAssumption DEF LinkInv, HostTypeOK, DefaultLineCoding
<1>. QED
  BY <1>1, <1>2, <1>3, <1>4, <1>5
  DEF LinkInv, AfterReset, SetupIsRequest, InTransfer, AddressKnown, Between

LEMMA StalledFinds ==
  ASSUME DriverInv, LinkInv, HostStalled
  PROVE  Refused
<1>1. Addressed /\ Reachable
  BY DEF HostStalled
<1>2. CASE h_stage \in {"data_in", "status_in"} /\ stat_tx[USB_EP0] = "STALL"
  BY <1>1, <1>2, HostFinds DEF Reading, Sending, Offered, Taken, Sent, Receiving, Finishing
<1>3. CASE h_stage \in {"data_out", "status_out"} /\ stat_rx[USB_EP0] = "STALL"
  <2>1. "RESET" \notin istr /\ isr # "off" /\ (Refused \/ Reading \/ Receiving)
    BY <1>1, <1>3, HostFinds DEF Finishing
  <2>2. USB_EP0 \notin ctr_rx => ep0_state = "STALLED"
    BY <1>3, <2>1 DEF DriverInv, Ep0Answers
  <2>. QED BY <1>3, <2>1, <2>2 DEF Reading, Sending, Sent, Receiving
<1>. QED BY <1>2, <1>3 DEF HostStalled

LEMMA StalledLink ==
  ASSUME DriverInv, LinkInv, HostStalled
  PROVE  LinkInv'
<1>1. /\ Reachable /\ Addressed /\ h_stage' = "none" /\ h_got' = 0
      /\ h_sent' = DefaultLineCoding
      /\ UNCHANGED <<h_dup, h_addr, h_config, ep0_rx, ctr_tx, istr>>
  BY DEF HostStalled, TransferOver, hwvars
<1>2. Refused
  BY StalledFinds
<1>3. UNCHANGED <<ep0_state, configuration_value>>
  BY <1>1 DEF Addressed, swvars, configvars
<1>4. "RESET" \notin istr' /\ isr' # "off"
  BY <1>1 DEF Addressed, Reachable
<1>5. HostTypeOK'
  BY <1>1, LineCodingsAssumption DEF LinkInv, HostTypeOK, DefaultLineCoding
<1>6. ep0_rx'.pid # "SETUP"
  BY <1>1, <1>2 DEF Refused, NoTransfer, LinkInv, SetupIsRequest
<1>. QED
  BY <1>1, <1>2, <1>3, <1>4, <1>5, <1>6
  DEF LinkInv, AfterReset, SetupIsRequest, InTransfer, AddressKnown, Between, Refused,
      NoTransfer

LEMMA HostResetLink ==
  ASSUME DriverInv, LinkInv, HostReset
  PROVE  LinkInv'
<1>1. /\ "RESET" \in istr' /\ h_stage' = "none" /\ h_got' = 0 /\ h_dup' = FALSE
      /\ h_sent' = DefaultLineCoding /\ h_addr' = 0 /\ h_config' = {0}
  BY DEF HostReset, HwReset, TransferOver
<1>2. HostTypeOK'
  BY <1>1, LineCodingsAssumption DEF HostTypeOK, DefaultLineCoding
<1>3. ep0_rx'.pid # "SETUP"
  BY DEF HostReset, HwReset, OutPacket
<1>. QED
  BY <1>1, <1>2, <1>3
  DEF LinkInv, AfterReset, SetupIsRequest, InTransfer, AddressKnown, Between

LEMMA HostLink ==
  ASSUME DriverInv, LinkInv, HostNext
  PROVE  LinkInv'
<1>1. CASE HostDataIn
  <2>1. stat_tx[USB_EP0] = "VALID" /\ stat_tx'[USB_EP0] = "NAK" /\ USB_EP0 \in ctr_tx'
    BY <1>1 DEF HostDataIn, HwIn, DriverInv, TypeOK, HwTypeOK, Endpoint, USB_EP0
  <2>2. h_dup' = FALSE
    BY <1>1 DEF HostDataIn, LinkInv, HostTypeOK
  <2>. QED BY <1>1, <2>1, <2>2, DataInLink DEF HostDataIn, HwIn
<1>2. CASE HostStatusIn
  BY <1>2, StatusInLink DEF HostStatusIn, HwIn, LinkInv, HostTypeOK
<1>3. CASE HostAckLost
  <2>1. h_dup' \in BOOLEAN /\ UNCHANGED <<stat_tx, ctr_tx, ctr_rx, ep0_rx, istr>>
    BY <1>3 DEF HostAckLost, hwvars
  <2>2. CASE h_stage = "data_in" /\ TakeData(ep0_tx)
    BY <1>3, <2>1, <2>2, DataInLink DEF HostAckLost
  <2>3. CASE h_stage = "status_in" /\ FinishRequest
    BY <1>3, <2>1, <2>3, StatusInLink DEF HostAckLost
  <2>. QED BY <1>3, <2>2, <2>3 DEF HostAckLost
<1>4. CASE HostSuspend \/ HostResume \/ HostBulk
  BY <1>4, KeptSteps, Frame
<1>. QED
  BY <1>1, <1>2, <1>3, <1>4, HostSetupLink, DuplicateLink, DataOutLink, StatusOutLink,
     StalledLink, HostResetLink
  DEF HostNext, HostContinue

LEMMA LinkStep ==
  ASSUME DriverInv, LinkInv, [LinkNext]_linkvars
  PROVE  LinkInv'
<1>1. CASE HostNext
  BY <1>1, HostLink
<1>2. CASE /\ usb_cdc_init \/ USB_LP_CAN1_RX0_IRQHandler \/ usb_cdc_try_write
           /\ UNCHANGED hostvars
  BY <1>2, DeviceLink
<1>3. CASE UNCHANGED linkvars
  BY <1>3, KeptSteps, Frame
<1>. QED BY <1>1, <1>2, <1>3 DEF LinkNext, Device

-----------------------------------------------------------------------------
(* The invariant, and what follows from it.                                *)

LEMMA LinkStart ==
  ASSUME LinkInit
  PROVE  DriverInv /\ LinkInv
<1>1. DriverInv
  BY InitType DEF LinkInit, Init, DriverInv, Ep0Answers, RequestsLeaveNothing
<1>2. /\ h_stage = "none" /\ h_got = 0 /\ h_dup = FALSE /\ h_addr = 0 /\ h_config = {0}
      /\ h_sent = DefaultLineCoding /\ ep0_rx.pid = "NONE"
      /\ configuration_value = 0 /\ pending_address_valid = FALSE
  BY DEF LinkInit, Init, HwInit, NoPacket
<1>3. HostTypeOK
  BY <1>2, LineCodingsAssumption DEF HostTypeOK, DefaultLineCoding
<1>. QED
  BY <1>1, <1>2, <1>3
  DEF LinkInv, AfterReset, SetupIsRequest, InTransfer, AddressKnown, Between

(* The driver keeps its own invariants with this host, and what the host    *)
(* believes of its transfer agrees with the driver's endpoint 0 state.      *)
THEOREM HostAgrees == LinkSpec => [](DriverInv /\ LinkInv)
<1>1. DriverInv /\ LinkInv /\ [LinkNext]_linkvars => (DriverInv /\ LinkInv)'
  <2>1. LinkInv => HostTypeOK
    BY DEF LinkInv
  <2>. QED BY <2>1, DriverStep, LinkStep
<1>. QED BY <1>1, LinkStart, PTL DEF LinkSpec

(* configuration_value is one the host knows the device may have: only a    *)
(* SET_CONFIGURATION that is not refused changes it (handle_ep0_setup).     *)
THEOREM ConfigurationIsKnown == LinkSpec => []ConfigurationKnown
<1>1. LinkInv => ConfigurationKnown
  BY ConfigurationFound
<1>. QED BY <1>1, HostAgrees, PTL

LEMMA ReadsFound ==
  ASSUME DriverInv, LinkInv
  PROVE  ReadsAreComplete
<1>. SUFFICES ASSUME h_stage = "status_out" PROVE h_got = Total
  BY DEF ReadsAreComplete, Total
<1>1. "RESET" \notin istr
  BY DEF LinkInv, AfterReset
<1>2. ep0_rx.pid # "SETUP"
  <2>1. h_req \in Setups
    BY DEF LinkInv, HostTypeOK
  <2>. QED BY <2>1, Stages DEF LinkInv, SetupIsRequest
<1>3. Reading
  BY <1>1, <1>2 DEF LinkInv, InTransfer, Refused, Receiving, Finishing
<1>4. CASE Sent
  BY <1>4 DEF Sent
<1>5. CASE Sending
  <2>1. h_got = ep0_tx_data.offset /\ ep0_tx_remaining = 0
        /\ ep0_tx_data.offset + ep0_tx_remaining = Total
    BY <1>5 DEF Sending, Offered, Taken
  <2>2. h_got \in Nat
    BY DEF LinkInv, HostTypeOK
  <2>. QED BY <2>1, <2>2
<1>. QED BY <1>3, <1>4, <1>5 DEF Reading

(* Whatever the length of a buffer and the length asked for, the host has   *)
(* every byte there is, or all it asked for, when it sees the data stage    *)
(* end: handle_ep0_in_data sends a zero-length packet exactly when needed.  *)
THEOREM ReadsComplete == LinkSpec => []ReadsAreComplete
<1>1. DriverInv /\ LinkInv => ReadsAreComplete
  BY ReadsFound
<1>. QED BY <1>1, HostAgrees, PTL

(* Every packet of a read continues the buffer that the request names where *)
(* the packet before it ended, however many handshakes are lost:            *)
(* ep0_send_next_data_packet moves on only after a completion.              *)
THEOREM ReadsContiguous == LinkSpec => ReadsAreContiguous
<1>1. ASSUME DriverInv, LinkInv,
             HostDataIn \/ (HostAckLost /\ h_stage = "data_in"), ep0_tx.length > 0
      PROVE  ep0_tx.source.name = ReadName(h_req) /\ ep0_tx.offset = h_got
  <2>1. /\ Addressed /\ Reachable /\ h_stage = "data_in" /\ ~ h_dup
        /\ stat_tx[USB_EP0] = "VALID"
    BY <1>1 DEF HostDataIn, HwIn, HostAckLost
  <2>. QED BY <1>1, <2>1, OfferFound DEF Offered
<1>. QED BY <1>1, HostAgrees, PTL DEF LinkSpec, ReadsAreContiguous

(* The device answers by a new address only when the host calls it by that  *)
(* address: handle_ep0_in_status writes DADDR after the status stage of     *)
(* SET_ADDRESS, and an address given up with its transfer is forgotten.     *)
THEOREM AddressFollowsStatus == LinkSpec => AddressAfterStatus
<1>1. ASSUME DriverInv, LinkInv, [LinkNext]_linkvars, daddr' # daddr, "RESET" \notin istr'
      PROVE  daddr'.addr = h_addr'
  <2>1. CASE \/ usb_cdc_init \/ HandleReset
             /\ UNCHANGED hostvars
    <3>1. h_addr' = 0
      BY <1>1, <2>1 DEF usb_cdc_init, HandleReset, LinkInv, AfterReset, hostvars
    <3>2. daddr' = [ef |-> TRUE, addr |-> 0]
      BY <2>1 DEF usb_cdc_init, HandleReset, usb_bus_reset
    <3>. QED BY <3>1, <3>2
  <2>2. CASE handle_ep0_in /\ UNCHANGED hostvars
    <3>1. USB_EP0 \in ctr_tx /\ "RESET" \notin istr
      BY <1>1, <2>2, ServedPending DEF handle_ep0_in, ClearTx, DriverInv
    <3>2. /\ ep0_state = "STATUS_IN" /\ pending_address_valid
          /\ daddr' = [ef |-> TRUE, addr |-> pending_address]
      <4>1. handle_ep0_in_status
        BY <1>1, <2>2 DEF handle_ep0_in, handle_ep0_in_data
      <4>. QED BY <1>1, <4>1 DEF handle_ep0_in_status
    <3>3. h_addr = pending_address
      BY <1>1, <3>1, <3>2 DEF LinkInv, AddressKnown
    <3>. QED BY <2>2, <3>2, <3>3 DEF hostvars
  <2>3. CASE handle_ep0_out \/ ServeSetup
    BY <1>1, <2>3 DEF handle_ep0_out, ServeSetup, DataOutComplete
  <2>4. CASE HostReset
    BY <1>1, <2>4 DEF HostReset, HwReset
  <2>5. CASE \/ EnterHandler \/ EnterTransfers \/ LeaveTransfers \/ LeaveHandler
             \/ HandleError \/ HandleWakeup \/ HandleSuspend
             \/ ServeBulkOut \/ ServeBulkIn \/ usb_cdc_try_write
    BY <1>1, <2>5 DEF EnterHandler, EnterTransfers, LeaveTransfers, LeaveHandler, HandleError,
                      HandleWakeup, HandleSuspend, Handling, ServeBulkOut, ServeBulkIn,
                      usb_cdc_try_write, hwvars
  <2>6. CASE (\E r \in Setups : HostSetup(r)) \/ \E c \in LineCodings : HostDataOut(c)
    BY <1>1, <2>6 DEF HostSetup, HwSetup, HostDataOut, HwOut0
  <2>7. CASE \/ HostDataIn \/ HostStatusIn \/ HostDuplicate \/ HostStatusOut
             \/ HostStalled \/ HostAckLost
    BY <1>1, <2>7 DEF HostDataIn, HostStatusIn, HostDuplicate, HostStatusOut, HostStalled,
                      HostAckLost, HwIn, HwOut0, hwvars
  <2>8. CASE HostSuspend \/ HostResume \/ HostBulk
    BY <1>1, <2>8 DEF HostSuspend, HwSuspend, HostResume, HwResume, HostBulk, HwOutBulk, HwIn
  <2>9. CASE UNCHANGED linkvars
    BY <1>1, <2>9 DEF linkvars, vars, hwvars
  <2>. QED
    BY <1>1, <2>1, <2>2, <2>3, <2>4, <2>5, <2>6, <2>7, <2>8, <2>9
    DEF LinkNext, Device, USB_LP_CAN1_RX0_IRQHandler, handle_correct_transfer, HostNext,
        HostContinue
<1>. QED BY <1>1, HostAgrees, PTL DEF LinkSpec, AddressAfterStatus

(* When the host is told that its line coding is set, line_coding is what   *)
(* it sent: handle_ep0_out stores it before it starts the status stage.     *)
THEOREM LineCodingSet == LinkSpec => LineCodingIsSet
<1>1. ASSUME DriverInv, LinkInv, HostStatusIn, h_req.request = "SET_LINE_CODING"
      PROVE  line_coding = h_sent
  <2>1. /\ Addressed /\ Reachable /\ h_stage = "status_in"
        /\ stat_tx[USB_EP0] = "VALID"
    BY <1>1 DEF HostStatusIn, HwIn
  <2>2. Finishing
    BY <1>1, <2>1, HostFinds DEF Reading, Sending, Offered, Taken, Sent, Receiving
  <2>. QED BY <1>1, <2>2 DEF Finishing
<1>. QED BY <1>1, HostAgrees, PTL DEF LinkSpec, LineCodingIsSet

(* A STALL is the answer to a request that handle_ep0_setup does not        *)
(* handle, and to nothing else.                                             *)
THEOREM StallIsRefusal == LinkSpec => OnlyUnhandledStall
<1>1. DriverInv /\ LinkInv => (HostStalled => ~ Handled(h_req))
  BY StalledFinds DEF Refused
<1>. QED BY <1>1, HostAgrees, PTL DEF LinkSpec, OnlyUnhandledStall

-----------------------------------------------------------------------------
(* The refinement of UsbFunction.                                          *)

(* What the mapping needs beyond DriverInv and LinkInv: whose configuration *)
(* the endpoints have, that a packet which has been served is gone, and     *)
(* that nothing has happened before usb_cdc_init.                           *)
MapInv ==
  /\ usb_configured <=> configuration_value = 1
  /\ ep0_rx.pid = "OUT" => USB_EP0 \in ctr_rx
  /\ isr = "off" =>
       /\ ep0_rx.pid = "NONE" /\ "RESET" \notin istr
       /\ configuration_value = 0 /\ usb_dtr_asserted = FALSE

LEMMA MapStep ==
  ASSUME DriverInv, LinkInv, MapInv, [LinkNext]_linkvars
  PROVE  MapInv'
<1>1. CASE usb_bus_reset /\ isr' # "off"
  <2>1. ep0_rx'.pid = "OUT" => ep0_rx.pid = "OUT"
    BY <1>1 DEF usb_bus_reset
  <2>. QED BY <1>1, <2>1 DEF usb_bus_reset, MapInv
<1>2. CASE ServeSetup
  <2>1. handle_ep0_setup(ep0_rx.req)
    BY <1>2 DEF ServeSetup
  <2>2. \/ UNCHANGED <<usb_configured, configuration_value>>
        \/ /\ ep0_rx.req.value <= 1 /\ configuration_value' = ep0_rx.req.value
           /\ usb_configured' = (ep0_rx.req.value = 1)
    BY <2>1 DEF handle_ep0_setup, SetAddress, SetLineCoding, GetStatus, GetDescriptor,
                GetConfiguration, GetInterface, GetLineCoding, SetConfiguration,
                IsSetConfiguration, SetControlLineState, EndpointHalt,
                SetInterfaceOrSendBreak, StallRequest, configvars
  <2>3. ep0_rx'.pid = "NONE" /\ isr' = "ctr"
    BY <1>2 DEF ServeSetup, ClearRx, NoPacket
  <2>4. usb_configured' <=> configuration_value' = 1
    <3>1. CASE UNCHANGED <<usb_configured, configuration_value>>
      BY <3>1 DEF MapInv
    <3>2. CASE /\ configuration_value' = ep0_rx.req.value
               /\ usb_configured' = (ep0_rx.req.value = 1)
      BY <3>2
    <3>. QED BY <2>2, <3>1, <3>2
  <2>. QED BY <2>3, <2>4 DEF MapInv
<1>3. CASE handle_ep0_out
  <2>1. ep0_rx'.pid = "NONE" /\ isr' = "ctr" /\ UNCHANGED <<usb_configured, configuration_value>>
    BY <1>3 DEF handle_ep0_out, ClearRx, NoPacket, configvars
  <2>. QED BY <2>1 DEF MapInv
<1>4. CASE handle_ep0_in
  <2>1. UNCHANGED <<ep0_rx, ctr_rx, usb_configured, configuration_value>> /\ isr' = "ctr"
    BY <1>4 DEF handle_ep0_in, ClearTx, configvars
  <2>. QED BY <2>1 DEF MapInv
<1>5. CASE Ep0Kept
  BY <1>5 DEF Ep0Kept, MapInv
<1>6. CASE (\E r \in Setups : HostSetup(r)) \/ \E c \in LineCodings : HostDataOut(c)
  BY <1>6 DEF HostSetup, HwSetup, HostDataOut, HwOut0, Addressed, swvars, configvars, MapInv
<1>7. CASE \/ HostDataIn \/ HostStatusIn \/ HostDuplicate \/ HostStatusOut
           \/ HostStalled \/ HostAckLost
  BY <1>7 DEF HostDataIn, HostStatusIn, HostDuplicate, HostStatusOut, HostStalled,
              HostAckLost, HwIn, HwOut0, Addressed, hwvars, swvars, configvars, MapInv
<1>8. CASE HostReset
  <2>1. ep0_rx'.pid = "OUT" => USB_EP0 \in ctr_rx'
    BY <1>8 DEF HostReset, HwReset, LinkInv, SetupIsRequest, MapInv
  <2>. QED BY <1>8, <2>1 DEF HostReset, HwReset, swvars, configvars, MapInv
<1>. QED
  BY <1>1, <1>2, <1>3, <1>4, <1>5, <1>6, <1>7, <1>8, KeptSteps
  DEF LinkNext, Device, USB_LP_CAN1_RX0_IRQHandler, handle_correct_transfer, HostNext,
      HostContinue, HandleReset, usb_cdc_init

(* The device of UsbFunction stands still.                                 *)
LEMMA FunctionStutters ==
  ASSUME Requested' = Requested, Followed' <=> Followed, Arrived' = Arrived,
         UNCHANGED <<h_got, configuration_value, usb_dtr_asserted, line_coding>>,
         "RESET" \in istr' <=> "RESET" \in istr
  PROVE  UNCHANGED Function!functionvars
<1>1. Followed' = Followed
  BY DEF Followed
<1>2. ("RESET" \in istr)' = ("RESET" \in istr)
  OBVIOUS
<1>. QED BY <1>1, <1>2 DEF Function!functionvars, Function!devicevars

LEMMA KeptMaps ==
  ASSUME Ep0Kept
  PROVE  UNCHANGED Function!functionvars
<1>1. Requested' = Requested
  BY DEF Ep0Kept, hostvars, Requested
<1>2. Followed' <=> Followed
  BY DEF Ep0Kept, hostvars, Followed
<1>3. Arrived' = Arrived
  BY DEF Ep0Kept, outvars, Arrived, DataOutComplete
<1>. QED BY <1>1, <1>2, <1>3, FunctionStutters DEF Ep0Kept, hostvars

(* usb_cdc_init and a reset of the bus.                                     *)
LEMMA InitMaps ==
  ASSUME LinkInv, MapInv, usb_cdc_init, UNCHANGED hostvars
  PROVE  UNCHANGED Function!functionvars
<1>1. /\ h_stage = "none" /\ UNCHANGED <<h_stage, h_got>>
      /\ ep0_rx.pid = "NONE" /\ "RESET" \notin istr
      /\ configuration_value = 0 /\ usb_dtr_asserted = FALSE
  BY DEF usb_cdc_init, LinkInv, AfterReset, MapInv, hostvars
<1>2. /\ ep0_rx' = ep0_rx /\ line_coding' = line_coding
      /\ configuration_value' = 0 /\ usb_dtr_asserted' = FALSE /\ "RESET" \notin istr'
  BY <1>1 DEF usb_cdc_init, usb_bus_reset
<1>3. Requested' = Requested /\ ~ Followed /\ ~ Followed'
  BY <1>1 DEF Requested, Followed
<1>4. Arrived' = {} /\ Arrived = {}
  BY <1>1, <1>2 DEF Arrived
<1>5. usb_dtr_asserted' = usb_dtr_asserted
  BY <1>1, <1>2
<1>. QED BY <1>1, <1>2, <1>3, <1>4, <1>5, FunctionStutters

LEMMA ResetMaps ==
  ASSUME LinkInv, HandleReset, UNCHANGED hostvars
  PROVE  Function!DeviceReset
<1>1. h_stage = "none" /\ UNCHANGED <<h_stage, h_got>>
  BY DEF HandleReset, LinkInv, AfterReset, hostvars
<1>2. Requested' = Requested /\ Followed = FALSE /\ Followed' = FALSE
  BY <1>1 DEF Requested, Followed
<1>3. Arrived' = {}
  BY DEF HandleReset, usb_bus_reset, Arrived, DataOutComplete
<1>4. ("RESET" \in istr) = TRUE /\ ("RESET" \in istr') = FALSE
  BY DEF HandleReset
<1>5. configuration_value' = 0 /\ usb_dtr_asserted' = FALSE /\ line_coding' = line_coding
  BY DEF HandleReset, usb_bus_reset
<1>. QED BY <1>1, <1>2, <1>3, <1>4, <1>5 DEF Function!DeviceReset

(* ServeSetup: a request that is not refused has its effect now, unless its *)
(* data stage is still to come.                                             *)
LEMMA FollowMaps ==
  ASSUME DriverInv, LinkInv, ServeSetup, UNCHANGED hostvars
  PROVE  /\ Requested = <<h_req>> /\ Requested' = <<h_req>>
         /\ ~ Followed
         /\ Followed' <=> ep0_state' \notin {"STALLED", "DATA_OUT"}
         /\ Arrived = {} /\ Arrived' = {}
         /\ UNCHANGED <<h_got, line_coding>>
         /\ "RESET" \notin istr /\ "RESET" \notin istr'
<1>1. /\ h_stage = FirstStage(h_req) /\ h_req \in Setups
      /\ UNCHANGED <<h_stage, h_req, h_got, istr, line_coding>>
      /\ "RESET" \notin istr /\ ep0_rx' = NoPacket
  BY SetupFinds
<1>2. h_stage # "none" /\ ep0_rx.pid = "SETUP" /\ ep0_rx'.pid = "NONE"
  BY <1>1, Stages DEF ServeSetup, NoPacket
<1>. QED BY <1>1, <1>2 DEF Requested, Followed, Arrived

LEMMA SetupMaps ==
  ASSUME DriverInv, LinkInv, MapInv, ServeSetup, UNCHANGED hostvars
  PROVE  Function!Follow \/ UNCHANGED Function!functionvars
<1>1. /\ Requested = <<h_req>> /\ Requested' = <<h_req>>
      /\ ~ Followed
      /\ Followed' <=> ep0_state' \notin {"STALLED", "DATA_OUT"}
      /\ Arrived = {} /\ Arrived' = {}
      /\ UNCHANGED <<h_got, line_coding>>
      /\ "RESET" \notin istr /\ "RESET" \notin istr'
  BY FollowMaps
<1>2. handle_ep0_setup(h_req)
  BY SetupFinds
<1>3. ASSUME ep0_state' \in {"DATA_IN", "STATUS_IN"},
             \/ Function!SetConfiguration \/ Function!SetControlLineState \/ Function!Answer
      PROVE  Function!Follow
  <2>1. Followed' = TRUE /\ ("RESET" \in istr)' = ("RESET" \in istr)
    BY <1>1, <1>3 DEF Followed
  <2>. QED BY <1>1, <1>3, <2>1 DEF Function!Follow
<1>4. ASSUME ep0_state' \in {"DATA_IN", "STATUS_IN"}, UNCHANGED configvars,
             h_req.request \notin {"SET_CONFIGURATION", "SET_CONTROL_LINE_STATE",
                                    "SET_LINE_CODING"}
      PROVE  Function!Follow
  <2>1. Function!Answer
    BY <1>1, <1>4 DEF Function!Answer, Function!Asked, configvars
  <2>. QED BY <1>3, <1>4, <2>1
<1>5. ASSUME ep0_state' \in {"STALLED", "DATA_OUT"}, UNCHANGED configvars
      PROVE  UNCHANGED Function!functionvars
  BY <1>1, <1>5, FunctionStutters DEF configvars
<1>6. CASE SetAddress(h_req)
  BY <1>4, <1>6 DEF SetAddress, IsSetAddress, Is, ep0_start_status_in
<1>7. CASE SetLineCoding(h_req)
  BY <1>5, <1>7 DEF SetLineCoding, ep0_start_data_out
<1>8. CASE \/ GetStatus(h_req) \/ GetDescriptor(h_req) \/ GetConfiguration(h_req)
           \/ GetInterface(h_req) \/ GetLineCoding(h_req)
  <2>1. \E a, b, c : ep0_start_data_in(a, b, c)
    BY <1>8 DEF GetStatus, GetDescriptor, GetConfiguration, GetInterface, GetLineCoding
  <2>2. ep0_state' = "DATA_IN"
    BY <2>1 DEF ep0_start_data_in
  <2>3. /\ h_req.request \in {"GET_STATUS", "GET_DESCRIPTOR", "GET_CONFIGURATION",
                              "GET_INTERFACE", "GET_LINE_CODING"}
        /\ UNCHANGED configvars
    BY <1>8 DEF GetStatus, GetDescriptor, GetConfiguration, GetInterface, GetLineCoding,
                IsGetStatus, IsGetDescriptor, IsGetConfiguration, IsGetInterface,
                IsGetLineCoding, IsCdc, Is
  <2>. QED BY <1>4, <2>2, <2>3
<1>9. CASE SetConfiguration(h_req)
  <2>1. /\ h_req.request = "SET_CONFIGURATION" /\ h_req.value <= 1
        /\ configuration_value' = h_req.value /\ usb_dtr_asserted' = FALSE
        /\ ep0_state' = "STATUS_IN"
    BY <1>9 DEF SetConfiguration, IsSetConfiguration, Is,
                 non_control_endpoints_set_configured, ep0_start_status_in
  <2>2. h_req.value \in {0, 1}
    BY <2>1, SetupFinds, SetupFields
  <2>3. Function!SetConfiguration
    BY <1>1, <2>1, <2>2 DEF Function!SetConfiguration, Function!Asked
  <2>. QED BY <1>3, <2>1, <2>3
<1>10. CASE SetControlLineState(h_req)
  <2>1. /\ h_req.request = "SET_CONTROL_LINE_STATE" /\ usb_configured
        /\ usb_dtr_asserted' = (h_req.value % 2 = 1) /\ UNCHANGED configuration_value
        /\ ep0_state' = "STATUS_IN"
    BY <1>10 DEF SetControlLineState, IsSetControlLineState, IsCdc, Is, ep0_start_status_in
  <2>2. configuration_value = 1
    BY <2>1 DEF MapInv
  <2>3. Function!SetControlLineState
    BY <1>1, <2>1, <2>2 DEF Function!SetControlLineState, Function!Asked
  <2>. QED BY <1>3, <2>1, <2>3
<1>11. CASE EndpointHalt(h_req)
  BY <1>4, <1>11
  DEF EndpointHalt, IsEndpointHalt, Is, endpoint_set_halt, ep0_start_status_in
<1>12. CASE SetInterfaceOrSendBreak(h_req)
  BY <1>4, <1>12
  DEF SetInterfaceOrSendBreak, IsSetInterface, IsSendBreak, IsCdc, Is, ep0_start_status_in
<1>13. CASE StallRequest(h_req)
  BY <1>5, <1>13 DEF StallRequest, ep0_stall
<1>. QED
  BY <1>2, <1>6, <1>7, <1>8, <1>9, <1>10, <1>11, <1>12, <1>13 DEF handle_ep0_setup

(* A complete data stage is the line coding of the request; any other       *)
(* reception comes after its transfer is over.                              *)
LEMMA OutMaps ==
  ASSUME DriverInv, LinkInv, handle_ep0_out, UNCHANGED hostvars
  PROVE  Function!SetLineCoding \/ UNCHANGED Function!functionvars
<1>1. /\ ep0_rx.pid = "OUT" /\ USB_EP0 \in ctr_rx /\ ep0_rx'.pid = "NONE"
      /\ UNCHANGED <<istr, h_stage, h_req, h_got, configuration_value, usb_dtr_asserted>>
  BY DEF handle_ep0_out, ClearRx, NoPacket, configvars, hostvars
<1>2. Requested' = Requested /\ Arrived' = {}
  BY <1>1 DEF Requested, Arrived
<1>3. CASE DataOutComplete
  <2>1. ep0_out_action = "SET_LINE_CODING" /\ ep0_state = "DATA_OUT"
    BY <1>3 DEF DataOutComplete, DriverInv, TypeOK, RequestsLeaveNothing
  <2>2. line_coding' = ep0_rx.coding /\ ep0_state' = "STATUS_IN"
    BY <1>3, <2>1 DEF handle_ep0_out, ep0_start_status_in
  <2>3. Arrived = {ep0_rx.coding}
    BY <1>1, <1>3 DEF Arrived
  <2>4. Followed' = (h_stage # "none")
    BY <1>1, <2>2 DEF Followed
  <2>5. (h_stage # "none") = (Requested # <<>>)
    BY DEF Requested
  <2>. QED BY <1>1, <1>2, <2>2, <2>3, <2>4, <2>5 DEF Function!SetLineCoding
<1>4. CASE ~ DataOutComplete
  <2>1. h_stage = "none"
    <3>. SUFFICES ASSUME h_stage # "none" PROVE FALSE
      OBVIOUS
    <3>1. "RESET" \notin istr
      BY DEF LinkInv, AfterReset
    <3>2. Receiving /\ ep0_rx = OutPacket(7, h_sent)
      BY <1>1, <3>1 DEF LinkInv, InTransfer, Refused, Reading, Receiving, Finishing, NoTransfer
    <3>. QED BY <1>4, <3>2 DEF Receiving, OutPacket, DataOutComplete
  <2>2. ~ Followed /\ ~ Followed'
    BY <1>1, <2>1 DEF Followed
  <2>3. Arrived = {} /\ line_coding' = line_coding
    BY <1>4 DEF Arrived, handle_ep0_out
  <2>. QED BY <1>1, <1>2, <2>2, <2>3, FunctionStutters
<1>. QED BY <1>3, <1>4

LEMMA InMaps ==
  ASSUME DriverInv, LinkInv, MapInv, handle_ep0_in, UNCHANGED hostvars
  PROVE  UNCHANGED Function!functionvars
<1>1. /\ USB_EP0 \notin ctr_rx
      /\ UNCHANGED <<ep0_rx, istr, h_stage, h_req, h_got, configuration_value,
                     usb_dtr_asserted, line_coding>>
  BY DEF handle_ep0_in, ClearTx, configvars, hostvars
<1>2. ep0_rx.pid # "OUT"
  BY <1>1 DEF MapInv
<1>3. ep0_state' \in {"STALLED", "DATA_OUT"} <=> ep0_state \in {"STALLED", "DATA_OUT"}
  BY DEF handle_ep0_in, handle_ep0_in_data, handle_ep0_in_status, ep0_wait_out
<1>4. Followed' <=> Followed
  BY <1>1, <1>3 DEF Followed
<1>5. Requested' = Requested /\ Arrived = {} /\ Arrived' = {}
  BY <1>1, <1>2 DEF Requested, Arrived
<1>. QED BY <1>1, <1>4, <1>5, FunctionStutters

-----------------------------------------------------------------------------
(* The steps of the host.  What it does leaves the driver's variables.      *)

LEMMA DriverRests ==
  ASSUME UNCHANGED swvars
  PROVE  UNCHANGED <<configuration_value, usb_dtr_asserted, line_coding, ep0_state,
                     ep0_out_expected>>
BY DEF swvars, configvars, outvars

LEMMA HostSetupMaps ==
  ASSUME NEW r \in Setups, HostSetup(r)
  PROVE  Function!Ask(r)
<1>1. /\ h_stage' = FirstStage(r) /\ h_req' = r /\ h_got' = 0
      /\ ep0_rx'.pid = "SETUP" /\ "RESET" \notin istr /\ istr' = istr
      /\ UNCHANGED swvars
  BY DEF HostSetup, HwSetup, Reachable, Addressed, SetupPacket
<1>2. Requested' = <<r>> /\ Followed' = FALSE /\ Arrived' = {}
  BY <1>1, Stages DEF Requested, Followed, Arrived
<1>. QED BY <1>1, <1>2, DriverRests DEF Function!Ask, Function!devicevars

LEMMA DataInMaps ==
  ASSUME DriverInv, LinkInv, MapInv, Addressed, Reachable, h_stage = "data_in", ~ h_dup,
         stat_tx[USB_EP0] = "VALID", TakeData(ep0_tx), UNCHANGED <<ep0_rx, istr>>
  PROVE  Function!Deliver \/ UNCHANGED Function!functionvars
<1>1. Reading /\ Sending /\ Offered
  BY OfferFound
<1>2. ep0_rx.pid \notin {"SETUP", "OUT"} /\ h_req \in Setups /\ "RESET" \notin istr
  BY <1>1, HostFinds DEF Reading, MapInv
<1>3. /\ UNCHANGED <<configuration_value, usb_dtr_asserted, line_coding, ep0_state>>
      /\ ep0_state = "DATA_IN"
  BY <1>1, DriverRests DEF Addressed, Sending
<1>4. h_got' = h_got + ep0_tx.length /\ h_req' = h_req /\ h_stage' # "none"
  BY DEF TakeData
<1>5. /\ Requested = <<h_req>> /\ Requested' = <<h_req>>
      /\ Followed = TRUE /\ Followed' = TRUE /\ Arrived = {} /\ Arrived' = {}
  BY <1>2, <1>3, <1>4 DEF Requested, Followed, Arrived
<1>6. /\ h_got \in Nat /\ ep0_tx.length \in Nat /\ ep0_tx_remaining \in Nat
      /\ ep0_tx_data.offset \in Nat
  BY <1>1 DEF LinkInv, HostTypeOK, DriverInv, TypeOK, HwTypeOK, InPackets, NoPacket, Offered
<1>7. CASE ep0_tx.length = 0
  <2>1. h_got' = h_got
    BY <1>4, <1>6, <1>7
  <2>. QED BY <1>3, <1>5, <2>1, FunctionStutters
<1>8. CASE ep0_tx.length > 0
  <2>. DEFINE n == ep0_tx.length
  <2>1. Available(h_req) = Total
    BY <1>1 DEF Reading, Available, Total
  <2>2. h_got + n + ep0_tx_remaining = Available(h_req)
    BY <1>1, <2>1 DEF Sending, Offered
  <2>3. n \in 1 .. Available(h_req) - h_got
    BY <1>6, <1>8, <2>2
  <2>4. [r \in Setups |-> Available(r)][Requested[1]] = Available(h_req)
    BY <1>2, <1>5
  <2>5. /\ ("RESET" \in istr)' = ("RESET" \in istr)
        /\ UNCHANGED Function!devicevars
    BY <1>3 DEF Function!devicevars
  <2>. QED BY <1>4, <1>5, <2>3, <2>4, <2>5 DEF Function!Deliver
<1>. QED BY <1>6, <1>7, <1>8

LEMMA StatusInMaps ==
  ASSUME DriverInv, LinkInv, Addressed, Reachable, h_stage = "status_in",
         stat_tx[USB_EP0] = "VALID", FinishRequest, UNCHANGED <<ep0_rx, istr>>
  PROVE  Function!Finish
<1>1. Finishing /\ ep0_rx.pid # "SETUP" /\ h_req \in Setups
  BY HostFinds DEF Reading, Sending, Offered, Taken, Sent, Receiving
<1>2. UNCHANGED <<configuration_value, usb_dtr_asserted, line_coding, ep0_state,
                  ep0_out_expected>>
  BY DriverRests DEF Addressed
<1>3. h_stage' = "none" /\ h_got' = 0
  BY DEF FinishRequest, TransferOver
<1>4. /\ Requested = <<h_req>> /\ Requested' = <<>>
      /\ Followed = TRUE /\ Followed' = FALSE /\ Arrived' = Arrived
  BY <1>1, <1>2, <1>3 DEF Requested, Followed, Arrived, DataOutComplete, Finishing
<1>5. h_got = [r \in Setups |-> Available(r)][Requested[1]]
  BY <1>1, <1>4 DEF Finishing
<1>. QED
  BY <1>2, <1>3, <1>4, <1>5 DEF Function!Finish, Function!Over, Function!devicevars

LEMMA DuplicateMaps ==
  ASSUME HostDuplicate
  PROVE  UNCHANGED Function!functionvars
<1>1. UNCHANGED <<h_stage, h_req, h_got, ep0_rx, istr, swvars>>
  BY DEF HostDuplicate, HwIn, Addressed
<1>2. Requested' = Requested /\ (Followed' <=> Followed) /\ Arrived' = Arrived
  BY <1>1, DriverRests DEF Requested, Followed, Arrived, DataOutComplete
<1>. QED BY <1>1, <1>2, DriverRests, FunctionStutters

LEMMA DataOutMaps ==
  ASSUME DriverInv, LinkInv, MapInv, NEW c \in LineCodings, HostDataOut(c)
  PROVE  Function!Send(c)
<1>1. /\ h_stage = "data_out" /\ Reachable /\ Addressed
      /\ stat_rx[USB_EP0] = "VALID" /\ h_stage' = "status_in"
      /\ UNCHANGED <<h_req, h_got, istr>>
      /\ ep0_rx' = OutPacket(h_req.length, c)
  BY DEF HostDataOut, HwOut0
<1>2. Receiving /\ USB_EP0 \notin ctr_rx
  BY <1>1, HostFinds DEF Reading, Sending, Offered, Taken, Sent, Finishing, Receiving
<1>3. UNCHANGED <<configuration_value, usb_dtr_asserted, line_coding, ep0_state,
                  ep0_out_expected>>
  BY <1>1, DriverRests DEF Addressed
<1>4. /\ h_req.request = "SET_LINE_CODING" /\ h_req.length = 7
      /\ ep0_state = "DATA_OUT" /\ ep0_out_expected = 7 /\ ep0_rx.pid # "OUT"
  BY <1>2 DEF Receiving, MapInv
<1>5. configuration_value = 1
  BY <1>4 DEF DriverInv, RequestsLeaveNothing, MapInv
<1>6. Arrived = {} /\ Arrived' = {c}
  BY <1>1, <1>3, <1>4 DEF Arrived, DataOutComplete, OutPacket
<1>7. /\ Requested = <<h_req>> /\ Requested' = <<h_req>>
      /\ Followed = FALSE /\ Followed' = FALSE
  BY <1>1, <1>3, <1>4 DEF Requested, Followed
<1>. QED
  BY <1>1, <1>3, <1>4, <1>5, <1>6, <1>7
  DEF Function!Send, Function!Asked, Function!devicevars

LEMMA StatusOutMaps ==
  ASSUME DriverInv, LinkInv, MapInv, HostStatusOut, ReadsAreComplete
  PROVE  Function!Finish
<1>1. /\ h_stage = "status_out" /\ Reachable /\ Addressed
      /\ stat_rx[USB_EP0] = "VALID" /\ h_stage' = "none" /\ h_got' = 0
      /\ istr' = istr
  BY DEF HostStatusOut, HwOut0, TransferOver
<1>2. Reading /\ ep0_rx.pid # "SETUP" /\ h_req \in Setups
  BY <1>1, HostFinds DEF Receiving, Finishing
<1>3. UNCHANGED <<configuration_value, usb_dtr_asserted, line_coding, ep0_state>>
  BY <1>1, DriverRests DEF Addressed
<1>4. ep0_state \in {"DATA_IN", "STATUS_OUT"}
  BY <1>2 DEF Reading, Sending, Sent
<1>5. /\ Requested = <<h_req>> /\ Requested' = <<>>
      /\ Followed = TRUE /\ Followed' = FALSE /\ Arrived = {} /\ Arrived' = {}
  BY <1>1, <1>2, <1>3, <1>4 DEF Requested, Followed, Arrived, DataOutComplete
<1>6. h_got = [r \in Setups |-> Available(r)][Requested[1]]
  BY <1>1, <1>2, <1>5 DEF ReadsAreComplete, Reading, Available
<1>. QED
  BY <1>1, <1>3, <1>5, <1>6 DEF Function!Finish, Function!Over, Function!devicevars

LEMMA StalledMaps ==
  ASSUME DriverInv, LinkInv, HostStalled
  PROVE  Function!Refuse
<1>1. Refused
  BY StalledFinds
<1>2. /\ h_stage # "none" /\ h_stage' = "none" /\ h_got' = 0
      /\ UNCHANGED <<ep0_rx, istr, swvars>>
  BY DEF HostStalled, TransferOver, hwvars, Addressed
<1>3. UNCHANGED <<configuration_value, usb_dtr_asserted, line_coding, ep0_state>>
  BY <1>2, DriverRests
<1>4. /\ Requested # <<>> /\ Requested' = <<>>
      /\ Followed = FALSE /\ Followed' = FALSE /\ Arrived = {} /\ Arrived' = {}
  BY <1>1, <1>2, <1>3 DEF Refused, Requested, Followed, Arrived, DataOutComplete
<1>. QED BY <1>2, <1>3, <1>4 DEF Function!Refuse, Function!Over, Function!devicevars

(* The eight bytes that remain of a SETUP are not the seven of a line       *)
(* coding.                                                                  *)
LEMMA HostResetMaps ==
  ASSUME DriverInv, HostReset
  PROVE  Function!BusReset
<1>1. /\ h_stage' = "none" /\ h_got' = 0 /\ UNCHANGED swvars
      /\ ("RESET" \in istr) = FALSE /\ ("RESET" \in istr') = TRUE
      /\ ep0_rx' \in IF ep0_rx.pid = "SETUP"
                     THEN {OutPacket(8, c) : c \in LineCodings}
                     ELSE {ep0_rx}
  BY DEF HostReset, HwReset, TransferOver
<1>2. Requested' = <<>> /\ Followed' = FALSE
  BY <1>1 DEF Requested, Followed
<1>3. Arrived' = Arrived
  <2>1. ep0_out_expected \in {0, 7}
    BY DEF DriverInv, TypeOK
  <2>. QED BY <1>1, <2>1, DriverRests DEF Arrived, DataOutComplete, OutPacket
<1>. QED BY <1>1, <1>2, <1>3, DriverRests DEF Function!BusReset, Function!Over, Function!devicevars

LEMMA HostMaps ==
  ASSUME DriverInv, LinkInv, MapInv, HostNext
  PROVE  Function!FunctionNext \/ UNCHANGED Function!functionvars
<1>. USE DEF Function!FunctionNext
<1>1. CASE HostDataIn
  BY <1>1, DataInMaps DEF HostDataIn, HwIn
<1>2. CASE HostStatusIn
  BY <1>2, StatusInMaps DEF HostStatusIn, HwIn
<1>3. CASE HostAckLost
  BY <1>3, DataInMaps, StatusInMaps DEF HostAckLost, hwvars
<1>4. CASE HostStatusOut
  <2>1. ReadsAreComplete
    BY ReadsFound
  <2>. QED BY <1>4, <2>1, StatusOutMaps
<1>5. CASE HostSuspend \/ HostResume \/ HostBulk
  BY <1>5, KeptSteps, KeptMaps
<1>. QED
  BY <1>1, <1>2, <1>3, <1>4, <1>5, HostSetupMaps, DuplicateMaps, DataOutMaps, StalledMaps,
     HostResetMaps
  DEF HostNext, HostContinue

LEMMA DeviceMaps ==
  ASSUME DriverInv, LinkInv, MapInv,
         usb_cdc_init \/ USB_LP_CAN1_RX0_IRQHandler \/ usb_cdc_try_write,
         UNCHANGED hostvars
  PROVE  Function!FunctionNext \/ UNCHANGED Function!functionvars
BY InitMaps, ResetMaps, SetupMaps, OutMaps, InMaps, KeptSteps, KeptMaps
DEF USB_LP_CAN1_RX0_IRQHandler, handle_correct_transfer, Function!FunctionNext

LEMMA MapStart ==
  ASSUME LinkInit
  PROVE  MapInv /\ Function!FunctionInit
<1>1. /\ h_stage = "none" /\ h_got = 0 /\ ep0_rx.pid = "NONE" /\ istr = {}
      /\ usb_configured = FALSE /\ usb_dtr_asserted = FALSE /\ configuration_value = 0
      /\ line_coding = DefaultLineCoding
  BY DEF LinkInit, Init, HwInit, NoPacket
<1>2. Requested = <<>> /\ Followed = FALSE /\ Arrived = {} /\ ("RESET" \in istr) = FALSE
  BY <1>1 DEF Requested, Followed, Arrived
<1>. QED BY <1>1, <1>2 DEF MapInv, Function!FunctionInit

(* Whatever packets, stalls, lost handshakes, abandoned transfers and       *)
(* resets there are, the driver at the end of the link is the device of     *)
(* UsbFunction: handle_ep0_setup follows a request once and as a whole or   *)
(* refuses it, handle_ep0_out sets the line coding that arrived, and        *)
(* handle_ep0_in ends a read when the host has all of it.                   *)
THEOREM FunctionImplemented == LinkSpec => LinkIsFunction
<1>1. DriverInv /\ LinkInv /\ MapInv /\ [LinkNext]_linkvars => MapInv'
  BY MapStep
<1>2. LinkInit => MapInv /\ Function!FunctionInit
  BY MapStart
<1>3. DriverInv /\ LinkInv /\ MapInv /\ [LinkNext]_linkvars
      => [Function!FunctionNext]_(Function!functionvars)
  <2>. SUFFICES ASSUME DriverInv, LinkInv, MapInv, [LinkNext]_linkvars
                PROVE  Function!FunctionNext \/ UNCHANGED Function!functionvars
    OBVIOUS
  <2>1. CASE UNCHANGED linkvars
    BY <2>1, KeptSteps, KeptMaps
  <2>2. CASE LinkNext
    BY <2>2, HostMaps, DeviceMaps DEF LinkNext, Device
  <2>. QED BY <2>1, <2>2
<1>. QED
  BY <1>1, <1>2, <1>3, HostAgrees, PTL DEF LinkSpec, LinkIsFunction, Function!FunctionSpec

=============================================================================
