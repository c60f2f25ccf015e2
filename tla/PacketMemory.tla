----------------------------- MODULE PacketMemory -----------------------------
(***************************************************************************)
(* The packet memory of the USB peripheral: the buffer table and the       *)
(* packet buffers that the driver of firmware/src/usb_cdc.c lays out in    *)
(* 512 bytes, its 16-bit accesses to them (lines 222-303), and a           *)
(* peripheral that receives into them as far as the buffer table allows.   *)
(*                                                                         *)
(* A packet is known by its endpoint and its length, a byte by its packet  *)
(* and its index, so that a byte of another packet, or of a longer one     *)
(* that was there before, is told apart.  Copying is one step: while the   *)
(* driver copies, the endpoint does not use the buffer (module UsbCdc).    *)
(***************************************************************************)
EXTENDS Integers, Sequences

CONSTANTS
  SendLengths,   \* lengths of what the driver is asked to send
  HostLengths    \* lengths of what the host sends, too long ones included

ASSUME SendLengthsAssumption == SendLengths \subseteq Nat \ {0}
ASSUME HostLengthsAssumption == HostLengths \subseteq Nat \ {0}

VARIABLES
  mem,         \* packet memory: a byte for each logical address
  rx_count,    \* receive count fields of the buffer table
  tx_count,    \* transmit count fields of the buffer table
  offered,     \* length of the packet an endpoint has to send, or 0
  received     \* length of the packet the host sent to it, or 0

memoryvars == <<mem, rx_count, tx_count, offered, received>>

USB_PMA_SIZE == 512
MAX_PACKET_SIZE == 64

TxBuffer == [e \in {0, 3} |-> IF e = 0 THEN 128 ELSE 272]
RxBuffer == [e \in {0, 2} |-> IF e = 0 THEN 64 ELSE 208]

Zero == <<0, 0, 0>>
Data(e, length) == [index \in 1 .. length |-> <<e, length, index>>]

-----------------------------------------------------------------------------
(* Copying, a word at a time.  An odd byte at the end shares its word with *)
(* a zero.                                                                 *)

Even(length) == 2 * ((length + 1) \div 2)

(* Stops in front of a last odd byte.                                      *)
pma_write_words(memory, address, data, length) ==
  [a \in DOMAIN memory |->
     IF a \in address .. address + 2 * (length \div 2) - 1
     THEN data[a - address + 1] ELSE memory[a]]

pma_write(memory, address, data, length) ==
  [a \in DOMAIN memory |->
     IF a \in address .. address + length - 1 THEN data[a - address + 1]
     ELSE IF a \in address .. address + Even(length) - 1 THEN Zero
     ELSE memory[a]]

pma_read(memory, address, length) ==
  [index \in 1 .. length |-> memory[address + index - 1]]

(* Does not take off the block that the peripheral adds.                   *)
blocks_of_count(count) == count \div 32

(* The upper six bits of a receive count field tell the peripheral the     *)
(* size of the buffer, in units of 2 or of 32 bytes.                       *)
Blocks(count) == IF count % 32 = 0 THEN count \div 32 - 1 ELSE count \div 32

encoded_count(count) ==
  CASE count > 62 -> 32768 + 1024 * Blocks(count)
    [] count = 0 -> 32768
    [] count \in 1 .. 62 -> 1024 * ((count + 1) \div 2)

(* What the peripheral makes of them.                                      *)
Allocated(field) ==
  LET blocks == (field \div 1024) % 32
  IN IF field >= 32768 THEN 32 * (blocks + 1) ELSE 2 * blocks

endpoint_get_rx_count(e) == rx_count[e] % 1024

-----------------------------------------------------------------------------

LaidOut ==
  /\ rx_count' = [e \in {0, 2} |-> encoded_count(MAX_PACKET_SIZE)]
  /\ tx_count' = [e \in {0, 3} |-> 0]
  /\ offered' = [e \in {0, 3} |-> 0]
  /\ received' = [e \in {0, 2} |-> 0]

MemoryInit ==
  /\ mem = [a \in 0 .. USB_PMA_SIZE - 1 |-> Zero]
  /\ rx_count = [e \in {0, 2} |-> encoded_count(MAX_PACKET_SIZE)]
  /\ tx_count = [e \in {0, 3} |-> 0]
  /\ offered = [e \in {0, 3} |-> 0]
  /\ received = [e \in {0, 2} |-> 0]

(* A packet the hardware has begun to send or has received is dropped.     *)
usb_bus_reset_table == LaidOut /\ UNCHANGED mem

Send(e, length) ==
  /\ mem' = pma_write(mem, TxBuffer[e], Data(e, length), length)
  /\ tx_count' = [tx_count EXCEPT ![e] = length]
  /\ offered' = [offered EXCEPT ![e] = length]
  /\ UNCHANGED <<rx_count, received>>

(* ep0_send_next_data_packet cuts what it sends into packets.              *)
ep0_send_packet(length) ==
  Send(0, IF length > MAX_PACKET_SIZE THEN MAX_PACKET_SIZE ELSE length)

usb_cdc_try_write_packet(length) ==
  /\ length <= MAX_PACKET_SIZE
  /\ offered[3] = 0
  /\ Send(3, length)

(* The driver has read what was received and prepares for the next packet: *)
(* endpoint_set_rx_count before the endpoint becomes VALID.                *)
endpoint_set_rx_count(e, count) ==
  /\ rx_count' = [rx_count EXCEPT ![e] = encoded_count(count)]
  /\ received' = [received EXCEPT ![e] = 0]
  /\ UNCHANGED <<mem, tx_count, offered>>

(* The peripheral stores no more bytes than the field allows.              *)
HwReceive(e, length) ==
  LET room == Allocated(rx_count[e])
      n == IF length <= room THEN length ELSE room
  IN /\ received[e] = 0
     /\ mem' = [a \in DOMAIN mem |->
                  IF a \in RxBuffer[e] .. RxBuffer[e] + n - 1
                  THEN Data(e, length)[a - RxBuffer[e] + 1] ELSE mem[a]]
     /\ rx_count' = [rx_count EXCEPT ![e] = 1024 * (@ \div 1024) + n]
     /\ received' = [received EXCEPT ![e] = length]
     /\ UNCHANGED <<tx_count, offered>>

HwSent(e) ==
  /\ offered[e] # 0
  /\ offered' = [offered EXCEPT ![e] = 0]
  /\ UNCHANGED <<mem, rx_count, tx_count, received>>

MemoryNext ==
  \/ usb_bus_reset_table
  \/ \E n \in SendLengths : ep0_send_packet(n) \/ usb_cdc_try_write_packet(n)
  \/ \E e \in {0, 2} : endpoint_set_rx_count(e, MAX_PACKET_SIZE)
  \/ \E e \in {0, 2}, n \in HostLengths : HwReceive(e, n)
  \/ \E e \in {0, 3} : HwSent(e)

MemorySpec == MemoryInit /\ [][MemoryNext]_memoryvars

-----------------------------------------------------------------------------
(* Properties.                                                             *)

(* What an endpoint offers is the packet it was given, byte for byte, also  *)
(* the last byte of an odd number, and however long the packets are that    *)
(* come into the buffer in front of it.                                     *)
OfferedIntact ==
  \A e \in {0, 3} : offered[e] # 0 =>
    pma_read(mem, TxBuffer[e], tx_count[e]) = Data(e, offered[e])

(* What handle_ep0_out reads, the count and then as many bytes, is what the *)
(* host has sent, and all of it up to a packet's size, whatever has gone    *)
(* through the other buffers since; the same holds for the OUT endpoint.    *)
ReceivedIntact ==
  \A e \in {0, 2} : received[e] # 0 =>
    /\ endpoint_get_rx_count(e) =
         IF received[e] <= MAX_PACKET_SIZE THEN received[e] ELSE MAX_PACKET_SIZE
    /\ pma_read(mem, RxBuffer[e], endpoint_get_rx_count(e)) =
         SubSeq(Data(e, received[e]), 1, endpoint_get_rx_count(e))

===============================================================================
