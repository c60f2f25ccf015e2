------------------------------ MODULE RPiSlave ------------------------------
(***************************************************************************)
(* PololuRPiSlave and PololuTWISlave: the I2C slave of the old control     *)
(* board.  The TWI interrupt serves the master byte by byte; the program   *)
(* copies between its buffer and the staging buffer byte by byte, with     *)
(* interrupts off.  An interrupt handler is one step, as it is not itself  *)
(* interrupted.                                                            *)
(***************************************************************************)
EXTENDS Integers, Sequences

CONSTANTS
  Size, Values, Zero, Writes, UserWrites, Fields,   \* as in SharedBuffer
  WriteMax   \* sizeof(i2c_write_buffer)

VARIABLES
  \* the slave's members
  index, index_set, i2c_write_length, i2c_write_buffer, i2c_read_buffer,
  staging_buffer, buffer_old, buffer,
  \* the processor
  TWDR,        \* the data register of the TWI
  interrupts,  \* the interrupt flag
  pc, k,       \* where the program is: its operation and the next byte to copy
  \* the master
  bus,         \* << >> or << the write it is sending >>
  sent         \* the bytes of that write already sent, the index among them

isr_vars == <<index, index_set, i2c_write_length, i2c_write_buffer,
              i2c_read_buffer, TWDR>>
loop_vars == <<buffer_old, buffer, interrupts, pc, k>>
bus_vars == <<bus, sent>>
vars == <<isr_vars, staging_buffer, loop_vars, bus_vars>>

Bytes == 0 .. Size - 1

\* What finalizeWrites leaves of a byte
Staged(b) == IF buffer_old[b] # buffer[b] THEN buffer[b] ELSE staging_buffer[b]

\* The shared buffer that this implements.  A copy that nobody can see before it
\* is complete counts as complete from its first byte on.
Mem == [b \in Bytes |-> IF pc = "finalize" /\ b >= k THEN Staged(b) ELSE staging_buffer[b]]
View == [b \in Bytes |-> IF pc = "update" /\ b >= k THEN staging_buffer[b] ELSE buffer[b]]
Base == IF pc \in {"update", "old"} THEN View ELSE buffer_old
Open == pc \notin {"loop", "finalize"}
Request == IF sent = 0 THEN << >> ELSE bus

Shared == INSTANCE SharedBuffer WITH
  mem <- Mem, snapshot <- i2c_read_buffer, pos <- index, out <- TWDR,
  request <- Request, view <- View, base <- Base, open <- Open

ASSUME SharedAssumption ==
  Shared!SizeOK /\ Zero \in Values /\ Shared!WritesOK /\ Shared!FieldsOK
ASSUME WriteMaxAssumption == WriteMax \in Nat /\ WriteMax > 0 /\ WriteMax < 255

Zeros == [b \in Bytes |-> Zero]

Init ==
  /\ index = 0 /\ index_set = FALSE
  /\ i2c_write_length = 0 /\ i2c_write_buffer = [i \in 0 .. WriteMax - 1 |-> Zero]
  /\ i2c_read_buffer = Zeros /\ staging_buffer = Zeros
  /\ buffer = Zeros /\ buffer_old = Zeros
  /\ TWDR \in Values
  /\ interrupts = TRUE /\ pc = "loop" /\ k = 0
  /\ bus = << >> /\ sent = 0

----------------------------------------------------------------------------
(* TWI interrupts: PololuTWISlave::handleEvent calls one of these. *)

\* TW_SR_SLA_ACK
start(w) ==
  /\ interrupts /\ bus = << >>
  /\ bus' = <<w>> /\ sent' = 0
  /\ index_set' = FALSE
  /\ UNCHANGED <<index, i2c_write_length, i2c_write_buffer, i2c_read_buffer,
                 TWDR, staging_buffer, loop_vars>>

\* TW_SR_DATA_ACK, the first byte of a write
receive_index ==
  /\ interrupts /\ bus # << >> /\ sent = 0 /\ ~index_set
  /\ i2c_read_buffer' = staging_buffer
  /\ index' = bus[1].at
  /\ index_set' = TRUE
  /\ sent' = 1
  /\ UNCHANGED <<i2c_write_length, i2c_write_buffer, TWDR, staging_buffer,
                 loop_vars, bus>>

\* TW_SR_DATA_ACK, a further byte.  The byte after the last of i2c_write_buffer
\* is the first of i2c_read_buffer, the next member.
receive_data ==
  LET len == IF i2c_write_length > WriteMax THEN 0 ELSE i2c_write_length
      b == bus[1].data[sent]
  IN /\ interrupts /\ bus # << >> /\ index_set
     /\ sent \in 1 .. Len(bus[1].data)
     /\ \/ /\ len < WriteMax
           /\ i2c_write_buffer' = [i2c_write_buffer EXCEPT ![len] = b]
           /\ UNCHANGED i2c_read_buffer
        \/ /\ len = WriteMax
           /\ i2c_read_buffer' = [i2c_read_buffer EXCEPT ![0] = b]
           /\ UNCHANGED i2c_write_buffer
     /\ i2c_write_length' = len + 1
     /\ sent' = sent + 1
     /\ UNCHANGED <<index, index_set, TWDR, staging_buffer, loop_vars, bus>>

\* TW_SR_STOP: finalizeI2CWrites
stop ==
  /\ interrupts /\ bus # << >> /\ sent = Len(bus[1].data) + 1
  /\ staging_buffer' = [b \in Bytes |->
       IF index <= b /\ b < index + i2c_write_length
       THEN IF b - index < WriteMax THEN i2c_write_buffer[b - index]
                                    ELSE i2c_read_buffer[0]
       ELSE staging_buffer[b]]
  /\ i2c_write_length' = 0
  /\ bus' = << >> /\ sent' = 0
  /\ UNCHANGED <<index, index_set, i2c_write_buffer, i2c_read_buffer, TWDR, loop_vars>>

\* TW_ST_SLA_ACK: a transaction that reads one byte
transmit ==
  /\ interrupts /\ bus = << >>
  /\ index \in Bytes
  /\ TWDR' = i2c_read_buffer[index]
  /\ index' = (index + 1) % 256
  /\ UNCHANGED <<index_set, i2c_write_length, i2c_write_buffer, i2c_read_buffer,
                 staging_buffer, loop_vars, bus_vars>>

----------------------------------------------------------------------------
(* The program: updateBuffer, its assignments, finalizeWrites *)

\* Mutant: the copy is made with interrupts on.
go(op) == UNCHANGED interrupts /\ pc' = op /\ k' = 0

cli(op) == interrupts' = FALSE /\ pc' = op /\ k' = 0
sei(op) == interrupts' = TRUE /\ pc' = op /\ k' = 0

update_begin ==
  /\ pc = "loop" /\ cli("update")
  /\ UNCHANGED <<isr_vars, staging_buffer, buffer_old, buffer, bus_vars>>

update_copy ==
  /\ pc = "update" /\ k < Size
  /\ buffer' = [buffer EXCEPT ![k] = staging_buffer[k]]
  /\ k' = k + 1
  /\ UNCHANGED <<isr_vars, staging_buffer, buffer_old, interrupts, pc, bus_vars>>

update_end ==
  /\ pc = "update" /\ k = Size /\ sei("old")
  /\ UNCHANGED <<isr_vars, staging_buffer, buffer_old, buffer, bus_vars>>

\* Both buffers are the program's own.
update_old ==
  /\ pc = "old"
  /\ buffer_old' = buffer
  /\ pc' = "user"
  /\ UNCHANGED <<isr_vars, staging_buffer, buffer, interrupts, k, bus_vars>>

user(w) ==
  /\ pc = "user"
  /\ buffer' = Shared!Overlay(buffer, w)
  /\ UNCHANGED <<isr_vars, staging_buffer, buffer_old, interrupts, pc, k, bus_vars>>

finalize_begin ==
  /\ pc = "user" /\ cli("finalize")
  /\ UNCHANGED <<isr_vars, staging_buffer, buffer_old, buffer, bus_vars>>

\* Mutant: bytes are written back whether they have changed or not.
finalize_every_byte ==
  /\ pc = "finalize" /\ k < Size
  /\ staging_buffer' = [staging_buffer EXCEPT ![k] = buffer[k]]
  /\ k' = k + 1
  /\ UNCHANGED <<isr_vars, buffer_old, buffer, interrupts, pc, bus_vars>>

finalize_byte ==
  /\ pc = "finalize" /\ k < Size
  /\ staging_buffer' = [staging_buffer EXCEPT ![k] = Staged(k)]
  /\ k' = k + 1
  /\ UNCHANGED <<isr_vars, buffer_old, buffer, interrupts, pc, bus_vars>>

finalize_end ==
  /\ pc = "finalize" /\ k = Size /\ sei("loop")
  /\ UNCHANGED <<isr_vars, staging_buffer, buffer_old, buffer, bus_vars>>

Twi == \/ \E w \in Writes : start(w)
       \/ receive_index \/ receive_data \/ stop \/ transmit

Program == \/ update_begin \/ update_copy \/ update_end \/ update_old
           \/ \E w \in UserWrites : user(w)
           \/ finalize_begin \/ finalize_byte \/ finalize_end

Next == Twi \/ Program

Spec == Init /\ [][Next]_vars

----------------------------------------------------------------------------
(* Properties *)

\* The types of the slave's and the master's state.
TypeOK ==
  /\ index \in 0 .. 255 /\ index_set \in BOOLEAN
  /\ i2c_write_length \in 0 .. WriteMax + 1
  /\ i2c_write_buffer \in [0 .. WriteMax - 1 -> Values]
  /\ i2c_read_buffer \in [Bytes -> Values] /\ staging_buffer \in [Bytes -> Values]
  /\ buffer \in [Bytes -> Values] /\ buffer_old \in [Bytes -> Values]
  /\ TWDR \in Values
  /\ interrupts \in BOOLEAN
  /\ pc \in {"loop", "update", "old", "user", "finalize"}
  /\ k \in 0 .. Size
  /\ bus = << >> \/ \E w \in Writes : bus = <<w>>
  /\ sent \in Nat

\* The slave implements the shared buffer: each write of the master takes effect
\* as a whole when it stops, with the bytes it sent at the index it sent; what
\* the master reads is one snapshot of the staging buffer; the program's copy is
\* one moment's data, and writing it back touches nothing it has not changed.
SlaveIsSharedBuffer == Shared!Spec

\* A variable that one side writes is never seen half written by the other
\* (PololuRPiSlave.h:34), whatever the TWI interrupt and the copies of the
\* program do to each other.
FieldsAreWhole == Shared!FieldsAreWhole

\* The master's writes fit the write buffer.
WritesFit == \A w \in Writes : Len(w.data) <= WriteMax
=============================================================================
