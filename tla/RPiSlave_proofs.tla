--------------------------- MODULE RPiSlave_proofs ---------------------------
(***************************************************************************)
(* RPiSlave implements SharedBuffer, for buffers of every size and every   *)
(* set of writes that fit the write buffer.                                *)
(***************************************************************************)
EXTENDS RPiSlave, TLAPS

LEMMA SizeFacts == Size \in Nat /\ Size > 0 /\ Size < 256
BY SharedAssumption DEF Shared!SizeOK

LEMMA WriteFacts ==
  ASSUME NEW w \in Writes \union UserWrites
  PROVE  /\ w.at \in Bytes /\ w.data \in Seq(Values)
         /\ Len(w.data) \in Nat /\ w.at + Len(w.data) <= Size
<1>1. w.at \in Bytes /\ w.data \in Seq(Values) /\ w.at + Len(w.data) <= Size
  BY SharedAssumption DEF Shared!WritesOK, Shared!Write, Shared!Bytes, Bytes
<1> QED BY <1>1

LEMMA OverlayType ==
  ASSUME NEW m \in [Bytes -> Values], NEW w \in Writes \union UserWrites
  PROVE  Shared!Overlay(m, w) \in [Bytes -> Values]
<1>1. ASSUME NEW b \in Bytes, Shared!Covers(w, b)
      PROVE  w.data[b - w.at + 1] \in Values
  <2>1. b \in Int /\ w.at \in Int
    BY WriteFacts DEF Bytes
  <2>2. b - w.at + 1 \in 1 .. Len(w.data)
    BY <1>1, <2>1, WriteFacts DEF Shared!Covers
  <2> QED BY <2>2, WriteFacts
<1>2. Shared!Bytes = Bytes
  BY DEF Shared!Bytes, Bytes
<1> QED BY <1>1, <1>2 DEF Shared!Overlay

----------------------------------------------------------------------------
(* Types *)

LEMMA InitType == Init => TypeOK
<1> SUFFICES ASSUME Init PROVE TypeOK
  OBVIOUS
<1>1. Zeros \in [Bytes -> Values]
  BY SharedAssumption DEF Zeros
<1>2. index_set \in BOOLEAN /\ interrupts \in BOOLEAN
  BY Zenon DEF Init
<1>3. i2c_write_buffer \in [0 .. WriteMax - 1 -> Values]
  BY SharedAssumption DEF Init
<1>4. index \in 0 .. 255 /\ i2c_write_length \in 0 .. WriteMax + 1 /\ k \in 0 .. Size /\ sent \in Nat
  BY SizeFacts, WriteMaxAssumption DEF Init
<1> QED BY <1>1, <1>2, <1>3, <1>4 DEF Init, TypeOK

\* The byte the master is sending is a byte.
LEMMA SentByte ==
  ASSUME TypeOK, bus # << >>, sent \in 1 .. Len(bus[1].data)
  PROVE  bus[1] \in Writes /\ bus[1].data[sent] \in Values
<1>1. bus[1] \in Writes
  BY DEF TypeOK
<1> QED BY <1>1, WriteFacts

LEMMA TwiType == ASSUME TypeOK, Twi PROVE TypeOK'
<1>1. ASSUME NEW w \in Writes, start(w) PROVE TypeOK'
  <2>1. index_set' \in BOOLEAN
    BY <1>1, Zenon DEF start
  <2> QED BY <1>1, <2>1 DEF start, TypeOK, loop_vars
<1>2. CASE receive_index
  <2>1. index_set' \in BOOLEAN
    BY <1>2, Zenon DEF receive_index
  <2>2. bus[1] \in Writes
    BY <1>2 DEF receive_index, TypeOK
  <2>3. bus[1].at \in Bytes
    BY <2>2, WriteFacts
  <2>4. index' \in 0 .. 255
    <3>1. index' = bus[1].at
      BY <1>2 DEF receive_index
    <3> QED BY <2>3, <3>1, SizeFacts DEF Bytes
  <2> QED BY <1>2, <2>1, <2>4 DEF receive_index, TypeOK, loop_vars
<1>3. CASE receive_data
  <2>1. bus[1].data[sent] \in Values
    BY <1>3, SentByte DEF receive_data
  <2>2. i2c_write_length' \in 0 .. WriteMax + 1
    BY <1>3, WriteMaxAssumption DEF receive_data, TypeOK
  <2>3. i2c_write_buffer' \in [0 .. WriteMax - 1 -> Values]
    BY <1>3, <2>1 DEF receive_data, TypeOK
  <2>4. i2c_read_buffer' \in [Bytes -> Values]
    BY <1>3, <2>1 DEF receive_data, TypeOK
  <2>5. sent' \in Nat
    BY <1>3 DEF receive_data, TypeOK
  <2>6. UNCHANGED <<index, index_set, TWDR, staging_buffer, loop_vars, bus>>
    BY <1>3 DEF receive_data
  <2> QED BY <2>2, <2>3, <2>4, <2>5, <2>6 DEF TypeOK, loop_vars
<1>4. CASE stop
  <2>1. staging_buffer' \in [Bytes -> Values]
    <3>1. ASSUME NEW b \in Bytes, index <= b, b < index + i2c_write_length
          PROVE  /\ b - index < WriteMax => i2c_write_buffer[b - index] \in Values
                 /\ i2c_read_buffer[0] \in Values
      <4>1. b \in Int /\ index \in Int
        BY DEF Bytes, TypeOK
      <4>2. 0 \in Bytes
        BY SizeFacts DEF Bytes
      <4>3. b - index < WriteMax => b - index \in 0 .. WriteMax - 1
        BY <3>1, <4>1, WriteMaxAssumption
      <4> QED BY <4>2, <4>3 DEF TypeOK
    <3>2. staging_buffer \in [Bytes -> Values]
      BY DEF TypeOK
    <3> QED BY <1>4, <3>1, <3>2 DEF stop
  <2>2. i2c_write_length' \in 0 .. WriteMax + 1 /\ sent' \in Nat
    BY <1>4, WriteMaxAssumption DEF stop
  <2> QED BY <1>4, <2>1, <2>2 DEF stop, TypeOK, loop_vars
<1>5. CASE transmit
  <2>1. index' \in 0 .. 255
    BY <1>5 DEF transmit, TypeOK
  <2> QED BY <1>5, <2>1 DEF transmit, TypeOK, loop_vars, bus_vars
<1> QED BY <1>1, <1>2, <1>3, <1>4, <1>5 DEF Twi

LEMMA ProgramType == ASSUME TypeOK, Program PROVE TypeOK'
<1> USE DEF TypeOK, isr_vars, bus_vars
<1> DEFINE Masks == interrupts' \in BOOLEAN /\ k' \in 0 .. Size
<1>0. 0 \in 0 .. Size
  BY SizeFacts
<1>1. CASE update_begin
  <2>1. interrupts' \in BOOLEAN
    BY <1>1, Zenon DEF update_begin, cli
  <2> QED BY <1>0, <1>1, <2>1 DEF update_begin, cli
<1>2. CASE update_copy
  <2>1. k \in Bytes /\ k' \in 0 .. Size
    BY <1>2, SizeFacts DEF update_copy, Bytes
  <2> QED BY <1>2, <2>1 DEF update_copy
<1>3. CASE update_end
  <2>1. interrupts' \in BOOLEAN
    BY <1>3, Zenon DEF update_end, sei
  <2> QED BY <1>0, <1>3, <2>1 DEF update_end, sei
<1>4. CASE update_old
  BY <1>4 DEF update_old
<1>5. ASSUME NEW w \in UserWrites, user(w) PROVE TypeOK'
  <2>1. buffer' \in [Bytes -> Values]
    BY <1>5, OverlayType DEF user
  <2> QED BY <1>5, <2>1 DEF user
<1>6. CASE finalize_begin
  <2>1. interrupts' \in BOOLEAN
    BY <1>6, Zenon DEF finalize_begin, cli
  <2> QED BY <1>0, <1>6, <2>1 DEF finalize_begin, cli
<1>7. CASE finalize_byte
  <2>1. k \in Bytes /\ k' \in 0 .. Size
    BY <1>7, SizeFacts DEF finalize_byte, Bytes
  <2> QED BY <1>7, <2>1 DEF finalize_byte, Staged
<1>8. CASE finalize_end
  <2>1. interrupts' \in BOOLEAN
    BY <1>8, Zenon DEF finalize_end, sei
  <2> QED BY <1>0, <1>8, <2>1 DEF finalize_end, sei
<1> QED BY <1>1, <1>2, <1>3, <1>4, <1>5, <1>6, <1>7, <1>8 DEF Program

\* The types of the slave's and the master's state (PololuRPiSlave.h:57-80).
THEOREM TypeCorrect == Spec => []TypeOK
<1>1. TypeOK /\ UNCHANGED vars => TypeOK'
  BY DEF TypeOK, vars, isr_vars, loop_vars, bus_vars
<1>2. TypeOK /\ [Next]_vars => TypeOK'
  BY <1>1, TwiType, ProgramType DEF Next
<1> QED BY <1>2, InitType, PTL DEF Spec
----------------------------------------------------------------------------
(* The slave holds exactly what the master has sent, and no interrupt is      *)
(* served during a copy.                                                      *)

SlaveInv ==
  /\ interrupts => pc \notin {"update", "finalize"}
  /\ bus = << >> => sent = 0 /\ i2c_write_length = 0
  /\ bus # << >> => sent <= Len(bus[1].data) + 1
  /\ bus # << >> /\ sent = 0 => ~index_set /\ i2c_write_length = 0
  /\ sent > 0 =>
       /\ index_set /\ index = bus[1].at
       /\ i2c_write_length = sent - 1
       /\ \A i \in 0 .. sent - 2 : i2c_write_buffer[i] = bus[1].data[i + 1]

LEMMA TwiInv ==
  ASSUME WritesFit, TypeOK, SlaveInv, Twi
  PROVE  SlaveInv'
<1>1. ASSUME NEW w \in Writes, start(w) PROVE SlaveInv'
  <2>1. Len(w.data) \in Nat
    BY WriteFacts
  <2>2. bus' = <<w>> /\ bus' # << >> /\ sent' = 0 /\ bus'[1] = w
    BY <1>1 DEF start
  <2>3. ~index_set'
    BY <1>1, Zenon DEF start
  <2>4. i2c_write_length' = 0 /\ UNCHANGED <<interrupts, pc>>
    BY <1>1 DEF start, SlaveInv, loop_vars
  <2> QED BY <2>1, <2>2, <2>3, <2>4 DEF SlaveInv
<1>2. CASE receive_index
  <2>1. bus[1] \in Writes
    BY <1>2 DEF receive_index, TypeOK
  <2>2. Len(bus[1].data) \in Nat
    BY <2>1, WriteFacts
  <2>3. index_set'
    BY <1>2, Zenon DEF receive_index
  <2>4. UNCHANGED <<bus, i2c_write_length, i2c_write_buffer, interrupts, pc>>
    BY <1>2 DEF receive_index, loop_vars
  <2>5. sent' = 1 /\ index' = bus[1].at /\ i2c_write_length = 0 /\ bus # << >>
    BY <1>2 DEF receive_index, SlaveInv
  <2> QED BY <2>2, <2>3, <2>4, <2>5 DEF SlaveInv
<1>3. CASE receive_data
  <2>1. bus[1] \in Writes /\ sent \in Nat /\ sent > 0 /\ sent <= Len(bus[1].data)
    BY <1>3, SentByte DEF receive_data
  <2>2. Len(bus[1].data) <= WriteMax /\ Len(bus[1].data) \in Nat
    BY <2>1, WriteFacts DEF WritesFit
  <2>3. i2c_write_length = sent - 1 /\ i2c_write_length < WriteMax
    BY <2>1, <2>2, WriteMaxAssumption DEF SlaveInv
  <2>4. /\ i2c_write_buffer' = [i2c_write_buffer EXCEPT ![sent - 1] = bus[1].data[sent]]
        /\ i2c_write_length' = sent
    BY <1>3, <2>1, <2>2, <2>3, WriteMaxAssumption DEF receive_data
  <2>5. \A i \in 0 .. sent - 1 : i2c_write_buffer'[i] = bus[1].data[i + 1]
    <3> SUFFICES ASSUME NEW i \in 0 .. sent - 1
                 PROVE  i2c_write_buffer'[i] = bus[1].data[i + 1]
      OBVIOUS
    <3>1. i \in 0 .. WriteMax - 1
      BY <2>1, <2>2, WriteMaxAssumption
    <3>2. CASE i = sent - 1
      BY <2>1, <2>4, <3>1, <3>2 DEF TypeOK
    <3>3. CASE i # sent - 1
      BY <2>1, <2>4, <3>1, <3>3 DEF TypeOK, SlaveInv
    <3> QED BY <3>2, <3>3
  <2>6. /\ UNCHANGED <<index, index_set, bus, interrupts, pc>>
        /\ sent' = sent + 1
    BY <1>3 DEF receive_data, loop_vars
  <2>7. index_set /\ index = bus[1].at /\ bus # << >>
    BY <1>3, <2>1 DEF receive_data, SlaveInv
  <2> QED BY <2>1, <2>2, <2>4, <2>5, <2>6, <2>7 DEF SlaveInv
<1>4. CASE stop
  BY <1>4 DEF stop, SlaveInv, loop_vars
<1>5. CASE transmit
  BY <1>5 DEF transmit, SlaveInv, TypeOK, loop_vars, bus_vars
<1> QED BY <1>1, <1>2, <1>3, <1>4, <1>5 DEF Twi

LEMMA ProgramInv == ASSUME SlaveInv, Program PROVE SlaveInv'
<1> USE DEF isr_vars, bus_vars
<1>1. /\ UNCHANGED <<bus, sent, index, index_set, i2c_write_length, i2c_write_buffer>>
  BY DEF Program, update_begin, update_copy, update_end, update_old, user,
         finalize_begin, finalize_byte, finalize_end
<1>2. interrupts' => pc' \notin {"update", "finalize"}
  <2>1. CASE update_begin
    BY <2>1, Zenon DEF update_begin, cli
  <2>2. CASE finalize_begin
    BY <2>2, Zenon DEF finalize_begin, cli
  <2>3. CASE update_end
    BY <2>3 DEF update_end, sei
  <2>4. CASE finalize_end
    BY <2>4 DEF finalize_end, sei
  <2>5. CASE update_copy
    BY <2>5 DEF update_copy, SlaveInv
  <2>6. CASE finalize_byte
    BY <2>6 DEF finalize_byte, SlaveInv
  <2>7. CASE update_old
    BY <2>7 DEF update_old, SlaveInv
  <2>8. ASSUME NEW w \in UserWrites, user(w) PROVE interrupts' => pc' \notin {"update", "finalize"}
    BY <2>8 DEF user, SlaveInv
  <2> QED BY <2>1, <2>2, <2>3, <2>4, <2>5, <2>6, <2>7, <2>8 DEF Program
<1> QED BY <1>1, <1>2 DEF SlaveInv

LEMMA SlaveInvariant == ASSUME WritesFit PROVE Spec => []SlaveInv
<1>1. Init => SlaveInv
  BY DEF Init, SlaveInv
<1>2. SlaveInv /\ UNCHANGED vars => SlaveInv'
  BY DEF SlaveInv, vars, isr_vars, loop_vars, bus_vars
<1>3. TypeOK /\ SlaveInv /\ [Next]_vars => SlaveInv'
  BY <1>2, TwiInv, ProgramInv DEF Next
<1> QED BY <1>1, <1>3, TypeCorrect, PTL DEF Spec

----------------------------------------------------------------------------
(* Each step of the slave is a step of the shared buffer or none. *)

LEMMA SameBytes == Shared!Bytes = Bytes
BY DEF Shared!Bytes, Bytes

\* Outside the copies the shared buffer is what the slave's members hold.
LEMMA Settled ==
  ASSUME TypeOK, pc \notin {"update", "finalize"}
  PROVE  Mem = staging_buffer /\ View = buffer
BY DEF Mem, View, TypeOK

LEMMA TwiRefines ==
  ASSUME WritesFit, TypeOK, SlaveInv, Twi
  PROVE  Shared!Next \/ UNCHANGED Shared!vars
<1>0. interrupts /\ pc \notin {"update", "finalize"}
  BY DEF Twi, start, receive_index, receive_data, stop, transmit, SlaveInv
<1>1. UNCHANGED <<buffer_old, buffer, pc, k>>
  BY DEF Twi, start, receive_index, receive_data, stop, transmit, loop_vars
<1>2. UNCHANGED <<View, Base, Open>>
  BY <1>0, <1>1 DEF View, Base, Open
<1>3. Mem = staging_buffer
  BY <1>0, Settled
<1>4. TypeOK'
  BY TwiType
<1>5. Mem' = staging_buffer'
  BY <1>0, <1>1, <1>4 DEF Mem, TypeOK
<1>6. ASSUME NEW w \in Writes, start(w) PROVE UNCHANGED Shared!vars
  <2>1. Request = << >> /\ Request' = << >>
    BY <1>6 DEF start, Request, SlaveInv
  <2> QED BY <1>2, <1>3, <1>5, <1>6, <2>1 DEF start, Shared!vars
<1>7. CASE receive_index
  <2>1. bus[1] \in Writes /\ bus = <<bus[1]>>
    BY <1>7 DEF receive_index, TypeOK
  <2>2. Request = << >> /\ Request' = bus
    BY <1>7 DEF receive_index, Request
  <2>3. Shared!Begin(bus[1])
    BY <1>2, <1>3, <1>5, <1>7, <2>1, <2>2 DEF receive_index, Shared!Begin
  <2> QED BY <2>1, <2>3 DEF Shared!Next
<1>8. CASE receive_data
  <2>1. bus[1] \in Writes /\ sent \in Nat /\ sent > 0 /\ sent <= Len(bus[1].data)
    BY <1>8, SentByte DEF receive_data
  <2>2. Len(bus[1].data) <= WriteMax /\ Len(bus[1].data) \in Nat
    BY <2>1, WriteFacts DEF WritesFit
  <2>3. i2c_write_length < WriteMax /\ i2c_write_length \in Nat
    BY <2>1, <2>2, WriteMaxAssumption DEF SlaveInv
  <2>4. UNCHANGED <<i2c_read_buffer, index, TWDR, staging_buffer, bus>> /\ sent' = sent + 1
    BY <1>8, <2>3, WriteMaxAssumption DEF receive_data
  <2>5. UNCHANGED Request
    BY <2>1, <2>4 DEF Request
  <2> QED BY <1>2, <1>3, <1>5, <2>4, <2>5 DEF Shared!vars
<1>9. CASE stop
  <2>1. bus[1] \in Writes /\ bus # << >>
    BY <1>9 DEF stop, TypeOK
  <2>2. Len(bus[1].data) \in Nat /\ bus[1].at \in Bytes /\ Len(bus[1].data) <= WriteMax
    BY <2>1, WriteFacts DEF WritesFit
  <2>3. sent = Len(bus[1].data) + 1
    BY <1>9 DEF stop
  <2>4. /\ index = bus[1].at /\ i2c_write_length = Len(bus[1].data)
        /\ \A i \in 0 .. sent - 2 : i2c_write_buffer[i] = bus[1].data[i + 1]
    BY <2>2, <2>3 DEF SlaveInv
  <2>5. \A b \in Bytes : staging_buffer'[b] = Shared!Overlay(staging_buffer, bus[1])[b]
    <3> SUFFICES ASSUME NEW b \in Bytes
                 PROVE  staging_buffer'[b] = Shared!Overlay(staging_buffer, bus[1])[b]
      OBVIOUS
    <3>1. b \in Int /\ bus[1].at \in Int
      BY <2>2 DEF Bytes
    <3>2. CASE Shared!Covers(bus[1], b)
      <4>1. index <= b /\ b < index + i2c_write_length
        BY <2>4, <3>2 DEF Shared!Covers
      <4>2. b - index \in 0 .. sent - 2 /\ b - index < WriteMax
        <5>1. i2c_write_length \in Nat /\ i2c_write_length <= WriteMax /\ index \in Int
              /\ sent - 2 = i2c_write_length - 1
          BY <2>2, <2>3, <2>4, <3>1
        <5> QED BY <3>1, <4>1, <5>1, WriteMaxAssumption
      <4>3. i2c_write_buffer[b - index] = bus[1].data[b - bus[1].at + 1]
        BY <2>4, <4>2
      <4>4. staging_buffer'[b] = i2c_write_buffer[b - index]
        BY <1>9, <4>1, <4>2 DEF stop
      <4> QED BY <3>2, <4>3, <4>4, SameBytes DEF Shared!Overlay
    <3>3. CASE ~Shared!Covers(bus[1], b)
      <4>1. ~(index <= b /\ b < index + i2c_write_length)
        BY <2>4, <3>3 DEF Shared!Covers
      <4>2. staging_buffer'[b] = staging_buffer[b]
        BY <1>9, <4>1 DEF stop
      <4> QED BY <3>3, <4>2, SameBytes DEF Shared!Overlay
    <3> QED BY <3>2, <3>3
  <2>6. staging_buffer' = Shared!Overlay(staging_buffer, bus[1])
    BY <1>4, <2>5, SameBytes DEF TypeOK, Shared!Overlay
  <2>7. Request = bus /\ Request' = << >>
    BY <1>9, <2>2, <2>3 DEF stop, Request
  <2>8. Shared!Apply
    BY <1>2, <1>3, <1>5, <1>9, <2>1, <2>6, <2>7 DEF stop, Shared!Apply
  <2> QED BY <2>8 DEF Shared!Next
<1>10. CASE transmit
  <2>1. Request = << >> /\ Request' = Request
    BY <1>10 DEF transmit, bus_vars, Request, SlaveInv
  <2>2. index' = index + 1
    BY <1>10, SizeFacts DEF transmit, Bytes
  <2>3. Shared!Read
    BY <1>2, <1>3, <1>5, <1>10, <2>1, <2>2, SameBytes DEF transmit, Shared!Read
  <2> QED BY <2>3 DEF Shared!Next
<1> QED BY <1>6, <1>7, <1>8, <1>9, <1>10 DEF Twi

LEMMA ProgramRefines ==
  ASSUME TypeOK, Program
  PROVE  Shared!Next \/ UNCHANGED Shared!vars
<1> USE DEF isr_vars, bus_vars
<1>1. UNCHANGED <<i2c_read_buffer, index, TWDR, bus, sent, Request>>
  BY DEF Program, update_begin, update_copy, update_end, update_old, user,
         finalize_begin, finalize_byte, finalize_end, Request
<1>2. CASE update_begin
  <2>1. Mem = staging_buffer
    BY <1>2, Settled DEF update_begin
  <2>2. Mem' = staging_buffer /\ View' = staging_buffer
    BY <1>2, SizeFacts DEF update_begin, cli, Mem, View, TypeOK, Bytes
  <2>3. Base' = View' /\ Open' /\ ~Open
    BY <1>2 DEF update_begin, cli, Base, Open
  <2>4. Open' = TRUE
    BY <2>3, Zenon DEF Open
  <2>5. Shared!Update
    BY <1>1, <2>1, <2>2, <2>3, <2>4 DEF Shared!Update
  <2> QED BY <2>5 DEF Shared!Next
<1>3. CASE update_copy
  <2>1. Mem' = Mem /\ Open' = Open
    BY <1>3 DEF update_copy, Mem, Open
  <2>2. View' = View
    BY <1>3 DEF update_copy, View, TypeOK, Bytes
  <2>3. Base' = Base
    BY <1>3, <2>2 DEF update_copy, Base
  <2> QED BY <1>1, <2>1, <2>2, <2>3 DEF Shared!vars
<1>4. CASE update_end
  <2>1. Mem' = Mem /\ View' = View
    BY <1>4, SizeFacts DEF update_end, sei, Mem, View, Bytes
  <2>2. Base' = Base /\ Open' = Open
    BY <1>4, <2>1 DEF update_end, sei, Base, Open
  <2> QED BY <1>1, <2>1, <2>2 DEF Shared!vars
<1>5. CASE update_old
  <2>1. Mem' = Mem /\ View' = View /\ Open' = Open
    BY <1>5 DEF update_old, Mem, View, Open
  <2>2. View = buffer
    BY <1>5, Settled DEF update_old
  <2>3. Base' = Base
    BY <1>5, <2>1, <2>2 DEF update_old, Base
  <2> QED BY <1>1, <2>1, <2>3 DEF Shared!vars
<1>6. ASSUME NEW w \in UserWrites, user(w) PROVE Shared!Next
  <2>1. View = buffer /\ Mem' = Mem
    BY <1>6, Settled DEF user, Mem
  <2>2. buffer' \in [Bytes -> Values]
    BY <1>6, OverlayType DEF user, TypeOK
  <2>3. View' = Shared!Overlay(View, w)
    BY <1>6, <2>1, <2>2 DEF user, View
  <2>4. Base' = Base /\ Open /\ Open' = Open
    BY <1>6 DEF user, Base, Open
  <2>5. Shared!Assign(w)
    BY <1>1, <2>1, <2>3, <2>4 DEF Shared!Assign
  <2> QED BY <2>5 DEF Shared!Next
<1>7. CASE finalize_begin
  <2>1. Mem = staging_buffer /\ View = buffer /\ Base = buffer_old /\ Open
    BY <1>7, Settled DEF finalize_begin, Base, Open
  <2>2. Mem' = [b \in Bytes |-> Staged(b)]
    BY <1>7, SizeFacts DEF finalize_begin, cli, Mem, Staged, Bytes
  <2>3. View' = View /\ Base' = Base
    BY <1>7, <2>1 DEF finalize_begin, cli, View, Base
  <2>4. Open' = FALSE
    <3>1. ~Open'
      BY <1>7 DEF finalize_begin, cli, Open
    <3>2. Open' \in BOOLEAN
      BY Zenon DEF Open
    <3> QED BY <3>1, <3>2, Zenon
  <2>5. Mem' = Shared!Merge(Mem, Base, View)
    BY <2>1, <2>2, SameBytes DEF Shared!Merge, Staged
  <2>6. Shared!Publish
    BY <1>1, <2>1, <2>3, <2>4, <2>5 DEF Shared!Publish
  <2> QED BY <2>6 DEF Shared!Next
<1>8. CASE finalize_byte
  <2>1. Mem' = Mem
    BY <1>8 DEF finalize_byte, Mem, Staged, TypeOK, Bytes
  <2>2. View' = View /\ Base' = Base /\ Open' = Open
    BY <1>8 DEF finalize_byte, View, Base, Open
  <2> QED BY <1>1, <2>1, <2>2 DEF Shared!vars
<1>9. CASE finalize_end
  <2>1. Mem' = Mem /\ View' = View
    BY <1>9, SizeFacts DEF finalize_end, sei, Mem, View, Bytes
  <2>2. Base' = Base /\ Open' = Open
    BY <1>9 DEF finalize_end, sei, Base, Open
  <2> QED BY <1>1, <2>1, <2>2 DEF Shared!vars
<1> QED BY <1>2, <1>3, <1>4, <1>5, <1>6, <1>7, <1>8, <1>9 DEF Program

LEMMA InitRefines == Init => Shared!Init
<1> SUFFICES ASSUME Init PROVE Shared!Init
  OBVIOUS
<1>1. Mem = Zeros /\ View = Zeros /\ Base = Zeros /\ Request = << >>
  BY DEF Init, Mem, View, Base, Request, Zeros
<1>2. ~Open
  BY DEF Init, Open
<1>3. Open \in BOOLEAN
  BY Zenon DEF Open
<1>4. Open = FALSE
  BY <1>2, <1>3, Zenon
<1> QED BY <1>1, <1>4, SameBytes DEF Init, Shared!Init, Zeros

\* The slave implements the shared buffer (PololuRPiSlave.h:38-51), as long as
\* the master's writes fit the write buffer: for every size, layout and write.
THEOREM Refinement == ASSUME WritesFit PROVE Spec => SlaveIsSharedBuffer
<1>1. UNCHANGED vars => UNCHANGED Shared!vars
  BY DEF vars, isr_vars, loop_vars, bus_vars, Shared!vars, Mem, View, Base, Open,
         Request, Staged
<1>2. TypeOK /\ SlaveInv /\ [Next]_vars => [Shared!Next]_(Shared!vars)
  BY <1>1, TwiRefines, ProgramRefines DEF Next
<1> QED BY <1>2, InitRefines, TypeCorrect, SlaveInvariant, PTL
    DEF Spec, SlaveIsSharedBuffer, Shared!Spec

----------------------------------------------------------------------------
(* Variables are whole, in the shared buffer and hence here. *)

FieldOK(f) ==
  /\ f.at \in Nat /\ f.len \in Nat /\ f.at + f.len <= Size

\* Only its own bytes matter to a field.
LEMMA WholeSame ==
  ASSUME NEW m, NEW n, NEW f, FieldOK(f),
         \A b \in Shared!BytesOf(f) : m[b] = n[b], Shared!Whole(m, f)
  PROVE  Shared!Whole(n, f)
<1>1. \A i \in 1 .. f.len : f.at + i - 1 \in Shared!BytesOf(f)
  BY DEF Shared!BytesOf, FieldOK
<1>2. \A i \in 1 .. f.len : m[f.at + i - 1] = n[f.at + i - 1]
  BY <1>1
<1> QED BY <1>2 DEF Shared!Whole

LEMMA FieldInBuffer ==
  ASSUME NEW f \in Fields
  PROVE  FieldOK(f) /\ Shared!BytesOf(f) \subseteq Bytes
<1>1. FieldOK(f)
  BY SharedAssumption, SameBytes DEF Shared!FieldsOK, FieldOK, Bytes
<1> QED BY <1>1, SizeFacts DEF FieldOK, Bytes, Shared!BytesOf

\* A write leaves a field as it is or whole.
LEMMA OverlayWhole ==
  ASSUME NEW f \in Fields, NEW w \in Writes \union UserWrites,
         NEW m \in [Bytes -> Values], Shared!Whole(m, f)
  PROVE  Shared!Whole(Shared!Overlay(m, w), f)
<1> DEFINE z == [b \in Bytes |-> Zero]
<1>1. FieldOK(f) /\ Shared!BytesOf(f) \subseteq Bytes
  BY FieldInBuffer
<1>2. CASE Shared!Avoids(w, f)
  <2>1. \A b \in Shared!BytesOf(f) : m[b] = Shared!Overlay(m, w)[b]
    BY <1>1, <1>2, SameBytes DEF Shared!Avoids, Shared!Overlay
  <2> QED BY <1>1, <2>1, WholeSame
<1>3. CASE ~Shared!Avoids(w, f)
  <2>1. (\A b \in Shared!BytesOf(f) : Shared!Covers(w, b)) /\ Shared!Whole(Shared!Overlay(z, w), f)
    BY <1>3, SharedAssumption, SameBytes DEF Shared!FieldsOK
  <2>2. \A b \in Shared!BytesOf(f) : Shared!Overlay(z, w)[b] = Shared!Overlay(m, w)[b]
    BY <1>1, <2>1, SameBytes DEF Shared!Overlay
  <2> QED BY <1>1, <2>1, <2>2, WholeSame
<1> QED BY <1>2, <1>3

\* In a pass, the program's copy of a field it does not write is as it was, and
\* the shared bytes of a field the master does not write are as they were.
FieldInv(f) ==
  /\ Shared!Whole(Mem, f) /\ Shared!Whole(i2c_read_buffer, f) /\ Shared!Whole(View, f)
  /\ Open /\ (\A w \in UserWrites : Shared!Avoids(w, f))
       => \A b \in Shared!BytesOf(f) : View[b] = Base[b]
  /\ Open /\ (\A w \in Writes : Shared!Avoids(w, f))
       => \A b \in Shared!BytesOf(f) : Mem[b] = Base[b]

LEMMA MapTypes ==
  ASSUME TypeOK
  PROVE  Mem \in [Bytes -> Values] /\ View \in [Bytes -> Values]
BY DEF TypeOK, Mem, View, Staged

LEMMA FieldStep ==
  ASSUME NEW f \in Fields, TypeOK, FieldInv(f), [Shared!Next]_(Shared!vars)
  PROVE  FieldInv(f)'
<1>0. FieldOK(f) /\ Shared!BytesOf(f) \subseteq Bytes
  BY FieldInBuffer
<1>1. ASSUME NEW w \in Writes, Shared!Begin(w) PROVE FieldInv(f)'
  BY <1>1 DEF Shared!Begin, FieldInv
<1>2. CASE Shared!Apply
  <2>1. Request[1] \in Writes
    BY <1>2 DEF Shared!Apply, Request, TypeOK
  <2>2. Shared!Whole(Mem', f)
    BY <1>2, <2>1, OverlayWhole, MapTypes DEF Shared!Apply, FieldInv
  <2>3. (\A w \in Writes : Shared!Avoids(w, f)) => \A b \in Shared!BytesOf(f) : Mem'[b] = Mem[b]
    BY <1>0, <1>2, <2>1, SameBytes DEF Shared!Apply, Shared!Avoids, Shared!Overlay
  <2> QED BY <1>2, <2>2, <2>3 DEF Shared!Apply, FieldInv
<1>3. CASE Shared!Read
  BY <1>3 DEF Shared!Read, FieldInv
<1>4. CASE Shared!Update
  BY <1>4 DEF Shared!Update, FieldInv
<1>5. ASSUME NEW w \in UserWrites, Shared!Assign(w) PROVE FieldInv(f)'
  <2>1. Shared!Whole(View', f)
    BY <1>5, OverlayWhole, MapTypes DEF Shared!Assign, FieldInv
  <2>2. Shared!Avoids(w, f) => \A b \in Shared!BytesOf(f) : View'[b] = View[b]
    BY <1>0, <1>5, SameBytes DEF Shared!Assign, Shared!Avoids, Shared!Overlay
  <2> QED BY <1>5, <2>1, <2>2 DEF Shared!Assign, FieldInv
<1>6. CASE Shared!Publish
  <2>1. Open /\ ~Open' /\ UNCHANGED <<i2c_read_buffer, View, Base>>
    BY <1>6 DEF Shared!Publish
  <2>2. CASE \A w \in UserWrites : Shared!Avoids(w, f)
    <3>1. \A b \in Shared!BytesOf(f) : Mem[b] = Mem'[b]
      BY <1>0, <1>6, <2>1, <2>2, SameBytes DEF Shared!Publish, Shared!Merge, FieldInv
    <3>2. Shared!Whole(Mem', f)
      BY <1>0, <3>1, WholeSame DEF FieldInv
    <3> QED BY <2>1, <3>2 DEF FieldInv
  <2>3. CASE \A w \in Writes : Shared!Avoids(w, f)
    <3>1. \A b \in Shared!BytesOf(f) : View[b] = Mem'[b]
      BY <1>0, <1>6, <2>1, <2>3, SameBytes DEF Shared!Publish, Shared!Merge, FieldInv
    <3>2. Shared!Whole(Mem', f)
      BY <1>0, <3>1, WholeSame DEF FieldInv
    <3> QED BY <2>1, <3>2 DEF FieldInv
  <2> QED BY <2>2, <2>3, SharedAssumption DEF Shared!FieldsOK
<1>7. CASE UNCHANGED Shared!vars
  BY <1>7 DEF Shared!vars, FieldInv
<1> QED BY <1>1, <1>2, <1>3, <1>4, <1>5, <1>6, <1>7 DEF Shared!Next


\* Neither master nor program ever sees a half-written variable
\* (PololuRPiSlave.h:34), when each variable is written by one of them.
THEOREM Wholeness == ASSUME WritesFit PROVE Spec => []FieldsAreWhole
<1> DEFINE IInv == \A f \in Fields : FieldInv(f)
<1>1. Shared!Init => IInv
  <2> SUFFICES ASSUME Shared!Init, NEW f \in Fields PROVE FieldInv(f)
    OBVIOUS
  <2>1. Shared!Whole([b \in Bytes |-> Zero], f)
    BY SharedAssumption, SameBytes DEF Shared!FieldsOK
  <2> QED BY <2>1, SameBytes DEF Shared!Init, FieldInv
<1>2. TypeOK /\ IInv /\ [Shared!Next]_(Shared!vars) => IInv'
  BY FieldStep
<1>3. IInv => FieldsAreWhole
  BY DEF FieldInv, FieldsAreWhole, Shared!FieldsAreWhole
<1> QED BY <1>1, <1>2, <1>3, TypeCorrect, Refinement, PTL
    DEF SlaveIsSharedBuffer, Shared!Spec
=============================================================================
