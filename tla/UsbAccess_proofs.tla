--------------------------- MODULE UsbAccess_proofs ---------------------------
(***************************************************************************)
(* What UsbCdc takes for granted of the registers and the memory below it: *)
(* the accesses to the endpoint registers, in the first part, and packets  *)
(* that stay intact in the packet memory, in the second.                   *)
(*                                                                         *)
(* The argument of the first: an access writes what it has read a while    *)
(* ago, and a transaction, a SETUP or a reset may have changed the         *)
(* register since.  So the invariant speaks of the value about to be       *)
(* written as well as of the register, and of the accesses that are still  *)
(* to come: a register that is wrong after a reset is one for which the    *)
(* access that sets it right is still in todo.                             *)
(*                                                                         *)
(* The argument of the second: the count field of a receive buffer always  *)
(* tells the peripheral that there are 64 bytes (Field), a packet to send  *)
(* has no more, its word-wise copy no more either (EvenFits), and the four *)
(* buffers of 64 bytes do not overlap: so whatever is written into one of  *)
(* them leaves the others as they are (OthersKeep).                        *)
(***************************************************************************)
EXTENDS EndpointRegister, PacketMemory, TLAPS

-----------------------------------------------------------------------------
(* The endpoint registers.                                                 *)

Bits == CtrBits \cup StoredBits \cup ToggleBits \cup {"SETUP"}

(* An access of this kind is among those of q.                             *)
Has(q, op) == \E i \in 1 .. Len(q) : q[i].op = op

Ops == {"set_type", "set_address", "set_tx_status", "set_rx_status",
        "clear_rx_interrupt", "clear_tx_interrupt", "clear_tx_toggle", "clear_rx_toggle"}
Operations == {"none", "reset", "serve", "configure", "halt", "write"}

(* The endpoint has to receive: control, and bulk OUT when configured.     *)
Listens == endpoint = 0 \/ (endpoint = 2 /\ configured)

(* The accesses that an operation can have left to make: type and address   *)
(* are set only by a reset, bulk OUT sends nothing, only a write makes a    *)
(* transmission VALID, and a listening endpoint is never closed.            *)
Accesses ==
  {a \in [op : Ops, bits : SUBSET Bits] :
     /\ a.op = "set_type" => a.bits = TypeOf(endpoint) /\ operation = "reset"
     /\ a.op = "set_address" => a.bits = AddressOf(endpoint) /\ operation = "reset"
     /\ a.op = "set_tx_status" =>
          /\ a.bits \subseteq TxStat
          /\ endpoint = 2 => operation = "reset"
          /\ Sends => (operation = "write" <=> a.bits = TxStat)
     /\ a.op = "set_rx_status" =>
          /\ a.bits \subseteq RxStat
          /\ Listens => "STAT_RX0" \in a.bits
          /\ Sends => operation = "reset"
          /\ operation = "serve" /\ endpoint = 2 => a.bits = RxStatus(OutStatus(configured))
          /\ ~ configured /\ endpoint = 2 => a.bits # RxStat}

(* What can be left to do: a reception is cleared first, and not without    *)
(* setting the status again; only a write runs outside the handler, and it  *)
(* is a single access.                                                      *)
TodoInv ==
  /\ todo \in Seq(Accesses)
  /\ Has(todo, "clear_rx_interrupt") => Has(todo, "set_rx_status") \/ Sends
  /\ todo # <<>> => ~ Has(Tail(todo), "clear_rx_interrupt")
  /\ value # <<>> => todo # <<>>
  /\ operation = "none" => todo = <<>> /\ reset /\ ~ isr /\ ~ configured
  /\ operation = "write" => endpoint = 3 /\ (todo # <<>> => Tail(todo) = <<>>)
  /\ ~ isr /\ todo # <<>> => operation = "write"

RegTypes ==
  /\ quiet_host \in BOOLEAN /\ endpoint \in {0, 1, 2, 3}
  /\ reg \in SUBSET Bits /\ reset \in BOOLEAN
  /\ value = <<>> \/ \E v \in SUBSET Bits : value = <<v>>
  /\ operation \in Operations /\ isr \in BOOLEAN
  /\ configured \in BOOLEAN /\ busy \in BOOLEAN

(* What the access under way is about to write.                            *)
Written == Head(value)

(* Type and address are those of the endpoint, in the register and in what  *)
(* is about to be written, unless a reset has come whose handling will set  *)
(* them, after the access that may now put stale ones back.                 *)
IdentityInv ==
  /\ "KIND" \notin reg
  /\ reg \cap AddressBits \subseteq AddressOf(endpoint)
  /\ ~ reset /\ operation # "none" /\ ~ Has(todo, "set_type") =>
       reg \cap TypeBits = TypeOf(endpoint)
  /\ ~ reset /\ operation # "none" /\ ~ Has(todo, "set_address") =>
       reg \cap AddressBits = AddressOf(endpoint)
  /\ value # <<>> =>
       /\ "KIND" \notin Written
       /\ Written \cap AddressBits \subseteq AddressOf(endpoint)
       /\ ~ reset /\ (~ Has(todo, "set_type") \/ Head(todo).op = "set_type") =>
            Written \cap TypeBits = TypeOf(endpoint)
       /\ ~ reset /\ (~ Has(todo, "set_address") \/ Head(todo).op = "set_address") =>
            Written \cap AddressBits = AddressOf(endpoint)

(* An access writes a one to every flag but the one it is to clear: it      *)
(* does not matter which flags it has read.                                 *)
FlagInv ==
  value # <<>> => CtrBits \ Clears(Head(todo).op) \subseteq Written

(* A listening endpoint has a packet flagged or an odd status (VALID or     *)
(* STALL), and what is about to be written toggles it to an odd one, or     *)
(* else a packet has come in between and is flagged.                        *)
HearInv ==
  /\ Listens /\ ~ reset /\ ~ Has(todo, "set_rx_status") =>
       "CTR_RX" \in reg \/ "STAT_RX0" \in reg
  /\ value # <<>> /\ Head(todo).op # "set_rx_status" => Written \cap RxStat = {}
  /\ value # <<>> /\ Head(todo).op # "set_tx_status" => Written \cap TxStat = {}
  /\ Listens /\ ~ reset /\ value # <<>> /\ Head(todo).op = "set_rx_status" =>
       "CTR_RX" \in reg \/ ("STAT_RX0" \in reg <=> "STAT_RX0" \notin Written)

(* A data endpoint of a quiet host.                                        *)
Apart == quiet_host /\ endpoint # 0 /\ ~ reset

(* The access under way will have the effect of the assignment, or a        *)
(* transaction that its VALID allowed has already been made.                *)
Meets(op, stat, nak, flag) ==
  value # <<>> /\ Head(todo).op = op =>
    LET result == Xor(reg \cap stat, Written \cap stat)
    IN \/ result = Head(todo).bits
       \/ Head(todo).bits = stat /\ result = nak /\ flag \in reg /\ ~ stat \subseteq reg

(* An access to a status field has the effect of the assignment, because    *)
(* the endpoint is not VALID while one is under way that would withdraw it: *)
(* a completion is served when the packet is gone, a packet is written when *)
(* none is on offer, and while it is configured or halted a quiet host      *)
(* sends nothing.                                                           *)
AssignInv ==
  Apart =>
    /\ Meets("set_tx_status", TxStat, TxStatus("NAK"), "CTR_TX")
    /\ Meets("set_rx_status", RxStat, RxStatus("NAK"), "CTR_RX")
    /\ Sends =>
         /\ operation \in {"serve", "write"} /\ Has(todo, "set_tx_status") =>
              ~ TxStat \subseteq reg
         /\ operation = "write" /\ todo # <<>> => "CTR_TX" \notin reg /\ Has(todo, "set_tx_status")
         /\ ~ (operation = "reset" /\ Has(todo, "set_tx_status")) /\ TxStat \subseteq reg =>
              "CTR_TX" \notin reg
         /\ operation # "none" /\ ~ isr /\ "CTR_TX" \in reg => busy
         /\ TxStat \subseteq reg /\ ~ busy => Has(todo, "set_tx_status")
         /\ operation = "write" /\ todo # <<>> => busy
    /\ endpoint = 2 /\ ~ configured
         /\ ~ (operation \in {"reset", "configure"} /\ Has(todo, "set_rx_status")) =>
            ~ RxStat \subseteq reg

(* The inductive invariant.                                                *)
IInv == RegTypes /\ TodoInv /\ IdentityInv /\ FlagInv /\ HearInv /\ AssignInv

USE DEF Sends

-----------------------------------------------------------------------------
(* The accesses that are left, and the bits that an access writes.         *)

LEMMA HasTail ==
  ASSUME NEW S, NEW q \in Seq(S), q # <<>>, NEW op
  PROVE  /\ Tail(q) \in Seq(S) /\ Head(q) \in S /\ Len(Tail(q)) = Len(q) - 1
         /\ Has(q, op) <=> Head(q).op = op \/ Has(Tail(q), op)
<1>1. /\ Tail(q) \in Seq(S) /\ Len(Tail(q)) = Len(q) - 1
      /\ Head(q) \in S /\ Head(q) = q[1] /\ Len(q) \in Nat /\ Len(q) # 0
  OBVIOUS
<1>2. \A i \in 1 .. Len(q) - 1 : Tail(q)[i] = q[i + 1]
  OBVIOUS
<1>3. ASSUME Has(q, op) PROVE Head(q).op = op \/ Has(Tail(q), op)
  <2>1. PICK i \in 1 .. Len(q) : q[i].op = op
    BY <1>3 DEF Has
  <2>2. CASE i = 1
    BY <2>1, <2>2, <1>1
  <2>3. CASE i # 1
    <3>1. i - 1 \in 1 .. Len(Tail(q)) /\ Tail(q)[i - 1] = q[i]
      BY <2>3, <1>1, <1>2
    <3>. QED BY <3>1, <2>1 DEF Has
  <2>. QED BY <2>2, <2>3
<1>4. ASSUME Has(Tail(q), op) PROVE Has(q, op)
  <2>1. PICK i \in 1 .. Len(Tail(q)) : Tail(q)[i].op = op
    BY <1>4 DEF Has
  <2>2. i + 1 \in 1 .. Len(q) /\ q[i + 1].op = op
    BY <2>1, <1>1, <1>2
  <2>. QED BY <2>2 DEF Has
<1>5. ASSUME Head(q).op = op PROVE Has(q, op)
  <2>1. 1 \in 1 .. Len(q)
    BY <1>1
  <2>. QED BY <1>5, <2>1, <1>1 DEF Has
<1>. QED BY <1>1, <1>3, <1>4, <1>5

LEMMA HasNone == ASSUME NEW op PROVE ~ Has(<<>>, op)
BY DEF Has

LEMMA HasOne == ASSUME NEW a, NEW op PROVE Has(<<a>>, op) <=> a.op = op
BY DEF Has

LEMMA HasTwo ==
  ASSUME NEW a, NEW b, NEW op PROVE Has(<<a, b>>, op) <=> a.op = op \/ b.op = op
BY DEF Has

LEMMA Prefixed ==
  ASSUME NEW S, NEW a \in S, NEW r \in Seq(S), NEW op
  PROVE  /\ <<a>> \o r \in Seq(S)
         /\ <<a>> \o r # <<>>
         /\ Tail(<<a>> \o r) = r
         /\ Head(<<a>> \o r) = a
OBVIOUS

LEMMA HasPrefixed ==
  ASSUME NEW S, NEW a \in S, NEW r \in Seq(S), NEW op
  PROVE  Has(<<a>> \o r, op) <=> a.op = op \/ Has(r, op)
<1>. DEFINE q == <<a>> \o r
<1>1. q \in Seq(S) /\ q # <<>> /\ Tail(q) = r /\ Head(q) = a
  BY Prefixed
<1>. HIDE DEF q
<1>2. Has(q, op) <=> Head(q).op = op \/ Has(Tail(q), op)
  BY <1>1, HasTail
<1>. QED BY <1>1, <1>2 DEF q

LEMMA HasJoined ==
  ASSUME NEW S, NEW q \in Seq(S), NEW r \in Seq(S), NEW op
  PROVE  /\ q \o r \in Seq(S)
         /\ q # <<>> => q \o r # <<>>
         /\ Has(q \o r, op) <=> Has(q, op) \/ Has(r, op)
<1>1. /\ q \o r \in Seq(S) /\ Len(q \o r) = Len(q) + Len(r)
      /\ Len(q) \in Nat /\ Len(r) \in Nat
  OBVIOUS
<1>2. \A i \in 1 .. Len(q) : (q \o r)[i] = q[i]
  OBVIOUS
<1>3. \A i \in 1 .. Len(r) : (q \o r)[Len(q) + i] = r[i]
  OBVIOUS
<1>4. Has(q, op) => Has(q \o r, op)
  BY <1>1, <1>2 DEF Has
<1>5. ASSUME Has(r, op) PROVE Has(q \o r, op)
  <2>1. PICK i \in 1 .. Len(r) : r[i].op = op
    BY <1>5 DEF Has
  <2>2. Len(q) + i \in 1 .. Len(q \o r)
    BY <1>1
  <2>. QED BY <2>1, <2>2, <1>3 DEF Has
<1>6. ASSUME Has(q \o r, op), ~ Has(q, op) PROVE Has(r, op)
  <2>1. PICK i \in 1 .. Len(q \o r) : (q \o r)[i].op = op
    BY <1>6 DEF Has
  <2>2. i \notin 1 .. Len(q)
    BY <2>1, <1>2, <1>6 DEF Has
  <2>3. i - Len(q) \in 1 .. Len(r) /\ i = Len(q) + (i - Len(q))
    BY <1>1, <2>1, <2>2
  <2>. QED BY <2>1, <2>3, <1>3 DEF Has
<1>7. q # <<>> => q \o r # <<>>
  OBVIOUS
<1>. QED BY <1>1, <1>4, <1>5, <1>6, <1>7

(* The register after v is written to it, w, if it was r.                  *)
Becomes(r, v, w) ==
  /\ w \in SUBSET Bits
  /\ w \cap StoredBits = v \cap StoredBits
  /\ w \cap CtrBits = r \cap v \cap CtrBits
  /\ w \cap TxStat = Xor(r \cap TxStat, v \cap TxStat)
  /\ w \cap RxStat = Xor(r \cap RxStat, v \cap RxStat)

LEMMA WriteBits ==
  ASSUME NEW r \in SUBSET Bits, NEW v \in SUBSET Bits
  PROVE  Becomes(r, v, endpoint_write(r, v))
<1>1. endpoint_write(r, v) \in SUBSET Bits
  BY SMTT(30) DEF endpoint_write, Xor, Bits
<1>2. endpoint_write(r, v) \cap StoredBits = v \cap StoredBits
  BY SMTT(30)
  DEF endpoint_write, Xor, StoredBits, TypeBits, AddressBits, CtrBits, ToggleBits, TxStat, RxStat
<1>3. endpoint_write(r, v) \cap CtrBits = r \cap v \cap CtrBits
  BY SMTT(30)
  DEF endpoint_write, Xor, StoredBits, TypeBits, AddressBits, CtrBits, ToggleBits, TxStat, RxStat
<1>4. endpoint_write(r, v) \cap TxStat = Xor(r \cap TxStat, v \cap TxStat)
  BY SMTT(30)
  DEF endpoint_write, Xor, StoredBits, TypeBits, AddressBits, CtrBits, ToggleBits, TxStat, RxStat
<1>5. endpoint_write(r, v) \cap RxStat = Xor(r \cap RxStat, v \cap RxStat)
  BY SMTT(30)
  DEF endpoint_write, Xor, StoredBits, TypeBits, AddressBits, CtrBits, ToggleBits, TxStat, RxStat
<1>. QED BY <1>1, <1>2, <1>3, <1>4, <1>5 DEF Becomes

BitsOf(a) ==
  /\ a \in [op : Ops, bits : SUBSET Bits]
  /\ a.op = "set_type" => a.bits \subseteq TypeBits
  /\ a.op = "set_address" => a.bits \subseteq AddressBits
  /\ a.op = "set_tx_status" => a.bits \subseteq TxStat
  /\ a.op = "set_rx_status" => a.bits \subseteq RxStat

(* What an access writes, v, when it has read r.                           *)
Writes(a, r, v) ==
  /\ v \in SUBSET Bits
  /\ CtrBits \ Clears(a.op) \subseteq v
  /\ "KIND" \in v => "KIND" \in r
  /\ a.op = "set_type" => v \cap TypeBits = a.bits
  /\ a.op # "set_type" => v \cap TypeBits = r \cap TypeBits
  /\ a.op = "set_address" => v \cap AddressBits = (r \cap AddressBits) \cup a.bits
  /\ a.op # "set_address" => v \cap AddressBits = r \cap AddressBits
  /\ a.op = "set_tx_status" => Xor(r \cap TxStat, v \cap TxStat) = a.bits
  /\ a.op # "set_tx_status" => v \cap TxStat = {}
  /\ a.op = "set_rx_status" => Xor(r \cap RxStat, v \cap RxStat) = a.bits
  /\ a.op # "set_rx_status" => v \cap RxStat = {}

LEMMA ValueBits ==
  ASSUME NEW a, BitsOf(a), NEW r \in SUBSET Bits
  PROVE  Writes(a, r, ValueOf(a, r))
<1>. USE DEF USB_EPREG_MASK, USB_EP_T_MASK, USB_EPTX_DTOGMASK, USB_EPRX_DTOGMASK,
       Bits, StoredBits, TypeBits, AddressBits, CtrBits, ToggleBits, TxStat, RxStat, Xor, Clears,
       BitsOf, Writes
<1>1. CASE a.op = "set_type"
  <2>. ValueOf(a, r) = endpoint_set_type(r, a.bits)
    BY <1>1 DEF ValueOf
  <2>. QED BY <1>1, SMTT(30) DEF endpoint_set_type
<1>2. CASE a.op = "set_address"
  <2>. ValueOf(a, r) = endpoint_set_address(r, a.bits)
    BY <1>2 DEF ValueOf
  <2>. QED BY <1>2, SMTT(30) DEF endpoint_set_address
<1>3. CASE a.op = "set_tx_status"
  <2>. ValueOf(a, r) = endpoint_set_tx_status(r, a.bits)
    BY <1>3 DEF ValueOf
  <2>. QED BY <1>3, SMTT(30) DEF endpoint_set_tx_status
<1>4. CASE a.op = "set_rx_status"
  <2>. ValueOf(a, r) = endpoint_set_rx_status(r, a.bits)
    BY <1>4 DEF ValueOf
  <2>. QED BY <1>4, SMTT(30) DEF endpoint_set_rx_status
<1>5. CASE a.op = "clear_rx_interrupt"
  <2>. ValueOf(a, r) = endpoint_clear_rx_interrupt(r)
    BY <1>5 DEF ValueOf
  <2>. QED BY <1>5, SMTT(30) DEF endpoint_clear_rx_interrupt
<1>6. CASE a.op = "clear_tx_interrupt"
  <2>. ValueOf(a, r) = endpoint_clear_tx_interrupt(r)
    BY <1>6 DEF ValueOf
  <2>. QED BY <1>6, SMTT(30) DEF endpoint_clear_tx_interrupt
<1>7. CASE a.op = "clear_tx_toggle"
  <2>. ValueOf(a, r) = endpoint_clear_toggle(r, "DTOG_TX")
    BY <1>7 DEF ValueOf
  <2>. QED BY <1>7, SMTT(30) DEF endpoint_clear_toggle
<1>8. CASE a.op = "clear_rx_toggle"
  <2>. ValueOf(a, r) = endpoint_clear_toggle(r, "DTOG_RX")
    BY <1>8 DEF ValueOf
  <2>. QED BY <1>8, SMTT(30) DEF endpoint_clear_toggle
<1>9. a.op \in Ops
  OBVIOUS
<1>. QED BY <1>1, <1>2, <1>3, <1>4, <1>5, <1>6, <1>7, <1>8, <1>9 DEF Ops

LEMMA InitInv == Init => IInv
<1>. SUFFICES ASSUME Init PROVE IInv
  OBVIOUS
<1>. USE DEF Init
<1>1. RegTypes
  <2>1. endpoint \in {0, 1, 2, 3}
    BY EndpointsAssumption
  <2>. QED BY <2>1 DEF RegTypes, Operations
<1>2. TodoInv
  BY HasNone DEF TodoInv
<1>3. IdentityInv
  BY DEF IdentityInv
<1>4. FlagInv /\ HearInv /\ AssignInv
  BY DEF FlagInv, HearInv, AssignInv, Apart
<1>. QED BY <1>1, <1>2, <1>3, <1>4 DEF IInv

LEMMA HeadTyped ==
  ASSUME RegTypes, TodoInv, todo # <<>>
  PROVE  BitsOf(Head(todo)) /\ Head(todo) \in Accesses
<1>1. Head(todo) \in Accesses
  BY HasTail DEF TodoInv
<1>2. TypeOf(endpoint) \subseteq TypeBits /\ AddressOf(endpoint) \subseteq AddressBits
  BY DEF RegTypes, TypeOf, AddressOf, TypeBits, AddressBits
<1>. QED BY <1>1, <1>2 DEF Accesses, BitsOf

(* What is left of the accesses.                                           *)
LEMMA TailInv ==
  ASSUME RegTypes, TodoInv, todo # <<>>, todo' = Tail(todo), value' = <<>>,
         UNCHANGED <<fixed, reset, operation, isr, configured>>
  PROVE  TodoInv' /\ \A op : Has(todo, op) <=> Head(todo).op = op \/ Has(todo', op)
<1>1. \A op : Has(todo, op) <=> Head(todo).op = op \/ Has(todo', op)
  BY HasTail DEF TodoInv
<1>2. Accesses' = Accesses
  BY DEF Accesses, Listens, fixed
<1>3. todo' \in Seq(Accesses)
  BY HasTail DEF TodoInv
<1>4. ~ Has(todo', "clear_rx_interrupt")
  BY DEF TodoInv
<1>5. todo' # <<>> => ~ Has(Tail(todo'), "clear_rx_interrupt")
  BY <1>3, <1>4, HasTail
<1>6. operation = "none" => todo = <<>>
  BY DEF TodoInv
<1>. QED BY <1>1, <1>2, <1>3, <1>4, <1>5, <1>6 DEF TodoInv, fixed

LEMMA ReadStep == IInv /\ Read => IInv'
<1>. SUFFICES ASSUME IInv, Read PROVE IInv'
  OBVIOUS
<1>. USE DEF IInv
<1>1. todo # <<>> /\ value = <<>>
      /\ UNCHANGED <<fixed, reg, reset, operation, isr, configured, busy>>
  BY DEF Read
<1>2. BitsOf(Head(todo)) /\ Head(todo) \in Accesses
  BY <1>1, HeadTyped
<1>3. CASE NothingToClear(Head(todo), reg)
  <2>1. todo' = Tail(todo) /\ value' = <<>>
    BY <1>1, <1>3 DEF Read
  <2>2. TodoInv' /\ \A op : Has(todo, op) <=> Head(todo).op = op \/ Has(todo', op)
    BY <1>1, <2>1, TailInv
  <2>3. Head(todo).op \in {"clear_tx_toggle", "clear_rx_toggle"}
    BY <1>3 DEF NothingToClear
  <2>4. RegTypes'
    BY <1>1, <2>1 DEF RegTypes, fixed
  <2>5. IdentityInv'
    BY <1>1, <2>1, <2>2, <2>3 DEF IdentityInv, fixed
  <2>6. FlagInv' /\ HearInv'
    BY <1>1, <2>1, <2>2, <2>3 DEF FlagInv, HearInv, Listens, fixed
  <2>7. AssignInv'
    BY <1>1, <2>1, <2>2, <2>3 DEF AssignInv, Apart, Meets, fixed
  <2>. QED BY <2>2, <2>4, <2>5, <2>6, <2>7
<1>4. CASE ~ NothingToClear(Head(todo), reg)
  <2>1. todo' = todo /\ value' = <<ValueOf(Head(todo), reg)>>
    BY <1>1, <1>4 DEF Read
  <2>. DEFINE v == ValueOf(Head(todo), reg)
  <2>2. value' # <<>> /\ Written' = v
    BY <2>1 DEF Written
  <2>3. Writes(Head(todo), reg, v)
    BY <1>2, ValueBits DEF RegTypes
  <2>. HIDE DEF v
  <2>4. RegTypes'
    BY <1>1, <2>1, <2>3 DEF Writes, RegTypes, fixed, v
  <2>5. TodoInv'
    <3>1. Accesses' = Accesses
      BY <1>1 DEF Accesses, Listens, fixed
    <3>. QED BY <1>1, <2>1, <3>1 DEF TodoInv, fixed
  <2>6. IdentityInv'
    <3>1. operation # "none"
      BY <1>1 DEF TodoInv
    <3>2. /\ Head(todo).op = "set_type" => Head(todo).bits = TypeOf(endpoint)
          /\ Head(todo).op = "set_address" => Head(todo).bits = AddressOf(endpoint)
      BY <1>2 DEF Accesses
    <3>3. /\ "KIND" \notin v
          /\ v \cap AddressBits \subseteq AddressOf(endpoint)
          /\ ~ reset /\ (~ Has(todo, "set_type") \/ Head(todo).op = "set_type") =>
               v \cap TypeBits = TypeOf(endpoint)
          /\ ~ reset /\ (~ Has(todo, "set_address") \/ Head(todo).op = "set_address") =>
               v \cap AddressBits = AddressOf(endpoint)
      BY <2>3, <3>1, <3>2 DEF Writes, IdentityInv
    <3>4. UNCHANGED <<endpoint, reg, reset, operation, todo>>
      BY <1>1, <2>1 DEF fixed
    <3>. QED BY <2>2, <3>3, <3>4 DEF IdentityInv
  <2>7. FlagInv'
    BY <2>1, <2>2, <2>3 DEF Writes, FlagInv
  <2>8. HearInv'
    <3>1. Head(todo).op = "set_rx_status" /\ Listens => "STAT_RX0" \in Head(todo).bits
      BY <1>2 DEF Accesses
    <3>2. Head(todo).op = "set_rx_status" /\ "STAT_RX0" \in Head(todo).bits =>
            ("STAT_RX0" \in reg <=> "STAT_RX0" \notin v)
      BY <2>3 DEF Writes, Xor, RxStat
    <3>3. /\ Head(todo).op # "set_rx_status" => v \cap RxStat = {}
          /\ Head(todo).op # "set_tx_status" => v \cap TxStat = {}
      BY <2>3 DEF Writes
    <3>4. UNCHANGED <<endpoint, configured, reg, reset, todo>>
      BY <1>1, <2>1 DEF fixed
    <3>. QED BY <2>2, <3>1, <3>2, <3>3, <3>4 DEF HearInv, Listens
  <2>9. AssignInv'
    <3>1. (Meets("set_tx_status", TxStat, TxStatus("NAK"), "CTR_TX")
           /\ Meets("set_rx_status", RxStat, RxStatus("NAK"), "CTR_RX"))'
      BY <1>1, <2>1, <2>2, <2>3 DEF Writes, Meets
    <3>. QED BY <1>1, <2>1, <3>1 DEF AssignInv, Apart, fixed
  <2>. QED BY <2>4, <2>5, <2>6, <2>7, <2>8, <2>9
<1>. QED BY <1>3, <1>4

LEMMA WriteStep == IInv /\ Write => IInv'
<1>. SUFFICES ASSUME IInv, Write PROVE IInv'
  OBVIOUS
<1>. USE DEF IInv
<1>1. /\ value # <<>> /\ reg' = endpoint_write(reg, Written)
      /\ todo' = Tail(todo) /\ value' = <<>>
      /\ UNCHANGED <<fixed, reset, operation, isr, configured, busy>>
  BY DEF Write, Written
<1>2. todo # <<>>
  BY <1>1 DEF TodoInv
<1>3. BitsOf(Head(todo)) /\ Head(todo) \in Accesses
  BY <1>2, HeadTyped
<1>4. TodoInv' /\ \A op : Has(todo, op) <=> Head(todo).op = op \/ Has(todo', op)
  BY <1>1, <1>2, TailInv
<1>5. reg \in SUBSET Bits /\ Written \in SUBSET Bits
  BY <1>1 DEF RegTypes, Written
<1>6. /\ reg' \in SUBSET Bits
      /\ reg' \cap StoredBits = Written \cap StoredBits
      /\ reg' \cap CtrBits = reg \cap Written \cap CtrBits
      /\ reg' \cap TxStat = Xor(reg \cap TxStat, Written \cap TxStat)
      /\ reg' \cap RxStat = Xor(reg \cap RxStat, Written \cap RxStat)
  <2>1. Becomes(reg, Written, reg')
    BY <1>1, <1>5, WriteBits
  <2>. QED BY <2>1 DEF Becomes
<1>7. operation # "none"
  BY <1>2 DEF TodoInv
<1>8. RegTypes'
  BY <1>1, <1>6 DEF RegTypes, fixed
<1>9. IdentityInv'
  <2>1. /\ "KIND" \in reg' <=> "KIND" \in Written
        /\ reg' \cap AddressBits = Written \cap AddressBits
        /\ reg' \cap TypeBits = Written \cap TypeBits
    BY <1>6 DEF StoredBits
  <2>2. UNCHANGED <<endpoint, reset, operation>>
    BY <1>1 DEF fixed
  <2>. QED BY <1>1, <1>4, <1>7, <2>1, <2>2 DEF IdentityInv
<1>10. FlagInv'
  BY <1>1 DEF FlagInv
<1>11. HearInv'
  <2>1. SUFFICES ASSUME Listens, ~ reset, ~ Has(todo', "set_rx_status")
                 PROVE  "CTR_RX" \in reg' \/ "STAT_RX0" \in reg'
    BY <1>1 DEF HearInv, Listens, fixed
  <2>2. CASE Head(todo).op = "set_rx_status"
    <3>1. "CTR_RX" \in Written
      BY <1>1, <2>2 DEF FlagInv, CtrBits, Clears
    <3>2. "CTR_RX" \in reg \/ ("STAT_RX0" \in reg <=> "STAT_RX0" \notin Written)
      BY <1>1, <2>1, <2>2 DEF HearInv
    <3>. QED BY <1>6, <3>1, <3>2 DEF CtrBits, RxStat, Xor
  <2>3. CASE Head(todo).op # "set_rx_status"
    <3>1. ~ Has(todo, "set_rx_status")
      BY <1>4, <2>1, <2>3
    <3>2. Head(todo).op # "clear_rx_interrupt"
      BY <3>1, <1>4, <2>1 DEF TodoInv, Listens
    <3>3. "CTR_RX" \in Written
      BY <1>1, <3>2 DEF FlagInv, CtrBits, Clears
    <3>4. "CTR_RX" \in reg \/ "STAT_RX0" \in reg
      BY <3>1, <2>1 DEF HearInv
    <3>5. Written \cap RxStat = {}
      BY <1>1, <2>3 DEF HearInv
    <3>. QED BY <1>6, <3>3, <3>4, <3>5 DEF CtrBits, RxStat, Xor
  <2>. QED BY <2>2, <2>3
<1>12. AssignInv'
  <2>1. SUFFICES ASSUME Apart PROVE AssignInv'
    BY <1>1 DEF AssignInv, Apart, fixed
  <2>2. UNCHANGED <<endpoint, operation, isr, configured, busy>>
    BY <1>1 DEF fixed
  <2>3. "CTR_TX" \in reg' => "CTR_TX" \in reg
    BY <1>6 DEF CtrBits
  <2>4. endpoint # 0
    BY <2>1 DEF Apart
  <2>5. CASE Head(todo).op = "set_tx_status"
    <3>1. \/ reg' \cap TxStat = Head(todo).bits
          \/ reg' \cap TxStat = TxStatus("NAK")
      BY <1>1, <1>6, <2>1, <2>5 DEF AssignInv, Meets
    <3>2. ~ TxStatus("NAK") = TxStat
      BY DEF TxStatus, TxStat
    <3>3. Sends /\ TxStat \subseteq reg' => operation = "write"
      BY <1>3, <2>5, <3>1, <3>2 DEF Accesses, BitsOf
    <3>4. Sends /\ operation = "write" => busy /\ "CTR_TX" \notin reg
      BY <1>2, <2>1 DEF AssignInv
    <3>5. Written \cap RxStat = {}
      BY <1>1, <2>5 DEF HearInv
    <3>6. RxStat \subseteq reg' <=> RxStat \subseteq reg
      BY <1>6, <3>5 DEF Xor, RxStat
    <3>7. Has(todo', "set_rx_status") <=> Has(todo, "set_rx_status")
      BY <1>4, <2>5
    <3>8. operation = "write" => todo' = <<>> /\ ~ Has(todo', "set_tx_status")
      BY <1>1, <1>2, HasNone DEF TodoInv
    <3>. QED BY <1>1, <2>1, <2>2, <2>3, <3>3, <3>4, <3>6, <3>7, <3>8
         DEF AssignInv, Apart, Meets
  <2>6. CASE Head(todo).op # "set_tx_status"
    <3>1. Written \cap TxStat = {}
      BY <1>1, <2>6 DEF HearInv
    <3>2. TxStat \subseteq reg' <=> TxStat \subseteq reg
      BY <1>6, <3>1 DEF Xor, TxStat
    <3>3. Has(todo', "set_tx_status") <=> Has(todo, "set_tx_status")
      BY <1>4, <2>6
    <3>4. endpoint = 2 /\ ~ configured /\ Head(todo).op = "set_rx_status" =>
            ~ RxStat \subseteq reg'
      <4>1. SUFFICES ASSUME endpoint = 2, ~ configured, Head(todo).op = "set_rx_status"
                     PROVE  ~ RxStat \subseteq reg'
        OBVIOUS
      <4>2. Head(todo).bits # RxStat /\ Head(todo).bits \subseteq RxStat
        BY <1>3, <4>1 DEF Accesses
      <4>3. Xor(reg \cap RxStat, Written \cap RxStat) = Head(todo).bits
        BY <1>1, <2>1, <4>1, <4>2 DEF AssignInv, Meets
      <4>. QED BY <1>6, <4>2, <4>3
    <3>5. Head(todo).op # "set_rx_status" =>
            /\ Has(todo', "set_rx_status") <=> Has(todo, "set_rx_status")
            /\ RxStat \subseteq reg' <=> RxStat \subseteq reg
      <4>1. SUFFICES ASSUME Head(todo).op # "set_rx_status"
                     PROVE  /\ Has(todo', "set_rx_status") <=> Has(todo, "set_rx_status")
                            /\ RxStat \subseteq reg' <=> RxStat \subseteq reg
        OBVIOUS
      <4>2. Written \cap RxStat = {}
        BY <1>1, <4>1 DEF HearInv
      <4>3. RxStat \subseteq reg' <=> RxStat \subseteq reg
        BY <1>6, <4>2 DEF Xor, RxStat
      <4>. QED BY <1>4, <4>1, <4>3
    <3>6. Sends /\ todo' # <<>> => operation # "write"
      BY <1>1, <1>2 DEF TodoInv
    <3>. QED BY <1>1, <1>2, <2>1, <2>2, <2>3, <3>2, <3>3, <3>4, <3>5, <3>6
         DEF AssignInv, Apart, Meets
  <2>. QED BY <2>5, <2>6
<1>. QED BY <1>4, <1>8, <1>9, <1>10, <1>11, <1>12

(* What the peripheral leaves alone.                                       *)
HwFrame == UNCHANGED <<fixed, todo, value, operation, isr, configured, busy>>

LEMMA HwTodo == TodoInv /\ HwFrame /\ UNCHANGED reset => TodoInv'
<1>. SUFFICES ASSUME TodoInv, HwFrame, UNCHANGED reset PROVE TodoInv'
  OBVIOUS
<1>1. Accesses' = Accesses
  BY DEF Accesses, Listens, HwFrame, fixed
<1>. QED BY <1>1 DEF TodoInv, HwFrame, fixed

LEMMA HwIdentity ==
  IdentityInv /\ HwFrame /\ UNCHANGED reset /\ reg' \cap StoredBits = reg \cap StoredBits
    => IdentityInv'
<1>. SUFFICES ASSUME IdentityInv, HwFrame, UNCHANGED reset,
                     reg' \cap StoredBits = reg \cap StoredBits
              PROVE  IdentityInv'
  OBVIOUS
<1>1. /\ "KIND" \in reg' <=> "KIND" \in reg
      /\ reg' \cap AddressBits = reg \cap AddressBits
      /\ reg' \cap TypeBits = reg \cap TypeBits
  BY DEF StoredBits
<1>2. Written' = Written
  BY DEF HwFrame, Written
<1>. QED BY <1>1, <1>2 DEF IdentityInv, HwFrame, fixed

LEMMA HwOutStep == IInv /\ HwOut => IInv'
<1>. SUFFICES ASSUME IInv, HwOut PROVE IInv'
  OBVIOUS
<1>. USE DEF IInv
<1>1. HwFrame /\ UNCHANGED reset /\ Addressed /\ RxStat \subseteq reg
  BY DEF HwOut, HwFrame
<1>2. /\ reg' \in SUBSET Bits
      /\ reg' \cap StoredBits = reg \cap StoredBits
      /\ "CTR_RX" \in reg'
      /\ "CTR_TX" \in reg' <=> "CTR_TX" \in reg
      /\ reg' \cap TxStat = reg \cap TxStat
      /\ reg' \cap RxStat = RxStatus("NAK")
  BY SMTT(30) DEF HwOut, Completes, RegTypes, Bits, StoredBits, TypeBits, AddressBits, CtrBits,
     ToggleBits, TxStat, RxStat, RxStatus
<1>3. Written' = Written
  BY <1>1 DEF HwFrame, Written
<1>4. RegTypes' /\ TodoInv' /\ IdentityInv'
  BY <1>1, <1>2, HwTodo, HwIdentity DEF RegTypes, HwFrame, fixed
<1>5. FlagInv' /\ HearInv'
  BY <1>1, <1>2, <1>3 DEF FlagInv, HearInv, Listens, HwFrame, fixed
<1>6. ~ RxStat \subseteq reg'
  BY <1>2 DEF RxStat, RxStatus
<1>7. TxStat \subseteq reg' <=> TxStat \subseteq reg
  BY <1>2
<1>8. AssignInv'
  <2>1. SUFFICES ASSUME Apart PROVE AssignInv'
    BY <1>1 DEF AssignInv, Apart, HwFrame, fixed
  <2>2. Meets("set_tx_status", TxStat, TxStatus("NAK"), "CTR_TX")'
    BY <1>1, <1>2, <1>3, <1>7, <2>1 DEF AssignInv, Meets, HwFrame
  <2>3. Meets("set_rx_status", RxStat, RxStatus("NAK"), "CTR_RX")'
    <3>1. SUFFICES ASSUME value # <<>>, Head(todo).op = "set_rx_status"
                   PROVE  /\ Head(todo).bits = RxStat
                          /\ Xor(reg' \cap RxStat, Written \cap RxStat) = RxStatus("NAK")
      BY <1>1, <1>2, <1>3, <1>6 DEF Meets, HwFrame
    <3>2. todo # <<>> /\ Head(todo) \in Accesses
      BY <3>1, HeadTyped DEF TodoInv
    <3>3. operation \notin {"reset", "configure", "halt"} /\ endpoint = 2
      BY <1>1, <2>1, <3>1, <3>2 DEF Addressed, Apart, Accesses, RegTypes
    <3>4. operation = "serve"
      BY <3>2, <3>3 DEF TodoInv, RegTypes, Operations
    <3>5. /\ Head(todo).bits = RxStatus(OutStatus(configured))
          /\ ~ configured => Head(todo).bits # RxStat
      BY <3>1, <3>2, <3>3, <3>4 DEF Accesses
    <3>6. configured
      BY <1>1, <2>1, <3>3, <3>4 DEF AssignInv
    <3>7. Head(todo).bits = RxStat
      BY <3>5, <3>6 DEF OutStatus, RxStatus
    <3>8. Xor(reg \cap RxStat, Written \cap RxStat) = RxStat
      BY <1>1, <2>1, <3>1, <3>7 DEF AssignInv, Meets
    <3>9. Written \cap RxStat = {}
      BY <1>1, <3>8 DEF Xor, RxStat
    <3>. QED BY <1>2, <3>7, <3>9 DEF Xor
  <2>. QED BY <1>1, <1>2, <1>6, <1>7, <2>1, <2>2, <2>3 DEF AssignInv, Apart, HwFrame, fixed
<1>. QED BY <1>4, <1>5, <1>8

LEMMA HwInStep == IInv /\ HwIn => IInv'
<1>. SUFFICES ASSUME IInv, HwIn PROVE IInv'
  OBVIOUS
<1>. USE DEF IInv
<1>1. HwFrame /\ UNCHANGED reset /\ Addressed /\ TxStat \subseteq reg
  BY DEF HwIn, HwFrame
<1>2. /\ reg' \in SUBSET Bits
      /\ reg' \cap StoredBits = reg \cap StoredBits
      /\ "CTR_TX" \in reg'
      /\ "CTR_RX" \in reg' <=> "CTR_RX" \in reg
      /\ reg' \cap RxStat = reg \cap RxStat
      /\ reg' \cap TxStat = TxStatus("NAK")
  BY SMTT(30) DEF HwIn, Completes, RegTypes, Bits, StoredBits, TypeBits, AddressBits, CtrBits,
     ToggleBits, TxStat, RxStat, TxStatus
<1>3. Written' = Written
  BY <1>1 DEF HwFrame, Written
<1>4. RegTypes' /\ TodoInv' /\ IdentityInv'
  BY <1>1, <1>2, HwTodo, HwIdentity DEF RegTypes, HwFrame, fixed
<1>5. "STAT_RX0" \in reg' <=> "STAT_RX0" \in reg
  BY <1>2 DEF RxStat
<1>6. FlagInv' /\ HearInv'
  BY <1>1, <1>2, <1>3, <1>5 DEF FlagInv, HearInv, Listens, HwFrame, fixed
<1>7. ~ TxStat \subseteq reg'
  BY <1>2 DEF TxStat, TxStatus
<1>8. RxStat \subseteq reg' <=> RxStat \subseteq reg
  BY <1>2
<1>9. AssignInv'
  <2>1. SUFFICES ASSUME Apart PROVE AssignInv'
    BY <1>1 DEF AssignInv, Apart, HwFrame, fixed
  <2>2. Meets("set_rx_status", RxStat, RxStatus("NAK"), "CTR_RX")'
    BY <1>1, <1>2, <1>3, <1>8, <2>1 DEF AssignInv, Meets, HwFrame
  <2>3. Sends =>
          ~ (operation \in {"serve", "write"} /\ Has(todo, "set_tx_status"))
    BY <1>1, <2>1 DEF AssignInv
  <2>4. value # <<>> => Head(todo).op # "set_tx_status"
    <3>1. SUFFICES ASSUME value # <<>>, Head(todo).op = "set_tx_status" PROVE FALSE
      OBVIOUS
    <3>2. todo # <<>> /\ Head(todo) \in Accesses /\ Has(todo, "set_tx_status")
      BY <3>1, HeadTyped, HasTail DEF TodoInv
    <3>3. operation \notin {"reset", "configure", "halt"} /\ Sends
      BY <1>1, <2>1, <3>1, <3>2 DEF Addressed, Apart, Accesses, RegTypes
    <3>4. operation \in {"serve", "write"}
      BY <3>2, <3>3 DEF TodoInv, RegTypes, Operations
    <3>. QED BY <2>3, <3>2, <3>3, <3>4
  <2>5. Sends /\ operation # "none" /\ ~ isr => busy
    <3>1. SUFFICES ASSUME Sends, operation # "none", ~ isr, ~ busy PROVE FALSE
      BY DEF RegTypes
    <3>2. Has(todo, "set_tx_status")
      BY <1>1, <2>1, <3>1 DEF AssignInv
    <3>3. todo # <<>> 
      BY <3>2, HasNone
    <3>. QED BY <2>3, <3>1, <3>2, <3>3 DEF TodoInv
  <2>6. Sends => ~ (operation = "write" /\ todo # <<>>)
    BY <2>1, <2>3 DEF AssignInv
  <2>7. Meets("set_tx_status", TxStat, TxStatus("NAK"), "CTR_TX")'
    BY <1>1, <2>4 DEF Meets, HwFrame
  <2>. QED BY <1>1, <1>2, <1>7, <1>8, <2>1, <2>2, <2>5, <2>6, <2>7
       DEF AssignInv, Apart, HwFrame, fixed
<1>. QED BY <1>4, <1>6, <1>9

LEMMA HwSetupStep == IInv /\ HwSetup => IInv'
<1>. SUFFICES ASSUME IInv, HwSetup PROVE IInv'
  OBVIOUS
<1>. USE DEF IInv
<1>1. HwFrame /\ UNCHANGED reset /\ endpoint = 0
  BY DEF HwSetup, HwFrame
<1>2. /\ reg' \in SUBSET Bits
      /\ reg' \cap StoredBits = reg \cap StoredBits
      /\ "CTR_RX" \in reg'
  BY SMTT(30) DEF HwSetup, RegTypes, Bits, StoredBits, TypeBits, AddressBits, CtrBits,
     ToggleBits, TxStat, RxStat, TxStatus, RxStatus
<1>3. Written' = Written
  BY <1>1 DEF HwFrame, Written
<1>4. RegTypes' /\ TodoInv' /\ IdentityInv'
  BY <1>1, <1>2, HwTodo, HwIdentity DEF RegTypes, HwFrame, fixed
<1>5. FlagInv' /\ HearInv'
  BY <1>1, <1>2, <1>3 DEF FlagInv, HearInv, Listens, HwFrame, fixed
<1>6. AssignInv'
  BY <1>1 DEF AssignInv, Apart, HwFrame, fixed
<1>. QED BY <1>4, <1>5, <1>6

LEMMA HwResetStep == IInv /\ HwReset => IInv'
<1>. SUFFICES ASSUME IInv, HwReset PROVE IInv'
  OBVIOUS
<1>. USE DEF IInv
<1>1. HwFrame /\ reset' /\ reset' \in BOOLEAN /\ reg' = reg \cap CtrBits /\ ~ reset
  BY DEF HwReset, HwFrame
<1>2. Written' = Written
  BY <1>1 DEF HwFrame, Written
<1>3. "KIND" \notin reg' /\ reg' \cap AddressBits = {}
  BY <1>1 DEF CtrBits, AddressBits
<1>4. RegTypes'
  BY <1>1 DEF RegTypes, HwFrame, fixed
<1>5. TodoInv'
  <2>1. Accesses' = Accesses
    BY <1>1 DEF Accesses, Listens, HwFrame, fixed
  <2>. QED BY <1>1, <2>1 DEF TodoInv, HwFrame, fixed
<1>6. IdentityInv'
  BY <1>1, <1>2, <1>3 DEF IdentityInv, HwFrame, fixed
<1>7. FlagInv' /\ HearInv' /\ AssignInv'
  BY <1>1, <1>2 DEF FlagInv, HearInv, AssignInv, Apart, Listens, HwFrame, fixed
<1>. QED BY <1>4, <1>5, <1>6, <1>7

-----------------------------------------------------------------------------
(* The driver's operations.                                                *)

Status == {"DISABLED", "STALL", "NAK", "VALID"}

LEMMA StatusBits ==
  ASSUME NEW s \in Status
  PROVE  /\ TxStatus(s) \subseteq TxStat /\ RxStatus(s) \subseteq RxStat
         /\ TxStatus(s) = TxStat <=> s = "VALID"
         /\ RxStatus(s) = RxStat <=> s = "VALID"
         /\ "STAT_RX0" \in RxStatus(s) <=> s \in {"VALID", "STALL"}
         /\ TxStatus(s) \subseteq Bits /\ RxStatus(s) \subseteq Bits
BY SMTT(30) DEF Status, TxStatus, RxStatus, TxStat, RxStat, Bits, ToggleBits

LEMMA TxAccess ==
  ASSUME NEW s \in Status,
         endpoint' = 2 => operation' = "reset",
         Sends' => (operation' = "write" <=> s = "VALID")
  PROVE  SetTx(s) \in Accesses' /\ SetTx(s).op = "set_tx_status"
BY StatusBits DEF SetTx, Access, Accesses, Ops

LEMMA RxAccess ==
  ASSUME NEW s \in Status,
         Listens' => s \in {"VALID", "STALL"},
         Sends' => operation' = "reset",
         operation' = "serve" /\ endpoint' = 2 => s = OutStatus(configured'),
         ~ configured' /\ endpoint' = 2 => s # "VALID"
  PROVE  SetRx(s) \in Accesses' /\ SetRx(s).op = "set_rx_status"
BY StatusBits DEF SetRx, Access, Accesses, Ops

LEMMA OtherAccess ==
  /\ ClearTxToggle \in Accesses' /\ ClearTxToggle.op = "clear_tx_toggle"
  /\ ClearRxToggle \in Accesses' /\ ClearRxToggle.op = "clear_rx_toggle"
  /\ ClearRxFlag \in Accesses' /\ ClearRxFlag.op = "clear_rx_interrupt"
  /\ ClearTxFlag \in Accesses' /\ ClearTxFlag.op = "clear_tx_interrupt"
BY DEF ClearTxToggle, ClearRxToggle, ClearRxFlag, ClearTxFlag, Access, Accesses, Ops

LEMMA OutStatusIs ==
  \A c \in BOOLEAN : OutStatus(c) \in Status /\ (OutStatus(c) = "VALID" <=> c)
BY DEF OutStatus, Status

(* An operation begins: of what follows only the requirements on its       *)
(* accesses differ.                                                        *)
Begun ==
  /\ todo = <<>> /\ todo' \in Seq(Accesses')
  /\ todo' # <<>> => ~ Has(Tail(todo'), "clear_rx_interrupt")
  /\ Has(todo', "clear_rx_interrupt") => Has(todo', "set_rx_status") \/ Sends
  /\ operation' \in Operations \ {"none"}
  /\ operation' = "write" => endpoint = 3 /\ (todo' # <<>> => Tail(todo') = <<>>)
  /\ isr' = (operation' # "write")
  /\ reset' \in BOOLEAN /\ configured' \in BOOLEAN /\ busy' \in BOOLEAN
  /\ \/ reset' = reset /\ operation' # "reset"
     \/ Has(todo', "set_type") /\ Has(todo', "set_address")
  /\ \/ Has(todo', "set_rx_status") \/ Sends
     \/ configured' = configured /\ reset' = reset
  /\ UNCHANGED <<fixed, reg, value>>

LEMMA BeginInv ==
  ASSUME IInv, Begun
  PROVE  RegTypes' /\ TodoInv' /\ IdentityInv' /\ FlagInv' /\ HearInv' /\ value' = <<>>
<1>. USE DEF IInv
<1>1. value = <<>> /\ value' = <<>>
  BY DEF Begun, TodoInv
<1>2. RegTypes'
  BY DEF RegTypes, Begun, fixed
<1>3. TodoInv'
  BY <1>1 DEF TodoInv, Begun, fixed
<1>4. \A op : ~ Has(todo, op)
  BY HasNone DEF Begun
<1>5. ~ reset => operation # "none"
  BY DEF TodoInv
<1>6. IdentityInv'
  BY <1>1, <1>4, <1>5 DEF IdentityInv, Begun, fixed
<1>7. HearInv'
  BY <1>1, <1>4 DEF HearInv, Listens, Begun, fixed
<1>. QED BY <1>1, <1>2, <1>3, <1>6, <1>7 DEF FlagInv

LEMMA TryWriteStep == IInv /\ usb_cdc_try_write => IInv'
<1>. SUFFICES ASSUME IInv, usb_cdc_try_write PROVE IInv'
  OBVIOUS
<1>. USE DEF IInv
<1>1. /\ todo = <<>> /\ todo' = <<SetTx("VALID")>> /\ operation' = "write" /\ isr' = FALSE
      /\ busy' = TRUE /\ UNCHANGED <<fixed, reg, value, reset, configured>>
      /\ ~ isr /\ endpoint = 3 /\ configured /\ ~ busy
  BY DEF usb_cdc_try_write, Begin
<1>2. SetTx("VALID") \in Accesses' /\ SetTx("VALID").op = "set_tx_status"
  BY <1>1, TxAccess DEF Status, fixed
<1>3. \A op : Has(todo', op) <=> op = "set_tx_status"
  BY <1>1, <1>2, HasOne
<1>4. Tail(todo') = <<>> /\ todo' \in Seq(Accesses')
  BY <1>1, <1>2
<1>5. Begun
  BY <1>1, <1>3, <1>4, HasNone DEF Begun, Operations, RegTypes
<1>6. RegTypes' /\ TodoInv' /\ IdentityInv' /\ FlagInv' /\ HearInv' /\ value' = <<>>
  BY <1>5, BeginInv
<1>7. ~ Has(todo, "set_tx_status") /\ operation # "none"
  BY <1>1, HasNone DEF TodoInv
<1>8. AssignInv'
  BY <1>1, <1>3, <1>6, <1>7 DEF AssignInv, Apart, Meets, fixed
<1>. QED BY <1>6, <1>8

LEMMA HaltStep == ASSUME NEW h \in BOOLEAN PROVE IInv /\ endpoint_set_halt(h) => IInv'
<1>. SUFFICES ASSUME IInv, endpoint_set_halt(h) PROVE IInv'
  OBVIOUS
<1>. USE DEF IInv
<1>1. /\ todo = <<>> /\ operation' = "halt" /\ isr' = TRUE
      /\ UNCHANGED <<fixed, reg, value, reset, configured, busy>>
      /\ configured /\ endpoint \in {1, 2, 3}
  BY DEF endpoint_set_halt, Begin, RegTypes
<1>2. \/ Sends /\ todo' = <<SetTx("STALL")>>
      \/ Sends /\ todo' = <<ClearTxToggle, SetTx("NAK")>>
      \/ endpoint = 2 /\ todo' = <<SetRx("STALL")>>
      \/ endpoint = 2 /\ todo' = <<ClearRxToggle, SetRx("VALID")>>
  BY <1>1 DEF endpoint_set_halt, Begin, OutStatus
<1>3. Sends => \A s \in {"STALL", "NAK"} :
        SetTx(s) \in Accesses' /\ SetTx(s).op = "set_tx_status"
  BY <1>1, TxAccess DEF Status, fixed
<1>4. endpoint = 2 => \A s \in {"STALL", "VALID"} :
        SetRx(s) \in Accesses' /\ SetRx(s).op = "set_rx_status"
  BY <1>1, RxAccess DEF Status, fixed
<1>5. /\ todo' \in Seq(Accesses') /\ todo' # <<>>
      /\ \A op : Has(todo', op) =>
           op \in {"clear_tx_toggle", "clear_rx_toggle", "set_tx_status", "set_rx_status"}
      /\ Sends => Has(todo', "set_tx_status")
      /\ endpoint = 2 => Has(todo', "set_rx_status")
      /\ ~ Has(Tail(todo'), "clear_rx_interrupt")
  <2>1. CASE Sends /\ todo' = <<SetTx("STALL")>>
    BY <2>1, <1>3, HasOne, HasNone
  <2>2. CASE Sends /\ todo' = <<ClearTxToggle, SetTx("NAK")>>
    BY <2>2, <1>3, HasTwo, HasOne, OtherAccess
  <2>3. CASE endpoint = 2 /\ todo' = <<SetRx("STALL")>>
    BY <2>3, <1>4, HasOne, HasNone
  <2>4. CASE endpoint = 2 /\ todo' = <<ClearRxToggle, SetRx("VALID")>>
    BY <2>4, <1>4, HasTwo, HasOne, OtherAccess
  <2>. QED BY <1>2, <2>1, <2>2, <2>3, <2>4
<1>6. Begun
  BY <1>1, <1>5 DEF Begun, Operations, RegTypes
<1>7. RegTypes' /\ TodoInv' /\ IdentityInv' /\ FlagInv' /\ HearInv' /\ value' = <<>>
  BY <1>6, BeginInv
<1>8. AssignInv'
  <2>1. \A op : ~ Has(todo, op)
    BY <1>1, HasNone
  <2>. QED BY <1>1, <1>5, <1>7, <2>1 DEF AssignInv, Apart, Meets, fixed
<1>. QED BY <1>7, <1>8

LEMMA ConfigureStep ==
  ASSUME NEW c \in BOOLEAN PROVE IInv /\ non_control_endpoints_set_configured(c) => IInv'
<1>. SUFFICES ASSUME IInv, non_control_endpoints_set_configured(c) PROVE IInv'
  OBVIOUS
<1>. USE DEF IInv
<1>1. /\ todo = <<>> /\ operation' = "configure" /\ isr' = TRUE
      /\ UNCHANGED <<fixed, reg, value, reset>> /\ configured' = c /\ busy' = FALSE
      /\ endpoint \in {1, 2, 3}
  BY DEF non_control_endpoints_set_configured, Begin, RegTypes
<1>2. \/ endpoint = 2 /\ todo' = <<ClearRxToggle, SetRx(OutStatus(c))>>
      \/ Sends /\ todo' = <<ClearTxToggle, SetTx("NAK")>>
  BY <1>1 DEF non_control_endpoints_set_configured, Begin
<1>3. Sends => SetTx("NAK") \in Accesses' /\ SetTx("NAK").op = "set_tx_status"
  BY <1>1, TxAccess DEF Status, fixed
<1>4. endpoint = 2 =>
        SetRx(OutStatus(c)) \in Accesses' /\ SetRx(OutStatus(c)).op = "set_rx_status"
  BY <1>1, RxAccess, OutStatusIs DEF Listens, fixed
<1>5. /\ todo' \in Seq(Accesses') /\ todo' # <<>>
      /\ \A op : Has(todo', op) =>
           op \in {"clear_tx_toggle", "clear_rx_toggle", "set_tx_status", "set_rx_status"}
      /\ Sends => Has(todo', "set_tx_status")
      /\ endpoint = 2 => Has(todo', "set_rx_status")
      /\ ~ Has(Tail(todo'), "clear_rx_interrupt")
  <2>1. CASE endpoint = 2 /\ todo' = <<ClearRxToggle, SetRx(OutStatus(c))>>
    BY <2>1, <1>4, HasTwo, HasOne, OtherAccess
  <2>2. CASE Sends /\ todo' = <<ClearTxToggle, SetTx("NAK")>>
    BY <2>2, <1>3, HasTwo, HasOne, OtherAccess
  <2>. QED BY <1>2, <2>1, <2>2
<1>6. Begun
  BY <1>1, <1>5 DEF Begun, Operations, RegTypes
<1>7. RegTypes' /\ TodoInv' /\ IdentityInv' /\ FlagInv' /\ HearInv' /\ value' = <<>>
  BY <1>6, BeginInv
<1>8. AssignInv'
  <2>1. \A op : ~ Has(todo, op)
    BY <1>1, HasNone
  <2>. QED BY <1>1, <1>5, <1>7, <2>1 DEF AssignInv, Apart, Meets, fixed
<1>. QED BY <1>7, <1>8

LEMMA ServeRxStep == IInv /\ ServeRx => IInv'
<1>. SUFFICES ASSUME IInv, ServeRx PROVE IInv'
  OBVIOUS
<1>. USE DEF IInv
<1>1. /\ todo = <<>> /\ operation' = "serve" /\ isr' = TRUE
      /\ UNCHANGED <<fixed, reg, value, reset, configured, busy>>
      /\ endpoint \in {0, 2}
  BY DEF ServeRx, Begin
<1>2. \/ /\ endpoint = 0
         /\ \E r \in RxReplies :
              \/ todo' = <<ClearRxFlag>> \o r
              \/ todo' = <<ClearRxFlag>> \o (SetupAccesses \o r)
      \/ endpoint = 2 /\ todo' = <<ClearRxFlag, SetRx(OutStatus(configured))>>
  BY DEF ServeRx, Begin
<1>3. /\ todo' \in Seq(Accesses') /\ todo' # <<>>
      /\ ~ Has(todo', "set_type") /\ ~ Has(todo', "set_address")
      /\ Has(todo', "set_rx_status")
      /\ ~ Has(Tail(todo'), "clear_rx_interrupt")
  <2>1. CASE /\ endpoint = 0
             /\ \E r \in RxReplies : \/ todo' = <<ClearRxFlag>> \o r
                                   \/ todo' = <<ClearRxFlag>> \o (SetupAccesses \o r)
    <3>1. PICK r \in RxReplies : \/ todo' = <<ClearRxFlag>> \o r
                                 \/ todo' = <<ClearRxFlag>> \o (SetupAccesses \o r)
      BY <2>1
    <3>2. \A s \in {"VALID", "NAK", "STALL"} :
            SetTx(s) \in Accesses' /\ SetTx(s).op = "set_tx_status"
      BY <1>1, <2>1, TxAccess DEF Status, fixed
    <3>3. \A s \in {"VALID", "STALL"} :
            SetRx(s) \in Accesses' /\ SetRx(s).op = "set_rx_status"
      BY <1>1, <2>1, RxAccess DEF Status, fixed
    <3>4. /\ r \in Seq(Accesses')
          /\ \A op : Has(r, op) <=> op \in {"set_tx_status", "set_rx_status"}
      <4>1. CASE r = <<SetRx("VALID"), SetTx("VALID")>>
        BY <4>1, <3>2, <3>3, HasTwo
      <4>2. CASE r = <<SetTx("NAK"), SetRx("VALID")>>
        BY <4>2, <3>2, <3>3, HasTwo
      <4>3. CASE r = <<SetTx("STALL"), SetRx("STALL")>>
        BY <4>3, <3>2, <3>3, HasTwo
      <4>. QED BY <4>1, <4>2, <4>3 DEF RxReplies
    <3>5. /\ SetupAccesses \in Seq(Accesses')
          /\ \A op : Has(SetupAccesses, op) <=> op \in {"set_tx_status", "set_rx_status"}
      BY <3>2, <3>3, HasTwo DEF SetupAccesses
    <3>6. PICK q \in Seq(Accesses') :
            /\ todo' = <<ClearRxFlag>> \o q
            /\ \A op : Has(q, op) <=> op \in {"set_tx_status", "set_rx_status"}
      <4>1. /\ SetupAccesses \o r \in Seq(Accesses')
            /\ \A op : Has(SetupAccesses \o r, op) <=>
                 op \in {"set_tx_status", "set_rx_status"}
        BY <3>4, <3>5, HasJoined
      <4>. HIDE DEF SetupAccesses
      <4>. QED BY <3>1, <3>4, <4>1
    <3>7. /\ todo' \in Seq(Accesses') /\ todo' # <<>> /\ Tail(todo') = q
          /\ \A op : Has(todo', op) <=> op = "clear_rx_interrupt" \/ Has(q, op)
      BY <3>6, OtherAccess, Prefixed, HasPrefixed
    <3>8. /\ ~ Has(q, "set_type") /\ ~ Has(q, "set_address")
          /\ ~ Has(q, "clear_rx_interrupt") /\ Has(q, "set_rx_status")
      BY <3>6
    <3>9. /\ ~ Has(todo', "set_type") /\ ~ Has(todo', "set_address") /\ Has(todo', "set_rx_status")
      BY <3>7, <3>8
    <3>. QED BY <3>7, <3>8, <3>9
  <2>2. CASE endpoint = 2 /\ todo' = <<ClearRxFlag, SetRx(OutStatus(configured))>>
    <3>1. /\ SetRx(OutStatus(configured)) \in Accesses'
          /\ SetRx(OutStatus(configured)).op = "set_rx_status"
      BY <1>1, <2>2, RxAccess, OutStatusIs DEF Listens, RegTypes, fixed
    <3>. QED BY <2>2, <3>1, HasTwo, HasOne, OtherAccess
  <2>. QED BY <1>2, <2>1, <2>2
<1>4. Begun
  BY <1>1, <1>3 DEF Begun, Operations, RegTypes
<1>5. RegTypes' /\ TodoInv' /\ IdentityInv' /\ FlagInv' /\ HearInv' /\ value' = <<>>
  BY <1>4, BeginInv
<1>6. AssignInv'
  <2>1. \A op : ~ Has(todo, op)
    BY <1>1, HasNone
  <2>. QED BY <1>1, <1>3, <1>5, <2>1 DEF AssignInv, Apart, Meets, fixed
<1>. QED BY <1>5, <1>6

LEMMA ServeTxStep == IInv /\ ServeTx => IInv'
<1>. SUFFICES ASSUME IInv, ServeTx PROVE IInv'
  OBVIOUS
<1>. USE DEF IInv
<1>1. /\ todo = <<>> /\ operation' = "serve" /\ isr' = TRUE
      /\ UNCHANGED <<fixed, reg, value, reset, configured>> /\ busy' \in BOOLEAN
      /\ endpoint \in {0, 1, 3} /\ "CTR_TX" \in reg
  BY DEF ServeTx, Begin, RegTypes
<1>2. \/ endpoint = 0 /\ \E r \in TxReplies : todo' = <<ClearTxFlag>> \o r
      \/ Sends /\ todo' = <<ClearTxFlag, SetTx("NAK")>>
  BY DEF ServeTx, Begin
<1>3. /\ todo' \in Seq(Accesses') /\ todo' # <<>>
      /\ ~ Has(todo', "set_type") /\ ~ Has(todo', "set_address")
      /\ ~ Has(todo', "clear_rx_interrupt")
      /\ ~ Has(Tail(todo'), "clear_rx_interrupt")
  <2>1. CASE endpoint = 0 /\ \E r \in TxReplies : todo' = <<ClearTxFlag>> \o r
    <3>1. PICK r \in TxReplies : todo' = <<ClearTxFlag>> \o r
      BY <2>1
    <3>2. \A s \in {"VALID", "NAK"} :
            SetTx(s) \in Accesses' /\ SetTx(s).op = "set_tx_status"
      BY <1>1, <2>1, TxAccess DEF Status, fixed
    <3>3. SetRx("VALID") \in Accesses' /\ SetRx("VALID").op = "set_rx_status"
      BY <1>1, <2>1, RxAccess DEF Status, fixed
    <3>4. /\ r \in Seq(Accesses')
          /\ \A op : Has(r, op) => op \in {"set_tx_status", "set_rx_status"}
      <4>1. CASE r = <<SetTx("VALID")>>
        BY <4>1, <3>2, HasOne
      <4>2. CASE r = <<SetTx("NAK"), SetRx("VALID")>>
        BY <4>2, <3>2, <3>3, HasTwo
      <4>3. CASE r = <<>>
        BY <4>3, HasNone
      <4>. QED BY <4>1, <4>2, <4>3 DEF TxReplies
    <3>5. /\ todo' \in Seq(Accesses') /\ todo' # <<>> /\ Tail(todo') = r
          /\ \A op : Has(todo', op) <=> op = "clear_tx_interrupt" \/ Has(r, op)
      BY <3>1, <3>4, OtherAccess, Prefixed, HasPrefixed
    <3>6. /\ ~ Has(r, "set_type") /\ ~ Has(r, "set_address")
          /\ ~ Has(r, "clear_rx_interrupt")
      BY <3>4
    <3>7. /\ ~ Has(todo', "set_type") /\ ~ Has(todo', "set_address")
          /\ ~ Has(todo', "clear_rx_interrupt")
      BY <3>5, <3>6
    <3>. QED BY <3>5, <3>6, <3>7
  <2>2. CASE Sends /\ todo' = <<ClearTxFlag, SetTx("NAK")>>
    <3>1. SetTx("NAK") \in Accesses' /\ SetTx("NAK").op = "set_tx_status"
      BY <1>1, <2>2, TxAccess DEF Status, fixed
    <3>. QED BY <2>2, <3>1, HasTwo, HasOne, OtherAccess
  <2>. QED BY <1>2, <2>1, <2>2
<1>4. Begun
  BY <1>1, <1>3 DEF Begun, Operations, RegTypes
<1>5. RegTypes' /\ TodoInv' /\ IdentityInv' /\ FlagInv' /\ HearInv' /\ value' = <<>>
  BY <1>4, BeginInv
<1>6. AssignInv'
  <2>1. \A op : ~ Has(todo, op)
    BY <1>1, HasNone
  <2>2. Apart => ~ (Sends /\ TxStat \subseteq reg)
    BY <1>1, <2>1 DEF AssignInv
  <2>. QED BY <1>1, <1>3, <1>5, <2>2 DEF AssignInv, Apart, Meets, fixed
<1>. QED BY <1>5, <1>6

LEMMA BusResetStep == IInv /\ usb_bus_reset => IInv'
<1>. SUFFICES ASSUME IInv, usb_bus_reset PROVE IInv'
  OBVIOUS
<1>. USE DEF IInv
<1>. DEFINE T == Access("set_type", TypeOf(endpoint))
            A == Access("set_address", AddressOf(endpoint))
            front == <<T, A, ClearTxToggle, ClearRxToggle>>
            back == CASE endpoint = 0 -> <<SetTx("NAK"), SetRx("VALID")>>
                      [] endpoint = 2 -> <<SetTx("DISABLED"), SetRx("NAK")>>
                      [] Sends -> <<SetTx("NAK"), SetRx("DISABLED")>>
<1>1. /\ todo = <<>> /\ operation' = "reset" /\ isr' = TRUE
      /\ UNCHANGED <<fixed, reg, value>>
      /\ reset' = FALSE /\ configured' = FALSE /\ busy' = FALSE
      /\ endpoint \in {0, 1, 2, 3}
  BY DEF usb_bus_reset, Begin, RegTypes
<1>2. todo' = front \o back
  BY DEF usb_bus_reset, Begin
<1>3. T \in Accesses' /\ A \in Accesses' /\ T.op = "set_type" /\ A.op = "set_address"
  <2>1. TypeOf(endpoint) \subseteq Bits /\ AddressOf(endpoint) \subseteq Bits
    BY <1>1 DEF TypeOf, AddressOf, AddressBits, Bits, StoredBits, TypeBits
  <2>. QED BY <1>1, <2>1 DEF Access, Accesses, Ops, fixed
<1>4. \A s \in {"NAK", "DISABLED"} :
        SetTx(s) \in Accesses' /\ SetTx(s).op = "set_tx_status"
  BY <1>1, TxAccess DEF Status
<1>5. /\ endpoint = 0 => SetRx("VALID") \in Accesses' /\ SetRx("VALID").op = "set_rx_status"
      /\ endpoint = 2 => SetRx("NAK") \in Accesses' /\ SetRx("NAK").op = "set_rx_status"
      /\ Sends =>
           SetRx("DISABLED") \in Accesses' /\ SetRx("DISABLED").op = "set_rx_status"
  BY <1>1, RxAccess DEF Status, Listens, fixed
<1>6. /\ back \in Seq(Accesses')
      /\ \A op : Has(back, op) <=> op \in {"set_tx_status", "set_rx_status"}
  <2>1. CASE endpoint = 0
    BY <2>1, <1>4, <1>5, HasTwo
  <2>2. CASE endpoint = 2
    BY <2>2, <1>4, <1>5, HasTwo
  <2>3. CASE Sends
    BY <2>3, <1>4, <1>5, HasTwo
  <2>. QED BY <1>1, <2>1, <2>2, <2>3
<1>7. /\ front \in Seq(Accesses') /\ front # <<>>
      /\ \A op : Has(front, op) <=>
           op \in {"set_type", "set_address", "clear_tx_toggle", "clear_rx_toggle"}
  <2>. HIDE DEF T, A
  <2>1. front \in Seq(Accesses') /\ front # <<>>
    BY <1>3, OtherAccess
  <2>2. \A op : Has(front, op) <=>
           op \in {"set_type", "set_address", "clear_tx_toggle", "clear_rx_toggle"}
    BY <1>3, OtherAccess DEF Has
  <2>. QED BY <2>1, <2>2
<1>. HIDE DEF T, A, front, back
<1>8. /\ todo' \in Seq(Accesses') /\ todo' # <<>>
      /\ \A op : Has(todo', op) <=> Has(front, op) \/ Has(back, op)
  BY <1>2, <1>6, <1>7, HasJoined
<1>9. ~ Has(Tail(todo'), "clear_rx_interrupt")
  BY <1>6, <1>7, <1>8, HasTail
<1>10. Begun
  BY <1>1, <1>6, <1>7, <1>8, <1>9 DEF Begun, Operations, RegTypes
<1>11. RegTypes' /\ TodoInv' /\ IdentityInv' /\ FlagInv' /\ HearInv' /\ value' = <<>>
  BY <1>10, BeginInv
<1>12. AssignInv'
  BY <1>1, <1>6, <1>8, <1>11 DEF AssignInv, Apart, Meets, fixed
<1>. QED BY <1>11, <1>12

LEMMA LeaveStep == IInv /\ LeaveHandler => IInv'
<1>. SUFFICES ASSUME IInv, LeaveHandler PROVE IInv'
  OBVIOUS
<1>. USE DEF IInv
<1>1. /\ todo = <<>> /\ isr' = FALSE /\ "CTR_TX" \notin reg
      /\ UNCHANGED <<fixed, reg, reset, todo, value, operation, configured, busy>>
  BY DEF LeaveHandler, CtrBits
<1>2. Accesses' = Accesses /\ Written' = Written
  BY <1>1 DEF Accesses, Listens, Written, fixed
<1>3. RegTypes' /\ TodoInv'
  BY <1>1, <1>2 DEF RegTypes, TodoInv, fixed
<1>4. IdentityInv' /\ FlagInv' /\ HearInv'
  BY <1>1, <1>2 DEF IdentityInv, FlagInv, HearInv, Listens, fixed
<1>5. AssignInv'
  BY <1>1, <1>2 DEF AssignInv, Apart, Meets, fixed
<1>. QED BY <1>3, <1>4, <1>5

LEMMA StepInv == IInv /\ [Next]_vars => IInv'
<1>. SUFFICES ASSUME IInv, [Next]_vars PROVE IInv'
  OBVIOUS
<1>1. CASE Driver
  BY <1>1, BusResetStep, ServeRxStep, ServeTxStep, ConfigureStep, HaltStep, LeaveStep,
     TryWriteStep, ReadStep, WriteStep DEF Driver
<1>2. CASE HwOut \/ HwIn \/ HwSetup \/ HwReset
  BY <1>2, HwOutStep, HwInStep, HwSetupStep, HwResetStep
<1>3. CASE UNCHANGED vars
  <2>. USE <1>3 DEF IInv, vars, fixed
  <2>1. Accesses' = Accesses /\ Written' = Written
    BY DEF Accesses, Listens, Written
  <2>2. RegTypes' /\ TodoInv'
    BY <2>1 DEF RegTypes, TodoInv
  <2>3. IdentityInv' /\ FlagInv' /\ HearInv'
    BY <2>1 DEF IdentityInv, FlagInv, HearInv, Listens
  <2>4. AssignInv'
    BY <2>1 DEF AssignInv, Apart, Meets
  <2>. QED BY <2>2, <2>3, <2>4
<1>. QED BY <1>1, <1>2, <1>3 DEF Next

-----------------------------------------------------------------------------
(* The register in every reachable state, and what the accessors promise.  *)

(* The parts of IInv hold of each endpoint register throughout, whatever    *)
(* falls between the reading and the writing of an accessor.                *)
THEOREM RegisterInvariant == Spec => []IInv
BY InitInv, StepInv, PTL DEF Spec

(* Each endpoint has its type and address whenever no access is left to     *)
(* make: no accessor loses them, and usb_bus_reset makes good what a reset  *)
(* in the middle of one has left.                                           *)
THEOREM IdentityKept == Spec => []IdentityRestored
<1>1. IInv => IdentityRestored
  <2>. SUFFICES ASSUME IInv, Idle
                PROVE  reg \cap StoredBits = TypeOf(endpoint) \cup AddressOf(endpoint)
    BY DEF IdentityRestored
  <2>1. \A op : ~ Has(todo, op)
    BY HasNone DEF Idle
  <2>2. /\ "KIND" \notin reg /\ reg \cap TypeBits = TypeOf(endpoint)
        /\ reg \cap AddressBits = AddressOf(endpoint)
    BY <2>1 DEF IInv, IdentityInv, Idle
  <2>. QED BY <2>2 DEF StoredBits
<1>. QED BY <1>1, RegisterInvariant, PTL

(* Endpoint 0, and the OUT endpoint when configured, take or refuse the     *)
(* next packet or have one for handle_correct_transfer to serve, for hosts  *)
(* that send in the middle of any access.                                   *)
THEOREM Hears == Spec => []NeverDeaf
<1>1. IInv => NeverDeaf
  <2>. SUFFICES ASSUME IInv, Idle, Listens
                PROVE  \/ "CTR_RX" \in reg
                       \/ reg \cap RxStat \in {RxStatus("VALID"), RxStatus("STALL")}
    BY DEF NeverDeaf, Listens
  <2>1. ~ Has(todo, "set_rx_status")
    BY HasNone DEF Idle
  <2>2. "CTR_RX" \in reg \/ "STAT_RX0" \in reg
    BY <2>1 DEF IInv, HearInv, Idle
  <2>. QED BY <2>2 DEF RxStat, RxStatus
<1>. QED BY <1>1, RegisterInvariant, PTL

(* No read-modify-write of the driver loses a CTR flag that the peripheral  *)
(* sets between its read and its write.                                     *)
THEOREM FlagsKept == Spec => FlagsSurvive
<1>. DEFINE Kept == \A f \in CtrBits : f \in reg /\ f \notin reg' =>
                      /\ value # <<>> /\ f \in Clears(Head(todo).op)
<1>1. IInv /\ [Next]_vars => [Kept]_vars
  <2>. SUFFICES ASSUME IInv, Next, NEW f \in CtrBits, f \in reg, f \notin reg'
                PROVE  value # <<>> /\ f \in Clears(Head(todo).op)
    BY DEF Kept
  <2>1. Write \/ UNCHANGED reg \/ HwOut \/ HwIn \/ HwSetup \/ HwReset
    BY DEF Next, Driver, usb_bus_reset, ServeRx, ServeTx, non_control_endpoints_set_configured,
       endpoint_set_halt, LeaveHandler, usb_cdc_try_write, Read, Begin
  <2>2. CASE Write
    <3>1. value # <<>> /\ reg' = endpoint_write(reg, Written)
      BY <2>2 DEF Write, Written
    <3>2. f \in Written => f \in reg'
      BY <3>1 DEF endpoint_write
    <3>. QED BY <3>1, <3>2 DEF IInv, FlagInv
  <2>3. CASE HwOut \/ HwIn \/ HwSetup \/ HwReset
    BY <2>3 DEF HwOut, HwIn, HwSetup, HwReset, Completes, CtrBits, ToggleBits, TxStat, RxStat
  <2>. QED BY <2>1, <2>2, <2>3
<1>2. Spec => [][Kept]_vars
  BY <1>1, RegisterInvariant, PTL DEF Spec
<1>. QED BY <1>2 DEF FlagsSurvive

(* endpoint_set_tx_status and endpoint_set_rx_status assign the status, as  *)
(* UsbCdc has it, for a host that leaves a data endpoint alone while it     *)
(* configures or halts it.                                                  *)
THEOREM StatusAssigned == Spec => StatusIsAssigned
<1>. DEFINE Assigned ==
       quiet_host /\ endpoint # 0 =>
         /\ AsAssigned("set_tx_status", TxStat, TxStatus("NAK"), "CTR_TX")
         /\ AsAssigned("set_rx_status", RxStat, RxStatus("NAK"), "CTR_RX")
<1>1. IInv /\ [Next]_vars => [Assigned]_vars
  <2>. SUFFICES ASSUME IInv, Next, quiet_host, endpoint # 0, value # <<>>, value' = <<>>, ~ reset
                PROVE  Assigned
    BY DEF AsAssigned
  <2>1. Write
    BY DEF Next, Driver, usb_bus_reset, ServeRx, ServeTx, non_control_endpoints_set_configured,
       endpoint_set_halt, LeaveHandler, usb_cdc_try_write, Read, Begin, HwOut, HwIn, HwSetup,
       HwReset
  <2>2. reg' = endpoint_write(reg, Written)
    BY <2>1 DEF Write, Written
  <2>3. reg \in SUBSET Bits /\ Written \in SUBSET Bits
    BY DEF IInv, RegTypes, Written
  <2>4. /\ reg' \cap TxStat = Xor(reg \cap TxStat, Written \cap TxStat)
        /\ reg' \cap RxStat = Xor(reg \cap RxStat, Written \cap RxStat)
        /\ reg' \cap CtrBits = reg \cap Written \cap CtrBits
    <3>1. Becomes(reg, Written, reg')
      BY <2>2, <2>3, WriteBits
    <3>. QED BY <3>1 DEF Becomes
  <2>5. CtrBits \ Clears(Head(todo).op) \subseteq Written
    BY DEF IInv, FlagInv
  <2>6. /\ Meets("set_tx_status", TxStat, TxStatus("NAK"), "CTR_TX")
        /\ Meets("set_rx_status", RxStat, RxStatus("NAK"), "CTR_RX")
    BY DEF IInv, AssignInv, Apart
  <2>7. AsAssigned("set_tx_status", TxStat, TxStatus("NAK"), "CTR_TX")
    <3>1. Head(todo).op = "set_tx_status" /\ "CTR_TX" \in reg => "CTR_TX" \in reg'
      BY <2>4, <2>5 DEF Clears, CtrBits
    <3>. QED BY <2>4, <2>6, <3>1 DEF AsAssigned, Meets
  <2>8. AsAssigned("set_rx_status", RxStat, RxStatus("NAK"), "CTR_RX")
    <3>1. Head(todo).op = "set_rx_status" /\ "CTR_RX" \in reg => "CTR_RX" \in reg'
      BY <2>4, <2>5 DEF Clears, CtrBits
    <3>. QED BY <2>4, <2>6, <3>1 DEF AsAssigned, Meets
  <2>. QED BY <2>7, <2>8
<1>2. Spec => [][Assigned]_vars
  BY <1>1, RegisterInvariant, PTL DEF Spec
<1>. QED BY <1>2 DEF StatusIsAssigned

-----------------------------------------------------------------------------
(* The packet memory.                                                      *)

(* A receive count field: two blocks of 32 bytes, and the bytes received.  *)
Field == 33792 .. 33792 + MAX_PACKET_SIZE

Fits(length) == IF length <= MAX_PACKET_SIZE THEN length ELSE MAX_PACKET_SIZE

(* The first n bytes of a packet of an endpoint are in memory at start.    *)
Holds(memory, start, e, length, n) ==
  \A i \in 1 .. n : memory[start + i - 1] = <<e, length, i>>

TypeInv ==
  /\ DOMAIN mem = 0 .. USB_PMA_SIZE - 1
  /\ rx_count \in [{0, 2} -> Field]
  /\ tx_count \in [{0, 3} -> 0 .. MAX_PACKET_SIZE]
  /\ offered \in [{0, 3} -> 0 .. MAX_PACKET_SIZE]
  /\ received \in [{0, 2} -> Nat]

OfferedInv ==
  \A e \in {0, 3} : offered[e] # 0 =>
    /\ tx_count[e] = offered[e]
    /\ Holds(mem, TxBuffer[e], e, offered[e], offered[e])

ReceivedInv ==
  \A e \in {0, 2} : received[e] # 0 =>
    /\ rx_count[e] = 33792 + Fits(received[e])
    /\ Holds(mem, RxBuffer[e], e, received[e], Fits(received[e]))

MemoryInv == TypeInv /\ OfferedInv /\ ReceivedInv

-----------------------------------------------------------------------------
(* The count fields.                                                       *)

LEMMA FullField == encoded_count(MAX_PACKET_SIZE) = 33792
BY DEF encoded_count, Blocks, MAX_PACKET_SIZE

LEMMA FieldAllocates ==
  ASSUME NEW field \in Field
  PROVE  /\ Allocated(field) = MAX_PACKET_SIZE
         /\ 1024 * (field \div 1024) = 33792
         /\ field % 1024 = field - 33792
<1>1. field \div 1024 = 33
  BY DEF Field, MAX_PACKET_SIZE
<1>2. field % 1024 = field - 33792
  BY DEF Field, MAX_PACKET_SIZE
<1>3. 33 % 32 = 1
  OBVIOUS
<1>. QED BY <1>1, <1>2, <1>3 DEF Allocated, Field, MAX_PACKET_SIZE

LEMMA EvenFits ==
  ASSUME NEW length \in 1 .. MAX_PACKET_SIZE
  PROVE  Even(length) \in length .. MAX_PACKET_SIZE
BY DEF Even, MAX_PACKET_SIZE

LEMMA FitsInPacket ==
  ASSUME NEW length \in Nat
  PROVE  Fits(length) \in 0 .. MAX_PACKET_SIZE /\ Fits(length) <= length
BY DEF Fits, MAX_PACKET_SIZE

LEMMA ReceivedFits ==
  ASSUME TypeInv, NEW e \in {0, 2}
  PROVE  Fits(received[e]) \in 0 .. MAX_PACKET_SIZE
<1>1. received[e] \in Nat
  BY DEF TypeInv
<1>. QED BY <1>1, FitsInPacket

LEMMA Buffers ==
  /\ TxBuffer[0] = 128 /\ TxBuffer[3] = 272
  /\ RxBuffer[0] = 64 /\ RxBuffer[2] = 208
BY DEF TxBuffer, RxBuffer

-----------------------------------------------------------------------------
(* Writing into the buffer at start.                                       *)

WritesOnly(start) ==
  /\ DOMAIN mem' = DOMAIN mem
  /\ \A a \in DOMAIN mem \ (start .. start + MAX_PACKET_SIZE - 1) : mem'[a] = mem[a]

LEMMA SendWrites ==
  ASSUME MemoryInv, NEW e \in {0, 3}, NEW length \in 1 .. MAX_PACKET_SIZE,
         Send(e, length)
  PROVE  /\ WritesOnly(TxBuffer[e])
         /\ Holds(mem', TxBuffer[e], e, length, length)
<1>. DEFINE start == TxBuffer[e]
<1>1. start \in {128, 272}
  BY Buffers
<1>2. Even(length) \in length .. MAX_PACKET_SIZE
  BY EvenFits
<1>a. DOMAIN mem = 0 .. 511
  BY DEF MemoryInv, TypeInv, USB_PMA_SIZE
<1>3. /\ DOMAIN mem = 0 .. USB_PMA_SIZE - 1
      /\ mem' = [a \in DOMAIN mem |->
                   IF a \in start .. start + length - 1 THEN Data(e, length)[a - start + 1]
                   ELSE IF a \in start .. start + Even(length) - 1 THEN Zero
                   ELSE mem[a]]
  BY DEF MemoryInv, TypeInv, Send, pma_write
<1>. HIDE DEF start
<1>4. ASSUME NEW i \in 1 .. length
      PROVE  mem'[start + i - 1] = <<e, length, i>>
  <2>1. start \in Nat /\ start <= 272
    BY <1>1
  <2>2. i \in Nat /\ 1 <= i /\ i <= length /\ length \in Nat /\ length <= 64
    BY DEF MAX_PACKET_SIZE
  <2>3. /\ start + i - 1 \in DOMAIN mem
        /\ start + i - 1 \in start .. start + length - 1
        /\ (start + i - 1) - start + 1 = i
    BY <1>a, <2>1, <2>2
  <2>4. mem'[start + i - 1] = Data(e, length)[i]
    BY <1>3, <2>3
  <2>. QED BY <2>4 DEF Data
<1>5. ASSUME NEW a \in DOMAIN mem \ (start .. start + MAX_PACKET_SIZE - 1)
      PROVE  mem'[a] = mem[a]
  <2>1. a \in Nat /\ (a < start \/ a > start + 63)
    BY <1>1, <1>a DEF MAX_PACKET_SIZE
  <2>2. length <= 64 /\ Even(length) <= 64 /\ length \in Nat /\ Even(length) \in Nat
    <3>1. length \in 1 .. 64
      BY DEF MAX_PACKET_SIZE
    <3>2. Even(length) \in length .. 64
      BY <1>2 DEF MAX_PACKET_SIZE
    <3>. HIDE DEF Even
    <3>. QED BY <3>1, <3>2
  <2>3. a \notin start .. start + length - 1
    BY <1>1, <2>1, <2>2
  <2>4. a \notin start .. start + Even(length) - 1
    BY <1>1, <2>1, <2>2
  <2>. QED BY <1>3, <2>3, <2>4
<1>. QED BY <1>3, <1>4, <1>5 DEF WritesOnly, Holds, start

LEMMA ReceiveWrites ==
  ASSUME MemoryInv, NEW e \in {0, 2}, NEW length \in Nat \ {0},
         HwReceive(e, length)
  PROVE  /\ WritesOnly(RxBuffer[e])
         /\ Holds(mem', RxBuffer[e], e, length, Fits(length))
         /\ rx_count' = [rx_count EXCEPT ![e] = 33792 + Fits(length)]
<1>. DEFINE start == RxBuffer[e]
            n == Fits(length)
<1>1. start \in {64, 208}
  BY Buffers
<1>a. DOMAIN mem = 0 .. 511
  BY DEF MemoryInv, TypeInv, USB_PMA_SIZE
<1>2. n \in 1 .. MAX_PACKET_SIZE /\ n <= length
  BY DEF Fits, MAX_PACKET_SIZE
<1>3. rx_count[e] \in Field /\ rx_count \in [{0, 2} -> Field]
  BY DEF MemoryInv, TypeInv
<1>4. Allocated(rx_count[e]) = MAX_PACKET_SIZE /\ 1024 * (rx_count[e] \div 1024) = 33792
  BY <1>3, FieldAllocates
<1>. DEFINE room == Allocated(rx_count[e])
            stored == IF length <= room THEN length ELSE room
            base == 1024 * (rx_count[e] \div 1024)
<1>b. stored = n
  BY <1>4 DEF Fits
<1>c. /\ mem' = [a \in DOMAIN mem |->
                   IF a \in start .. start + stored - 1
                   THEN Data(e, length)[a - start + 1] ELSE mem[a]]
      /\ rx_count' = [rx_count EXCEPT ![e] = base + stored]
  BY DEF HwReceive
<1>d. base = 33792
  BY <1>4
<1>. HIDE DEF room, stored, n, start, base
<1>5. /\ DOMAIN mem' = DOMAIN mem
      /\ \A a \in DOMAIN mem :
           mem'[a] = IF a \in start .. start + n - 1
                     THEN Data(e, length)[a - start + 1] ELSE mem[a]
  BY <1>b, <1>c
<1>e. rx_count' = [rx_count EXCEPT ![e] = 33792 + n]
  BY <1>b, <1>c, <1>d
<1>6. ASSUME NEW i \in 1 .. n
      PROVE  mem'[start + i - 1] = <<e, length, i>>
  <2>1. /\ start + i - 1 \in DOMAIN mem
        /\ start + i - 1 \in start .. start + n - 1
        /\ (start + i - 1) - start + 1 = i /\ i \in 1 .. length
    BY <1>1, <1>2, <1>a DEF MAX_PACKET_SIZE
  <2>2. mem'[start + i - 1] = Data(e, length)[i]
    BY <1>5, <2>1
  <2>. QED BY <2>1, <2>2 DEF Data
<1>7. ASSUME NEW a \in DOMAIN mem \ (start .. start + MAX_PACKET_SIZE - 1)
      PROVE  mem'[a] = mem[a]
  <2>1. a \in Nat /\ (a < start \/ a > start + 63)
    BY <1>1, <1>a DEF MAX_PACKET_SIZE
  <2>2. n <= 64 /\ n \in Nat
    BY <1>2 DEF MAX_PACKET_SIZE
  <2>3. a \notin start .. start + n - 1
    BY <1>1, <2>1, <2>2
  <2>. QED BY <1>5, <2>3
<1>. QED BY <1>5, <1>6, <1>7, <1>e DEF WritesOnly, Holds, start, n

(* What another buffer holds stays in it.                                  *)
LEMMA OthersKeep ==
  ASSUME DOMAIN mem = 0 .. USB_PMA_SIZE - 1,
         NEW start \in {64, 128, 208, 272}, NEW other \in {64, 128, 208, 272},
         start # other, WritesOnly(start),
         NEW e, NEW length, NEW n \in 0 .. MAX_PACKET_SIZE,
         Holds(mem, other, e, length, n)
  PROVE  Holds(mem', other, e, length, n)
<1>1. ASSUME NEW i \in 1 .. n
      PROVE  mem'[other + i - 1] = mem[other + i - 1]
  <2>1. i \in Nat /\ 1 <= i /\ i <= 64
    BY DEF MAX_PACKET_SIZE
  <2>2. other + i - 1 \in 0 .. 511 /\ other + i - 1 \notin start .. start + 63
    BY <2>1
  <2>3. other + i - 1 \in DOMAIN mem \ (start .. start + MAX_PACKET_SIZE - 1)
    BY <2>2 DEF MAX_PACKET_SIZE, USB_PMA_SIZE
  <2>. QED BY <2>3 DEF WritesOnly
<1>. QED BY <1>1 DEF Holds

-----------------------------------------------------------------------------

LEMMA MemoryStart == MemoryInit => MemoryInv
BY FullField DEF MemoryInit, MemoryInv, TypeInv, OfferedInv, ReceivedInv, Field, MAX_PACKET_SIZE

LEMMA SendStep ==
  ASSUME MemoryInv, NEW e \in {0, 3}, NEW length \in 1 .. MAX_PACKET_SIZE,
         Send(e, length)
  PROVE  MemoryInv'
<1>. USE Buffers
<1>1. /\ WritesOnly(TxBuffer[e])
      /\ Holds(mem', TxBuffer[e], e, length, length)
  BY SendWrites
<1>2. /\ DOMAIN mem = 0 .. USB_PMA_SIZE - 1
      /\ tx_count' = [tx_count EXCEPT ![e] = length]
      /\ offered' = [offered EXCEPT ![e] = length]
      /\ UNCHANGED <<rx_count, received>>
  BY DEF MemoryInv, TypeInv, Send
<1>3. TypeInv'
  BY <1>1, <1>2 DEF MemoryInv, TypeInv, WritesOnly
<1>4. ASSUME NEW f \in {0, 3}, offered'[f] # 0
      PROVE  /\ tx_count'[f] = offered'[f]
             /\ Holds(mem', TxBuffer[f], f, offered'[f], offered'[f])
  <2>1. CASE f = e
    BY <1>1, <1>2, <2>1 DEF MemoryInv, TypeInv
  <2>2. CASE f # e
    <3>1. /\ offered'[f] = offered[f] /\ tx_count'[f] = tx_count[f]
          /\ offered[f] \in 0 .. MAX_PACKET_SIZE
      BY <1>2, <2>2 DEF MemoryInv, TypeInv
    <3>2. tx_count[f] = offered[f] /\ Holds(mem, TxBuffer[f], f, offered[f], offered[f])
      BY <1>4, <3>1 DEF MemoryInv, OfferedInv
    <3>3. TxBuffer[e] \in {128, 272} /\ TxBuffer[f] \in {128, 272} /\ TxBuffer[e] # TxBuffer[f]
      BY <2>2
    <3>. QED BY <1>1, <1>2, <3>1, <3>2, <3>3, OthersKeep
  <2>. QED BY <2>1, <2>2
<1>5. ASSUME NEW f \in {0, 2}, received'[f] # 0
      PROVE  /\ rx_count'[f] = 33792 + Fits(received'[f])
             /\ Holds(mem', RxBuffer[f], f, received'[f], Fits(received'[f]))
  <2>1. /\ rx_count[f] = 33792 + Fits(received[f])
        /\ Holds(mem, RxBuffer[f], f, received[f], Fits(received[f]))
    BY <1>2, <1>5 DEF MemoryInv, ReceivedInv
  <2>2. Fits(received[f]) \in 0 .. MAX_PACKET_SIZE
    BY ReceivedFits DEF MemoryInv
  <2>3. TxBuffer[e] \in {128, 272} /\ RxBuffer[f] \in {64, 208}
    OBVIOUS
  <2>. QED BY <1>1, <1>2, <2>1, <2>2, <2>3, OthersKeep
<1>. QED BY <1>3, <1>4, <1>5 DEF MemoryInv, OfferedInv, ReceivedInv

LEMMA ReceiveStep ==
  ASSUME MemoryInv, NEW e \in {0, 2}, NEW length \in Nat \ {0}, HwReceive(e, length)
  PROVE  MemoryInv'
<1>. USE Buffers
<1>1. /\ WritesOnly(RxBuffer[e])
      /\ Holds(mem', RxBuffer[e], e, length, Fits(length))
      /\ rx_count' = [rx_count EXCEPT ![e] = 33792 + Fits(length)]
  BY ReceiveWrites
<1>2. /\ DOMAIN mem = 0 .. USB_PMA_SIZE - 1
      /\ received' = [received EXCEPT ![e] = length]
      /\ UNCHANGED <<tx_count, offered>>
  BY DEF MemoryInv, TypeInv, HwReceive
<1>3. 33792 + Fits(length) \in Field
  BY DEF Fits, Field, MAX_PACKET_SIZE
<1>4. TypeInv'
  <2>1. DOMAIN mem' = 0 .. USB_PMA_SIZE - 1
    BY <1>1, <1>2 DEF WritesOnly
  <2>2. rx_count' \in [{0, 2} -> Field]
    BY <1>1, <1>3 DEF MemoryInv, TypeInv
  <2>3. received' \in [{0, 2} -> Nat]
    BY <1>2 DEF MemoryInv, TypeInv
  <2>. QED BY <1>2, <2>1, <2>2, <2>3 DEF MemoryInv, TypeInv
<1>5. ASSUME NEW f \in {0, 2}, received'[f] # 0
      PROVE  /\ rx_count'[f] = 33792 + Fits(received'[f])
             /\ Holds(mem', RxBuffer[f], f, received'[f], Fits(received'[f]))
  <2>1. CASE f = e
    BY <1>1, <1>2, <2>1 DEF MemoryInv, TypeInv
  <2>2. CASE f # e
    <3>1. received'[f] = received[f] /\ rx_count'[f] = rx_count[f]
      BY <1>1, <1>2, <2>2 DEF MemoryInv, TypeInv
    <3>2. /\ rx_count[f] = 33792 + Fits(received[f])
          /\ Holds(mem, RxBuffer[f], f, received[f], Fits(received[f]))
      BY <1>5, <3>1 DEF MemoryInv, ReceivedInv
    <3>3. Fits(received[f]) \in 0 .. MAX_PACKET_SIZE
      BY ReceivedFits DEF MemoryInv
    <3>4. RxBuffer[e] \in {64, 208} /\ RxBuffer[f] \in {64, 208} /\ RxBuffer[e] # RxBuffer[f]
      BY <2>2
    <3>. QED BY <1>1, <1>2, <3>1, <3>2, <3>3, <3>4, OthersKeep
  <2>. QED BY <2>1, <2>2
<1>6. ASSUME NEW f \in {0, 3}, offered'[f] # 0
      PROVE  /\ tx_count'[f] = offered'[f]
             /\ Holds(mem', TxBuffer[f], f, offered'[f], offered'[f])
  <2>1. tx_count[f] = offered[f] /\ Holds(mem, TxBuffer[f], f, offered[f], offered[f])
    BY <1>2, <1>6 DEF MemoryInv, OfferedInv
  <2>2. offered[f] \in 0 .. MAX_PACKET_SIZE
    BY DEF MemoryInv, TypeInv
  <2>3. TxBuffer[f] \in {128, 272} /\ RxBuffer[e] \in {64, 208}
    OBVIOUS
  <2>. QED BY <1>1, <1>2, <2>1, <2>2, <2>3, OthersKeep
<1>. QED BY <1>4, <1>5, <1>6 DEF MemoryInv, OfferedInv, ReceivedInv

LEMMA MemoryStep ==
  ASSUME MemoryInv, [MemoryNext]_memoryvars
  PROVE  MemoryInv'
<1>1. CASE usb_bus_reset_table
  BY <1>1, FullField
  DEF usb_bus_reset_table, LaidOut, MemoryInv, TypeInv, OfferedInv, ReceivedInv, Field,
      MAX_PACKET_SIZE
<1>2. ASSUME NEW n \in SendLengths, ep0_send_packet(n) \/ usb_cdc_try_write_packet(n)
      PROVE  MemoryInv'
  <2>1. n \in Nat \ {0}
    BY SendLengthsAssumption
  <2>2. CASE ep0_send_packet(n)
    BY <2>1, <2>2, SendStep DEF ep0_send_packet, MAX_PACKET_SIZE
  <2>3. CASE usb_cdc_try_write_packet(n)
    BY <2>1, <2>3, SendStep DEF usb_cdc_try_write_packet, MAX_PACKET_SIZE
  <2>. QED BY <1>2, <2>2, <2>3
<1>3. ASSUME NEW e \in {0, 2}, endpoint_set_rx_count(e, MAX_PACKET_SIZE)
      PROVE  MemoryInv'
  <2>1. /\ rx_count' = [rx_count EXCEPT ![e] = 33792]
        /\ received' = [received EXCEPT ![e] = 0]
        /\ UNCHANGED <<mem, tx_count, offered>>
    BY <1>3, FullField DEF endpoint_set_rx_count
  <2>2. TypeInv'
    <3>1. 33792 \in Field
      BY DEF Field, MAX_PACKET_SIZE
    <3>. QED BY <2>1, <3>1 DEF MemoryInv, TypeInv
  <2>4. OfferedInv'
    BY <2>1 DEF MemoryInv, OfferedInv
  <2>3. ASSUME NEW f \in {0, 2}, received'[f] # 0
        PROVE  UNCHANGED <<rx_count[f], received[f]>> /\ received[f] # 0
    BY <2>1, <2>3 DEF MemoryInv, TypeInv
  <2>. QED BY <2>1, <2>2, <2>3, <2>4 DEF MemoryInv, ReceivedInv
<1>4. ASSUME NEW e \in {0, 2}, NEW n \in HostLengths, HwReceive(e, n)
      PROVE  MemoryInv'
  BY <1>4, ReceiveStep, HostLengthsAssumption
<1>5. ASSUME NEW e \in {0, 3}, HwSent(e)
      PROVE  MemoryInv'
  <2>1. offered' = [offered EXCEPT ![e] = 0] /\ UNCHANGED <<mem, rx_count, tx_count, received>>
    BY <1>5 DEF HwSent
  <2>2. TypeInv'
    <3>1. 0 \in 0 .. MAX_PACKET_SIZE
      BY DEF MAX_PACKET_SIZE
    <3>. QED BY <2>1, <3>1 DEF MemoryInv, TypeInv
  <2>4. ReceivedInv'
    BY <2>1 DEF MemoryInv, ReceivedInv
  <2>3. ASSUME NEW f \in {0, 3}, offered'[f] # 0
        PROVE  offered'[f] = offered[f] /\ offered[f] # 0
    BY <2>1, <2>3 DEF MemoryInv, TypeInv
  <2>. QED BY <2>1, <2>2, <2>3, <2>4 DEF MemoryInv, OfferedInv
<1>6. CASE UNCHANGED memoryvars
  BY <1>6 DEF memoryvars, MemoryInv, TypeInv, OfferedInv, ReceivedInv
<1>. QED BY <1>1, <1>2, <1>3, <1>4, <1>5, <1>6 DEF MemoryNext

LEMMA MemoryInvariant == MemorySpec => []MemoryInv
<1>1. MemoryInv /\ [MemoryNext]_memoryvars => MemoryInv'
  BY MemoryStep
<1>. QED BY <1>1, MemoryStart, PTL DEF MemorySpec

(* Every packet an endpoint offers is the one it was given, byte for byte.  *)
THEOREM OfferIntact == MemorySpec => []OfferedIntact
<1>1. ASSUME MemoryInv, NEW e \in {0, 3}, offered[e] # 0
      PROVE  pma_read(mem, TxBuffer[e], tx_count[e]) = Data(e, offered[e])
  <2>1. tx_count[e] = offered[e] /\ Holds(mem, TxBuffer[e], e, offered[e], offered[e])
    BY <1>1 DEF MemoryInv, OfferedInv
  <2>. QED BY <2>1 DEF pma_read, Data, Holds
<1>2. MemoryInv => OfferedIntact
  BY <1>1 DEF OfferedIntact
<1>. QED BY <1>2, MemoryInvariant, PTL

(* Every packet of the host is read as it was sent, up to a packet's size,  *)
(* whatever has gone through the other buffers since.                       *)
THEOREM ReceptionIntact == MemorySpec => []ReceivedIntact
<1>1. ASSUME MemoryInv, NEW e \in {0, 2}, received[e] # 0
      PROVE  /\ endpoint_get_rx_count(e) = Fits(received[e])
             /\ pma_read(mem, RxBuffer[e], endpoint_get_rx_count(e)) =
                  SubSeq(Data(e, received[e]), 1, endpoint_get_rx_count(e))
  <2>. DEFINE n == Fits(received[e])
  <2>1. rx_count[e] = 33792 + n /\ Holds(mem, RxBuffer[e], e, received[e], n)
    BY <1>1 DEF MemoryInv, ReceivedInv
  <2>2. rx_count[e] \in Field /\ received[e] \in Nat
    BY <1>1 DEF MemoryInv, TypeInv
  <2>3. n \in 1 .. received[e]
    BY <1>1, <2>2 DEF Fits, MAX_PACKET_SIZE
  <2>4. endpoint_get_rx_count(e) = n
    BY <2>1, <2>2, <2>3, FieldAllocates DEF endpoint_get_rx_count
  <2>. HIDE DEF n
  <2>5. pma_read(mem, RxBuffer[e], n) = [i \in 1 .. n |-> <<e, received[e], i>>]
    BY <2>1 DEF pma_read, Holds
  <2>6. SubSeq(Data(e, received[e]), 1, n) = [i \in 1 .. n |-> Data(e, received[e])[i]]
    BY <2>2, <2>3 DEF Data
  <2>7. \A i \in 1 .. n : Data(e, received[e])[i] = <<e, received[e], i>>
    BY <2>2, <2>3 DEF Data
  <2>8. SubSeq(Data(e, received[e]), 1, n) = [i \in 1 .. n |-> <<e, received[e], i>>]
    BY <2>6, <2>7
  <2>9. endpoint_get_rx_count(e) = Fits(received[e])
    BY <2>4 DEF n
  <2>. QED BY <2>4, <2>5, <2>8, <2>9
<1>2. MemoryInv => ReceivedIntact
  BY <1>1 DEF ReceivedIntact, Fits
<1>. QED BY <1>2, MemoryInvariant, PTL

===============================================================================
