----------------------------- MODULE MCUsbAccess -----------------------------
(***************************************************************************)
(* The two ways in which the driver touches the peripheral, its accesses   *)
(* to an endpoint register and to the packet memory, checked in one run.   *)
(* They share no state and no property relates them: a behaviour is about  *)
(* the one or the other, which Init chooses, and the other is at rest.     *)
(***************************************************************************)
EXTENDS EndpointRegister, PacketMemory

VARIABLE subject   \* "register" or "memory"

accessvars == <<subject, vars, memoryvars>>

AccessInit ==
  /\ subject \in {"register", "memory"}
  /\ Init /\ MemoryInit
  /\ subject = "memory" => quiet_host /\ endpoint = 0   \* one register at rest

AccessNext ==
  /\ UNCHANGED subject
  /\ \/ subject = "register" /\ Next /\ UNCHANGED memoryvars
     \/ subject = "memory" /\ MemoryNext /\ UNCHANGED vars

AccessSpec == AccessInit /\ [][AccessNext]_accessvars
==============================================================================
