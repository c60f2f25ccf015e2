----------------------------- MODULE UsbFunction -----------------------------
(***************************************************************************)
(* What the device of firmware/src/usb_cdc.c promises its host, without    *)
(* packets, stages, endpoints and lost handshakes.  A request takes effect *)
(* at one moment, once, or is refused and has none; a read delivers what   *)
(* there is, no more and no less; the host is told the end of a request    *)
(* only after its effect.  A host that gives up on a request does not know *)
(* whether it has had its effect.                                          *)
(***************************************************************************)
EXTENDS Integers

CONSTANTS
  Requests,        \* what the host may ask for
  Codings,         \* line codings
  InitialCoding,
  Bytes            \* how many bytes there are to be read by a request

VARIABLES
  request,         \* <<r>>, what the host has asked for, or <<>>
  followed,        \* the request has had its effect
  got,             \* bytes the host has read
  arrived,         \* {c}, a line coding that has arrived and is not set yet, or {}
  configuration, dtr, coding,
  resetting        \* a reset of the bus that the device has not followed yet

devicevars == <<configuration, dtr, coding>>
functionvars == <<request, followed, got, arrived, devicevars, resetting>>

FunctionInit ==
  /\ request = <<>> /\ followed = FALSE /\ got = 0 /\ arrived = {}
  /\ configuration = 0 /\ dtr = FALSE /\ coding = InitialCoding
  /\ resetting = FALSE

Asked(name) == request # <<>> /\ request[1].request = name

(* A request ends, one way or another.                                     *)
Over == request' = <<>> /\ followed' = FALSE /\ got' = 0

(* The host may do so while the one before has not ended.                  *)
Ask(r) ==
  /\ ~ resetting
  /\ request' = <<r>> /\ followed' = FALSE /\ got' = 0
  /\ arrived' = {}
  /\ UNCHANGED <<devicevars, resetting>>

SetConfiguration ==
  /\ Asked("SET_CONFIGURATION")
  /\ request[1].value \in {0, 1}
  /\ configuration' = request[1].value
  /\ dtr' = FALSE

SetControlLineState ==
  /\ Asked("SET_CONTROL_LINE_STATE")
  /\ configuration = 1
  /\ dtr' = (request[1].value % 2 = 1)
  /\ UNCHANGED configuration

(* Everything else, reads, halts and the address included, changes nothing  *)
(* that is looked at here.                                                  *)
Answer ==
  /\ request # <<>>
  /\ ~ Asked("SET_CONFIGURATION") /\ ~ Asked("SET_CONTROL_LINE_STATE")
  /\ ~ Asked("SET_LINE_CODING")
  /\ UNCHANGED <<configuration, dtr>>

Follow ==
  /\ ~ followed
  /\ SetConfiguration \/ SetControlLineState \/ Answer
  /\ followed' = TRUE
  /\ UNCHANGED <<request, got, arrived, coding, resetting>>

(* The host sends a line coding, and the device sets it.  When the bus is   *)
(* reset in between, it may still do so.                                    *)
Send(c) ==
  /\ Asked("SET_LINE_CODING") /\ ~ followed /\ arrived = {}
  /\ configuration = 1
  /\ arrived' = {c}
  /\ UNCHANGED <<request, followed, got, devicevars, resetting>>

SetLineCoding ==
  /\ coding' \in arrived
  /\ arrived' = {}
  /\ followed' = (request # <<>>)
  /\ UNCHANGED <<request, got, configuration, dtr, resetting>>

Deliver ==
  /\ followed
  /\ \E n \in 1 .. Bytes[request[1]] - got : got' = got + n
  /\ UNCHANGED <<request, followed, arrived, devicevars, resetting>>

Finish ==
  /\ followed /\ got = Bytes[request[1]]
  /\ Over
  /\ UNCHANGED <<arrived, devicevars, resetting>>

Refuse ==
  /\ request # <<>> /\ ~ followed /\ arrived = {}
  /\ Over
  /\ UNCHANGED <<arrived, devicevars, resetting>>

BusReset ==
  /\ ~ resetting /\ resetting' = TRUE
  /\ Over
  /\ UNCHANGED <<arrived, devicevars>>

(* The line coding outlives a reset.                                       *)
DeviceReset ==
  /\ resetting /\ resetting' = FALSE
  /\ configuration' = 0 /\ dtr' = FALSE /\ arrived' = {}
  /\ UNCHANGED <<request, followed, got, coding>>

FunctionNext ==
  \/ \E r \in Requests : Ask(r)
  \/ Follow
  \/ \E c \in Codings : Send(c)
  \/ SetLineCoding \/ Deliver \/ Finish \/ Refuse
  \/ BusReset \/ DeviceReset

FunctionSpec == FunctionInit /\ [][FunctionNext]_functionvars

=============================================================================
