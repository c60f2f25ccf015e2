------------------------------ MODULE CdcPipe ------------------------------
(***************************************************************************)
(* The lines of the heartbeat on their way through the bulk IN endpoint of *)
(* usb_cdc.c to the program that has the port open.  UsbCdc has the        *)
(* endpoint's status and all of the driver; here are the data toggles by   *)
(* which the host tells a packet sent again from a new one, the lines, and *)
(* the handshakes that get lost.  The driver resets its toggle with some   *)
(* requests and the host resets its own with those that USB names.         *)
(*                                                                         *)
(* A request is one step: the host takes nothing from the endpoint while   *)
(* one for it is under way.                                                *)
(* SET_INTERFACE is left out: the driver keeps its toggle, and the         *)
(* repository does not say whether the host does.                          *)
(***************************************************************************)
EXTENDS Integers

CONSTANTS
  Requests,   \* the requests the host sends
  MaxLines    \* the lines the main loop writes

ASSUME RequestsAssumption ==
  Requests \subseteq {"configure", "unconfigure", "open", "close", "halt",
                      "clear_halt", "reset"}
ASSUME MaxLinesAssumption == MaxLines \in Nat

VARIABLES
  \* the driver
  usb_configured, usb_dtr_asserted, cdc_in_busy,
  \* the endpoint: its register and the line in its buffer
  stat_tx, dtog_tx, ctr_tx, packet,
  accepted,               \* the lines usb_cdc_try_write has accepted
  \* the host
  toggle,                 \* of the packet it expects
  delivered,              \* the last line its program has got
  deliveries,             \* how often it has got one
  link,                   \* changes when it resets or configures the device
  halted                  \* it has set or cleared a halt since then

device == <<usb_configured, usb_dtr_asserted, cdc_in_busy>>
endpoint == <<stat_tx, dtog_tx, ctr_tx, packet>>
host == <<toggle, delivered, deliveries, link, halted>>
vars == <<device, endpoint, accepted, host>>

Init ==
  /\ usb_configured = FALSE /\ usb_dtr_asserted = FALSE /\ cdc_in_busy = FALSE
  /\ stat_tx = "NAK" /\ dtog_tx = 0 /\ ctr_tx = FALSE /\ packet = 0
  /\ accepted = 0
  /\ toggle = 0 /\ delivered = 0 /\ deliveries = 0 /\ link = 0 /\ halted = FALSE

----------------------------------------------------------------------------
(* The driver.  The main loop goes on when every completion is served. *)

\* Mutant: the packet is not put on offer.
try_write_unsent ==
  /\ usb_configured /\ usb_dtr_asserted /\ ~cdc_in_busy /\ ~ctr_tx
  /\ accepted < MaxLines
  /\ accepted' = accepted + 1 /\ packet' = accepted'
  /\ cdc_in_busy' = TRUE
  /\ UNCHANGED <<usb_configured, usb_dtr_asserted, stat_tx, dtog_tx, ctr_tx, host>>

usb_cdc_try_write ==
  /\ usb_configured /\ usb_dtr_asserted /\ ~cdc_in_busy /\ ~ctr_tx
  /\ accepted < MaxLines
  /\ accepted' = accepted + 1 /\ packet' = accepted'
  /\ cdc_in_busy' = TRUE /\ stat_tx' = "VALID"
  /\ UNCHANGED <<usb_configured, usb_dtr_asserted, dtog_tx, ctr_tx, host>>

serve_completion ==
  /\ ctr_tx
  /\ ctr_tx' = FALSE /\ cdc_in_busy' = FALSE /\ stat_tx' = "NAK"
  /\ UNCHANGED <<usb_configured, usb_dtr_asserted, dtog_tx, packet, accepted, host>>

----------------------------------------------------------------------------
(* Bulk IN transactions *)

\* A packet with the toggle of the one before has been sent again: the host
\* acknowledges it and throws it away.
Take ==
  /\ IF toggle = dtog_tx
     THEN delivered' = packet /\ deliveries' = deliveries + 1
     ELSE UNCHANGED <<delivered, deliveries>>
  /\ toggle' = 1 - dtog_tx

\* The endpoint gets the acknowledgement,
in_acknowledged ==
  /\ usb_configured /\ stat_tx = "VALID"
  /\ Take
  /\ dtog_tx' = 1 - dtog_tx /\ ctr_tx' = TRUE /\ stat_tx' = "NAK"
  /\ UNCHANGED <<device, packet, accepted, link, halted>>

\* or it does not, and has the packet sent again.
in_handshake_lost ==
  /\ usb_configured /\ stat_tx = "VALID"
  /\ Take
  /\ UNCHANGED <<device, endpoint, accepted, link, halted>>

----------------------------------------------------------------------------
(* Requests, each with what the host does about its own toggle *)

\* SET_CONFIGURATION
set_configuration(configured) ==
  /\ usb_configured' = configured /\ usb_dtr_asserted' = FALSE
  /\ cdc_in_busy' = FALSE
  /\ dtog_tx' = 0 /\ stat_tx' = "NAK"
  /\ toggle' = 0 /\ link' = 1 - link /\ halted' = FALSE
  /\ UNCHANGED <<ctr_tx, packet, accepted, delivered, deliveries>>

\* A bus reset, whose registers the peripheral clears and the driver sets up
usb_bus_reset == "reset" \in Requests /\ set_configuration(FALSE)

\* Mutant: the driver's toggle is cleared too, as with a configuration.
set_dtr_clearing(open) ==
  /\ usb_configured
  /\ usb_dtr_asserted' = open
  /\ dtog_tx' = 0
  /\ UNCHANGED <<usb_configured, cdc_in_busy, stat_tx, ctr_tx, packet, accepted, host>>

\* SET_CONTROL_LINE_STATE
set_dtr(open) ==
  /\ usb_configured
  /\ usb_dtr_asserted' = open
  /\ UNCHANGED <<usb_configured, cdc_in_busy, endpoint, accepted, host>>

\* SET_FEATURE and CLEAR_FEATURE
endpoint_set_halt(halt) ==
  /\ usb_configured
  /\ stat_tx' = IF halt THEN "STALL" ELSE "NAK"
  /\ dtog_tx' = IF halt THEN dtog_tx ELSE 0
  /\ toggle' = IF halt THEN toggle ELSE 0
  /\ halted' = TRUE
  /\ UNCHANGED <<device, ctr_tx, packet, accepted, delivered, deliveries, link>>

Request ==
  \/ "configure" \in Requests /\ set_configuration(TRUE)
  \/ "unconfigure" \in Requests /\ set_configuration(FALSE)
  \/ usb_bus_reset
  \/ "open" \in Requests /\ set_dtr(TRUE)
  \/ "close" \in Requests /\ set_dtr(FALSE)
  \/ "halt" \in Requests /\ endpoint_set_halt(TRUE)
  \/ "clear_halt" \in Requests /\ endpoint_set_halt(FALSE)

Next ==
  \/ usb_cdc_try_write \/ serve_completion
  \/ in_acknowledged \/ in_handshake_lost
  \/ Request

Spec == Init /\ [][Next]_vars

\* The handler runs when its flag is set; the host goes on asking while the port is
\* open, and not every handshake gets lost.
FairSpec ==
  Spec /\ WF_vars(serve_completion) /\ SF_vars(usb_dtr_asserted /\ in_acknowledged)

----------------------------------------------------------------------------
(* Properties *)

\* The types of the driver's, the endpoint's and the host's state.
TypeOK ==
  /\ usb_configured \in BOOLEAN /\ usb_dtr_asserted \in BOOLEAN /\ cdc_in_busy \in BOOLEAN
  /\ stat_tx \in {"NAK", "STALL", "VALID"}
  /\ dtog_tx \in {0, 1} /\ ctr_tx \in BOOLEAN
  /\ accepted \in Nat /\ packet \in 0 .. accepted /\ delivered \in 0 .. packet
  /\ deliveries \in 0 .. delivered
  /\ toggle \in {0, 1} /\ link \in {0, 1} /\ halted \in BOOLEAN

\* A line whose completion the driver sees has reached the host's program
\* (firmware/README.md:65: "While the serial port is open, the firmware sends one
\* line per second"), whatever packets were sent again or withdrawn.
LinesArrive == [][in_acknowledged => delivered' = packet]_vars

\* The driver implements the mailbox: the line on offer until the host has it.
Pending == IF cdc_in_busy /\ delivered < packet THEN packet ELSE 0
Mailbox == INSTANCE TxMailbox WITH slot <- Pending
DriverIsMailbox == Mailbox!Spec

\* A port that stays open gets its line, or loses it with the link, as long as the
\* host touches no halt: usb_cdc_try_write never keeps a packet to itself.
MailboxIsEmptied ==
  Pending # 0 /\ ~halted ~> Pending = 0 \/ halted \/ ~usb_dtr_asserted
=============================================================================
