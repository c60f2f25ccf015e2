--------------------------- MODULE CdcPipe_proofs ---------------------------
(* Theorems about the lines on their way to the host.                        *)
EXTENDS CdcPipe, TLAPS

\* How the two toggles stand to each other.  A packet on offer has the toggle the
\* host expects exactly when it is new to the host; a completion leaves both alike,
\* and so does everything after which the driver may write again.
TogglesInv ==
  /\ packet = accepted
  /\ stat_tx = "VALID" => cdc_in_busy /\ ~ctr_tx
  /\ stat_tx = "VALID" /\ delivered # packet => toggle = dtog_tx
  /\ stat_tx = "VALID" /\ delivered = packet => toggle = 1 - dtog_tx
  /\ ctr_tx \/ ~cdc_in_busy => toggle = dtog_tx
  /\ ctr_tx => ~cdc_in_busy \/ delivered = packet

PipeInv == TypeOK /\ TogglesInv

LEMMA InitInv == Init => PipeInv
<1> SUFFICES ASSUME Init PROVE PipeInv
  OBVIOUS
<1>1. TypeOK
  <2>1. usb_configured \in BOOLEAN /\ usb_dtr_asserted \in BOOLEAN
        /\ cdc_in_busy \in BOOLEAN /\ ctr_tx \in BOOLEAN /\ halted \in BOOLEAN
    BY Zenon DEF Init
  <2> QED BY <2>1 DEF Init, TypeOK
<1>2. ~cdc_in_busy /\ ~ctr_tx
  BY Zenon DEF Init
<1> QED BY <1>1, <1>2 DEF Init, PipeInv, TogglesInv

LEMMA StepInv ==
  ASSUME PipeInv, [Next]_vars
  PROVE  PipeInv'
<1> USE DEF PipeInv, TypeOK, TogglesInv
<1>1. CASE usb_cdc_try_write
  BY <1>1, MaxLinesAssumption DEF usb_cdc_try_write, host
<1>2. CASE serve_completion
  BY <1>2 DEF serve_completion, host
<1>3. CASE in_acknowledged
  BY <1>3 DEF in_acknowledged, Take, device
<1>4. CASE in_handshake_lost
  BY <1>4 DEF in_handshake_lost, Take, device, endpoint
<1>5. ASSUME NEW c \in BOOLEAN, set_configuration(c) PROVE PipeInv'
  <2>1. ~cdc_in_busy' /\ cdc_in_busy' \in BOOLEAN /\ usb_configured' \in BOOLEAN
        /\ usb_dtr_asserted' \in BOOLEAN /\ halted' \in BOOLEAN
    BY <1>5, Zenon DEF set_configuration
  <2> QED BY <1>5, <2>1 DEF set_configuration
<1>6. ASSUME NEW c \in BOOLEAN, set_dtr(c) PROVE PipeInv'
  <2>1. usb_dtr_asserted' \in BOOLEAN
    BY <1>6, Zenon DEF set_dtr
  <2> QED BY <1>6, <2>1 DEF set_dtr, endpoint, host
<1>7. CASE endpoint_set_halt(TRUE) \/ endpoint_set_halt(FALSE)
  <2>1. halted' \in BOOLEAN
    BY <1>7, Zenon DEF endpoint_set_halt
  <2> QED BY <1>7, <2>1 DEF endpoint_set_halt, device
<1>8. CASE UNCHANGED vars
  BY <1>8 DEF vars, device, endpoint, host
<1> QED BY <1>1, <1>2, <1>3, <1>4, <1>5, <1>6, <1>7, <1>8 DEF Next, Request, usb_bus_reset

\* The driver's, the endpoint's and the host's state keep to their types.
THEOREM TypeCorrect == Spec => []TypeOK
<1>1. PipeInv /\ [Next]_vars => PipeInv'
  BY StepInv
<1>2. PipeInv => TypeOK
  BY DEF PipeInv
<1> QED BY InitInv, <1>1, <1>2, PTL DEF Spec

\* Whatever requests the host sends and whenever, a line whose completion the
\* driver sees has reached the host's program (firmware/README.md:65).
THEOREM Arrival == Spec => LinesArrive
<1>1. PipeInv /\ [Next]_vars => PipeInv'
  BY StepInv
<1>2. PipeInv /\ [Next]_vars => [in_acknowledged => delivered' = packet]_vars
  <2> SUFFICES ASSUME PipeInv, in_acknowledged PROVE delivered' = packet
    OBVIOUS
  <2> QED BY DEF in_acknowledged, Take, PipeInv, TypeOK, TogglesInv
<1> QED BY InitInv, <1>1, <1>2, PTL DEF Spec, LinesArrive

LEMMA PendingType ==
  ASSUME PipeInv
  PROVE  Pending = IF cdc_in_busy /\ delivered # packet THEN packet ELSE 0
BY DEF PipeInv, TypeOK, Pending

\* A step of the driver or the host is a step of the mailbox or none.
LEMMA StepMaps ==
  ASSUME PipeInv, PipeInv', [Next]_vars
  PROVE  [Mailbox!Next]_(Mailbox!vars)
<1> USE PendingType DEF PipeInv, TypeOK, TogglesInv
<1>0. Pending = (IF cdc_in_busy /\ delivered # packet THEN packet ELSE 0)
      /\ Pending' = (IF cdc_in_busy' /\ delivered' # packet' THEN packet' ELSE 0)
  BY DEF Pending
<1> USE DEF Mailbox!vars
<1>1. CASE usb_cdc_try_write
  <2>1. Pending = 0 /\ Pending' = accepted'
    BY <1>0, <1>1 DEF usb_cdc_try_write, host
  <2>2. Mailbox!Accept
    BY <1>1, <2>1 DEF usb_cdc_try_write, host, Mailbox!Accept
  <2> QED BY <2>2 DEF Mailbox!Next
<1>2. CASE serve_completion
  <2>1. Pending' = Pending
    BY <1>0, <1>2 DEF serve_completion, host
  <2> QED BY <1>2, <2>1 DEF serve_completion, host
<1>3. CASE in_acknowledged \/ in_handshake_lost
  <2>1. CASE delivered = packet
    <3>1. delivered' = delivered /\ deliveries' = deliveries
      BY <1>3, <2>1 DEF in_acknowledged, in_handshake_lost, Take
    <3>2. Pending' = Pending
      BY <1>0, <1>3, <2>1, <3>1 DEF in_acknowledged, in_handshake_lost, device, endpoint
    <3> QED BY <1>3, <3>1, <3>2 DEF in_acknowledged, in_handshake_lost
  <2>2. CASE delivered # packet
    <3>1. delivered' = packet /\ deliveries' = deliveries + 1 /\ cdc_in_busy
      BY <1>3, <2>2 DEF in_acknowledged, in_handshake_lost, Take
    <3>2. Pending = packet /\ Pending' = 0 /\ packet # 0
      BY <1>0, <1>3, <2>2, <3>1 DEF in_acknowledged, in_handshake_lost, endpoint
    <3>3. Mailbox!Deliver
      BY <1>3, <3>1, <3>2 DEF in_acknowledged, in_handshake_lost, Mailbox!Deliver
    <3> QED BY <3>3 DEF Mailbox!Next
  <2> QED BY <2>1, <2>2
<1>4. CASE set_configuration(TRUE) \/ set_configuration(FALSE)
  <2>1. Pending' = 0
    BY <1>0, <1>4 DEF set_configuration
  <2>2. Mailbox!Break
    BY <1>4, <2>1 DEF set_configuration, Mailbox!Break
  <2> QED BY <2>2 DEF Mailbox!Next
<1>5. CASE \/ set_dtr(TRUE) \/ set_dtr(FALSE)
           \/ endpoint_set_halt(TRUE) \/ endpoint_set_halt(FALSE)
  <2>1. UNCHANGED <<cdc_in_busy, packet, accepted, delivered, deliveries, link>>
    BY <1>5 DEF set_dtr, endpoint_set_halt, device, endpoint, host
  <2> QED BY <1>0, <2>1
<1>6. CASE UNCHANGED vars
  BY <1>0, <1>6 DEF vars, device, endpoint, host
<1> QED BY <1>1, <1>2, <1>3, <1>4, <1>5, <1>6 DEF Next, Request, usb_bus_reset

\* The driver implements the mailbox: a line reaches the host's program once and in
\* its turn, or is given up by a reset or a new configuration.  A line that came a
\* second time would count as a delivery, which an empty mailbox does not have.
THEOREM Refinement == Spec => DriverIsMailbox
<1>1. Init => Mailbox!Init
  BY DEF Init, Mailbox!Init, Pending
<1>2. PipeInv /\ [Next]_vars => PipeInv'
  BY StepInv
<1>3. PipeInv /\ PipeInv' /\ [Next]_vars => [Mailbox!Next]_(Mailbox!vars)
  BY StepMaps
<1> QED BY InitInv, <1>1, <1>2, <1>3, PTL DEF Spec, DriverIsMailbox, Mailbox!Spec
=============================================================================
