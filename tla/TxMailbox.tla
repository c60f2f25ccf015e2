----------------------------- MODULE TxMailbox -----------------------------
(***************************************************************************)
(* What usb_cdc_try_write promises to the two sides of the serial link: a  *)
(* mailbox for one line.  A line the driver accepts reaches the program    *)
(* that has the port open, in its turn, unless the host itself breaks the  *)
(* link by a reset or a new configuration.  It reaches it once: that the   *)
(* program gets a line again changes the number of deliveries, which no    *)
(* step of an empty mailbox does.                                          *)
(***************************************************************************)
EXTENDS Integers

VARIABLES
  slot,        \* the line accepted and not delivered yet, or 0
  accepted,    \* the lines accepted so far
  delivered,   \* the last line delivered
  deliveries,  \* how often one has been
  link         \* changes with each break of the link

vars == <<slot, accepted, delivered, deliveries, link>>

Init ==
  /\ slot = 0 /\ accepted = 0 /\ delivered = 0 /\ deliveries = 0
  /\ link \in {0, 1}

\* usb_cdc_try_write returns true.
Accept ==
  /\ slot = 0
  /\ accepted' = accepted + 1 /\ slot' = accepted'
  /\ UNCHANGED <<delivered, deliveries, link>>

Deliver ==
  /\ slot # 0
  /\ delivered' = slot /\ deliveries' = deliveries + 1
  /\ slot' = 0
  /\ UNCHANGED <<accepted, link>>

\* What has not been delivered by then is lost.
Break ==
  /\ slot' = 0 /\ link' = 1 - link
  /\ UNCHANGED <<accepted, delivered, deliveries>>

Next == Accept \/ Deliver \/ Break

Spec == Init /\ [][Next]_vars
=============================================================================
