--------------------------- MODULE MCOtaDelivery ---------------------------
(* An instance of the OTA delivery for TLC. *)
EXTENDS OtaDelivery, TLC

CONSTANTS d1, t1, w1, w2, old, new

\* An upgrade of the device.
OnD1 == (t1 :> d1)
Upgrade == (t1 :> new)
=============================================================================
