-------------------------- MODULE MCLibUsbTransfer --------------------------
(* A ring of two transfers and a device that sends three packets: each     *)
(* transfer is queued again, and one of them twice.                        *)
EXTENDS LibUsbTransfer
=============================================================================
