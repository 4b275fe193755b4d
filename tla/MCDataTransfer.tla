--------------------------- MODULE MCDataTransfer ---------------------------
(* The thread life cycle with two slots for transfer threads: one more     *)
(* than a producer whose stop_impl cannot fail ever uses, and room for a   *)
(* detached thread next to its successor for one whose stop_impl can.      *)
EXTENDS DataTransfer
=============================================================================
