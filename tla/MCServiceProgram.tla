-------------------------- MODULE MCServiceProgram --------------------------
(* ServiceProgram with messages that come whole or in parts and one length
   that never fits, one signal to miss and one to repeat it. *)
EXTENDS ServiceProgram

BothModes == {"live", "restart"}
=============================================================================
