---------------------------- MODULE MCIrqDispatch ----------------------------
(* Instance: the GPU's, the ring's and the ordering-table channel, numbered  *)
(* as in the code.                                                           *)
EXTENDS IrqDispatch
MCChannels == {2, 3, 6}
=============================================================================
