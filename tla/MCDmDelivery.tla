---------------------------- MODULE MCDmDelivery ----------------------------
(* TLC instance of DmDelivery with the KAM_REPEAT of the code: the first   *)
(* two KAMs of epoch 0 and the last two of epoch 1 may be lost.  The same  *)
(* frames are read by clients on the bindings.                             *)
EXTENDS DmDelivery, DmBindings

MCMayLose == {<<0, 0>>, <<0, 1>>, <<1, 1>>, <<1, 2>>}
=============================================================================
