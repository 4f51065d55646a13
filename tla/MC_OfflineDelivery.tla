------------------------- MODULE MC_OfflineDelivery -------------------------
(***************************************************************************)
(* Two messages and two DeliverOfflineMessages calls: enough for a message *)
(* stored while a delivery is in flight, and for two deliveries of one     *)
(* recipient to overlap.  A message is pushed at most twice.               *)
(***************************************************************************)
EXTENDS OfflineDelivery, TLC

MsgPerms == Permutations(Msgs)
=============================================================================
