------------------------------ MODULE MC_ChatNav ------------------------------
(***************************************************************************)
(* chat_rooms checks four clients and three room cookies: two rooms can be *)
(* created while two invitees look one of them up, join it and race its   *)
(* last participant's signout, and a third cookie stays fresh for a later  *)
(* creator.  The run checks liveness, so it uses no symmetry.              *)
(***************************************************************************)
EXTENDS ChatNav
=============================================================================
