--------------------- MODULE MC_WebAPISessionManager ---------------------
(***************************************************************************)
(* web_sessions checks two users and three aimsids.  With both users'      *)
(* m.byUser entries and a handler's in-flight aimsid holding all three, no *)
(* fresh aimsid can be drawn for a moment and CreateSession waits; that is *)
(* the model's bound, not the code's (uuid.New() never runs out).  It      *)
(* checks liveness, so it uses no symmetry.  Symmetry over users and       *)
(* aimsids is sound for invariant runs: no definition names one.           *)
(***************************************************************************)
EXTENDS WebAPISessionManager, TLC

Symmetry == Permutations(Users) \cup Permutations(Ids)
=============================================================================
