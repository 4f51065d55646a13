---------------------------- MODULE MC_UserAuth ----------------------------
(***************************************************************************)
(* One screen name, two login attempts, two passwords besides "welcome1"  *)
(* and two auth keys: enough for a wrong password, a password change      *)
(* between a client's challenge and its login, and a stub key that         *)
(* differs from the challenge key.                                         *)
(***************************************************************************)
EXTENDS UserAuth, TLC

\* keys and login attempts are interchangeable: only equality is tested
Symmetry == Permutations(Keys) \cup Permutations(Clients)
=============================================================================
