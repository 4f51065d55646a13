---------------------------- MODULE MC_BuddyFeed ----------------------------
(***************************************************************************)
(* Two users and three PushFeed requests over two seconds: two requests   *)
(* of one user can race to create the feed within one second while the    *)
(* other user's feed keeps the lookups apart.                             *)
(***************************************************************************)
EXTENDS BuddyFeed, TLC

\* requests are interchangeable: each one's user is chosen in Init
Symmetry == Permutations(Pushes)
=============================================================================
