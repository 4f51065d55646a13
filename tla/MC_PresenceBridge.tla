------------------------- MODULE MC_PresenceBridge -------------------------
(***************************************************************************)
(* Two users: u2 signs on and off OSCAR, u1 starts a Web AIM session.      *)
(* Each feedbag may hold a buddy item and a deny item for either name, so *)
(* every combination of listing and blocking between them is an initial   *)
(* state.                                                                  *)
(***************************************************************************)
EXTENDS PresenceBridge, TLC

\* item ids: one per name, injective
ItemId == CHOOSE f \in [Users -> 1..Cardinality(Users)] :
              \A x, y \in Users : f[x] = f[y] => x = y

\* a buddy item (class 0) in group 1 and a deny item (class 3) in the
\* root group for each name
PresenceItems ==
    {[group |-> 1, item |-> ItemId[v], class |-> 0, name |-> v] : v \in Users}
        \cup {[group |-> 0, item |-> 10 + ItemId[v], class |-> 3, name |-> v] : v \in Users}
=============================================================================
