-------------------------- MODULE MC_FeedbagStore --------------------------
(***************************************************************************)
(* Model-checking instance of FeedbagStore.  The items a client sends are *)
(* a buddy entry and a deny entry naming each user, and, for the delete    *)
(* run, two group headers: every group header carries itemID 0, as the     *)
(* AIM clients create them.                                                *)
(***************************************************************************)
EXTENDS FeedbagStore, TLC

\* a buddy (group 1, item 1) and a deny entry (group 0, item 2) per user
BuddyAndDenyItems ==
    {[group |-> 1, item |-> 1, class |-> ClassBuddy, name |-> v] : v \in Users}
        \cup {[group |-> 0, item |-> 2, class |-> ClassDeny, name |-> v] : v \in Users}

\* two group headers, both with itemID 0, and one buddy inside group 1
GroupHeaderItems ==
    {[group |-> 1, item |-> 0, class |-> ClassGroup, name |-> "Friends"],
     [group |-> 2, item |-> 0, class |-> ClassGroup, name |-> "Family"],
     [group |-> 1, item |-> 1, class |-> ClassBuddy, name |-> CHOOSE v \in Users : TRUE]}

UserPerms == Permutations(Users)
=============================================================================
