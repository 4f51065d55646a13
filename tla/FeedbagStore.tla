--------------------------- MODULE FeedbagStore ---------------------------
(***************************************************************************)
(* The server-stored buddy list ("feedbag") kept by SQLiteUserStore in     *)
(* state/user_store.go, and the presence queries computed from it.         *)
(*                                                                         *)
(* A row of the feedbag table is (screenName, groupID, itemID, classID,    *)
(* name, attributes, lastModified) with primary key (screenName, groupID,  *)
(* itemID).  The attribute blob is not modelled: no query reads it.  Each  *)
(* SQL statement of FeedbagUpsert/FeedbagDelete runs in its own implicit   *)
(* transaction and may fail; the loop then returns the error with the      *)
(* earlier statements already committed.                                   *)
(***************************************************************************)
EXTENDS Naturals, Sequences, FiniteSets, SequencesExt

CONSTANTS
    Users,      \* screen names (model values); also the names buddies carry
    Items,      \* feedbag items a client may send: [group, item, class, name]
    MaxBatch,   \* longest item list one FeedbagUpsert/FeedbagDelete receives
    MaxClock    \* last second of UNIXEPOCH() the model reaches (from 1)

\* wire.FeedbagClassIdBuddy, FeedbagClassIdGroup, FeedbagClassIdDeny
ClassBuddy == 0
ClassGroup == 1
ClassDeny  == 3

\* state.BlockedNo, BlockedA, BlockedB
BlockedNo == "BlockedNo"
BlockedA  == "BlockedA"
BlockedB  == "BlockedB"

VARIABLES
    feedbag,    \* feedbag[u]: the rows whose screenName is u
    clock       \* UNIXEPOCH(): whole seconds since the epoch

vars == <<feedbag, clock>>

Row == [group: {i.group : i \in Items}, item: {i.item : i \in Items},
        class: {i.class : i \in Items}, name: {i.name : i \in Items},
        lm: 1..MaxClock]

Key(r) == <<r.group, r.item>>

TypeOK ==
    /\ feedbag \in [Users -> SUBSET Row]
    /\ clock \in 1..MaxClock

Init ==
    /\ feedbag = [u \in Users |-> {}]
    /\ clock = 1   \* any real second is later than the time.Unix(0, 0) sentinel

(***************************************************************************)
(* Queries.  Each is the SQL statement of the same name over the table.    *)
(***************************************************************************)

\* EXISTS(SELECT 1 FROM feedbag WHERE screenName = a AND name = b AND classID = 3)
Blocks(a, b) == \E r \in feedbag[a] : r.class = ClassDeny /\ r.name = b

\* a has b as a buddy (classID = 0), whatever the blocking rows say
ListsBuddy(a, b) == \E r \in feedbag[a] : r.class = ClassBuddy /\ r.name = b

\* A variant binding the second EXISTS's arguments in the first one's order
BlockedStateSameOrder(a, b) ==
    IF Blocks(a, b) THEN BlockedA
    ELSE IF Blocks(a, b) THEN BlockedB
    ELSE BlockedNo

\* BlockedState: A blocks B is reported first, so mutual blocking is BlockedA
BlockedState(a, b) ==
    IF Blocks(a, b) THEN BlockedA
    ELSE IF Blocks(b, a) THEN BlockedB
    ELSE BlockedNo

\* Buddies(u): u's buddies, minus those who block u and those u blocks
Buddies(u) ==
    {r.name : r \in {r \in feedbag[u] : /\ r.class = ClassBuddy
                                        /\ r.name \in Users
                                        /\ ~Blocks(r.name, u)
                                        /\ ~Blocks(u, r.name)}}

\* A variant that drops the "u blocks f.screenName" clause
AdjacentUsersNoOwnBlock(u) ==
    {o \in Users : \E r \in feedbag[o] : /\ r.class = ClassBuddy
                                         /\ r.name = u
                                         /\ ~Blocks(o, u)}

\* AdjacentUsers(u): users listing u as a buddy, minus those u blocks and
\* those who block u
AdjacentUsers(u) ==
    {o \in Users : \E r \in feedbag[o] : /\ r.class = ClassBuddy
                                         /\ r.name = u
                                         /\ ~Blocks(u, o)
                                         /\ ~Blocks(o, u)}

\* SELECT MAX(lastModified) ...; time.Unix(0, 0) when there is no row
FeedbagLastModified(u) ==
    IF feedbag[u] = {} THEN 0
    ELSE CHOOSE t \in {r.lm : r \in feedbag[u]} :
            \A r \in feedbag[u] : r.lm <= t

(***************************************************************************)
(* Statements.                                                             *)
(***************************************************************************)

\* A variant whose INSERT leaves lastModified NULL (read back as 0)
UpsertRowNoTimestamp(rows, it) ==
    {r \in rows : Key(r) # Key(it)}
        \cup {[group |-> it.group, item |-> it.item, class |-> it.class,
               name |-> it.name, lm |-> 0]}

\* A variant whose DO UPDATE branch leaves lastModified as it was
UpsertRowKeepTimestamp(rows, it) ==
    LET old == {r \in rows : Key(r) = Key(it)}
    IN  {r \in rows : Key(r) # Key(it)}
            \cup {[group |-> it.group, item |-> it.item, class |-> it.class,
                   name |-> it.name,
                   lm |-> IF old = {} THEN clock ELSE (CHOOSE r \in old : TRUE).lm]}

\* INSERT ... ON CONFLICT (screenName, groupID, itemID) DO UPDATE, with
\* lastModified = UNIXEPOCH() in both branches
UpsertRow(rows, it) ==
    {r \in rows : Key(r) # Key(it)}
        \cup {[group |-> it.group, item |-> it.item, class |-> it.class,
               name |-> it.name, lm |-> clock]}

\* DELETE FROM feedbag WHERE screenName = ? AND itemID = ?
DeleteRow(rows, it) == {r \in rows : r.item # it.item}

Batches == UNION {[1..n -> Items] : n \in 1..MaxBatch}

(***************************************************************************)
(* FeedbagUpsert(screenName, items): one Exec per item.  The first failing *)
(* Exec returns its error; k is the number of statements that committed.   *)
(***************************************************************************)
FeedbagUpsert(u, items) ==
    \E k \in 0..Len(items) :
        /\ feedbag' = [feedbag EXCEPT ![u] =
                          FoldLeft(UpsertRow, @, SubSeq(items, 1, k))]
        /\ UNCHANGED clock

\* FeedbagDelete(screenName, items): one Exec per item, no transaction
FeedbagDelete(u, items) ==
    \E k \in 0..Len(items) :
        /\ feedbag' = [feedbag EXCEPT ![u] =
                          FoldLeft(DeleteRow, @, SubSeq(items, 1, k))]
        /\ UNCHANGED clock

\* The wall clock moves on by one second
Tick ==
    /\ clock < MaxClock
    /\ clock' = clock + 1
    /\ UNCHANGED feedbag

Next ==
    \/ \E u \in Users, items \in Batches :
          \/ FeedbagUpsert(u, items)
          \/ FeedbagDelete(u, items)
    \/ Tick

Spec == Init /\ [][Next]_vars

(***************************************************************************)
(* Properties.                                                             *)
(***************************************************************************)

\* Presence fan-out is symmetric: v is among Buddies(u) (u hears of v) exactly
\* when u is among AdjacentUsers(v) (v's arrival is sent to u).  The two SQL
\* queries are written independently, each with its own pair of blocking
\* sub-queries.
BuddiesMatchAdjacentUsers ==
    \A u, v \in Users : v \in Buddies(u) <=> u \in AdjacentUsers(v)

\* Buddies(u) holds v exactly when u lists v as a buddy and BlockedState
\* reports that neither blocks the other: the fan-out query and the
\* BlockedState query used to gate messaging agree on every pair.
BuddiesAgreeWithBlockedState ==
    \A u, v \in Users :
        v \in Buddies(u) <=> (ListsBuddy(u, v) /\ BlockedState(u, v) = BlockedNo)

\* Deleting an item removes only the row with that item's (groupID, itemID)
\* key: the spec's "deleting an item deletes only that entry".
DeleteRemovesOnlyThatEntry ==
    [][\A u \in Users, items \in Batches :
          FeedbagDelete(u, items) =>
             \A r \in feedbag[u] \ feedbag'[u] :
                \E i \in 1..Len(items) : Key(r) = Key(items[i])]_vars

\* A client that cached the feedbag with its FeedbagLastModified misses a
\* change only in two ways: the change removed a row (MAX over the rows left
\* does not advance and may go back, to time.Unix(0, 0) when none is left),
\* or it came in the second the timestamp already showed (UNIXEPOCH() has
\* whole seconds).  Every upsert otherwise moves the timestamp forward.
ChangeUnseenOnlyByDeleteOrSameSecond ==
    [][\A u \in Users :
          /\ feedbag'[u] # feedbag[u]
          /\ FeedbagLastModified(u)' <= FeedbagLastModified(u)
          => \/ {Key(r) : r \in feedbag[u]} \ {Key(r) : r \in feedbag'[u]} # {}
             \/ FeedbagLastModified(u) = clock]_vars

\* Every change to a user's feedbag moves FeedbagLastModified forward, so a
\* client that cached the list with its timestamp learns of the change.
LastModifiedAdvancesOnChange ==
    [][\A u \in Users :
          feedbag'[u] # feedbag[u] =>
             FeedbagLastModified(u)' > FeedbagLastModified(u)]_vars

=============================================================================
