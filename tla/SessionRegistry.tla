--------------------------- MODULE SessionRegistry ---------------------------
(***************************************************************************)
(* What a session registry promises (the Session entity of the spec): a    *)
(* set of live sessions, each owned by one screen name, with at most one   *)
(* live session per screen name.  Opening a session for a user closes the  *)
(* user's live one; sessions otherwise only close, one or several at once. *)
(* Nothing else about a session (expiry, queues, touches) is visible here. *)
(***************************************************************************)
EXTENDS FiniteSets

CONSTANTS
    Users,      \* screen names
    Ids,        \* session ids
    NoSession   \* owner of an id never opened

VARIABLES
    live,       \* ids of the live sessions
    sowner      \* sowner[id]: the screen name the session was opened for

vars == <<live, sowner>>

Init ==
    /\ live = {}
    /\ sowner = [i \in Ids |-> NoSession]

\* A session id not live is opened for u; u's live session is closed
Open(u, id) ==
    /\ id \notin live
    /\ live' = {j \in live : sowner[j] # u} \cup {id}
    /\ sowner' = [sowner EXCEPT ![id] = u]

\* Some live sessions close together
Close(S) ==
    /\ S # {}
    /\ S \subseteq live
    /\ live' = live \ S
    /\ UNCHANGED sowner

Next ==
    \/ \E u \in Users, id \in Ids : Open(u, id)
    \/ \E S \in SUBSET live : Close(S)

Spec == Init /\ [][Next]_vars

\* At most one live session per screen name
OneLivePerUser == \A i, j \in live : sowner[i] = sowner[j] => i = j

=============================================================================
