------------------------------ MODULE ChatNav ------------------------------
(***************************************************************************)
(* Chat rooms: ChatNav's CreateRoom and RequestRoomInfo (server/chat_nav.go)*)
(* over the chat registry, the chat login of AuthService.VerifyChatLogin,  *)
(* and AuthService.SignoutChat (handler/auth.go).                          *)
(*                                                                         *)
(* The registry (cookie -> room) and a room's session manager each have    *)
(* their own lock, so a registry call and a room call are separate steps.  *)
(* The registry and the chat service's join are not under src/: they are  *)
(* modelled from the spec (section 4.7): Register, Retrieve, MaybeRemoveRoom*)
(* (remove the room when its session manager is empty) and the join that   *)
(* adds the session to the room it retrieved.  A client is one BOS session *)
(* that creates a room, or is invited to one and asks for its info.        *)
(***************************************************************************)
EXTENDS FiniteSets

CONSTANTS
    Sess,      \* BOS sessions of chat clients (sess.ID)
    Rooms,     \* room cookies: uuid.New() draws a fresh one
    NoRoom     \* the client holds no room cookie

VARIABLES
    registry,  \* cookies of the rooms the chat registry holds
    occupants, \* occupants[r]: sessions in room r's session manager
    used,      \* cookies drawn so far (a uuid is never drawn twice)
    cpc,       \* cpc[s]: the client's stage
    cookie,    \* cookie[s]: the room cookie client s holds
    creator    \* history: creator[r], the session CreateRoom added to room r

vars == <<registry, occupants, used, cpc, cookie, creator>>

Stages == {"idle", "created", "invited", "joining", "in", "leaving", "done"}

TypeOK ==
    /\ registry \subseteq Rooms
    /\ occupants \in [Rooms -> SUBSET Sess]
    /\ used \subseteq Rooms
    /\ cpc \in [Sess -> Stages]
    /\ cookie \in [Sess -> Rooms \cup {NoRoom}]
    /\ creator \in [Rooms -> Sess \cup {NoRoom}]

Init ==
    /\ registry = {}
    /\ occupants = [r \in Rooms |-> {}]
    /\ used = {}
    /\ cpc = [s \in Sess |-> "idle"]
    /\ cookie = [s \in Sess |-> NoRoom]
    /\ creator = [r \in Rooms |-> NoRoom]

\* ChatRegistry.Retrieve(cookie): found while the room is registered
Retrieve(r) == r \in registry

Stage(s, from, to) ==
    /\ cpc[s] = from
    /\ cpc' = [cpc EXCEPT ![s] = to]

(***************************************************************************)
(* ChatNav.                                                                *)
(***************************************************************************)

\* SendAndReceiveCreateRoom: an unreadable payload or no name (TLV 0xd3)
\* returns an error.  Otherwise a room with a fresh uuid is registered and
\* the creator is added to its new session manager; nobody knows the cookie
\* before the reply, so the two calls form one step here.  The NavInfo
\* reply carrying the cookie may then fail to be written.
CreateRoom(s) ==
    /\ cpc[s] = "idle"
    /\ \/ /\ Stage(s, "idle", "done")
          /\ UNCHANGED <<registry, occupants, used, cookie, creator>>
       \/ \E r \in Rooms \ used :
             /\ registry' = registry \cup {r}
             /\ occupants' = [occupants EXCEPT ![r] = {s}]
             /\ used' = used \cup {r}
             /\ creator' = [creator EXCEPT ![r] = s]
             /\ \/ /\ Stage(s, "idle", "created")
                   /\ cookie' = [cookie EXCEPT ![s] = r]
                \/ /\ Stage(s, "idle", "done")         \* writeOutSNAC fails
                   /\ UNCHANGED cookie

\* SendAndReceiveRequestRoomInfo for the cookie of an invitation: an
\* error unless the registry still holds the room
RequestRoomInfo(s, r) ==
    /\ r \in used
    /\ \/ /\ Retrieve(r)
          /\ Stage(s, "idle", "invited")
          /\ cookie' = [cookie EXCEPT ![s] = r]
       \/ /\ ~Retrieve(r)
          /\ Stage(s, "idle", "done")
          /\ UNCHANGED cookie
    /\ UNCHANGED <<registry, occupants, used, creator>>

(***************************************************************************)
(* The chat connection: VerifyChatLogin reads the chat cookie from the     *)
(* signon frame (or fails); the chat service retrieves the room, then adds *)
(* the session to the room's session manager.  SignoutChat on close.       *)
(***************************************************************************)
\* A variant whose caller keeps the zero ChatCookie VerifyChatLogin returns
\* along with an unmarshalling error
VerifyChatLoginZeroCookie(s) ==
    /\ cpc[s] \in {"created", "invited"}
    /\ \/ /\ Retrieve(cookie[s])
          /\ cpc' = [cpc EXCEPT ![s] = "joining"]
          /\ UNCHANGED cookie
       \/ /\ cpc' = [cpc EXCEPT ![s] = "done"]
          /\ cookie' = [cookie EXCEPT ![s] = ""]
    /\ UNCHANGED <<registry, occupants, used, creator>>

\* The signon frame or the cookie cannot be read: the error closes the
\* connection; otherwise the room is looked up by the cookie
VerifyChatLogin(s) ==
    /\ cpc[s] \in {"created", "invited"}
    /\ \/ /\ Retrieve(cookie[s])
          /\ cpc' = [cpc EXCEPT ![s] = "joining"]
       \/ cpc' = [cpc EXCEPT ![s] = "done"]    \* read error, or no such room
    /\ UNCHANGED <<registry, occupants, used, cookie, creator>>

\* The room object retrieved before, whether or not still registered
JoinRoom(s) ==
    /\ Stage(s, "joining", "in")
    /\ occupants' = [occupants EXCEPT ![cookie[s]] = @ \cup {s}]
    /\ UNCHANGED <<registry, used, cookie, creator>>

\* A variant that removes the session and never calls MaybeRemoveRoom
SignoutChatNoRemoveRoom(s) ==
    /\ Stage(s, "in", "done")
    /\ occupants' = [occupants EXCEPT ![cookie[s]] = @ \ {s}]
    /\ UNCHANGED <<registry, used, cookie, creator>>

\* A variant that never calls chatSessManager.Remove
SignoutChatNoRemove(s) ==
    /\ Stage(s, "in", "leaving")
    /\ UNCHANGED <<registry, occupants, used, cookie, creator>>

\* SignoutChat: alertUserLeft, then chatSessManager.Remove(sess) ...
SignoutChat(s) ==
    /\ Stage(s, "in", "leaving")
    /\ occupants' = [occupants EXCEPT ![cookie[s]] = @ \ {s}]
    /\ UNCHANGED <<registry, used, cookie, creator>>

\* ... then cr.MaybeRemoveRoom(cookie): remove the room when it is empty
MaybeRemoveRoom(s) ==
    /\ Stage(s, "leaving", "done")
    /\ registry' = IF occupants[cookie[s]] = {} THEN registry \ {cookie[s]}
                   ELSE registry
    /\ UNCHANGED <<occupants, used, cookie, creator>>

\* routeChatNav and the chat connection's steps
Next ==
    \E s \in Sess :
        \/ CreateRoom(s)
        \/ \E r \in Rooms : RequestRoomInfo(s, r)
        \/ VerifyChatLogin(s)
        \/ JoinRoom(s)
        \/ SignoutChat(s)
        \/ MaybeRemoveRoom(s)

\* The server finishes what a connection started: the join after the
\* room was retrieved, and MaybeRemoveRoom after Remove, run in the same
\* goroutine without waiting on the client
Fairness == \A s \in Sess : WF_vars(JoinRoom(s)) /\ WF_vars(MaybeRemoveRoom(s))

Spec == Init /\ [][Next]_vars /\ Fairness

(***************************************************************************)
(* Properties.                                                             *)
(***************************************************************************)

\* A room the last participant has left is eventually removed from the
\* registry (spec 4.7), unless someone joins it first: SignoutChat's
\* Remove and MaybeRemoveRoom, and concurrent joins, never leave an empty
\* room registered for good.
EmptyRoomsRemoved ==
    \A r \in Rooms :
        (r \in registry /\ occupants[r] = {})
            ~> (r \notin registry \/ occupants[r] # {})

\* Nobody is in a room the registry no longer holds: a join never lands in
\* a room MaybeRemoveRoom has just removed, so RequestRoomInfo and chat
\* logins find every room that has occupants.
NoOccupantOfRemovedRoom ==
    \A r \in Rooms : occupants[r] # {} => r \in registry

\* The only session left in a room after its connection has ended is the
\* room's creator that never signed on to it: CreateRoom adds the creator to
\* the room's session manager before the creator connects, so when the
\* NavInfo reply or the creator's chat login fails, nothing ever removes it
\* and the room stays registered for good.  Every session that joined
\* leaves through SignoutChat's Remove.
GhostOccupantsAreCreators ==
    \A r \in Rooms, s \in Sess :
        (s \in occupants[r] /\ cpc[s] = "done") => creator[r] = s

=============================================================================
