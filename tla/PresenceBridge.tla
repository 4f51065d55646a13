--------------------------- MODULE PresenceBridge ---------------------------
(***************************************************************************)
(* WebAPIPresenceBridge of state/webapi_presence_bridge.go: the presence   *)
(* events OSCAR sign-ons and sign-offs send to Web AIM sessions, composed  *)
(* with the feedbag relationships of FeedbagStore.                         *)
(*                                                                         *)
(* A broadcast runs without any lock: findSessionsWithBuddy snapshots the  *)
(* Web sessions and asks hasBuddy of each (database reads), the arrival    *)
(* reads the buddy's presence, and the loop then pushes an event into each *)
(* session's queue.  A new Web session gets PushInitialBuddyList: a        *)
(* snapshot of the buddy list with each buddy's state, pushed afterwards.  *)
(* A session's view of a buddy is the last presence it was sent: events    *)
(* of one queue reach the client in push order.  The feedbag is fixed      *)
(* during a behaviour (any initial one); a session subscribes to the event *)
(* types it was created with, any subset of "presence" and "buddylist".    *)
(*                                                                         *)
(* Relationship and GetBuddyListForUser live outside state/: Relationship  *)
(* is the derived view of spec section 1 (deny items either way), and the  *)
(* buddy list is every buddy item of the feedbag; both may fail.           *)
(***************************************************************************)
EXTENDS Naturals, FiniteSets

CONSTANTS
    Users,               \* screen names
    OSCARUsers,          \* those that sign on to OSCAR in the model
    WebUsers,            \* those that start a Web AIM session in the model
    Items,               \* feedbag items (as in FeedbagStore)
    MaxFlips,            \* sign-ons plus sign-offs per user
    RelationshipErrors,  \* whether Relationship() may return an error
    FeedbagErrors        \* whether RetrieveFeedbag / GetBuddyListForUser may fail

VARIABLES
    feedbag,    \* the feedbag table, fixed after Init
    online,     \* online[b]: b has an OSCAR session
    flips,      \* sign-ons and sign-offs of each user so far
    wpc,        \* wpc[w]: w's Web session: "off", "listing", "pushing", "on"
    subs,       \* subs[w]: the event types w's session subscribed to
    snap,       \* snap[w]: states GetBuddyListForUser read for w
    view,       \* view[w][b]: last presence of b pushed to w: none/online/offline
    inflight    \* broadcasts that have started and not finished pushing

vars == <<feedbag, online, flips, wpc, subs, snap, view, inflight>>

FB == INSTANCE FeedbagStore WITH clock <- 1, MaxBatch <- 1, MaxClock <- 1

States == {"online", "offline"}

EventTypes == {"presence", "buddylist"}

\* a broadcast: n-th flip of who, kind, stage, info pushed, target sessions
Broadcast == [who: Users, n: 1..MaxFlips, kind: {"arrived", "departed", "status"},
              stage: {"find", "push"}, info: States \cup {"none"},
              targets: SUBSET Users]

\* the rows the items make, as FeedbagUpsert writes them
ItemRows == {[group |-> i.group, item |-> i.item, class |-> i.class,
              name |-> i.name, lm |-> 1] : i \in Items}

\* Web users with a session in WebAPISessionManager (GetAllSessions)
Web == {w \in Users : wpc[w] # "off"}

TypeOK ==
    /\ feedbag \in [Users -> SUBSET FB!Row]
    /\ online \in [Users -> BOOLEAN]
    /\ flips \in [Users -> 0..MaxFlips]
    /\ wpc \in [Users -> {"off", "listing", "pushing", "on"}]
    /\ subs \in [Users -> SUBSET EventTypes]
    /\ snap \in [Users -> [Users -> States]]
    /\ view \in [Users -> [Users -> States \cup {"none"}]]
    /\ inflight \subseteq Broadcast

Init ==
    /\ feedbag \in [Users -> {rows \in SUBSET ItemRows :
                                 \A r1, r2 \in rows : FB!Key(r1) = FB!Key(r2) => r1 = r2}]
    /\ online = [b \in Users |-> FALSE]
    /\ flips = [b \in Users |-> 0]
    /\ wpc = [w \in Users |-> "off"]
    /\ subs = [w \in Users |-> {}]
    /\ snap = [w \in Users |-> [b \in Users |-> "offline"]]
    /\ view = [w \in Users |-> [b \in Users |-> "none"]]
    /\ inflight = {}

\* A variant reporting an offline buddy with the zero State ""
GetPresenceForBuddyZeroState(b) == IF online[b] THEN "online" ELSE ""

\* buddyListManager.GetPresenceForBuddy: the buddy's current state
GetPresenceForBuddy(b) == IF online[b] THEN "online" ELSE "offline"

\* Relationship(user, buddy) as spec section 1 derives it from the deny
\* items of both feedbags
Relationship(w, b) == [YouBlock |-> FB!Blocks(w, b), BlocksYou |-> FB!Blocks(b, w)]

HasBuddy(w, b, relErr, fbErr) ==
    /\ relErr \/ ~(Relationship(w, b).YouBlock \/ Relationship(w, b).BlocksYou)
    /\ ~fbErr
    /\ FB!ListsBuddy(w, b)

\* Sets of sessions whose Relationship call, or RetrieveFeedbag call, fails
\* in one broadcast
RelErrorSets == IF RelationshipErrors THEN SUBSET Users ELSE {{}}
FeedbagErrorSets == IF FeedbagErrors THEN SUBSET Users ELSE {{}}

(***************************************************************************)
(* OSCAR sign-on, sign-off and status change, each starting its broadcast. *)
(***************************************************************************)
StartBroadcast(b, kind) ==
    inflight' = inflight \cup
        {[who |-> b, n |-> flips[b] + 1, kind |-> kind, stage |-> "find",
          info |-> "none", targets |-> {}]}

SignOn(b) ==
    /\ b \in OSCARUsers
    /\ ~online[b]
    /\ flips[b] < MaxFlips
    /\ online' = [online EXCEPT ![b] = TRUE]
    /\ flips' = [flips EXCEPT ![b] = @ + 1]
    /\ StartBroadcast(b, "arrived")
    /\ UNCHANGED <<feedbag, wpc, subs, snap, view>>

SignOff(b) ==
    /\ online[b]
    /\ flips[b] < MaxFlips
    /\ online' = [online EXCEPT ![b] = FALSE]
    /\ flips' = [flips EXCEPT ![b] = @ + 1]
    /\ StartBroadcast(b, "departed")
    /\ UNCHANGED <<feedbag, wpc, subs, snap, view>>

\* An online user's away message or idle time changes: the same fan-out,
\* sending the presence read after findSessionsWithBuddy
BroadcastBuddyStatusUpdate(b) ==
    /\ online[b]
    /\ flips[b] < MaxFlips
    /\ flips' = [flips EXCEPT ![b] = @ + 1]
    /\ StartBroadcast(b, "status")
    /\ UNCHANGED <<feedbag, online, wpc, subs, snap, view>>

\* findSessionsWithBuddy over GetAllSessions, then (arrival and status
\* update) GetPresenceForBuddy; a departure always says "offline"
FindSessionsWithBuddy(r) ==
    /\ r \in inflight
    /\ r.stage = "find"
    /\ \E errs \in RelErrorSets, fbErrs \in FeedbagErrorSets :
          inflight' = (inflight \ {r}) \cup
             {[r EXCEPT !.stage = "push",
                        !.targets = {w \in Web : HasBuddy(w, r.who, w \in errs, w \in fbErrs)},
                        !.info = IF r.kind \in {"arrived", "status"}
                                 THEN GetPresenceForBuddy(r.who)
                                 ELSE "offline"]}
    /\ UNCHANGED <<feedbag, online, flips, wpc, subs, snap, view>>

PushPresence(r) ==
    /\ r \in inflight
    /\ r.stage = "push"
    /\ view' = [w \in Users |->
                  IF w \in r.targets /\ "presence" \in subs[w] THEN [view[w] EXCEPT ![r.who] = r.info]
                  ELSE view[w]]
    /\ inflight' = inflight \ {r}
    /\ UNCHANGED <<feedbag, online, flips, wpc, subs, snap>>

(***************************************************************************)
(* A Web session starts (CreateSession: a new, empty queue), then          *)
(* PushInitialBuddyList reads the buddy list with states and pushes it.    *)
(***************************************************************************)
StartWebSession(w) ==
    /\ w \in WebUsers
    /\ wpc[w] = "off"
    /\ \E events \in SUBSET EventTypes : subs' = [subs EXCEPT ![w] = events]
    /\ wpc' = [wpc EXCEPT ![w] = "listing"]
    /\ view' = [view EXCEPT ![w] = [b \in Users |-> "none"]]
    /\ UNCHANGED <<feedbag, online, flips, snap, inflight>>

\* PushInitialBuddyList up to its GetBuddyListForUser call: nothing when the
\* session did not subscribe to "buddylist", nothing pushed when the call
\* fails; else the buddies' states as read now
GetBuddyListForUser(w) ==
    /\ wpc[w] = "listing"
    /\ \/ /\ "buddylist" \notin subs[w]
          /\ wpc' = [wpc EXCEPT ![w] = "on"]
          /\ UNCHANGED snap
       \/ /\ "buddylist" \in subs[w]
          /\ FeedbagErrors
          /\ wpc' = [wpc EXCEPT ![w] = "on"]
          /\ UNCHANGED snap
       \/ /\ "buddylist" \in subs[w]
          /\ wpc' = [wpc EXCEPT ![w] = "pushing"]
          /\ snap' = [snap EXCEPT ![w] = [b \in Users |-> GetPresenceForBuddy(b)]]
    /\ UNCHANGED <<feedbag, online, flips, subs, view, inflight>>

\* Push the buddylist event (every buddy item of the feedbag with its
\* state) and a presence event for each buddy not offline
PushInitialBuddyList(w) ==
    /\ wpc[w] = "pushing"
    /\ wpc' = [wpc EXCEPT ![w] = "on"]
    /\ view' = [view EXCEPT ![w] =
                  [b \in Users |-> IF FB!ListsBuddy(w, b) THEN snap[w][b]
                                   ELSE view[w][b]]]
    /\ UNCHANGED <<feedbag, online, flips, subs, snap, inflight>>

Next ==
    \/ \E b \in Users : SignOn(b) \/ SignOff(b) \/ BroadcastBuddyStatusUpdate(b)
    \/ \E r \in inflight : FindSessionsWithBuddy(r) \/ PushPresence(r)
    \/ \E w \in Users : \/ StartWebSession(w)
                        \/ GetBuddyListForUser(w)
                        \/ PushInitialBuddyList(w)

Spec == Init /\ [][Next]_vars

(***************************************************************************)
(* Properties.                                                             *)
(***************************************************************************)

Quiet == inflight = {} /\ \A w \in Users : wpc[w] \in {"off", "on"}

PresenceViewsCurrent ==
    Quiet => \A w \in Web, b \in Users :
                subs[w] = EventTypes /\ b \in FB!Buddies(w) => (view[w][b] = "online" <=> online[b])

=============================================================================
