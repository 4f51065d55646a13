--------------------------- MODULE OfflineDelivery ---------------------------
(***************************************************************************)
(* Instant messages to one Web AIM recipient, as WebAPIMessageBridge of    *)
(* state/webapi_message_bridge.go delivers them.                           *)
(*                                                                         *)
(* A sender's IM goes through BridgeOSCARMessage -> DeliverMessage, which  *)
(* pushes it to the recipient's Web sessions subscribed to "im" and        *)
(* returns an error when none is; the ICBM path then stores it as an       *)
(* offline message.  When a Web session starts, DeliverOfflineMessages     *)
(* is called with that session: it retrieves the stored messages, pushes   *)
(* each one into the session it was passed, and then deletes all of the    *)
(* recipient's offline messages.  Retrieve and delete are two database     *)
(* calls: a delivery is in flight between them.  The session it was       *)
(* passed may have been replaced or removed by the time it pushes.         *)
(*                                                                         *)
(* DeliverMessage finds the recipient's sessions under m.mu (GetSessions-  *)
(* ByScreenName) and pushes after releasing it: a session removed or       *)
(* replaced in between takes the push into a queue nobody fetches.  The    *)
(* typing, data-IM and buddy-added notifications push the same way, and    *)
(* store nothing.                                                          *)
(***************************************************************************)
EXTENDS Naturals, FiniteSets

CONSTANTS
    Msgs,        \* the instant messages senders send to the recipient
    TextMsgs,    \* those whose SNAC is a channel message with a 0x0002 TLV
                 \* holding text; the rest carry no text BridgeOSCARMessage finds
    Deliveries,  \* DeliverOfflineMessages calls (one per Web session start)
    EventTypes,  \* event types a session may subscribe to ("im", "offlineIM",
                 \* and the notification types)
    MaxPush,     \* bound on how often one message is pushed
    MaxStarts    \* bound on how many Web sessions the recipient starts

VARIABLES
    unsent,      \* messages no sender has sent yet
    stored,      \* the recipient's rows in the offline message table
    pushed,      \* pushed[m]: IM/offlineIM events carrying m in the queues
    events,      \* Events of the recipient's live Web session; {} if none
    dpc,         \* dpc[d]: "idle", "called" (before the retrieve), "pushed"
                 \* (between the two database calls), "done"
    dlive,       \* dlive[d]: the session d was passed is still the live one
    raced,       \* history: messages stored while a delivery was in flight
    redo,        \* history: messages left for a second delivery to push again
    pending,     \* messages DeliverMessage found a subscribed session for,
                 \* not yet pushed
    stale,       \* those whose session has since been removed or replaced
    lostPush,    \* history: messages pushed into a removed or replaced
                 \* session's queue
    notified,    \* notification types pushed to the live session
    starts       \* Web sessions the recipient has started so far

vars == <<unsent, stored, pushed, events, dpc, dlive, raced, redo, pending, stale,
          lostPush, notified, starts>>

TypeOK ==
    /\ unsent \subseteq Msgs
    /\ stored \subseteq Msgs
    /\ pushed \in [Msgs -> 0..MaxPush]
    /\ events \subseteq EventTypes
    /\ dpc \in [Deliveries -> {"idle", "called", "pushed", "done"}]
    /\ dlive \in [Deliveries -> BOOLEAN]
    /\ raced \subseteq Msgs /\ redo \subseteq Msgs
    /\ stale \subseteq pending /\ pending \subseteq Msgs
    /\ lostPush \subseteq Msgs
    /\ notified \subseteq EventTypes
    /\ starts \in 0..MaxStarts

Init ==
    /\ unsent = Msgs
    /\ stored = {}
    /\ pushed = [m \in Msgs |-> 0]
    /\ events = {}
    /\ dpc = [d \in Deliveries |-> "idle"]
    /\ dlive = [d \in Deliveries |-> FALSE]
    /\ raced = {} /\ redo = {}
    /\ pending = {} /\ stale = {} /\ lostPush = {}
    /\ notified = {}
    /\ starts = 0

InFlight == \E d \in Deliveries : dpc[d] = "pushed"

\* IsSubscribedTo(eventType) of the recipient's session
IsSubscribedTo(t) == t \in events

\* Push one event for each message of ms
PushAll(ms) == [m \in Msgs |-> IF m \in ms THEN pushed[m] + 1 ELSE pushed[m]]

(***************************************************************************)
(* The sender's path.  DeliverMessage finds the recipient's session; with  *)
(* none, or none subscribed to "im" (a session's Events never change), it  *)
(* returns an error and the message is stored offline instead.  Otherwise  *)
(* it pushes after m.mu is released and returns nil.                       *)
(***************************************************************************)
DeliverMessageDeliveredAlways(m) ==
    /\ m \in unsent
    /\ unsent' = unsent \ {m}
    /\ \/ /\ IsSubscribedTo("im")
          /\ pending' = pending \cup {m}
          /\ UNCHANGED <<stored, raced, redo>>
       \/ /\ events # {} /\ ~IsSubscribedTo("im")
          /\ UNCHANGED <<pending, stored, raced, redo>>
       \/ /\ events = {}
          /\ stored' = stored \cup {m}
          /\ raced' = IF InFlight THEN raced \cup {m} ELSE raced
          /\ UNCHANGED pending
    /\ UNCHANGED <<pushed, events, dpc, dlive, redo, stale, lostPush, notified, starts>>

DeliverMessage(m) ==
    /\ m \in unsent
    /\ unsent' = unsent \ {m}
    /\ \/ /\ IsSubscribedTo("im")
          /\ pending' = pending \cup {m}
          /\ UNCHANGED <<stored, raced, redo>>
       \/ /\ ~IsSubscribedTo("im")
          /\ stored' = stored \cup {m}
          /\ raced' = IF InFlight THEN raced \cup {m} ELSE raced
          /\ UNCHANGED pending
    /\ UNCHANGED <<pushed, events, dpc, dlive, redo, stale, lostPush, notified, starts>>

\* The push loop: EventQueue.Push on the session found.  If that session
\* has left m.sessions its queue is closed and unreachable: no fetch finds
\* it again, and the message is gone while DeliverMessage returns nil.
DeliverMessagePush(m) ==
    /\ m \in pending
    /\ pending' = pending \ {m}
    /\ stale' = stale \ {m}
    /\ \/ /\ m \notin stale
          /\ pushed' = PushAll({m})
          /\ UNCHANGED lostPush
       \/ /\ m \in stale
          /\ lostPush' = lostPush \cup {m}
          /\ UNCHANGED pushed
    /\ UNCHANGED <<unsent, stored, events, dpc, dlive, raced, redo, notified, starts>>

\* BridgeOSCARMessage: a SNAC of another type, or one without a non-empty
\* 0x0002 TLV, returns nil without calling DeliverMessage -- the sender's
\* path sees no error and stores nothing
BridgeOSCARMessage(m) ==
    \/ /\ m \in TextMsgs
       /\ DeliverMessage(m)
    \/ /\ m \in unsent \ TextMsgs
       /\ unsent' = unsent \ {m}
       /\ UNCHANGED <<stored, pushed, events, dpc, dlive, raced, redo, pending,
                      stale, lostPush, notified, starts>>

\* A notification finds the recipient's sessions and pushes an event of
\* type t to those subscribed; with none it returns nil and nothing is
\* stored.  A push into a session removed meanwhile changes nothing
\* visible, so find and push are one step here.  Types already pushed to
\* the live session are not pushed again (a bound of the model).
Notify(t) ==
    /\ IsSubscribedTo(t)
    /\ t \notin notified
    /\ notified' = notified \cup {t}
    /\ UNCHANGED <<unsent, stored, pushed, events, dpc, dlive, raced, redo, pending,
                   stale, lostPush, starts>>

DeliverTypingNotification == Notify("typing")

HandleDataMessage == Notify("dataIM")

NotifyUserAddedToBuddyList == Notify("userAddedToBuddyList")

\* A Web session starts (CreateSession) with the events it subscribes to;
\* it replaces any earlier session of the recipient, whose pending pushes
\* become stale
StartSession ==
    \E es \in SUBSET EventTypes :
        /\ events' = es
        /\ starts < MaxStarts
        /\ starts' = starts + 1
        /\ stale' = pending
        /\ dlive' = [d \in Deliveries |-> FALSE]
        /\ notified' = {}
        /\ UNCHANGED <<unsent, stored, pushed, dpc, raced, redo, pending, lostPush>>

\* The recipient's Web session is removed or expires
EndSession ==
    /\ events # {}
    /\ events' = {}
    /\ stale' = pending
    /\ dlive' = [d \in Deliveries |-> FALSE]
    /\ notified' = {}
    /\ UNCHANGED <<unsent, stored, pushed, dpc, raced, redo, pending, lostPush, starts>>

(***************************************************************************)
(* DeliverOfflineMessages(session), called for the live session: return   *)
(* unless that session is subscribed to "offlineIM".                       *)
(***************************************************************************)
DeliverOfflineCall(d) ==
    /\ dpc[d] = "idle"
    /\ events # {}
    /\ \/ /\ IsSubscribedTo("offlineIM")
          /\ dpc' = [dpc EXCEPT ![d] = "called"]
          /\ dlive' = [dlive EXCEPT ![d] = TRUE]
       \/ /\ ~IsSubscribedTo("offlineIM")
          /\ dpc' = [dpc EXCEPT ![d] = "done"]
          /\ UNCHANGED dlive
    /\ UNCHANGED <<unsent, stored, pushed, events, raced, redo, pending, stale,
                   lostPush, notified, starts>>

\* RetrieveMessages (which may fail); return if there are none; push an
\* offlineIM event for each into the session the call was passed.  If that
\* session has been replaced or removed, its queue is one no fetch reaches.
DeliverOfflineRetrieve(d) ==
    /\ dpc[d] = "called"
    /\ \/ /\ stored # {}
          /\ \A m \in stored : pushed[m] < MaxPush
          /\ dpc' = [dpc EXCEPT ![d] = "pushed"]
          /\ redo' = IF InFlight THEN redo \cup stored ELSE redo
          /\ \/ /\ dlive[d]
                /\ pushed' = PushAll(stored)
                /\ UNCHANGED lostPush
             \/ /\ ~dlive[d]
                /\ lostPush' = lostPush \cup stored
                /\ UNCHANGED pushed
       \/ \* nothing stored, or RetrieveMessages failed: the call returns
          \* without pushing and without deleting
          /\ dpc' = [dpc EXCEPT ![d] = "done"]
          /\ UNCHANGED <<pushed, redo, lostPush>>
    /\ UNCHANGED <<unsent, stored, events, dlive, raced, pending, stale, notified, starts>>

\* A variant whose DELETE matches no row of the recipient
DeliverOfflineDeleteNone(d) ==
    /\ dpc[d] = "pushed"
    /\ dpc' = [dpc EXCEPT ![d] = "done"]
    /\ UNCHANGED <<unsent, stored, pushed, events, dlive, raced, redo, pending, stale,
                   lostPush, notified, starts>>

\* Second part: DeleteMessages removes every offline message of the
\* recipient; an error is only logged, leaving the pushed messages stored
\* for the next delivery to push again
DeliverOfflineDelete(d) ==
    /\ dpc[d] = "pushed"
    /\ \/ /\ stored' = {}
          /\ UNCHANGED redo
       \/ /\ redo' = redo \cup stored   \* DeleteMessages returns an error
          /\ UNCHANGED stored
    /\ dpc' = [dpc EXCEPT ![d] = "done"]
    /\ UNCHANGED <<unsent, pushed, events, dlive, raced, pending, stale, lostPush,
                   notified, starts>>

Next ==
    \/ \E m \in Msgs : BridgeOSCARMessage(m) \/ DeliverMessagePush(m)
    \/ DeliverTypingNotification
    \/ HandleDataMessage
    \/ NotifyUserAddedToBuddyList
    \/ StartSession
    \/ EndSession
    \/ \E d \in Deliveries : \/ DeliverOfflineCall(d)
                             \/ DeliverOfflineRetrieve(d)
                             \/ DeliverOfflineDelete(d)

Spec == Init /\ [][Next]_vars

(***************************************************************************)
(* Properties.                                                             *)
(***************************************************************************)

\* A message is sent when it has left unsent; it is lost when it is neither
\* stored offline, nor on its way to a session, nor was ever pushed to a live
\* session
Lost == {m \in Msgs \ unsent : m \notin stored \cup pending /\ pushed[m] = 0}

LossOnlyByRaces == Lost \subseteq raced \cup lostPush \cup (Msgs \ TextMsgs)

\* A message is pushed to the recipient a second time only when a delivery
\* left it behind: its DeleteMessages failed after pushing it, or a second
\* DeliverOfflineMessages retrieved it while the first was between its
\* retrieve and its delete.  A successful delivery never lets a message it
\* pushed be pushed again, whatever DeliverMessage and sessions do.
PushedAgainOnlyAfterLeftBehind == \A m \in Msgs : pushed[m] > 1 => m \in redo

\* No message is pushed to the recipient twice.
PushedAtMostOnce == \A m \in Msgs : pushed[m] <= 1

=============================================================================
