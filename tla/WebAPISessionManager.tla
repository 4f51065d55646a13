------------------------ MODULE WebAPISessionManager ------------------------
(***************************************************************************)
(* WebAPISessionManager of state/webapi_session.go: the Web AIM sessions,  *)
(* indexed by aimsid (m.sessions) and by screen name (m.byUser), each with *)
(* an expiry and an event queue, and the cleanup goroutine that removes    *)
(* expired sessions once a minute.  Every method runs under m.mu, so each  *)
(* is one atomic step.  A handler (buddyfeed.go GetBuddylist, PushFeed)    *)
(* calls GetSession and then TouchSession, two steps with the lock         *)
(* released between them; one such request is modelled in flight.         *)
(***************************************************************************)
EXTENDS Naturals, FiniteSets

CONSTANTS
    Users,      \* identity screen names
    Ids,        \* aimsids: generateSessionID draws a fresh one
    NoSession,  \* m.byUser has no entry for the user / no request in flight
    TTL,        \* the 60 minutes of ExpiresAt, in clock ticks
    MaxClock    \* last tick the model reaches

ASSUME NoSession \notin Ids

VARIABLES
    sessions,     \* DOMAIN m.sessions
    byUser,       \* m.byUser: user -> aimsid, or NoSession
    owner,        \* session.ScreenName.IdentScreenName() of each aimsid
    expiresAt,    \* session.ExpiresAt
    queueClosed,  \* session.EventQueue has been closed
    stopped,      \* m.stopCleanup has been closed by Shutdown
    inflight,     \* aimsid a handler got from GetSession and will touch
    clock         \* time.Now(), in ticks

vars == <<sessions, byUser, owner, expiresAt, queueClosed, stopped,
          inflight, clock>>

TypeOK ==
    /\ sessions \subseteq Ids
    /\ byUser \in [Users -> Ids \cup {NoSession}]
    /\ owner \in [Ids -> Users \cup {NoSession}]
    /\ expiresAt \in [Ids -> 0..MaxClock + TTL]
    /\ queueClosed \in [Ids -> BOOLEAN]
    /\ stopped \in BOOLEAN
    /\ inflight \in Ids \cup {NoSession}
    /\ clock \in 0..MaxClock

Init ==
    /\ sessions = {}
    /\ byUser = [u \in Users |-> NoSession]
    /\ owner = [i \in Ids |-> NoSession]
    /\ expiresAt = [i \in Ids |-> 0]
    /\ queueClosed = [i \in Ids |-> FALSE]
    /\ stopped = FALSE
    /\ inflight = NoSession
    /\ clock = 0

\* IsExpired: time.Now().After(s.ExpiresAt)
IsExpired(id) == clock > expiresAt[id]

\* aimsids no session, index entry or handler refers to: drawing one of them
\* is drawing a fresh random 256-bit id
FreeIds ==
    Ids \ (sessions \cup {byUser[u] : u \in Users} \cup {inflight})

(***************************************************************************)
(* CreateSession(screenName): drop the user's existing session from        *)
(* m.sessions, then generate an aimsid.  If crypto/rand fails the error is *)
(* returned there, after the drop and before m.byUser is rewritten.        *)
(***************************************************************************)
CreateSessionRandFails(u) ==
    /\ sessions' = sessions \ {byUser[u]}
    /\ UNCHANGED <<byUser, owner, expiresAt, queueClosed, stopped, inflight,
                   clock>>

\* A variant that does not drop the existing session from m.sessions
CreateSessionKeepOld(u) ==
    \E id \in FreeIds :
        /\ sessions' = sessions \cup {id}
        /\ byUser' = [byUser EXCEPT ![u] = id]
        /\ owner' = [owner EXCEPT ![id] = u]
        /\ expiresAt' = [expiresAt EXCEPT ![id] = clock + TTL]
        /\ queueClosed' = [queueClosed EXCEPT ![id] = FALSE]
        /\ UNCHANGED <<stopped, inflight, clock>>

CreateSession(u) ==
    \/ \E id \in FreeIds :
          /\ sessions' = (sessions \ {byUser[u]}) \cup {id}
          /\ byUser' = [byUser EXCEPT ![u] = id]
          /\ owner' = [owner EXCEPT ![id] = u]
          /\ expiresAt' = [expiresAt EXCEPT ![id] = clock + TTL]
          /\ queueClosed' = [queueClosed EXCEPT ![id] = FALSE]
          /\ UNCHANGED <<stopped, inflight, clock>>
    \/ CreateSessionRandFails(u)

\* RemoveSession(aimsid): ErrNoWebAPISession unless present; else drop it
\* from both maps and close its event queue
RemoveSession(id) ==
    /\ id \in sessions
    /\ sessions' = sessions \ {id}
    /\ byUser' = [byUser EXCEPT ![owner[id]] = NoSession]
    /\ queueClosed' = [queueClosed EXCEPT ![id] = TRUE]
    /\ UNCHANGED <<owner, expiresAt, stopped, inflight, clock>>

\* GetSession(aimsid) succeeds: the session is present and not expired
GetSession(id) == id \in sessions /\ ~IsExpired(id)

\* BuddyFeedHandler.GetBuddylist: a missing aimsid or a failing GetSession
\* answers with an error and changes nothing; otherwise the handler goes
\* on to TouchSession with the lock released
HandlerGetSession(id) ==
    /\ inflight = NoSession
    /\ GetSession(id)
    /\ inflight' = id
    /\ UNCHANGED <<sessions, byUser, owner, expiresAt, queueClosed, stopped,
                   clock>>

\* A variant of Touch that extends from ExpiresAt rather than from now
HandlerTouchFromExpiry ==
    /\ inflight # NoSession
    /\ expiresAt' =
          IF inflight \in sessions
          THEN [expiresAt EXCEPT ![inflight] = expiresAt[inflight] + TTL]
          ELSE expiresAt
    /\ inflight' = NoSession
    /\ UNCHANGED <<sessions, byUser, owner, queueClosed, stopped, clock>>

\* Touch: LastAccessed = now; ExpiresAt moves to now + 60 minutes when that
\* is later than the current ExpiresAt
Touched(id) == IF clock + TTL > expiresAt[id] THEN clock + TTL ELSE expiresAt[id]

\* TouchSession(aimsid): ErrNoWebAPISession if the session is gone;
\* otherwise Touch, under m.mu
TouchSession(id) ==
    expiresAt' = IF id \in sessions
                 THEN [expiresAt EXCEPT ![id] = Touched(id)]
                 ELSE expiresAt

\* The handler then calls TouchSession (an error is only logged) and
\* answers with the empty buddy-list feed, which reads no further state
HandlerTouchSession ==
    /\ inflight # NoSession
    /\ TouchSession(inflight)
    /\ inflight' = NoSession
    /\ UNCHANGED <<sessions, byUser, owner, queueClosed, stopped, clock>>

\* A variant comparing the expiry the wrong way round (ExpiresAt.After(now))
ExpiredNowReversed == {id \in sessions : expiresAt[id] > clock}

\* Expired sessions found by one tick of cleanupExpiredSessions
ExpiredNow == {id \in sessions : IsExpired(id)}

\* One tick of cleanupExpiredSessions: under m.mu, remove every session
\* with now.After(ExpiresAt) from both maps and close its event queue.
\* byUser is cleared by the removed session's own screen name.
CleanupExpiredSessions ==
    /\ ~stopped
    /\ ExpiredNow # {}
    /\ sessions' = sessions \ ExpiredNow
    /\ byUser' = [u \in Users |->
                    IF \E id \in ExpiredNow : owner[id] = u
                    THEN NoSession ELSE byUser[u]]
    /\ queueClosed' = [i \in Ids |-> queueClosed[i] \/ i \in ExpiredNow]
    /\ UNCHANGED <<owner, expiresAt, stopped, inflight, clock>>

\* A variant of Shutdown that closes the queues but keeps both maps
ShutdownKeepMaps ==
    /\ ~stopped
    /\ stopped' = TRUE
    /\ queueClosed' = [i \in Ids |-> queueClosed[i] \/ i \in sessions]
    /\ UNCHANGED <<sessions, byUser, owner, expiresAt, inflight, clock>>

\* Shutdown: close(m.stopCleanup) -- a second call would panic on the closed
\* channel -- then close every queue and replace both maps by empty ones
Shutdown ==
    /\ ~stopped
    /\ stopped' = TRUE
    /\ queueClosed' = [i \in Ids |-> queueClosed[i] \/ i \in sessions]
    /\ sessions' = {}
    /\ byUser' = [u \in Users |-> NoSession]
    /\ UNCHANGED <<owner, expiresAt, inflight, clock>>

Tick ==
    /\ clock < MaxClock
    /\ clock' = clock + 1
    /\ UNCHANGED <<sessions, byUser, owner, expiresAt, queueClosed, stopped,
                   inflight>>

Next ==
    \/ \E u \in Users : CreateSession(u)
    \/ \E id \in Ids : RemoveSession(id) \/ HandlerGetSession(id)
    \/ HandlerTouchSession
    \/ CleanupExpiredSessions
    \/ Shutdown
    \/ Tick

\* The ticker fires every minute for as long as the goroutine runs
Fairness == WF_vars(CleanupExpiredSessions)

Spec == Init /\ [][Next]_vars /\ Fairness

(***************************************************************************)
(* Properties.                                                             *)
(***************************************************************************)

\* At most one live session per screen name: CreateSession drops the user's
\* previous session before adding the new one.
OneSessionPerUser ==
    \A i, j \in sessions : owner[i] = owner[j] => i = j

\* No session reachable through m.sessions has a closed event queue: every
\* path that closes a queue (RemoveSession, cleanupExpiredSessions and
\* Shutdown) also takes the session out of both maps, in the same critical
\* section, so GetSession and GetAllSessions never return a closed one.  (A
\* caller that looked a session up before it was removed still holds it.)
NoLiveSessionWithClosedQueue ==
    \A id \in sessions : ~queueClosed[id]

\* The two indexes agree: GetSessionByUser(u) finds a session exactly when
\* GetSession finds it by its aimsid.
SessionIndexesAgree ==
    /\ \A u \in Users : byUser[u] # NoSession =>
          byUser[u] \in sessions /\ owner[byUser[u]] = u
    /\ \A id \in sessions : byUser[owner[id]] = id

\* A session dropped from m.sessions has its event queue closed, so a fetch
\* long-polling on it is woken (RemoveSession: "Close the event queue to
\* unblock any waiting fetches").
DroppedSessionQueuesClosed ==
    [][\A id \in sessions \ sessions' : queueClosed'[id]]_vars

\* While the cleanup goroutine runs, an expired session is eventually either
\* collected or no longer expired (touched by a request that found it live
\* just before it expired).  Shutdown ends the goroutine.
ExpiredSessionsCollected ==
    \A id \in Ids :
        (id \in sessions /\ IsExpired(id) /\ ~stopped)
            ~> (id \notin sessions \/ ~IsExpired(id) \/ stopped)

\* The manager implements the abstract session registry: its m.sessions,
\* with each session's screen name, only ever changes as SessionRegistry
\* allows -- an open that closes the user's live session, or closes --
\* whatever CreateSession's failure path, RemoveSession, the cleanup tick
\* and Shutdown do to the two maps.
Registry == INSTANCE SessionRegistry WITH live <- sessions, sowner <- owner

ImplementsSessionRegistry == Registry!Spec

=============================================================================
