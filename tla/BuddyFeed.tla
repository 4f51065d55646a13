------------------------------ MODULE BuddyFeed ------------------------------
(***************************************************************************)
(* BuddyFeedManager of state/webapi_buddyfeed.go: the buddy_feeds and      *)
(* buddy_feed_items tables, PushFeed's get-or-create of a user's feed and  *)
(* GetUserFeed, which shows one feed of the user with its items.           *)
(*                                                                         *)
(* PushFeed runs three statements with nothing holding them together: a   *)
(* SELECT of the user's feed (LIMIT 1, no ORDER BY), an INSERT creating    *)
(* one when there is none (CreateFeed), and the INSERT of the item         *)
(* (AddFeedItem).  Concurrent requests interleave between them.  A         *)
(* statement may fail, ending the request with the error.  Times are      *)
(* whole seconds, as the columns store them.                              *)
(***************************************************************************)
EXTENDS Naturals, FiniteSets

CONSTANTS
    Users,      \* screen names pushing to their feed
    Pushes,     \* PushFeed requests
    MaxClock,   \* last second the model reaches
    NoFeed      \* no feed id chosen yet

VARIABLES
    feeds,      \* rows of buddy_feeds: [id, owner, pub] (is_active is always 1)
    items,      \* rows of buddy_feed_items: [push, feed, pub]
    nextId,     \* the rowid the next buddy_feeds INSERT receives
    ppc,        \* ppc[p]: "request", "idle", "create", "add" or "done"
    powner,     \* screenName of request p
    pfeed,      \* feedID request p will add its item to
    clock       \* time.Now().Unix()

vars == <<feeds, items, nextId, ppc, powner, pfeed, clock>>

FeedIds == 1..Cardinality(Pushes)

TypeOK ==
    /\ feeds \subseteq [id: FeedIds, owner: Users, pub: 0..MaxClock]
    /\ items \subseteq [push: Pushes, feed: FeedIds, pub: 0..MaxClock]
    /\ nextId \in 1..Cardinality(Pushes) + 1
    /\ ppc \in [Pushes -> {"request", "idle", "create", "add", "done"}]
    /\ powner \in [Pushes -> Users]
    /\ pfeed \in [Pushes -> FeedIds \cup {NoFeed}]
    /\ clock \in 0..MaxClock

Init ==
    /\ feeds = {}
    /\ items = {}
    /\ nextId = 1
    /\ ppc = [p \in Pushes |-> "request"]
    /\ powner \in [Pushes -> Users]
    /\ pfeed = [p \in Pushes |-> NoFeed]
    /\ clock = 0

\* the active feeds of u
FeedsOf(u) == {f \in feeds : f.owner = u}

\* GetUserFeed: ORDER BY published_at DESC LIMIT 1 -- any of the newest
\* when several share the second
GetUserFeed(u) == {f \in FeedsOf(u) : \A g \in FeedsOf(u) : g.pub <= f.pub}

\* GetFeedItems(feedID, 50): the items of one feed (no run pushes 50)
GetFeedItems(fid) == {i \in items : i.feed = fid}

Done(p) == ppc' = [ppc EXCEPT ![p] = "done"]

(***************************************************************************)
(* The GET /buddyfeed/pushFeed handler, then BuddyFeedManager.PushFeed.    *)
(***************************************************************************)

\* BuddyFeedHandler.PushFeed: no "a" token and no aimsid, an aimsid
\* GetSession does not know, a token request without "s", or a missing
\* feed or item parameter answers with an error before the store is
\* touched.  The screen name is the session's, or with a token the "s"
\* parameter as given (powner); a failing TouchSession is only logged.
PushFeedRequest(p) ==
    /\ ppc[p] = "request"
    /\ \/ ppc' = [ppc EXCEPT ![p] = "idle"]
       \/ Done(p)
    /\ UNCHANGED <<feeds, items, nextId, powner, pfeed, clock>>

\* A variant whose SELECT lost its screen_name condition
PushFeedSelectAnyOwner(p) ==
    /\ ppc[p] = "idle"
    /\ \/ \E f \in feeds :
             /\ pfeed' = [pfeed EXCEPT ![p] = f.id]
             /\ ppc' = [ppc EXCEPT ![p] = "add"]
       \/ /\ feeds = {}
          /\ ppc' = [ppc EXCEPT ![p] = "create"]
          /\ UNCHANGED pfeed
    /\ UNCHANGED <<feeds, items, nextId, powner, clock>>

\* SELECT id FROM buddy_feeds WHERE screen_name = ? AND is_active = 1
\* LIMIT 1: without ORDER BY any of the user's feeds may come back;
\* ErrNoRows leads to CreateFeed; any other error is returned
PushFeedSelect(p) ==
    /\ ppc[p] = "idle"
    /\ \/ \E f \in FeedsOf(powner[p]) :
             /\ pfeed' = [pfeed EXCEPT ![p] = f.id]
             /\ ppc' = [ppc EXCEPT ![p] = "add"]
       \/ /\ FeedsOf(powner[p]) = {}
          /\ ppc' = [ppc EXCEPT ![p] = "create"]
          /\ UNCHANGED pfeed
       \/ /\ Done(p)
          /\ UNCHANGED pfeed
    /\ UNCHANGED <<feeds, items, nextId, powner, clock>>

\* A variant that creates the feed but leaves feedID at its zero value
PushFeedCreateNoId(p) ==
    /\ ppc[p] = "create"
    /\ feeds' = feeds \cup {[id |-> nextId, owner |-> powner[p], pub |-> clock]}
    /\ nextId' = nextId + 1
    /\ ppc' = [ppc EXCEPT ![p] = "add"]
    /\ UNCHANGED <<items, powner, pfeed, clock>>

\* CreateFeed: INSERT ... RETURNING id, published_at = now; feedID is the
\* new id.  A failing INSERT returns "failed to create feed".
PushFeedCreate(p) ==
    /\ ppc[p] = "create"
    /\ \/ /\ feeds' = feeds \cup {[id |-> nextId, owner |-> powner[p], pub |-> clock]}
          /\ nextId' = nextId + 1
          /\ pfeed' = [pfeed EXCEPT ![p] = nextId]
          /\ ppc' = [ppc EXCEPT ![p] = "add"]
       \/ /\ Done(p)
          /\ UNCHANGED <<feeds, nextId, pfeed>>
    /\ UNCHANGED <<items, powner, clock>>

\* AddFeedItem(feedID, item): INSERT the item with published_at = now, then
\* an UPDATE of the feed's updated_at whose result is ignored
PushFeedAdd(p) ==
    /\ ppc[p] = "add"
    /\ \/ items' = items \cup {[push |-> p, feed |-> pfeed[p], pub |-> clock]}
       \/ UNCHANGED items                         \* the INSERT fails
    /\ Done(p)
    /\ UNCHANGED <<feeds, nextId, powner, pfeed, clock>>

Tick ==
    /\ clock < MaxClock
    /\ clock' = clock + 1
    /\ UNCHANGED <<feeds, items, nextId, ppc, powner, pfeed>>

Next ==
    \/ \E p \in Pushes : \/ PushFeedRequest(p)
                         \/ PushFeedSelect(p) \/ PushFeedCreate(p) \/ PushFeedAdd(p)
    \/ Tick

Spec == Init /\ [][Next]_vars

(***************************************************************************)
(* Properties.                                                             *)
(***************************************************************************)

\* An item a user pushed is missing from the feed GetUserFeed shows only
\* when the user has more than one feed: two PushFeed requests both found
\* no feed and both created one, and the item went to the other feed.
ItemsHiddenOnlyByDuplicateFeeds ==
    \A i \in items : \A f \in GetUserFeed(powner[i.push]) :
        i \notin GetFeedItems(f.id) => Cardinality(FeedsOf(powner[i.push])) > 1

=============================================================================
