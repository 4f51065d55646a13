CONSTANTS
    Msgs = {m1, m2, m3}
    TextMsgs = {m1, m2}
    Deliveries = {d1, d2}
    EventTypes = {"im", "offlineIM", "typing", "dataIM", "userAddedToBuddyList"}
    MaxPush = 2
    MaxStarts = 2
SPECIFICATION Spec
INVARIANT LossOnlyByRaces
INVARIANT PushedAgainOnlyAfterLeftBehind
\* The model stops once MaxStarts sessions have started and every message
\* and delivery has finished; that end is the bound, not a deadlock.
CHECK_DEADLOCK FALSE
