\* One request of each kind and two subscribers, under fairness.
SPECIFICATION FairSpec
CONSTANTS
    Responds = {r1}
    Retrieves = {q1}
    Cancels = {c1}
    Acks = {a1}
    Sockets = {s1, s2}
    DatabaseFails = FALSE
    None = None
INVARIANTS SubscriberIffWaiting
PROPERTIES RecordEventuallyExpires RespondReachesSubscriber
CHECK_DEADLOCK FALSE
