SPECIFICATION Spec
CONSTANTS
    alice = alice  carol = carol
    User = {alice, carol}
    Post = {p1}
    Author <- OneAuthor
    Follows <- FollowsA
    Writer = {w1, w2}
    Reader = {r1}
    FeedLength = 1
    MaxVersion = 2
    MaxFeed = 2
    OnePostPerUser = FALSE
    FriendsInPostgres = TRUE
    Lag = TRUE
    Fault = {"pool", "publish", "channel", "restart"}
INVARIANTS TypeOK CurrentUntilInvalidated
CHECK_DEADLOCK FALSE
