-------------------------------- MODULE MCFeed --------------------------------
(* Instance of Feed for TLC. *)
EXTENDS FeedProps

CONSTANTS alice, carol

\* One author and one follower.
OneAuthor == [p \in Post |-> alice]
FollowsA == {<<carol, alice>>}
==============================================================================
