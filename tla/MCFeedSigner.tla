----------------------------- MODULE MCFeedSigner -----------------------------
EXTENDS FeedSigner

MCListed == <<"node", "app">>
MCLast == [node |-> 2, app |-> 1]
MCShips == [node |-> {"linux", "macos"}, app |-> {"linux", "headless"}]
MCExempt == [node |-> {}, app |-> {"macos"}]
MCBuild == [v \in 1..2 |-> v]
MCFloors == <<0, 2, 1>>
=============================================================================
