------------------------------- MODULE MCBroker -------------------------------
(***************************************************************************)
(* Two channels, each on a scale of its own, with one release a feed.        *)
(***************************************************************************)
EXTENDS Broker

MCOffers == [stable |-> {1}, nightly |-> {9}]

\* Release 9 declares release 8, the one of a host brought over, vulnerable.
MCFloorOf == [r \in Known |-> r]

MCEdits == {[set |-> "paused", to |-> "snooze"],
            [set |-> "channel", to |-> "stable"], [set |-> "channel", to |-> "nightly"]}
=============================================================================
