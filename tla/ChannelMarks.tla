---------------------------- MODULE ChannelMarks -----------------------------
(***************************************************************************)
(* What the trust state promises, whoever runs, dies or switches channel:    *)
(* each channel has one mark, and all that ever happens to it is that it     *)
(* moves to a newer release of its own channel (SPEC 6).                    *)
(***************************************************************************)
EXTENDS Naturals

CONSTANTS
  Channels,
  Offers    \* channel -> the releases its feed can serve

VARIABLE mark

Init == mark \in [Channels -> Nat]

Advance(c) ==
  \E r \in Offers[c] : r >= mark[c] /\ mark' = [mark EXCEPT ![c] = r]

Next == \E c \in Channels : Advance(c)

Spec == Init /\ [][Next]_mark
=============================================================================
