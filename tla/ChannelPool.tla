---------------------------- MODULE ChannelPool ----------------------------
(***************************************************************************)
(* What claimChannel and releaseChannel are to provide to all sessions     *)
(* together: a channel goes from nobody to one session, and back to nobody *)
(* by that session alone.                                                  *)
(***************************************************************************)
CONSTANTS Sessions, Channels, Foreign, Nobody, Elsewhere

VARIABLE owner

Init == owner = [c \in Channels |-> IF c \in Foreign THEN Elsewhere ELSE Nobody]

Claim(s, c) == owner[c] = Nobody /\ owner' = [owner EXCEPT ![c] = s]

Release(s, c) == owner[c] = s /\ owner' = [owner EXCEPT ![c] = Nobody]

Next == \E s \in Sessions, c \in Channels : Claim(s, c) \/ Release(s, c)

Spec == Init /\ [][Next]_owner
=============================================================================
