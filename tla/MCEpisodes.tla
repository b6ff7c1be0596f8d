---------------------------- MODULE MCEpisodes -----------------------------
(* Small instances of the concurrent episodes.                             *)
EXTENDS Episodes

CONSTANTS ep1, ep2

OneEpisode  == {ep1}
TwoEpisodes == {ep1, ep2}
=============================================================================
