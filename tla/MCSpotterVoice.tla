--------------------------- MODULE MCSpotterVoice ---------------------------
(* SpotterVoice with clear sides and one occupied code. *)
EXTENDS SpotterVoice

MCCodes == {1, 2}
=============================================================================
