----------------------------- MODULE MCSdkClient -----------------------------
(* Two nodes and a refresher with an interval below the cap, or none. *)
EXTENDS SdkClient

MCIntervals == {0, 1}
=============================================================================
