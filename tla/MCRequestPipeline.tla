------------------------- MODULE MCRequestPipeline -------------------------
(* Instances of RequestPipeline for TLC.                                    *)
EXTENDS RequestPipeline, TLC

MCStatuses == {200, 500}
MCValid    == {200}
=============================================================================
