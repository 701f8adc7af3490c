-------------------------- MODULE MCUpstreamHealth --------------------------
(* Two workers; a reload drops the first server or brings it back, so that    *)
(* the others move to other indices, or removes the group.                    *)
EXTENDS UpstreamHealth

CONSTANTS a, b, c

MCConfigs == {<<a, b, c>>, <<b, c>>, <<>>}
=============================================================================
