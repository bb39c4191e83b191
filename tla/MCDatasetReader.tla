--------------------------- MODULE MCDatasetReader ---------------------------
(* Two cameras to be synchronised and one that is not; depth images with     *)
(* none, with one of the group, or with the other.                           *)
EXTENDS DatasetReader

MCSyncCameras == {0, 1}
MCDepths      == {{}, {0}, {2}}
=============================================================================
