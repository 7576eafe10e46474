--------------------------- MODULE MCSceneSession ---------------------------
(* A ring of two frames, two undelivered edges, transitions of one frame and    *)
(* two of the last picture, one frame of tiles and a pre-loop of three.         *)
EXTENDS SceneSession
=============================================================================
