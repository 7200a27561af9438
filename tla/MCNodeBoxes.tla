---------------------------- MODULE MCNodeBoxes ----------------------------
(* The small instance of NodeMapping, with its arrays. *)
EXTENDS MCNodeMapping, NodeBoxes
==============================================================================
