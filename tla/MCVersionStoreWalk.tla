------------------------- MODULE MCVersionStoreWalk -------------------------
(***************************************************************************)
(* An instance of VersionStoreWalk for TLC.                                *)
(***************************************************************************)
EXTENDS VersionStoreWalk, TLC

CONSTANTS content1, content2, entity1, entity2

Twins == Permutations({content1, content2}) \cup Permutations({entity1, entity2})
=============================================================================
