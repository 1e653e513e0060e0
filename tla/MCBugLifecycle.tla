--------------------------- MODULE MCBugLifecycle ---------------------------
(***************************************************************************)
(* An instance of BugLifecycle for TLC.                                    *)
(***************************************************************************)
EXTENDS BugLifecycle

CONSTANTS bug1, bug2, fix1, impact1, prop1, todo1
=============================================================================
