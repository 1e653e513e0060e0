-------------------------------- MODULE Rows --------------------------------
(***************************************************************************)
(* A table of the database, as a function from uuids: Absent is what it    *)
(* gives for a uuid that has no row.                                       *)
(***************************************************************************)
CONSTANT Absent

\* Write some rows over a table; writing Absent deletes a row.
Overlay(table, changes) ==
    [e \in DOMAIN table |-> IF e \in DOMAIN changes THEN changes[e] ELSE table[e]]

Snapshot(table, set) == [e \in set |-> table[e]]

Deleted(set) == [e \in set |-> Absent]
=============================================================================
