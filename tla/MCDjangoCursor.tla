--------------------------- MODULE MCDjangoCursor ---------------------------
(* Instances of DjangoCursor for TLC. *)
EXTENDS DjangoCursor

(* Every statement kind execute() tells apart. *)
MCAllKinds == {"select", "insert", "update", "delete", "other"}

(* A caller that only reads. *)
MCSelectOnly == {"select"}
=============================================================================
