------------------------------- MODULE MCEdits -------------------------------
(* Small instances of Edits. *)
EXTENDS Edits, TLC

=============================================================================
