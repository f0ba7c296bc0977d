------------------------------ MODULE MCWriter ------------------------------
(* Small instances of Writer. *)
EXTENDS Writer, TLC

=============================================================================
