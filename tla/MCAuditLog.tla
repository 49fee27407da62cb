----------------------------- MODULE MCAuditLog -----------------------------
EXTENDS AuditLog, TLC

(* Writers and events are interchangeable; sound for the safety runs. *)
Symmetry == Permutations(Writers) \cup Permutations(Events)
=============================================================================
