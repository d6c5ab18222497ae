--------------------------- MODULE MCAdminSessions ---------------------------
(* Small instances of AdminSessions for TLC. *)
EXTENDS AdminSessions, TLC

WorkerSymmetry == Permutations(Workers)
=============================================================================
