--------------------------- MODULE MCCodexAccount ---------------------------
(* Instances of CodexAccount for TLC. *)
EXTENDS CodexAccount

(* Nobody uses the Codex command line: only a renewal can bring a session back. *)
RenewalSpec == CodexInit /\ ~home /\ [][CodexNext /\ UNCHANGED home]_codexVars
=============================================================================
