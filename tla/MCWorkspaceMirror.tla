--------------------------- MODULE MCWorkspaceMirror ---------------------------
(* Values for the constants of WorkspaceMirror that TLC checks.            *)
EXTENDS WorkspaceMirror, TLC

SymRequests == Permutations(Requests)
=============================================================================
