----------------------------- MODULE MCRegistry -----------------------------
(* Small instances of Registry for TLC. *)
EXTENDS Registry, TLC

\* Handlers are alike, and so are workers (used for safety only).
Interchangeable == Permutations(Serve) \union Permutations(Worker)
=============================================================================
