------------------------------ MODULE Domains ------------------------------
(* The values the registry's modules share. *)
CONSTANTS
    Hash,   \* content hashes of definitions; a hash stands for its definition
    Name,   \* names that can be bound to a hash
    None    \* the empty string: no hash, no parent, no name, nobody
=============================================================================
