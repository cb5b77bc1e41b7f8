-------------------------- MODULE MCRepositorySystem --------------------------
(* A small instance of RepositorySystem: two spellings of one URL, and another. *)
EXTENDS RepositorySystem, TLC

CONSTANTS plain, capital, other

SourceOf == (plain :> "owner/name") @@ (capital :> "owner/name") @@ (other :> "owner/other")
=============================================================================
