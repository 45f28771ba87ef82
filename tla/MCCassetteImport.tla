-------------------------- MODULE MCCassetteImport ---------------------------
(***************************************************************************)
(* Instances of CassetteImport.                                            *)
(***************************************************************************)
EXTENDS CassetteImport, TLC

\* Blobs, cassettes and processes of one kind are interchangeable.
Symmetry == Permutations(Importers) \cup Permutations(Recorders)
                \cup Permutations(Openers) \cup Permutations(Digests)
                \cup Permutations(Cassettes)
=============================================================================
