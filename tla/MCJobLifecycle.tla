--------------------------- MODULE MCJobLifecycle ---------------------------
(***************************************************************************)
(* Small instances of JobLifecycle.                                        *)
(***************************************************************************)
EXTENDS JobLifecycle, TLC

\* Job identities are interchangeable, and so are run identities.
Symmetry == Permutations(Jobs) \cup Permutations(Runs)
=============================================================================
