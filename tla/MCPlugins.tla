----------------------------- MODULE MCPlugins ------------------------------
(* The instance of Plugins for TLC. *)
EXTENDS Plugins, TLC

\* Two calls that every plugin can make.
CONSTANTS c1, c2

\* Neither these calls nor the users are told apart.
Symmetry == Permutations({c1, c2}) \cup Permutations(Users)
=============================================================================
