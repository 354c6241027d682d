---------------------------- MODULE MCInstaller ----------------------------
(***************************************************************************)
(* Small instances of Installer: two installers at once, two versions that *)
(* compete for a module, archives of three entries.                         *)
(***************************************************************************)
EXTENDS Installer, TLC

Symmetry == Permutations(Procs) \cup Permutations(Versions)
=============================================================================
