---------------------------- MODULE MCFileServer ----------------------------
(* Instances of FileServer for TLC. *)
EXTENDS FileServer, TLC

\* Clients that run the same program can be exchanged.
Symmetry == Permutations(Loopers) \cup Permutations(Clients \ Loopers)
=============================================================================
