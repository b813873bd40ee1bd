--------------------------- MODULE MCDescriptors ----------------------------
(* Small instances of Descriptors for TLC. *)
EXTENDS Descriptors, TLC

CONSTANTS h1, h2, a, b, s1, s2, v1, v2

\* Sources and versions are interchangeable; handlers are too.
Interchangeable ==
  Permutations(Handlers) \cup Permutations(Versions)

=============================================================================
