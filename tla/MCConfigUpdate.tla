--------------------------- MODULE MCConfigUpdate --------------------------
(* ConfigUpdate with interchangeable platforms and files; nothing is asked *)
(* of what follows a mishap that is to blame.                              *)
EXTENDS ConfigUpdate, TLC

Symmetry == Permutations(Platforms) \cup Permutations(Hashes)

Blameless == blame = {}
=============================================================================
