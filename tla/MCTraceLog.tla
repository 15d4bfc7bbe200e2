----------------------------- MODULE MCTraceLog -----------------------------
(* TraceLog with a few processes, roots and kids each interchangeable.     *)
EXTENDS TraceLog, TLC

Symmetry == Permutations(Roots) \cup Permutations(Kids)
=============================================================================
