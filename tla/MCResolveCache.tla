--------------------------- MODULE MCResolveCache ---------------------------
(* Instances of the resolve cache for TLC.                                 *)
EXTENDS ResolveCache, TLC

\* Keys, processes and requests are only ever compared with one another.
CacheSymmetry == Permutations(Keys) \cup Permutations(Instances) \cup Permutations(Requests)
=============================================================================
