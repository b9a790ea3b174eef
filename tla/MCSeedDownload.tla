--------------------------- MODULE MCSeedDownload ---------------------------
(* SeedDownload with one or two sibling revisions to link from.            *)
EXTENDS SeedDownload, TLC

OneSibling  == <<"older">>
TwoSiblings == <<"newer", "older">>

Symmetry == Permutations(Files) \cup Permutations(Procs)
=============================================================================
