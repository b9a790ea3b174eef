---------------------------- MODULE MCRevisions ----------------------------
(* Revisions and models whose names are close to each other's file names,  *)
(* and some that validation is there to refuse.                            *)
EXTENDS Revisions, TLC

Pinned(model, revision) == [model |-> model \o At \o revision, dir |-> << >>]

MCRequests ==
    {Pinned(<<"m">>, r) : r \in {<<"r">>, <<"r", ".", "emwp">>, <<"r", ".">>,
                                 <<"r", ".", "staged">>, <<"r", ".", ".", "staged">>,
                                 <<".", ".">>, <<"r", "*">>, <<"r", "/", "c">>}}
    \cup {Pinned(<<"m", "/", "r">>, <<"c">>), Pinned(<<".", ".", "/", "m">>, <<"r">>)}
    \cup {[model |-> <<"m">>, dir |-> << >>],
          [model |-> << >>, dir |-> <<"m">>], [model |-> << >>, dir |-> <<"m", "@", "r">>],
          [model |-> <<"m", "@", "r">>, dir |-> <<"weights">>]}

Symmetry == Permutations(Users) \cup Permutations(Rands)
============================================================================
