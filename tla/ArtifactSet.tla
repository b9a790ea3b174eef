----------------------------- MODULE ArtifactSet -----------------------------
(***************************************************************************)
(* What a (model, revision) promises to its readers (SPEC.md, "Artifact    *)
(* paths", "Writers are single-flight"): at any time it offers at most one *)
(* plain artifact and at most one encryption of it, an artifact on offer   *)
(* is never replaced or re-encrypted in place, and only a deletion         *)
(* withdraws it.                                                           *)
(***************************************************************************)
CONSTANTS Images, Keys, None

VARIABLES
    mwp,    \* the committed plain image, or None
    emwp    \* its committed encryption [image, key], or None

Init == mwp \in Images \cup {None} /\ emwp = None

PublishMwp(i) ==
    /\ mwp = None
    /\ mwp' = i
    /\ UNCHANGED emwp

PublishEmwp(k) ==
    /\ mwp # None /\ emwp = None
    /\ emwp' = [image |-> mwp, key |-> k]
    /\ UNCHANGED mwp

WithdrawEmwp ==
    /\ emwp # None
    /\ emwp' = None
    /\ UNCHANGED mwp

Withdraw ==
    /\ mwp # None
    /\ mwp' = None /\ emwp' = None

Next ==
    \/ \E i \in Images : PublishMwp(i)
    \/ \E k \in Keys : PublishEmwp(k)
    \/ WithdrawEmwp
    \/ Withdraw

Spec == Init /\ [][Next]_<<mwp, emwp>>
=============================================================================
