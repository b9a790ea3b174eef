------------------------- MODULE SeedDownloadProofs -------------------------
(***************************************************************************)
(* Proofs about SeedDownload, for any number of Packs, files, siblings,    *)
(* runs and kills: its type invariant, and that an unverified file is in   *)
(* the revision's directory only while the run that linked it is seeding,  *)
(* or after that run has aborted or was killed.                            *)
(***************************************************************************)
EXTENDS SeedDownload, TLAPS

Steps == {"todo", "settled", "stuck"} \cup Trying

\* A worker that is past its look at a candidate has a sibling in its hands.
TryInv ==
    \A p \in Procs, f \in Files :
        step[p][f] \in {"link"} \cup Linked => try[p][f] <= Len(Siblings)

SInv == TypeOK /\ TryInv /\ UnverifiedOnlyBriefly

-----------------------------------------------------------------------------
(* What the helpers do.                                                    *)

\* Moves changes the step of one file in one run.
LEMMA MoveFacts ==
    ASSUME TypeOK, NEW p \in Procs, NEW f \in Files, NEW to \in Steps, Moves(p, f, to)
    PROVE  /\ step' \in [Procs -> [Files -> Steps]]
           /\ step'[p][f] = to
           /\ \A q \in Procs, g \in Files : q # p \/ g # f => step'[q][g] = step[q][g]
BY DEF TypeOK, Moves, Steps

\* A move keeps the steps' part of TypeOK, if only a seeding run tries a file.
LEMMA MoveType ==
    ASSUME TypeOK, NEW p \in Procs, NEW f \in Files, NEW to \in Steps, Moves(p, f, to),
           to \in Trying \cup Held => pc[p] = "seed", UNCHANGED pc
    PROVE  /\ step' \in [Procs -> [Files -> {"todo", "settled", "stuck"} \cup Trying]]
           /\ \A q \in Procs, g \in Files : step'[q][g] \in Trying \cup Held => pc'[q] = "seed"
<1>1. \A q \in Procs, g \in Files : step[q][g] \in Trying \cup Held => pc[q] = "seed"
  BY DEF TypeOK
<1>2. step' \in [Procs -> [Files -> {"todo", "settled", "stuck"} \cup Trying]]
  BY MoveFacts DEF Steps
<1>3. ASSUME NEW q \in Procs, NEW g \in Files, step'[q][g] \in Trying \cup Held
      PROVE  pc'[q] = "seed"
  BY <1>1, <1>3, MoveFacts
<1> QED BY <1>2, <1>3

\* Trying the next sibling changes the position of one file in one run.
LEMMA TryFacts ==
    ASSUME TypeOK, NEW p \in Procs, NEW f \in Files, try[p][f] <= Len(Siblings),
           try' = [try EXCEPT ![p][f] = @ + 1]
    PROVE  /\ try' \in [Procs -> [Files -> 1 .. Len(Siblings) + 1]]
           /\ \A q \in Procs, g \in Files : q # p \/ g # f => try'[q][g] = try[q][g]
<1>1. Len(Siblings) \in Nat
  BY SeedAssumption
<1>2. try[p][f] + 1 \in 1 .. Len(Siblings) + 1
  BY <1>1 DEF TypeOK
<1> QED BY <1>1, <1>2 DEF TypeOK

\* A run that is over has forgotten all its steps, and no other run has.
LEMMA ForgetFacts ==
    ASSUME TypeOK, NEW p \in Procs, Forgets(p)
    PROVE  /\ step' \in [Procs -> [Files -> Steps]]
           /\ try' \in [Procs -> [Files -> 1 .. Len(Siblings) + 1]]
           /\ pc' \in [Procs -> {"idle", "seed", "fetch", "pack"}]
           /\ fetched' \in [Procs -> SUBSET Files]
           /\ failed' \in [Procs -> BOOLEAN]
           /\ \A f \in Files : step'[p][f] = "todo" /\ try'[p][f] = 1
           /\ \A q \in Procs \ {p} : step'[q] = step[q] /\ try'[q] = try[q] /\ pc'[q] = pc[q]
<1>1. Len(Siblings) \in Nat
  BY SeedAssumption
<1>2. [f \in Files |-> 1] \in [Files -> 1 .. Len(Siblings) + 1]
  BY <1>1
<1>3. [f \in Files |-> "todo"] \in [Files -> Steps]
  BY DEF Steps
<1> QED BY <1>2, <1>3 DEF TypeOK, Forgets, Enters, Steps

\* A step keeps UnverifiedOnlyBriefly if it brings no new copy in and whoever
\* had a link to verify still has it, or it is written off.
LEMMA BriefKept ==
    ASSUME UnverifiedOnlyBriefly, TypeOK',
           \A g \in Files : target'[g] \in {Genuine, None, target[g]},
           abandoned \subseteq abandoned',
           \A q \in Procs, g \in Files :
               step[q][g] \in Held /\ target'[g] \notin {Genuine, None}
               => step'[q][g] \in Held \/ g \in abandoned'
    PROVE  UnverifiedOnlyBriefly'
<1> SUFFICES ASSUME NEW g \in Files, target'[g] \notin {Genuine, None}, g \notin abandoned'
             PROVE  \E q \in Procs : pc'[q] = "seed" /\ step'[q][g] \in Held
  BY DEF UnverifiedOnlyBriefly, Unverified
<1>1. target[g] \notin {Genuine, None} /\ g \notin abandoned
  OBVIOUS
<1>2. PICK q \in Procs : step[q][g] \in Held
  BY <1>1 DEF UnverifiedOnlyBriefly, Unverified
<1>3. step'[q][g] \in Held
  BY <1>1, <1>2
<1> QED BY <1>3 DEF TypeOK

-----------------------------------------------------------------------------
\* At first every file is missing or genuine.
LEMMA InitSeed == Init => SInv
<1> SUFFICES ASSUME Init PROVE SInv
  OBVIOUS
<1>1. Len(Siblings) \in Nat
  BY SeedAssumption
<1>2. Genuine \in Copies
  BY DEF Genuine, Copies
<1>3. TypeOK
  BY <1>1, <1>2, SeedAssumption DEF Init, TypeOK, Trying, Linked, Held
<1>4. TryInv
  BY DEF Init, TryInv, Linked, Held
<1>5. UnverifiedOnlyBriefly
  BY DEF Init, UnverifiedOnlyBriefly
<1> QED BY <1>3, <1>4, <1>5 DEF SInv

\* One seeding step of a file.
LEMMA SeedFileInv ==
    ASSUME SInv, NEW p \in Procs, NEW f \in Files, SeedFile(p, f)
    PROVE  SInv'
<1> USE DEF SInv
<1>0. Len(Siblings) \in Nat
  BY SeedAssumption
<1>1. CASE LookAtTarget(p, f)
  <2>1. PICK to \in {"candidate", "settled"} : Moves(p, f, to)
    BY <1>1 DEF LookAtTarget
  <2>2. to \in Steps
    BY DEF Steps, Trying
  <2>3. step[p][f] = "todo" /\ pc[p] = "seed"
    BY <1>1 DEF LookAtTarget
  <2>4. TypeOK'
    BY <1>1, <2>1, <2>2, <2>3, MoveType DEF LookAtTarget, TypeOK, ledger
  <2>5. TryInv'
    BY <1>1, <2>1, <2>2, MoveFacts DEF LookAtTarget, TryInv, Linked, Held
  <2>6. UnverifiedOnlyBriefly'
    BY <1>1, <2>1, <2>2, <2>3, <2>4, MoveFacts, BriefKept DEF LookAtTarget, Linked, Held, ledger
  <2> QED BY <2>4, <2>5, <2>6
<1>2. CASE LookAtCandidate(p, f)
  <2>1. /\ step[p][f] = "candidate" /\ pc[p] = "seed" /\ try[p][f] <= Len(Siblings)
        /\ UNCHANGED <<target, sibling, pc, failed, fetched, ledger>>
    BY <1>2 DEF LookAtCandidate, TypeOK, Trying
  <2>2. CASE Moves(p, f, "link") /\ UNCHANGED try
    <3>1. "link" \in Steps
      BY DEF Steps, Trying
    <3>2. TypeOK'
      BY <2>1, <2>2, <3>1, MoveType DEF TypeOK, ledger
    <3>3. TryInv'
      BY <2>1, <2>2, <3>1, MoveFacts DEF TryInv, Linked, Held
    <3>4. UnverifiedOnlyBriefly'
      BY <2>1, <2>2, <3>1, <3>2, MoveFacts, BriefKept DEF Linked, Held, ledger
    <3> QED BY <3>2, <3>3, <3>4
  <2>3. CASE try' = [try EXCEPT ![p][f] = @ + 1] /\ UNCHANGED step
    <3>1. TypeOK'
      BY <2>1, <2>3, TryFacts DEF TypeOK, ledger
    <3>2. TryInv'
      BY <2>1, <2>3, TryFacts DEF TryInv, Linked, Held
    <3>3. UnverifiedOnlyBriefly'
      BY <2>1, <2>3, <3>1, BriefKept DEF ledger
    <3> QED BY <3>1, <3>2, <3>3
  <2> QED BY <1>2, <2>2, <2>3 DEF LookAtCandidate
<1>3. CASE GiveUp(p, f)
  <2>1. "settled" \in Steps /\ "settled" \notin Trying \cup Held
    BY DEF Steps, Trying, Linked, Held
  <2>2. TypeOK'
    BY <1>3, <2>1, MoveType DEF GiveUp, TypeOK, ledger
  <2>3. TryInv'
    BY <1>3, <2>1, MoveFacts DEF GiveUp, TryInv, Linked, Held
  <2>4. UnverifiedOnlyBriefly'
    BY <1>3, <2>1, <2>2, MoveFacts, BriefKept DEF GiveUp, Linked, Held, ledger
  <2> QED BY <2>2, <2>3, <2>4
<1>4. CASE LinkCandidate(p, f)
  <2> DEFINE c == sibling[try[p][f]][f]
  <2>1. /\ step[p][f] = "link" /\ pc[p] = "seed" /\ try[p][f] <= Len(Siblings)
        /\ UNCHANGED <<sibling, pc, failed, fetched, ledger>>
    BY <1>4 DEF LinkCandidate, TypeOK, TryInv, Trying
  <2>2. "verify" \in Steps /\ "candidate" \in Steps
    BY DEF Steps, Trying, Linked, Held
  <2>3. CASE /\ c # None /\ target[f] = None
             /\ target' = [target EXCEPT ![f] = c]
             /\ Moves(p, f, "verify") /\ UNCHANGED try
    <3>1. try[p][f] \in DOMAIN Siblings
      BY <1>0, <2>1, SeedAssumption DEF TypeOK
    <3>2. c \in Copies \cup {None}
      BY <3>1 DEF TypeOK
    <3>3. TypeOK'
      BY <2>1, <2>2, <2>3, <3>2, MoveType DEF TypeOK, ledger
    <3>4. TryInv'
      BY <2>1, <2>2, <2>3, MoveFacts DEF TryInv, Linked, Held
    \* The new copy is unverified, and p is about to verify it.
    <3>5. UnverifiedOnlyBriefly'
      <4> SUFFICES ASSUME NEW g \in Files, target'[g] \notin {Genuine, None}, g \notin abandoned'
                   PROVE  \E q \in Procs : step'[q][g] \in Held
        BY <3>3 DEF UnverifiedOnlyBriefly, Unverified, TypeOK
      <4>1. CASE g = f
        BY <4>1, <2>2, <2>3, MoveFacts DEF Linked, Held
      <4>2. CASE g # f
        <5>1. target[g] \notin {Genuine, None} /\ g \notin abandoned
          BY <4>2, <2>1, <2>3 DEF TypeOK, ledger
        <5>2. PICK q \in Procs : step[q][g] \in Held
          BY <5>1 DEF UnverifiedOnlyBriefly, Unverified
        <5> QED BY <5>2, <4>2, <2>2, <2>3, MoveFacts
      <4> QED BY <4>1, <4>2
    <3> QED BY <3>3, <3>4, <3>5
  <2>4. CASE /\ try' = [try EXCEPT ![p][f] = @ + 1]
             /\ Moves(p, f, "candidate") /\ UNCHANGED target
    <3>1. TypeOK'
      BY <2>1, <2>2, <2>4, MoveType, TryFacts DEF TypeOK, ledger
    <3>2. TryInv'
      BY <2>1, <2>2, <2>4, MoveFacts, TryFacts DEF TryInv, Linked, Held
    <3>3. UnverifiedOnlyBriefly'
      BY <2>1, <2>2, <2>4, <3>1, MoveFacts, BriefKept DEF Linked, Held, ledger
    <3> QED BY <3>1, <3>2, <3>3
  <2> QED BY <1>4, <2>3, <2>4 DEF LinkCandidate
<1>5. CASE VerifyLink(p, f)
  <2>1. /\ step[p][f] = "verify" /\ pc[p] = "seed"
        /\ UNCHANGED <<target, sibling, pc, try, failed, fetched, ledger>>
    BY <1>5 DEF VerifyLink, TypeOK, Trying, Linked, Held
  <2>2. PICK to \in {"settled", "reject"} :
            Moves(p, f, to) /\ (to = "settled" => target[f] = Genuine)
    BY <1>5 DEF VerifyLink
  <2>3. to \in Steps
    BY DEF Steps, Trying, Linked, Held
  <2>4. TypeOK'
    BY <2>1, <2>2, <2>3, MoveType DEF TypeOK, ledger
  <2>5. TryInv'
    BY <2>1, <2>2, <2>3, MoveFacts DEF TryInv, Linked, Held
  <2>6. UnverifiedOnlyBriefly'
    BY <2>1, <2>2, <2>3, <2>4, MoveFacts, BriefKept DEF Linked, Held, ledger
  <2> QED BY <2>4, <2>5, <2>6
<1>6. CASE RemoveLink(p, f)
  <2>1. /\ step[p][f] = "reject" /\ pc[p] = "seed" /\ try[p][f] <= Len(Siblings)
        /\ target' = [target EXCEPT ![f] = None]
        /\ try' = [try EXCEPT ![p][f] = @ + 1]
        /\ Moves(p, f, "candidate")
        /\ UNCHANGED <<sibling, pc, failed, fetched, ledger>>
    BY <1>6 DEF RemoveLink, TypeOK, TryInv, Trying, Linked, Held
  <2>2. "candidate" \in Steps
    BY DEF Steps, Trying
  <2>3. TypeOK'
    BY <2>1, <2>2, MoveType, TryFacts DEF TypeOK, ledger
  <2>4. TryInv'
    BY <2>1, <2>2, MoveFacts, TryFacts DEF TryInv, Linked, Held
  <2>5. UnverifiedOnlyBriefly'
    BY <2>1, <2>2, <2>3, MoveFacts, BriefKept DEF TypeOK, Linked, Held, ledger
  <2> QED BY <2>3, <2>4, <2>5
<1>7. CASE RemoveFails(p, f)
  <2>1. /\ step[p][f] = "reject" /\ pc[p] = "seed"
        /\ failed' = [failed EXCEPT ![p] = TRUE]
        /\ Moves(p, f, "stuck")
        /\ UNCHANGED <<target, sibling, pc, try, fetched, ledger>>
    BY <1>7 DEF RemoveFails, TypeOK, Trying, Linked, Held
  <2>2. "stuck" \in Steps
    BY DEF Steps
  <2>3. TypeOK'
    BY <2>1, <2>2, MoveType DEF TypeOK, ledger
  <2>4. TryInv'
    BY <2>1, <2>2, MoveFacts DEF TryInv, Linked, Held
  <2>5. UnverifiedOnlyBriefly'
    BY <2>1, <2>2, <2>3, MoveFacts, BriefKept DEF Linked, Held, ledger
  <2> QED BY <2>3, <2>4, <2>5
<1> QED BY <1>1, <1>2, <1>3, <1>4, <1>5, <1>6, <1>7 DEF SeedFile

\* A run that ends, with no link left to verify or all of those written off.
LEMMA ForgetInv ==
    ASSUME SInv, NEW p \in Procs, Forgets(p), UNCHANGED <<target, sibling>>,
           left' \in 0 .. MaxRuns, crashes' \in 0 .. MaxCrashes,
           abandoned \subseteq abandoned', abandoned' \subseteq Files, mixed' = mixed,
           \A f \in Unverified(p) : target[f] \in {Genuine, None} \/ f \in abandoned'
    PROVE  SInv'
<1> USE DEF SInv
<1>1. TypeOK'
  <2>1. step' \in [Procs -> [Files -> {"todo", "settled", "stuck"} \cup Trying]]
    BY ForgetFacts DEF Steps
  <2>2. ASSUME NEW q \in Procs, NEW f \in Files, step'[q][f] \in Trying \cup Held
        PROVE  pc'[q] = "seed"
    <3>1. q # p
      BY <2>2, ForgetFacts DEF Trying, Linked, Held
    <3> QED BY <2>2, <3>1, ForgetFacts DEF TypeOK
  <2> QED BY <2>1, <2>2, ForgetFacts DEF TypeOK
<1>2. TryInv'
  <2> SUFFICES ASSUME NEW q \in Procs, NEW f \in Files, step'[q][f] \in {"link"} \cup Linked
               PROVE  try'[q][f] <= Len(Siblings)
    BY DEF TryInv
  <2>1. q # p
    BY ForgetFacts DEF Linked, Held
  <2> QED BY <2>1, ForgetFacts DEF TryInv
<1>3. UnverifiedOnlyBriefly'
  <2>1. ASSUME NEW q \in Procs, NEW g \in Files,
               step[q][g] \in Held, target'[g] \notin {Genuine, None}
        PROVE  step'[q][g] \in Held \/ g \in abandoned'
    <3>1. CASE q = p
      BY <2>1, <3>1 DEF Unverified
    <3>2. CASE q # p
      BY <2>1, <3>2, ForgetFacts
    <3> QED BY <3>1, <3>2
  <2> QED BY <2>1, <1>1, BriefKept
<1> QED BY <1>1, <1>2, <1>3

\* The invariant is preserved by every step.
LEMMA NextSeed == SInv /\ [Next]_vars => SInv'
<1> SUFFICES ASSUME SInv, [Next]_vars PROVE SInv'
  OBVIOUS
<1> USE DEF SInv
<1>1. ASSUME NEW p \in Procs, NEW f \in Files, SeedFile(p, f) PROVE SInv'
  BY <1>1, SeedFileInv
<1>2. ASSUME NEW p \in Procs, Begin(p) PROVE SInv'
  <2>1. \A q \in Procs, f \in Files : step[q][f] \in Trying \cup Held => q # p
    BY <1>2 DEF Begin, TypeOK
  <2>2. /\ pc' \in [Procs -> {"idle", "seed", "fetch", "pack"}]
        /\ \A q \in Procs \ {p} : pc'[q] = pc[q]
        /\ left' \in 0 .. MaxRuns
    <3>1. PICK to \in {"seed", "fetch"} : Enters(p, to)
      BY <1>2 DEF Begin
    <3>2. left \in 0 .. MaxRuns /\ left > 0 /\ left' = left - 1
      BY <1>2 DEF Begin, TypeOK
    <3>3. left' \in 0 .. MaxRuns
      BY <3>2, SeedAssumption
    <3> QED BY <3>1, <3>3 DEF Enters, TypeOK
  <2>6. mixed' \subseteq Procs
    BY <1>2 DEF Begin, Others, TypeOK
  <2>3. TypeOK'
    BY <1>2, <2>1, <2>2, <2>6 DEF Begin, seeding, TypeOK
  <2>4. TryInv'
    BY <1>2 DEF Begin, seeding, TryInv
  <2>5. UnverifiedOnlyBriefly'
    BY <1>2, <2>3, BriefKept DEF Begin, seeding
  <2> QED BY <2>3, <2>4, <2>5
\* Steps that only move a run on, when it has nothing to try any more.
<1>3. ASSUME NEW p \in Procs, NEW to \in {"fetch", "pack"}, Enters(p, to),
             \A f \in Files : step[p][f] \notin Trying \cup Held,
             UNCHANGED <<target, sibling, seeding, fetched, ledger>>
      PROVE  SInv'
  <2>1. /\ pc' \in [Procs -> {"idle", "seed", "fetch", "pack"}]
        /\ \A q \in Procs \ {p} : pc'[q] = pc[q]
    BY <1>3 DEF Enters, TypeOK
  <2>2. TypeOK'
    BY <1>3, <2>1 DEF seeding, ledger, TypeOK
  <2>3. TryInv'
    BY <1>3 DEF seeding, TryInv
  <2>4. UnverifiedOnlyBriefly'
    BY <1>3, <2>2, BriefKept DEF seeding, ledger
  <2> QED BY <2>2, <2>3, <2>4
<1>4. ASSUME NEW p \in Procs, SeedEnds(p) PROVE SInv'
  <2>1. \A f \in Files : step[p][f] \notin Trying \cup Held
    BY <1>4 DEF SeedEnds, Trying, Linked, Held
  <2> QED BY <1>3, <1>4, <2>1 DEF SeedEnds
<1>5. ASSUME NEW p \in Procs, FetchEnds(p) PROVE SInv'
  <2>1. \A f \in Files : step[p][f] \notin Trying \cup Held
    BY <1>5 DEF FetchEnds, TypeOK
  <2> QED BY <1>3, <1>5, <2>1 DEF FetchEnds
\* A run that stops writes off what it had linked and not verified.
<1>6. ASSUME NEW p \in Procs, Forgets(p), Abandons(p), crashes' \in 0 .. MaxCrashes,
             UNCHANGED <<target, sibling, left, mixed>>
      PROVE  SInv'
  <2>1. abandoned' = abandoned \cup {f \in Unverified(p) : target[f] \notin {Genuine, None}}
    BY <1>6 DEF Abandons
  <2>2. abandoned \subseteq abandoned' /\ abandoned' \subseteq Files
    BY <2>1 DEF Unverified, TypeOK
  <2>3. \A f \in Unverified(p) : target[f] \in {Genuine, None} \/ f \in abandoned'
    BY <2>1
  <2> QED BY <1>6, <2>2, <2>3, ForgetInv DEF TypeOK
<1>8. ASSUME NEW p \in Procs, SeedAborts(p) \/ Crash(p) PROVE SInv'
  <2>1. crashes' \in 0 .. MaxCrashes
    BY <1>8, SeedAssumption DEF SeedAborts, Crash, TypeOK
  <2> QED BY <1>6, <1>8, <2>1 DEF SeedAborts, Crash
<1>7. ASSUME NEW p \in Procs, PackEnds(p) PROVE SInv'
  <2>1. Unverified(p) = {}
    BY <1>7 DEF PackEnds, Unverified, TypeOK, Trying
  <2> QED BY <1>7, <2>1, ForgetInv DEF PackEnds, ledger, TypeOK
<1>9. ASSUME NEW p \in Procs, NEW f \in Files, Fetch(p, f) PROVE SInv'
  <2>1. /\ target' \in [Files -> Copies \cup {None}]
        /\ \A g \in Files : target'[g] \in {Genuine, target[g]}
    <3>1. Genuine \in Copies
      BY DEF Genuine, Copies
    <3>2. target' = [target EXCEPT ![f] = Genuine] \/ target' = target
      BY <1>9 DEF Fetch
    <3>3. target \in [Files -> Copies \cup {None}]
      BY DEF TypeOK
    <3>4. CASE target' = [target EXCEPT ![f] = Genuine]
      BY <3>1, <3>3, <3>4
    <3>5. CASE target' = target
      BY <3>3, <3>5
    <3> QED BY <3>2, <3>4, <3>5
  <2>2. fetched' \in [Procs -> SUBSET Files]
    BY <1>9 DEF Fetch, TypeOK
  <2>3. TypeOK'
    BY <1>9, <2>1, <2>2 DEF Fetch, seeding, ledger, TypeOK
  <2>4. TryInv'
    BY <1>9 DEF Fetch, seeding, TryInv
  <2>5. UnverifiedOnlyBriefly'
    BY <1>9, <2>1, <2>3, BriefKept DEF Fetch, seeding, ledger
  <2> QED BY <2>3, <2>4, <2>5
<1>10. ASSUME NEW s \in DOMAIN Siblings, NEW f \in Files, SiblingChanges(s, f) PROVE SInv'
  <2>1. sibling' \in [DOMAIN Siblings -> [Files -> Copies \cup {None}]]
    <3>1. PICK c \in Copies \cup {None} : sibling' = [sibling EXCEPT ![s][f] = c]
      BY <1>10 DEF SiblingChanges
    <3> QED BY <3>1 DEF TypeOK
  <2>2. TypeOK'
    BY <1>10, <2>1 DEF SiblingChanges, seeding, ledger, TypeOK
  <2>3. TryInv'
    BY <1>10 DEF SiblingChanges, seeding, TryInv
  <2>4. UnverifiedOnlyBriefly'
    BY <1>10, <2>2, BriefKept DEF SiblingChanges, seeding, ledger
  <2> QED BY <2>2, <2>3, <2>4
<1>11. CASE UNCHANGED vars
  <2>1. TypeOK' /\ TryInv'
    BY <1>11 DEF vars, seeding, ledger, TypeOK, TryInv
  <2>2. UnverifiedOnlyBriefly'
    BY <1>11, <2>1, BriefKept DEF vars, seeding, ledger
  <2> QED BY <2>1, <2>2
<1> QED
  BY <1>1, <1>2, <1>4, <1>5, <1>7, <1>8, <1>9, <1>10, <1>11 DEF Next

\* The invariant holds in every reachable state.
LEMMA SeedInvariance == Spec => []SInv
BY InitSeed, NextSeed, PTL DEF Spec

-----------------------------------------------------------------------------
(* What is packed.                                                         *)

\* A run no other falls in has the directory to itself.
Alone == \A p \in Procs \ mixed : pc[p] # "idle" => Others(p) = {}

\* What hf is done with stays there for a run that is alone.
Downloaded ==
    /\ \A p \in Procs : fetched[p] # {} => pc[p] \in {"fetch", "pack"}
    /\ \A p \in Procs : pc[p] = "pack" => fetched[p] = Files
    /\ \A p \in Procs \ mixed, f \in Files : f \in fetched[p] => Present(f)

PInv == SInv /\ Alone /\ Downloaded

\* A step in which every run stays as busy as it was, or one becomes idle.
LEMMA AloneKept ==
    ASSUME Alone, mixed' = mixed,
           \A q \in Procs : pc[q] = "idle" => pc'[q] = "idle"
    PROVE  Alone'
BY DEF Alone, Others

\* The invariant is preserved by every step.
LEMMA NextPacked == PInv /\ [Next]_vars => PInv'
<1> SUFFICES ASSUME PInv, [Next]_vars PROVE PInv'
  OBVIOUS
<1> USE DEF PInv
<1>0. SInv' /\ TypeOK
  BY NextSeed DEF SInv
\* Seeding changes the directory, but of no run that is alone and past it.
<1>1. ASSUME NEW p \in Procs, NEW f \in Files, SeedFile(p, f) PROVE PInv'
  <2>1. pc[p] = "seed"
    <3>1. step[p][f] \in Trying \/ LookAtTarget(p, f)
      BY <1>1 DEF SeedFile, LookAtCandidate, GiveUp, LinkCandidate, VerifyLink, RemoveLink,
                  RemoveFails, Trying, Linked
    <3> QED BY <1>0, <3>1 DEF LookAtTarget, TypeOK
  <2>2. pc' = pc /\ fetched' = fetched /\ mixed' = mixed
    BY <1>1 DEF SeedFile, LookAtTarget, LookAtCandidate, GiveUp, LinkCandidate, VerifyLink,
                RemoveLink, RemoveFails, ledger
  <2>3. Alone'
    BY <2>2, AloneKept
  <2>4. ASSUME NEW q \in Procs \ mixed, fetched[q] # {} PROVE FALSE
    <3>1. pc[q] \in {"fetch", "pack"}
      BY <2>4 DEF Downloaded
    <3>2. p \in Others(q)
      BY <2>1, <3>1 DEF Others
    <3> QED BY <3>1, <3>2 DEF Alone
  <2>5. Downloaded'
    BY <2>2, <2>4 DEF Downloaded
  <2> QED BY <1>0, <2>3, <2>5
<1>2. ASSUME NEW p \in Procs, Begin(p) PROVE PInv'
  <2>1. /\ pc[p] = "idle" /\ pc'[p] \in {"seed", "fetch"}
        /\ \A q \in Procs \ {p} : pc'[q] = pc[q]
        /\ mixed' = IF Others(p) = {} THEN mixed \ {p} ELSE mixed \cup {p} \cup Others(p)
        /\ UNCHANGED <<target, fetched>>
    BY <1>0, <1>2 DEF Begin, Enters, TypeOK
  <2>2. Alone'
    <3> SUFFICES ASSUME NEW q \in Procs, q \notin mixed', pc'[q] # "idle" PROVE Others(q)' = {}
      BY DEF Alone
    <3>1. CASE q = p
      BY <2>1, <3>1 DEF Others
    \* Whoever was there is mixed now.
    <3>2. CASE q # p
      BY <2>1, <3>2 DEF Others
    <3> QED BY <3>1, <3>2
  <2>3. fetched[p] = {}
    BY <2>1 DEF Downloaded
  <2>4. Downloaded'
    BY <2>1, <2>3 DEF Downloaded, Present
  <2> QED BY <1>0, <2>2, <2>4
<1>3. ASSUME NEW p \in Procs, SeedEnds(p) PROVE PInv'
  <2>1. /\ pc[p] = "seed" /\ pc'[p] = "fetch" /\ \A q \in Procs \ {p} : pc'[q] = pc[q]
        /\ UNCHANGED <<target, fetched, mixed>>
    BY <1>0, <1>3 DEF SeedEnds, Enters, TypeOK, ledger
  <2>2. Alone'
    BY <2>1, AloneKept
  <2>3. Downloaded'
    BY <2>1 DEF Downloaded, Present
  <2> QED BY <1>0, <2>2, <2>3
<1>4. ASSUME NEW p \in Procs, FetchEnds(p) PROVE PInv'
  <2>1. /\ pc[p] = "fetch" /\ pc'[p] = "pack" /\ \A q \in Procs \ {p} : pc'[q] = pc[q]
        /\ fetched[p] = Files /\ UNCHANGED <<target, fetched, mixed>>
    BY <1>0, <1>4 DEF FetchEnds, Enters, TypeOK, ledger
  <2>2. Alone'
    BY <2>1, AloneKept
  <2>3. Downloaded'
    BY <2>1 DEF Downloaded, Present
  <2> QED BY <1>0, <2>2, <2>3
\* A run that is over.
<1>5. ASSUME NEW p \in Procs, Forgets(p), UNCHANGED <<target, mixed>> PROVE PInv'
  <2>1. /\ pc'[p] = "idle" /\ fetched'[p] = {}
        /\ \A q \in Procs \ {p} : pc'[q] = pc[q] /\ fetched'[q] = fetched[q]
    BY <1>0, <1>5 DEF Forgets, Enters, TypeOK
  <2>2. Alone'
    BY <1>5, <2>1, AloneKept
  <2>3. Downloaded'
    BY <1>5, <2>1 DEF Downloaded, Present
  <2> QED BY <1>0, <2>2, <2>3
<1>6. ASSUME NEW p \in Procs, SeedAborts(p) \/ PackEnds(p) \/ Crash(p) PROVE PInv'
  BY <1>5, <1>6 DEF SeedAborts, PackEnds, Crash, ledger
<1>7. ASSUME NEW p \in Procs, NEW f \in Files, Fetch(p, f) PROVE PInv'
  <2>1. /\ pc' = pc /\ mixed' = mixed /\ pc[p] = "fetch"
        /\ fetched'[p] = fetched[p] \cup {f}
        /\ \A q \in Procs \ {p} : fetched'[q] = fetched[q]
    BY <1>0, <1>7 DEF Fetch, TypeOK, ledger
  <2>2. target'[f] # None /\ \A g \in Files : target[g] # None => target'[g] # None
    <3>1. Genuine # None
      BY NoneAssumption DEF Genuine, Copies
    <3> QED BY <1>0, <1>7, <3>1 DEF Fetch, Present, TypeOK
  <2>3. Alone'
    BY <2>1, AloneKept
  <2>4. Downloaded'
    BY <2>1, <2>2 DEF Downloaded, Present
  <2> QED BY <1>0, <2>3, <2>4
<1>8. ASSUME NEW s \in DOMAIN Siblings, NEW f \in Files, SiblingChanges(s, f) PROVE PInv'
  <2>1. UNCHANGED <<target, pc, fetched, mixed>>
    BY <1>8 DEF SiblingChanges, ledger
  <2> QED BY <1>0, <2>1, AloneKept DEF Downloaded, Present
<1>9. CASE UNCHANGED vars
  <2>1. UNCHANGED <<target, pc, fetched, mixed>>
    BY <1>9 DEF vars, ledger
  <2> QED BY <1>0, <2>1, AloneKept DEF Downloaded, Present
<1> QED BY <1>1, <1>2, <1>3, <1>4, <1>6, <1>7, <1>8, <1>9 DEF Next

\* It holds in every reachable state.
LEMMA PackedInvariance == Spec => []PInv
<1>1. Init => PInv
  BY InitSeed DEF Init, PInv, Alone, Downloaded
<1> QED BY <1>1, NextPacked, PTL DEF Spec

-----------------------------------------------------------------------------
(* The theorems.                                                           *)

\* Type correctness, and no worker of the seeding outlives it (wg.Wait), for
\* any number of Packs, files and siblings.
THEOREM SeedTypeCorrect == Spec => []TypeOK
<1>1. SInv => TypeOK
  BY DEF SInv
<1> QED BY <1>1, SeedInvariance, PTL

\* A file the Hub does not list is in the revision's directory only under the
\* hands of a run that is seeding, or left behind by one that has aborted or
\* was killed: no run goes on to hf with one (seedFiles, firstErr).
THEOREM UnverifiedStaysBrief == Spec => []UnverifiedOnlyBriefly
<1>1. SInv => UnverifiedOnlyBriefly
  BY DEF SInv
<1> QED BY <1>1, SeedInvariance, PTL

\* A run in which no other Pack of the revision fell packs every file, and of
\* each the bytes the Hub lists, whatever its own seeding could not verify or
\* remove, but for files an earlier run, aborted or killed, left unverified
\* (seedFiles, downloadModel).
THEOREM PackedStaysVerified == Spec => []PackedIsVerified
<1>1. PInv => PackedIsVerified
  <2> SUFFICES ASSUME PInv, NEW p \in Procs \ mixed, pc[p] = "pack",
                      NEW f \in Files, f \notin abandoned, target[f] # Genuine
               PROVE  FALSE
    BY DEF PackedIsVerified
  <2>1. target[f] # None
    BY DEF PInv, Downloaded, Present
  <2>2. PICK q \in Procs : pc[q] = "seed" /\ step[q][f] \in Held
    BY <2>1 DEF PInv, SInv, UnverifiedOnlyBriefly, Unverified
  <2>3. q \in Others(p)
    BY <2>2 DEF Others
  <2> QED BY <2>3 DEF PInv, Alone
<1> QED BY <1>1, PackedInvariance, PTL
=============================================================================
