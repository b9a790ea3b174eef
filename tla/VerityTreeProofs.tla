-------------------------- MODULE VerityTreeProofs --------------------------
(***************************************************************************)
(* Proofs about VerityTree, for any image, number of digests to a block,   *)
(* task size and number of goroutines: its type invariant; that no two     *)
(* goroutines work on one task; that a level is hashed only from complete  *)
(* levels, by induction over the steps; that nothing is written outside    *)
(* the hash area, nor far behind the image; that a consumer who knows only *)
(* the hash offset finds the tree; that the root depends on the image      *)
(* alone; and that every step comes closer to the end.                     *)
(*                                                                         *)
(* The geometry is recursive.  What its functions compute is proved by     *)
(* induction over the natural numbers, through NatRecursion.               *)
(***************************************************************************)
EXTENDS VerityTree, FiniteSetTheorems, SequenceTheorems, TLAPS

Busy == {"read", "write"}

\* Types of what the goroutines share and keep.
WorkerType ==
    /\ nextTask \in Nat
    /\ wpc \in [Pool -> {"stopped", "take"} \cup Busy]
    /\ task \in [Pool -> Nat]

\* A task that is being worked on has been drawn, so it will not be again.
Drawn == \A w \in Pool : wpc[w] \in Busy => task[w] < nextTask

\* A level is started only when nobody works on the one before.
Joined == phase # "hash" => \A w \in Pool : wpc[w] = "stopped"

TaskInv == WorkerType /\ Drawn /\ Joined /\ TasksDisjoint

-----------------------------------------------------------------------------
\* No goroutine runs at first.
LEMMA InitTask == Init => TaskInv
BY DEF Init, TaskInv, WorkerType, Drawn, Joined, TasksDisjoint, Busy

\* The invariant is preserved by every step of the formatting.
LEMMA NextTask == TaskInv /\ [Next]_vars => TaskInv'
<1> SUFFICES ASSUME TaskInv, [Next]_vars PROVE TaskInv'
  OBVIOUS
<1> USE DEF TaskInv, Busy
<1>1. CASE WriteSuperblock
  BY <1>1 DEF WriteSuperblock, NextLevel, workers, WorkerType, Drawn, Joined, TasksDisjoint
<1>2. CASE SpawnWorkers
  \* The counter starts over, but no goroutine has a task yet.
  <2>1. \A w \in Pool : wpc'[w] \in {"take", "stopped"}
    BY <1>2 DEF SpawnWorkers
  <2>2. WorkerType'
    BY <1>2 DEF SpawnWorkers, WorkerType
  <2> QED BY <1>2, <2>1, <2>2 DEF SpawnWorkers, Drawn, Joined, TasksDisjoint
<1>3. CASE WaitWorkers
  BY <1>3 DEF WaitWorkers, NextLevel, workers, WorkerType, Drawn, Joined, TasksDisjoint
<1>4. CASE ReturnRoot \/ MainFails
  BY <1>4 DEF ReturnRoot, MainFails, workers, level_vars, WorkerType, Drawn, Joined, TasksDisjoint
<1>5. ASSUME NEW w \in Pool, TakeTask(w) PROVE TaskInv'
  <2>1. /\ nextTask' = nextTask + 1
        /\ task' = [task EXCEPT ![w] = nextTask]
        /\ wpc' = [wpc EXCEPT ![w] = wpc'[w]]
        /\ wpc'[w] \in {"stopped", "read"}
        /\ phase' = phase /\ phase = "hash"
    BY <1>5 DEF TakeTask, WorkerType, Joined
  <2>2. WorkerType'
    BY <2>1 DEF WorkerType
  <2>3. Drawn' /\ Joined'
    BY <2>1 DEF WorkerType, Drawn, Joined
  \* The others' tasks are below the counter, w's new one is the counter.
  <2>4. \A v \in Pool \ {w} : wpc'[v] \in Busy => task'[v] < nextTask /\ task'[w] = nextTask
    BY <2>1 DEF WorkerType, Drawn
  <2>5. TasksDisjoint'
    <3> SUFFICES ASSUME NEW u \in Pool, NEW v \in Pool,
                        wpc'[u] \in Busy, wpc'[v] \in Busy, task'[u] = task'[v]
                 PROVE  u = v
      BY DEF TasksDisjoint
    <3>1. CASE u # w /\ v # w
      BY <3>1, <2>1 DEF WorkerType, TasksDisjoint
    <3>2. CASE u = w \/ v = w
      BY <3>2, <2>2, <2>4, <2>1 DEF WorkerType
    <3> QED BY <3>1, <3>2
  <2> QED BY <2>2, <2>3, <2>5
\* Steps that leave the counter and the tasks alone and make nobody busy.
<1>6. ASSUME NEW w \in Pool, wpc[w] \in Busy, UNCHANGED <<phase, nextTask, task>>,
             wpc' = [wpc EXCEPT ![w] = wpc'[w]],
             wpc'[w] \in {"stopped", "take", "read", "write"}
      PROVE  TaskInv'
  <2>1. phase = "hash"
    BY <1>6 DEF Joined
  <2>2. \A v \in Pool : wpc'[v] \in Busy => wpc[v] \in Busy
    BY <1>6 DEF WorkerType
  <2>3. WorkerType'
    BY <1>6 DEF WorkerType
  <2> QED BY <1>6, <2>1, <2>2, <2>3 DEF Drawn, Joined, TasksDisjoint
<1>7. ASSUME NEW w \in Pool, ReadAndHash(w) PROVE TaskInv'
  BY <1>6, <1>7 DEF ReadAndHash, level_vars, WorkerType
<1>8. ASSUME NEW w \in Pool, WriteBlocks(w) PROVE TaskInv'
  BY <1>6, <1>8 DEF WriteBlocks, level_vars, WorkerType
<1>9. ASSUME NEW w \in Pool, WorkerFails(w) PROVE TaskInv'
  BY <1>6, <1>9 DEF WorkerFails, level_vars, WorkerType
<1>10. CASE UNCHANGED vars
  BY <1>10 DEF vars, WorkerType, Drawn, Joined, TasksDisjoint
<1> QED
  BY <1>1, <1>2, <1>3, <1>4, <1>5, <1>7, <1>8, <1>9, <1>10 DEF Next, Main, Worker

\* Each task is worked on by at most one goroutine at any time, so each hash
\* block is written by one only (nextTask of verityHashLevel).
THEOREM TasksStayDisjoint == Spec => []TasksDisjoint
<1>1. TaskInv => TasksDisjoint
  BY DEF TaskInv
<1> QED BY <1>1, InitTask, NextTask, PTL DEF Spec

-----------------------------------------------------------------------------
(* Arithmetic.                                                             *)

\* Multiplication distributes over addition.
LEMMA Distrib ==
    ASSUME NEW a \in Int, NEW b \in Int, NEW d \in Int
    PROVE  (a + b) * d = a * d + b * d
OBVIOUS

\* Multiplication keeps the order.
LEMMA TimesMonotone ==
    ASSUME NEW a \in Int, NEW b \in Int, NEW d \in Nat, a <= b
    PROVE  a * d \in Int /\ b * d \in Int /\ a * d <= b * d
OBVIOUS

\* Products of natural numbers.
LEMMA TimesNat ==
    ASSUME NEW a \in Nat, NEW d \in Nat
    PROVE  a * d \in Nat /\ d * a = a * d /\ (d > 0 => a <= a * d)
OBVIOUS

\* Division with remainder.
LEMMA Quotient ==
    ASSUME NEW a \in Nat, NEW d \in Nat, d > 0
    PROVE  /\ a \div d \in Nat /\ a % d \in 0 .. d - 1
           /\ a = (a \div d) * d + (a % d)
OBVIOUS

\* There is only one quotient.
LEMMA QuotientUnique ==
    ASSUME NEW a \in Nat, NEW d \in Nat, d > 0, NEW q \in Nat, NEW r \in 0 .. d - 1,
           a = q * d + r
    PROVE  q = a \div d /\ r = a % d
<1> DEFINE p == a \div d
           s == a % d
<1>1. p \in Nat /\ s \in 0 .. d - 1 /\ a = p * d + s
  BY Quotient
<1> HIDE DEF p, s
<1>2. ~ (p < q)
  <2> SUFFICES ASSUME p + 1 <= q PROVE FALSE
    BY <1>1
  <2>1. (p + 1) * d <= q * d /\ (p + 1) * d = p * d + 1 * d /\ 1 * d = d
    BY <1>1, TimesMonotone, Distrib
  <2>2. p * d \in Int /\ q * d \in Int
    BY <1>1, TimesMonotone
  <2> QED BY <1>1, <2>1, <2>2
<1>3. ~ (q < p)
  <2> SUFFICES ASSUME q + 1 <= p PROVE FALSE
    BY <1>1
  <2>1. (q + 1) * d <= p * d /\ (q + 1) * d = q * d + 1 * d /\ 1 * d = d
    BY <1>1, TimesMonotone, Distrib
  <2>2. p * d \in Int /\ q * d \in Int
    BY <1>1, TimesMonotone
  <2> QED BY <1>1, <2>1, <2>2
<1>4. p = q
  BY <1>1, <1>2, <1>3
<1>5. r = s
  <2>1. q * d \in Int
    BY TimesMonotone
  <2> QED BY <1>1, <1>4, <2>1
<1> QED BY <1>4, <1>5 DEF p, s

\* What is below the quotient rounded up.
LEMMA CeilLess ==
    ASSUME NEW m \in Nat, NEW d \in Nat, d > 0
    PROVE  CeilDiv(m, d) \in Nat /\ \A t \in Nat : t < CeilDiv(m, d) <=> t * d < m
<1> DEFINE c == CeilDiv(m, d)
<1>1. /\ c \in Nat /\ (m + d - 1) % d \in 0 .. d - 1
      /\ m + d - 1 = c * d + ((m + d - 1) % d)
  BY Quotient DEF CeilDiv
<1> HIDE DEF c
<1>2. c * d \in Int /\ c * d <= m + d - 1 /\ m <= c * d
  BY <1>1, TimesMonotone
<1>3. ASSUME NEW t \in Nat PROVE t < c <=> t * d < m
  <2>1. t * d \in Int /\ (t + 1) * d = t * d + d
    BY TimesMonotone
  <2>2. CASE t < c
    <3>1. (t + 1) * d <= c * d
      BY <1>1, <2>2, TimesMonotone
    <3> QED BY <1>2, <2>1, <2>2, <3>1
  <2>3. CASE ~ (t < c)
    <3>1. c * d <= t * d
      BY <1>1, <2>3, TimesMonotone
    <3> QED BY <1>2, <2>1, <2>3, <3>1
  <2> QED BY <2>2, <2>3
<1> QED BY <1>1, <1>3 DEF c

\* Rounding up is from the next number of ds.
LEMMA CeilBounds ==
    ASSUME NEW m \in Nat, NEW d \in Nat, d > 0
    PROVE  /\ CeilDiv(m, d) \in Nat /\ CeilDiv(m, d) * d \in Nat
           /\ m <= CeilDiv(m, d) * d /\ CeilDiv(m, d) * d < m + d
<1> DEFINE c == CeilDiv(m, d)
<1>1. /\ c \in Nat /\ (m + d - 1) % d \in 0 .. d - 1
      /\ m + d - 1 = c * d + ((m + d - 1) % d)
  BY Quotient DEF CeilDiv
<1> HIDE DEF c
<1>2. c * d \in Nat
  BY <1>1, TimesNat
<1> QED BY <1>1, <1>2 DEF c

\* A level is not empty, and smaller than what it covers, but for a lone block.
LEMMA CeilSmaller ==
    ASSUME NEW m \in Nat, NEW d \in Nat, d > 1, m > 0
    PROVE  /\ CeilDiv(m, d) \in Nat /\ CeilDiv(m, d) >= 1
           /\ m > 1 => CeilDiv(m, d) < m
           /\ (d - 1) * (CeilDiv(m, d) - 1) + CeilDiv(m, d) - 1 <= m - 1
<1> DEFINE c == CeilDiv(m, d)
<1>1. c \in Nat /\ c * d \in Nat /\ m <= c * d /\ c * d < m + d
  BY CeilBounds
<1> HIDE DEF c
<1>2. c >= 1
  BY <1>1
<1>3. (d - 1) * (c - 1) + c - 1 <= m - 1
  <2>1. (d - 1) * (c - 1) = c * d - d - c + 1
    BY <1>1
  <2> QED BY <1>1, <2>1
<1>4. m > 1 => c < m
  <2> SUFFICES ASSUME m > 1, c >= m PROVE FALSE
    BY <1>1
  <2>1. (c - 1) <= (c - 1) * (d - 1)
    BY <1>1, <1>2, TimesNat
  <2>2. (c - 1) * (d - 1) = (d - 1) * (c - 1) /\ (d - 1) * (c - 1) \in Int
    BY <1>1
  <2> QED BY <1>1, <1>3, <2>1, <2>2
<1> QED BY <1>1, <1>2, <1>3, <1>4 DEF c

-----------------------------------------------------------------------------
(* The levels' sizes.                                                      *)

BlocksDef(f, m) == IF m <= 1 THEN << >> ELSE <<CeilDiv(m, D)>> \o f[CeilDiv(m, D)]
Blocks == INSTANCE NatRecursion WITH Def <- BlocksDef

\* levelBlocks is what its definition says.
LEMMA BlocksValues == levelBlocks = [m \in Nat |-> BlocksDef(levelBlocks, m)]
<1>1. Blocks!Recursive = levelBlocks
  BY DEF Blocks!Recursive, levelBlocks, BlocksDef
<1>2. Blocks!Local
  <2> SUFFICES ASSUME NEW k \in Nat, NEW g, NEW h, \A i \in 0 .. k - 1 : g[i] = h[i]
               PROVE  BlocksDef(g, k) = BlocksDef(h, k)
    BY DEF Blocks!Local
  <2>1. k > 1 => CeilDiv(k, D) \in 0 .. k - 1
    BY CeilSmaller, VerityAssumption
  <2> QED BY <2>1 DEF BlocksDef
<1> QED BY <1>1, <1>2, Blocks!RecursiveValues

\* s are the sizes of the levels over m blocks, from the data upwards.
Levels(s, m) ==
    /\ s \in Seq(Nat) /\ Len(s) \in Nat
    /\ m <= 1 => Len(s) = 0
    /\ m > 1 => Len(s) \in 1 .. m - 1 /\ s[1] = CeilDiv(m, D) /\ s[Len(s)] = 1
    /\ \A i \in 1 .. Len(s) : s[i] \in Nat /\ s[i] >= 1
    /\ \A i \in 1 .. Len(s) : i < Len(s) => s[i] > 1 /\ s[i + 1] = CeilDiv(s[i], D)

\* The loop yields them.
LEMMA LevelsOf == \A m \in Nat : Levels(levelBlocks[m], m)
<1> DEFINE S == {m \in Nat : Levels(levelBlocks[m], m)}
<1>1. ASSUME NEW m \in Nat, \A i \in 0 .. m - 1 : i \in S PROVE m \in S
  <2>1. levelBlocks[m] = BlocksDef(levelBlocks, m)
    BY BlocksValues
  <2>2. CASE m <= 1
    <3>1. levelBlocks[m] = << >>
      BY <2>1, <2>2 DEF BlocksDef
    <3>2. Levels(<< >>, m)
      BY <2>2 DEF Levels
    <3> QED BY <3>1, <3>2
  <2>3. CASE m > 1
    <3> DEFINE c == CeilDiv(m, D)
               b == levelBlocks[c]
               s == <<c>> \o b
    <3>1. c \in Nat /\ c >= 1 /\ c < m
      BY <2>3, CeilSmaller, VerityAssumption
    <3>2. Levels(b, c)
      BY <1>1, <3>1
    <3>3. levelBlocks[m] = s
      BY <2>1, <2>3 DEF BlocksDef
    <3> HIDE DEF b
    <3>4. b \in Seq(Nat) /\ Len(b) \in Nat
      BY <3>2 DEF Levels
    <3>5. /\ s \in Seq(Nat) /\ Len(s) = 1 + Len(b) /\ s[1] = c
          /\ \A i \in 1 .. Len(b) : s[i + 1] = b[i]
      BY <3>1, <3>4
    <3> HIDE DEF s
    <3>6. CASE c <= 1
      <4>1. Len(b) = 0
        BY <3>2, <3>6 DEF Levels
      <4> HIDE DEF c
      <4>2. Levels(s, m)
        BY <2>3, <3>1, <3>5, <3>6, <4>1 DEF Levels, c
      <4> QED BY <3>3, <4>2
    <3>7. CASE c > 1
      <4>1. /\ Len(b) \in 1 .. c - 1 /\ b[1] = CeilDiv(c, D) /\ b[Len(b)] = 1
            /\ \A i \in 1 .. Len(b) : b[i] \in Nat /\ b[i] >= 1
            /\ \A i \in 1 .. Len(b) : i < Len(b) => b[i] > 1 /\ b[i + 1] = CeilDiv(b[i], D)
        BY <3>2, <3>7 DEF Levels
      <4>2. Len(s) \in 1 .. m - 1 /\ s[Len(s)] = 1
        BY <3>1, <3>4, <3>5, <4>1
      <4>3. \A i \in 1 .. Len(s) : s[i] \in Nat /\ s[i] >= 1
        <5>1. \A i \in 1 .. Len(s) : i = 1 \/ (i - 1 \in 1 .. Len(b) /\ (i - 1) + 1 = i)
          BY <3>4, <3>5
        <5>2. ASSUME NEW i \in 1 .. Len(b) PROVE s[i + 1] \in Nat /\ s[i + 1] >= 1
          BY <3>5, <4>1
        <5> QED BY <3>1, <3>5, <5>1, <5>2
      <4>4. ASSUME NEW i \in 1 .. Len(s), i < Len(s)
            PROVE  s[i] > 1 /\ s[i + 1] = CeilDiv(s[i], D)
        <5>1. CASE i = 1
          <6>1. 1 \in 1 .. Len(b)
            BY <4>1
          <6>2. s[1 + 1] = b[1]
            BY <3>5, <6>1
          <6> QED BY <3>5, <3>7, <4>1, <5>1, <6>2
        <5>2. CASE i # 1
          <6>1. i - 1 \in 1 .. Len(b) /\ i \in 1 .. Len(b) /\ i - 1 < Len(b) /\ (i - 1) + 1 = i
            BY <3>4, <3>5, <4>4, <5>2
          <6>2. s[i] = b[i - 1] /\ s[i + 1] = b[i]
            BY <3>5, <6>1
          <6>3. b[i - 1] > 1 /\ b[i] = CeilDiv(b[i - 1], D)
            BY <4>1, <6>1
          <6> QED BY <6>2, <6>3
        <5> QED BY <5>1, <5>2
      <4> HIDE DEF c
      <4>5. Levels(s, m)
        BY <2>3, <3>4, <3>5, <4>2, <4>3, <4>4 DEF Levels, c
      <4> QED BY <3>3, <4>5
    <3> QED BY <3>1, <3>6, <3>7
  <2> QED BY <2>2, <2>3
<1> HIDE DEF S
<1>2. Nat \subseteq S
  BY <1>1, Blocks!Induction
<1> QED BY <1>2 DEF S

\* The blocks of level l; level 0 is the data.
Size(l) == IF l = 0 THEN n ELSE Sizes[l]

\* Each level covers the one below, up to a level of one block.
LEMMA SizeFacts ==
    ASSUME n \in Nat, n > 0
    PROVE  /\ Height \in Nat /\ Height < n
           /\ Size(0) = n /\ Size(Height) = 1
           /\ \A l \in 0 .. Height : Size(l) \in Nat /\ Size(l) >= 1
           /\ \A l \in 1 .. Height : /\ Size(l) = Sizes[l] /\ Size(l - 1) > 1
                                     /\ Size(l) = CeilDiv(Size(l - 1), D)
<1>1. Levels(Sizes, n)
  BY LevelsOf DEF Sizes
<1>2. Height = Len(Sizes) /\ Height \in Nat
  BY <1>1 DEF Levels, Height
<1>3. CASE n <= 1
  <2>1. Height = 0 /\ n = 1
    BY <1>1, <1>2, <1>3 DEF Levels
  <2> QED BY <2>1 DEF Size
<1>4. CASE n > 1
  <2>1. /\ Height \in 1 .. n - 1 /\ Sizes[1] = CeilDiv(n, D) /\ Sizes[Height] = 1
        /\ \A i \in 1 .. Height : Sizes[i] \in Nat /\ Sizes[i] >= 1
        /\ \A i \in 1 .. Height : i < Height => Sizes[i] > 1 /\ Sizes[i + 1] = CeilDiv(Sizes[i], D)
    BY <1>1, <1>2, <1>4 DEF Levels
  <2>2. \A l \in 0 .. Height : Size(l) \in Nat /\ Size(l) >= 1
    BY <2>1 DEF Size
  <2>3. ASSUME NEW l \in 1 .. Height
        PROVE  Size(l) = Sizes[l] /\ Size(l - 1) > 1 /\ Size(l) = CeilDiv(Size(l - 1), D)
    <3>1. CASE l = 1
      BY <1>4, <2>1, <3>1 DEF Size
    <3>2. CASE l # 1
      <4>1. l - 1 \in 1 .. Height /\ l - 1 < Height /\ (l - 1) + 1 = l
        BY <3>2, <2>1
      <4>2. Sizes[l - 1] > 1 /\ Sizes[l] = CeilDiv(Sizes[l - 1], D)
        BY <2>1, <4>1
      <4> QED BY <3>2, <4>1, <4>2 DEF Size
    <3> QED BY <3>1, <3>2
  <2> QED BY <2>1, <2>2, <2>3 DEF Size
<1> QED BY <1>3, <1>4

-----------------------------------------------------------------------------
(* Where the levels lie.                                                   *)

\* Counted from the top, as the code goes through them.
FromTopDef(f, k) == IF k = 0 THEN n + 1 ELSE f[k - 1] + Sizes[Height - k + 1]
FromTop == INSTANCE NatRecursion WITH Def <- FromTopDef

\* levelOffset is what its definition says.
LEMMA OffsetValues ==
    ASSUME Height \in Nat
    PROVE  levelOffset = [i \in Nat |-> IF i >= Height THEN n + 1
                                        ELSE levelOffset[i + 1] + Sizes[i + 1]]
<1> DEFINE t == FromTop!Recursive
           H == Height
           f == [i \in Nat |-> IF i >= H THEN n + 1 ELSE t[H - i]]
<1>1. FromTop!Local
  <2> SUFFICES ASSUME NEW k \in Nat, NEW g, NEW h, \A i \in 0 .. k - 1 : g[i] = h[i]
               PROVE  FromTopDef(g, k) = FromTopDef(h, k)
    BY DEF FromTop!Local
  <2>1. k = 0 \/ k - 1 \in 0 .. k - 1
    OBVIOUS
  <2> QED BY <2>1 DEF FromTopDef
<1>2. t = [k \in Nat |-> FromTopDef(t, k)]
  BY <1>1, FromTop!RecursiveValues
<1>3. t[0] = n + 1 /\ \A k \in Nat \ {0} : t[k] = t[k - 1] + Sizes[H - k + 1]
  <2> HIDE DEF t, H
  <2> QED BY <1>2 DEF FromTopDef, H
<1> HIDE DEF t, H
<1>4. H \in Nat
  BY DEF H
<1>5. ASSUME NEW i \in Nat
      PROVE  f[i] = IF i >= H THEN n + 1 ELSE f[i + 1] + Sizes[i + 1]
  <2>1. CASE i >= H
    BY <2>1
  <2>2. CASE ~ (i >= H)
    <3>1. H - i \in Nat \ {0} /\ (H - i) - 1 = H - (i + 1) /\ H - (H - i) + 1 = i + 1
      BY <1>4, <2>2
    <3>2. t[H - i] = t[H - (i + 1)] + Sizes[i + 1]
      BY <1>3, <3>1
    <3>3. f[i + 1] = t[H - (i + 1)]
      <4>1. CASE i + 1 >= H
        <5>1. H - (i + 1) = 0
          BY <1>4, <2>2, <4>1
        <5> QED BY <1>3, <4>1, <5>1
      <4>2. CASE ~ (i + 1 >= H)
        BY <4>2
      <4> QED BY <4>1, <4>2
    <3>4. f[i] = t[H - i]
      BY <2>2
    <3> HIDE DEF f
    <3> QED BY <2>2, <3>2, <3>3, <3>4
  <2> QED BY <2>1, <2>2
<1>6. f = [i \in Nat |-> f[i]]
  OBVIOUS
<1> HIDE DEF f
<1>7. f = [i \in Nat |-> IF i >= H THEN n + 1 ELSE f[i + 1] + Sizes[i + 1]]
  BY <1>5, <1>6
<1>8. \E g : g = [i \in Nat |-> IF i >= H THEN n + 1 ELSE g[i + 1] + Sizes[i + 1]]
  BY <1>7
<1> QED BY <1>8 DEF levelOffset, H

\* The top level lies behind the superblock, each lower one behind the next
\* higher.  The levels above l take no more than Height - l blocks and a
\* (D - 1)-th of what they cover.
LEMMA OffsetFacts ==
    ASSUME n \in Nat, n > 0
    PROVE  /\ levelOffset[Height] = n + 1
           /\ \A l \in 0 .. Height :
                 /\ levelOffset[l] \in Nat /\ levelOffset[l] >= n + 1
                 /\ (D - 1) * (levelOffset[l] - (n + 1) - (Height - l)) <= Size(l) - 1
                 /\ Height - l <= Size(l) - 1
           /\ \A l \in 1 .. Height : levelOffset[l - 1] = levelOffset[l] + Size(l)
<1> DEFINE H == Height
           Fits(l) == /\ levelOffset[l] \in Nat /\ levelOffset[l] >= n + 1
                      /\ (D - 1) * (levelOffset[l] - (n + 1) - (H - l)) <= Size(l) - 1
                      /\ H - l <= Size(l) - 1
           S == {k \in Nat : k <= H => Fits(H - k)}
<1>1. /\ H \in Nat /\ Size(0) = n /\ Size(H) = 1
      /\ \A l \in 0 .. H : Size(l) \in Nat /\ Size(l) >= 1
      /\ \A l \in 1 .. H : Size(l) = Sizes[l] /\ Size(l - 1) > 1 /\ Size(l) = CeilDiv(Size(l - 1), D)
  BY SizeFacts
<1>2. levelOffset[H] = n + 1
  BY <1>1, OffsetValues
<1>3. ASSUME NEW l \in 1 .. H PROVE levelOffset[l - 1] = levelOffset[l] + Size(l)
  <2>1. l - 1 \in Nat /\ ~ (l - 1 >= H) /\ (l - 1) + 1 = l
    BY <1>1
  <2>2. levelOffset[l - 1] = levelOffset[l] + Sizes[l]
    BY <1>1, <2>1, OffsetValues
  <2> QED BY <1>1, <2>2
<1>4. ASSUME NEW k \in Nat, \A i \in 0 .. k - 1 : i \in S PROVE k \in S
  <2> SUFFICES ASSUME k <= H PROVE Fits(H - k)
    OBVIOUS
  <2> HIDE DEF S, H
  <2>1. CASE k = 0
    <3>1. H - k = H
      BY <1>1, <2>1
    <3>2. (D - 1) * ((n + 1) - (n + 1) - (H - H)) = 0
      BY <1>1, VerityAssumption
    <3>3. Fits(H)
      BY <1>1, <1>2, <3>2
    <3> QED BY <3>1, <3>3
  <2>2. CASE k > 0
    <3> DEFINE l == H - k
               o == levelOffset[l + 1]
               c == Size(l + 1)
               m == Size(l)
    <3>1. /\ l \in 0 .. H /\ l + 1 \in 1 .. H /\ l + 1 \in 0 .. H /\ (l + 1) - 1 = l
          /\ k - 1 \in 0 .. k - 1 /\ k - 1 <= H /\ H - (k - 1) = l + 1
      BY <1>1, <2>2
    <3>2. Fits(l + 1)
      BY <1>4, <3>1 DEF S
    <3>3. levelOffset[l] = o + c
      BY <1>3, <3>1
    <3>4. c \in Nat /\ c >= 1 /\ m \in Nat /\ m > 1 /\ c = CeilDiv(m, D)
      BY <1>1, <3>1
    <3>5. c < m /\ (D - 1) * (c - 1) + c - 1 <= m - 1
      BY <3>4, CeilSmaller, VerityAssumption
    <3>6. /\ o \in Nat /\ o >= n + 1 /\ H - (l + 1) <= c - 1
          /\ (D - 1) * (o - (n + 1) - (H - (l + 1))) <= c - 1
      BY <3>2
    <3> HIDE DEF o, c, m, l
    <3>7. (D - 1) * ((o + c) - (n + 1) - (H - l)) <= m - 1
      <4> DEFINE x == o - (n + 1) - (H - (l + 1))
      <4>1. x \in Int /\ (o + c) - (n + 1) - (H - l) = x + (c - 1)
        BY <1>1, <3>1, <3>4, <3>6
      <4>2. (D - 1) * (x + (c - 1)) = (D - 1) * x + (D - 1) * (c - 1)
        BY <3>4, <4>1, VerityAssumption
      <4>3. (D - 1) * x \in Int /\ (D - 1) * (c - 1) \in Int
        BY <3>4, <4>1, VerityAssumption
      <4> HIDE DEF x
      <4>4. (D - 1) * x <= c - 1
        BY <3>6 DEF x
      <4> QED BY <3>4, <3>5, <4>1, <4>2, <4>3, <4>4
    <3>8. o + c \in Nat /\ o + c >= n + 1 /\ H - l <= m - 1
      BY <1>1, <3>1, <3>4, <3>5, <3>6
    <3>9. Fits(l)
      BY <3>3, <3>7, <3>8 DEF m, o, c
    <3> QED BY <3>9 DEF l
  <2> QED BY <2>1, <2>2
<1> HIDE DEF S
<1>5. Nat \subseteq S
  BY <1>4, Blocks!Induction
<1>6. ASSUME NEW l \in 0 .. H PROVE Fits(l)
  <2>1. H - l \in Nat /\ H - l <= H /\ H - (H - l) = l
    BY <1>1
  <2>2. H - l \in S
    BY <1>5, <2>1
  <2> HIDE DEF Fits
  <2> QED BY <2>1, <2>2 DEF S
<1> QED BY <1>2, <1>3, <1>6

\* A level lies behind all higher ones.
LEMMA OffsetOrder ==
    ASSUME n \in Nat, n > 0, NEW l \in 0 .. Height, NEW k \in 0 .. Height, l <= k
    PROVE  levelOffset[k] <= levelOffset[l]
<1> DEFINE S == {i \in Nat : i <= k => levelOffset[k] <= levelOffset[k - i]}
<1>0. k \in Nat /\ k <= Height /\ Height \in Nat
  BY SizeFacts
<1>1. ASSUME NEW i \in Nat, \A j \in 0 .. i - 1 : j \in S PROVE i \in S
  <2> SUFFICES ASSUME i <= k PROVE levelOffset[k] <= levelOffset[k - i]
    OBVIOUS
  <2>1. CASE i = 0
    <3>1. k - i = k /\ levelOffset[k] \in Nat
      BY <1>0, <2>1, OffsetFacts
    <3> QED BY <3>1
  <2>2. CASE i > 0
    <3>1. /\ i - 1 \in 0 .. i - 1 /\ i - 1 <= k /\ k - (i - 1) \in 1 .. Height
          /\ k - (i - 1) \in 0 .. Height /\ k - i \in 0 .. Height
          /\ (k - (i - 1)) - 1 = k - i
      BY <1>0, <2>2
    <3>2. levelOffset[k] <= levelOffset[k - (i - 1)]
      BY <1>1, <3>1
    <3>3. levelOffset[k - i] = levelOffset[k - (i - 1)] + Size(k - (i - 1))
      BY <3>1, OffsetFacts
    <3>4. /\ levelOffset[k - (i - 1)] \in Nat /\ levelOffset[k] \in Nat
          /\ Size(k - (i - 1)) \in Nat
      BY <3>1, OffsetFacts, SizeFacts
    <3> HIDE DEF S
    <3> QED BY <3>2, <3>3, <3>4
  <2> QED BY <2>1, <2>2
<1> HIDE DEF S
<1>2. Nat \subseteq S
  BY <1>1, Blocks!Induction
<1>3. k - l \in S /\ k - l <= k /\ k - (k - l) = l
  BY <1>0, <1>2
<1> QED BY <1>3 DEF S

-----------------------------------------------------------------------------
(* The tree of the format.                                                 *)

RefDef(f, l) ==
    IF l = 0 THEN [i \in 1 .. n |-> Data(i - 1)]
    ELSE LET below == f[l - 1]
         IN  [j \in 1 .. CeilDiv(Len(below), D) |->
                 HashBlock([s \in 1 .. D |-> IF (j - 1) * D + s <= Len(below)
                                             THEN Digest(below[(j - 1) * D + s])
                                             ELSE Zero])]
Ref == INSTANCE NatRecursion WITH Def <- RefDef

\* refLevel is what its definition says.
LEMMA RefValues == refLevel = [l \in Nat |-> RefDef(refLevel, l)]
<1>1. Ref!Recursive = refLevel
  BY DEF Ref!Recursive, refLevel, RefDef
<1>2. Ref!Local
  <2> SUFFICES ASSUME NEW k \in Nat, NEW g, NEW h, \A i \in 0 .. k - 1 : g[i] = h[i]
               PROVE  RefDef(g, k) = RefDef(h, k)
    BY DEF Ref!Local
  <2>1. k = 0 \/ k - 1 \in 0 .. k - 1
    OBVIOUS
  <2>2. k = 0 \/ g[k - 1] = h[k - 1]
    BY <2>1
  <2> QED BY <2>2 DEF RefDef
<1> QED BY <1>1, <1>2, Ref!RecursiveValues

\* A function on 1 .. m is a sequence of length m.
LEMMA FunctionIsSeq ==
    ASSUME NEW m \in Nat, NEW f, f = [i \in 1 .. m |-> f[i]]
    PROVE  Len(f) = m
<1> DEFINE S == {f[i] : i \in 1 .. m}
<1>1. f \in [1 .. m -> S]
  OBVIOUS
<1> HIDE DEF S
<1>2. f \in Seq(S)
  BY <1>1
<1>3. Len(f) \in Nat /\ DOMAIN f = 1 .. Len(f) /\ DOMAIN f = 1 .. m
  BY <1>1, <1>2, LenProperties
<1> QED BY <1>3

\* Block j of level l holds the digests of D blocks of the level below.
RefBlock(l, j) ==
    HashBlock([s \in 1 .. D |-> IF (j - 1) * D + s <= Size(l - 1)
                                THEN Digest(refLevel[l - 1][(j - 1) * D + s])
                                ELSE Zero])

\* The reference's levels have the tree's sizes, their blocks the digests.
LEMMA RefFacts ==
    ASSUME n \in Nat, n > 0
    PROVE  /\ \A i \in 1 .. n : refLevel[0][i] = Data(i - 1)
           /\ \A l \in 0 .. Height : Len(refLevel[l]) = Size(l)
           /\ \A l \in 1 .. Height : \A j \in 1 .. Size(l) : refLevel[l][j] = RefBlock(l, j)
<1> DEFINE H == Height
           below(l) == refLevel[l - 1]
           Block(l, j) == HashBlock([s \in 1 .. D |-> IF (j - 1) * D + s <= Len(below(l))
                                                      THEN Digest(below(l)[(j - 1) * D + s])
                                                      ELSE Zero])
           S == {l \in Nat : l <= H => Len(refLevel[l]) = Size(l)}
<1>1. /\ H \in Nat /\ Size(0) = n
      /\ \A l \in 0 .. H : Size(l) \in Nat
      /\ \A l \in 1 .. H : Size(l) = CeilDiv(Size(l - 1), D)
  BY SizeFacts
<1>2. refLevel[0] = [i \in 1 .. n |-> Data(i - 1)]
  BY RefValues DEF RefDef
<1>3. ASSUME NEW l \in Nat \ {0}
      PROVE  refLevel[l] = [j \in 1 .. CeilDiv(Len(below(l)), D) |-> Block(l, j)]
  BY RefValues DEF RefDef
<1> HIDE DEF H, Block
<1>4. ASSUME NEW l \in Nat, \A i \in 0 .. l - 1 : i \in S PROVE l \in S
  <2> SUFFICES ASSUME l <= H PROVE Len(refLevel[l]) = Size(l)
    OBVIOUS
  <2>1. CASE l = 0
    <3> DEFINE f == [i \in 1 .. n |-> Data(i - 1)]
    <3>1. f = [i \in 1 .. n |-> f[i]]
      OBVIOUS
    <3> HIDE DEF f
    <3>2. Len(f) = n
      BY <3>1, FunctionIsSeq
    <3> QED BY <1>1, <1>2, <2>1, <3>2 DEF f
  <2>2. CASE l # 0
    <3>1. l - 1 \in 0 .. l - 1 /\ l - 1 \in 0 .. H /\ l \in 1 .. H
      BY <1>1, <2>2
    <3>2. Len(below(l)) = Size(l - 1)
      BY <1>4, <3>1
    <3> DEFINE c == CeilDiv(Size(l - 1), D)
               f == [j \in 1 .. c |-> Block(l, j)]
    <3>3. c = Size(l) /\ c \in Nat
      BY <1>1, <3>1
    <3>4. refLevel[l] = f
      BY <1>3, <2>2, <3>2
    <3> HIDE DEF c
    <3>5. f = [j \in 1 .. c |-> f[j]]
      OBVIOUS
    <3> HIDE DEF f
    <3>6. Len(f) = c
      BY <3>3, <3>5, FunctionIsSeq
    <3> QED BY <3>3, <3>4, <3>6
  <2> QED BY <2>1, <2>2
<1> HIDE DEF S
<1>5. Nat \subseteq S
  BY <1>4, Ref!Induction
<1>6. \A l \in 0 .. H : Len(refLevel[l]) = Size(l)
  BY <1>1, <1>5 DEF S
<1>7. ASSUME NEW l \in 1 .. H, NEW j \in 1 .. Size(l) PROVE refLevel[l][j] = RefBlock(l, j)
  <2>1. l \in Nat \ {0} /\ l - 1 \in 0 .. H
    BY <1>1
  <2>2. Len(below(l)) = Size(l - 1)
    BY <1>6, <2>1
  <2>3. refLevel[l] = [k \in 1 .. CeilDiv(Size(l - 1), D) |-> Block(l, k)]
    BY <1>3, <2>1, <2>2
  <2>4. Size(l) = CeilDiv(Size(l - 1), D)
    BY <1>1
  <2>5. refLevel[l][j] = Block(l, j)
    BY <2>3, <2>4
  <2> QED BY <2>2, <2>5 DEF Block, RefBlock
<1>8. \A i \in 1 .. n : refLevel[0][i] = Data(i - 1)
  BY <1>2
<1> QED BY <1>6, <1>7, <1>8 DEF H

-----------------------------------------------------------------------------
(* The consumer's geometry.                                                *)

PowerDef(f, i) == IF i = 0 THEN 1 ELSE D * f[i - 1]
Power == INSTANCE NatRecursion WITH Def <- PowerDef

\* The shift's values.
LEMMA PowerFacts ==
    /\ power[0] = 1
    /\ \A i \in Nat : power[i] \in Nat /\ power[i] > i /\ power[i + 1] = D * power[i]
<1> DEFINE S == {i \in Nat : power[i] \in Nat /\ power[i] > i}
<1>1. Power!Recursive = power
  BY DEF Power!Recursive, power, PowerDef
<1>2. Power!Local
  <2> SUFFICES ASSUME NEW k \in Nat, NEW g, NEW h, \A i \in 0 .. k - 1 : g[i] = h[i]
               PROVE  PowerDef(g, k) = PowerDef(h, k)
    BY DEF Power!Local
  <2>1. k = 0 \/ k - 1 \in 0 .. k - 1
    OBVIOUS
  <2> QED BY <2>1 DEF PowerDef
<1>3. power = [i \in Nat |-> PowerDef(power, i)]
  BY <1>1, <1>2, Power!RecursiveValues
<1>4. power[0] = 1 /\ \A i \in Nat \ {0} : power[i] = D * power[i - 1]
  BY <1>3 DEF PowerDef
<1>5. ASSUME NEW i \in Nat, \A j \in 0 .. i - 1 : j \in S PROVE i \in S
  <2>1. CASE i = 0
    BY <1>4, <2>1
  <2>2. CASE i # 0
    <3> DEFINE p == power[i - 1]
    <3>1. i - 1 \in 0 .. i - 1 /\ p \in Nat /\ p > i - 1
      BY <1>5, <2>2
    <3>2. power[i] = D * p
      BY <1>4, <2>2
    <3> HIDE DEF p
    <3>3. 2 * p <= D * p /\ D * p \in Nat
      BY <3>1, VerityAssumption, TimesMonotone
    <3> QED BY <2>2, <3>1, <3>2, <3>3
  <2> QED BY <2>1, <2>2
<1> HIDE DEF S
<1>6. Nat \subseteq S
  BY <1>5, Power!Induction
<1>7. ASSUME NEW i \in Nat PROVE power[i + 1] = D * power[i]
  <2>1. i + 1 \in Nat \ {0} /\ (i + 1) - 1 = i
    OBVIOUS
  <2> QED BY <1>4, <2>1
<1> QED BY <1>4, <1>6, <1>7 DEF S

\* Rounding up twice is rounding up once.
LEMMA CeilTwice ==
    ASSUME NEW m \in Nat, NEW p \in Nat, p > 0, NEW d \in Nat, d > 0
    PROVE  CeilDiv(CeilDiv(m, p), d) = CeilDiv(m, d * p)
<1> DEFINE a == CeilDiv(m, p)
           b == CeilDiv(a, d)
           c == CeilDiv(m, d * p)
<1>1. d * p \in Nat /\ d * p > 0
  BY TimesNat
<1>2. a \in Nat /\ \A t \in Nat : t < a <=> t * p < m
  BY CeilLess
<1>3. b \in Nat /\ \A t \in Nat : t < b <=> t * d < a
  <2> HIDE DEF a
  <2> QED BY <1>2, CeilLess
<1>4. c \in Nat /\ \A t \in Nat : t < c <=> t * (d * p) < m
  <2> DEFINE q == d * p
  <2> HIDE DEF q
  <2>1. q \in Nat /\ q > 0
    BY <1>1 DEF q
  <2> QED BY <2>1, CeilLess DEF q
<1> HIDE DEF a, b, c
<1>5. ASSUME NEW t \in Nat PROVE t < b <=> t < c
  <2>1. t * d \in Nat /\ (t * d) * p = t * (d * p)
    BY TimesNat
  <2> QED BY <1>2, <1>3, <1>4, <2>1
<1>6. ~ (b < c) /\ ~ (c < b)
  BY <1>3, <1>4, <1>5
<1>7. b = c
  BY <1>3, <1>4, <1>6
<1> QED BY <1>7 DEF a, b, c

\* The levels' sizes by iteration are the sizes by division.
LEMMA SizeByDivision ==
    ASSUME n \in Nat, n > 0
    PROVE  \A l \in 0 .. Height : Size(l) = CeilDiv(n, power[l])
<1> DEFINE H == Height
           S == {l \in Nat : l <= H => Size(l) = CeilDiv(n, power[l])}
<1>1. /\ H \in Nat /\ Size(0) = n
      /\ \A l \in 1 .. H : Size(l) = CeilDiv(Size(l - 1), D)
  BY SizeFacts
<1> HIDE DEF H
<1>2. ASSUME NEW l \in Nat, \A i \in 0 .. l - 1 : i \in S PROVE l \in S
  <2> SUFFICES ASSUME l <= H PROVE Size(l) = CeilDiv(n, power[l])
    OBVIOUS
  <2>1. CASE l = 0
    <3>1. CeilDiv(n, 1) = n
      BY DEF CeilDiv
    <3> QED BY <1>1, <2>1, <3>1, PowerFacts
  <2>2. CASE l # 0
    <3>1. l - 1 \in 0 .. l - 1 /\ l - 1 \in Nat /\ l - 1 <= H /\ l \in 1 .. H /\ (l - 1) + 1 = l
      BY <1>1, <2>2
    <3>2. Size(l - 1) = CeilDiv(n, power[l - 1])
      BY <1>2, <3>1
    <3>3. power[l - 1] \in Nat /\ power[l - 1] > 0 /\ power[l] = D * power[l - 1]
      BY <3>1, PowerFacts
    <3> DEFINE p == power[l - 1]
    <3>4. CeilDiv(CeilDiv(n, p), D) = CeilDiv(n, D * p)
      <4>1. p \in Nat /\ p > 0 /\ D \in Nat /\ D > 0
        BY <3>3, VerityAssumption
      <4> HIDE DEF p
      <4> QED BY <4>1, CeilTwice
    <3> QED BY <1>1, <3>1, <3>2, <3>3, <3>4
  <2> QED BY <2>1, <2>2
<1> HIDE DEF S
<1>3. Nat \subseteq S
  BY <1>2, Power!Induction
<1> QED BY <1>1, <1>3 DEF S, H

\* The consumer computes the same number of levels,
LEMMA DmLevelsAre == ASSUME n \in Nat, n > 0 PROVE dmLevels = Height
<1>1. /\ Height \in Nat /\ Height < n /\ Size(Height) = 1
      /\ \A l \in 1 .. Height : Size(l - 1) > 1
  BY SizeFacts
<1>2. ASSUME NEW l \in 0 .. Height PROVE power[l] \in Nat /\ (power[l] < n <=> Size(l) > 1)
  <2>1. l \in Nat /\ power[l] \in Nat /\ power[l] > 0
    BY <1>1, PowerFacts
  <2>2. Size(l) = CeilDiv(n, power[l])
    BY SizeByDivision
  <2>3. 1 < CeilDiv(n, power[l]) <=> 1 * power[l] < n
    BY <2>1, CeilLess
  <2>4. CeilDiv(n, power[l]) \in Nat
    BY <2>1, CeilLess
  <2> QED BY <2>1, <2>2, <2>3, <2>4
<1> DEFINE Fewest(l) == power[l] >= n /\ \A k \in 0 .. l - 1 : power[k] < n
<1>3. Height \in 0 .. n /\ Fewest(Height)
  <2>1. power[Height] >= n
    BY <1>1, <1>2
  <2>2. ASSUME NEW k \in 0 .. Height - 1 PROVE power[k] < n
    <3>1. k \in 0 .. Height /\ k + 1 \in 1 .. Height /\ (k + 1) - 1 = k
      BY <1>1
    <3> QED BY <1>1, <1>2, <3>1
  <2> QED BY <1>1, <2>1, <2>2
<1>4. ASSUME NEW l \in 0 .. n, Fewest(l) PROVE l = Height
  <2>1. ~ (l < Height)
    <3> SUFFICES ASSUME l < Height PROVE FALSE
      OBVIOUS
    <3>1. l \in 0 .. Height /\ l \in 0 .. Height - 1
      BY <1>1
    <3>2. power[l] < n /\ power[l] \in Nat
      BY <1>2, <1>3, <3>1
    <3> QED BY <1>4, <3>2
  <2>2. ~ (Height < l)
    <3> SUFFICES ASSUME Height < l PROVE FALSE
      OBVIOUS
    <3>1. Height \in 0 .. l - 1 /\ Height \in 0 .. Height
      BY <1>1
    <3>2. power[Height] < n /\ power[Height] \in Nat
      BY <1>2, <1>4, <3>1
    <3> QED BY <1>3, <3>2
  <2> QED BY <1>1, <2>1, <2>2
<1>5. dmLevels = CHOOSE l \in 0 .. n : Fewest(l)
  BY DEF dmLevels, dmDataBlocks, ParamDataBlocks
<1> HIDE DEF Fewest
<1> QED BY <1>3, <1>4, <1>5

\* and the same offsets, counted from 0 and without the data.
LEMMA DmStartIs ==
    ASSUME n \in Nat, n > 0
    PROVE  \A l \in 1 .. Height : dmStart[l - 1] = levelOffset[l]
<1> DEFINE H == Height
           f == [i \in Nat |-> IF i >= H - 1 THEN n + 1 ELSE levelOffset[i + 1]]
           S == {k \in Nat : k < H => dmStart[H - 1 - k] = levelOffset[H - k]}
<1>1. /\ H \in Nat /\ levelOffset[H] = n + 1
      /\ \A l \in 1 .. H : levelOffset[l - 1] = levelOffset[l] + Size(l)
      /\ \A l \in 1 .. H : Size(l) = CeilDiv(n, power[l])
  BY SizeFacts, OffsetFacts, SizeByDivision
<1>2. ParamHashTreeOffset(n) = n + 1 /\ dmDataBlocks = n /\ dmLevels = H
  BY DmLevelsAre DEF ParamHashTreeOffset, dmDataBlocks, ParamDataBlocks
<1> HIDE DEF H
<1>3. ASSUME NEW i \in Nat, ~ (i >= H - 1)
      PROVE  /\ i + 1 \in Nat /\ i + 2 \in 1 .. H
             /\ levelOffset[i + 1] = levelOffset[i + 2] + CeilDiv(n, power[i + 2])
  <2>1. i + 2 \in 1 .. H /\ (i + 2) - 1 = i + 1
    BY <1>1, <1>3
  <2> QED BY <1>1, <2>1
<1>4. dmStart = [i \in Nat |-> IF i >= H - 1 THEN n + 1
                               ELSE dmStart[i + 1] + CeilDiv(n, power[i + 2])]
  <2>1. ASSUME NEW i \in Nat
        PROVE  f[i] = IF i >= H - 1 THEN n + 1 ELSE f[i + 1] + CeilDiv(n, power[i + 2])
    <3>1. CASE i >= H - 1
      BY <3>1
    <3>2. CASE ~ (i >= H - 1)
      <4>1. f[i] = levelOffset[i + 1]
        BY <3>2
      <4>2. f[i + 1] = levelOffset[i + 2]
        <5>1. CASE i + 1 >= H - 1
          <6>1. H = i + 2
            BY <1>1, <3>2, <5>1
          <6> QED BY <1>1, <5>1, <6>1
        <5>2. CASE ~ (i + 1 >= H - 1)
          BY <5>2
        <5> QED BY <5>1, <5>2
      <4> HIDE DEF f
      <4> QED BY <1>3, <3>2, <4>1, <4>2
    <3> QED BY <3>1, <3>2
  <2>2. f = [i \in Nat |-> f[i]]
    OBVIOUS
  <2> HIDE DEF f
  <2>3. f = [i \in Nat |-> IF i >= H - 1 THEN n + 1 ELSE f[i + 1] + CeilDiv(n, power[i + 2])]
    BY <2>1, <2>2
  <2>4. \E g : g = [i \in Nat |-> IF i >= H - 1 THEN n + 1
                                  ELSE g[i + 1] + CeilDiv(n, power[i + 2])]
    BY <2>3
  <2> QED BY <1>2, <2>4 DEF dmStart
<1>5. ASSUME NEW k \in Nat, \A i \in 0 .. k - 1 : i \in S PROVE k \in S
  <2> SUFFICES ASSUME k < H PROVE dmStart[H - 1 - k] = levelOffset[H - k]
    OBVIOUS
  <2>1. CASE k = 0
    <3>1. H - 1 \in Nat /\ H - 1 >= H - 1 /\ H - 1 - k = H - 1 /\ H - k = H
      BY <1>1, <2>1
    <3>2. dmStart[H - 1] = n + 1
      BY <1>4, <3>1
    <3> QED BY <1>1, <3>1, <3>2
  <2>2. CASE k # 0
    <3> DEFINE i == H - 1 - k
    <3>1. /\ i \in Nat /\ ~ (i >= H - 1) /\ i + 1 = H - 1 - (k - 1) /\ i + 2 = H - (k - 1)
          /\ i + 1 = H - k /\ k - 1 \in 0 .. k - 1 /\ k - 1 < H
      BY <1>1, <2>2
    <3>2. dmStart[i] = dmStart[i + 1] + CeilDiv(n, power[i + 2])
      <4> HIDE DEF i
      <4> QED BY <1>4, <3>1
    <3>3. dmStart[i + 1] = levelOffset[i + 2]
      BY <1>5, <3>1
    <3>4. levelOffset[i + 1] = levelOffset[i + 2] + CeilDiv(n, power[i + 2])
      BY <1>3, <3>1
    <3> QED BY <3>1, <3>2, <3>3, <3>4
  <2> QED BY <2>1, <2>2
<1> HIDE DEF S
<1>6. Nat \subseteq S
  BY <1>5, Power!Induction
<1>7. ASSUME NEW l \in 1 .. H PROVE dmStart[l - 1] = levelOffset[l]
  <2>1. H - l \in Nat /\ H - l < H /\ H - 1 - (H - l) = l - 1 /\ H - (H - l) = l
    BY <1>1
  <2>2. H - l \in S
    BY <1>6, <2>1
  <2> QED BY <2>1, <2>2 DEF S
<1> QED BY <1>7 DEF H

\* The block that covers b at the next level, and where b's digest is in it.
LEMMA CoveringBlock ==
    ASSUME NEW b \in Nat, NEW i \in Nat
    PROVE  /\ power[i] \in Nat /\ power[i] > 0 /\ b \div power[i] \in Nat
           /\ b \div power[i + 1] \in Nat
           /\ (b \div power[i]) % D \in 0 .. D - 1
           /\ b \div power[i] = (b \div power[i + 1]) * D + ((b \div power[i]) % D)
<1> DEFINE p == power[i]
           q == b \div p
           r == b % p
           q2 == q \div D
           r2 == q % D
<1>1. p \in Nat /\ p > 0 /\ power[i + 1] = D * p
  BY PowerFacts
<1> HIDE DEF p
<1>2. q \in Nat /\ r \in 0 .. p - 1 /\ b = q * p + r
  BY <1>1, Quotient
<1> HIDE DEF q, r
<1>3. q2 \in Nat /\ r2 \in 0 .. D - 1 /\ q = q2 * D + r2
  BY <1>2, Quotient, VerityAssumption
<1> HIDE DEF q2, r2
<1> DEFINE dp == D * p
           s  == r2 * p + r
<1>4. dp \in Nat /\ dp > 0
  BY <1>1, TimesNat, VerityAssumption
<1>5. s \in 0 .. dp - 1
  <2>1. r2 * p \in Nat /\ (r2 + 1) * p <= D * p /\ (r2 + 1) * p = r2 * p + p
    BY <1>1, <1>3, TimesNat, TimesMonotone, VerityAssumption
  <2> QED BY <1>1, <1>2, <1>4, <2>1
<1>6. b = q2 * dp + s
  <2>1. (q2 * D + r2) * p = (q2 * D) * p + r2 * p
    BY <1>1, <1>3, VerityAssumption, Distrib
  <2>2. (q2 * D) * p = q2 * (D * p)
    BY <1>1, <1>3, VerityAssumption
  <2>3. r2 * p \in Nat /\ q2 * (D * p) \in Nat
    BY <1>1, <1>3, <1>4, TimesNat
  <2>4. b = ((q2 * D) * p + r2 * p) + r
    BY <1>2, <1>3, <2>1
  <2>5. r \in Int
    BY <1>1, <1>2
  <2> QED BY <2>2, <2>3, <2>4, <2>5
<1> HIDE DEF dp, s
<1>7. q2 = b \div dp
  BY <1>3, <1>4, <1>5, <1>6, QuotientUnique
<1>8. b \div power[i + 1] = q2
  BY <1>1, <1>7 DEF dp
<1> QED BY <1>1, <1>2, <1>3, <1>8 DEF p, q, q2, r2

\* Address of level l, level 0 being the data.
Place(l) == IF l = 0 THEN 0 ELSE levelOffset[l]

\* Level l is in the file.
InPlace(l) == \A k \in 0 .. Size(l) - 1 : file[Place(l) + k] = refLevel[l][k + 1]

\* The data block of an intact image are level 0, the levels written the others.
LEMMA InPlaceData ==
    ASSUME n \in Nat, n > 0, \A a \in 0 .. n - 1 : file[a] = Data(a)
    PROVE  InPlace(0)
<1>1. \A k \in 0 .. n - 1 : k + 1 \in 1 .. n /\ (k + 1) - 1 = k /\ 0 + k = k
  OBVIOUS
<1>2. \A i \in 1 .. n : refLevel[0][i] = Data(i - 1)
  BY RefFacts
<1> QED BY <1>1, <1>2 DEF InPlace, Place, Size

\* A level is written when it is in place.
LEMMA InPlaceWritten ==
    ASSUME n \in Nat, n > 0, NEW l \in 1 .. Height
    PROVE  LevelWritten(l) <=> InPlace(l)
<1>1. /\ Len(refLevel[l]) = Size(l) /\ Size(l) \in Nat /\ l # 0
      /\ levelOffset[l] \in Nat
  <2>1. l \in 0 .. Height /\ l # 0
    BY SizeFacts
  <2> QED BY <2>1, RefFacts, SizeFacts, OffsetFacts
<1>2. ASSUME LevelWritten(l) PROVE InPlace(l)
  <2> SUFFICES ASSUME NEW k \in 0 .. Size(l) - 1
               PROVE  file[levelOffset[l] + k] = refLevel[l][k + 1]
    BY <1>1 DEF InPlace, Place
  <2>1. k + 1 \in 1 .. Size(l) /\ levelOffset[l] + (k + 1) - 1 = levelOffset[l] + k
    BY <1>1
  <2> QED BY <1>1, <1>2, <2>1 DEF LevelWritten
<1>3. ASSUME InPlace(l) PROVE LevelWritten(l)
  <2> SUFFICES ASSUME NEW j \in 1 .. Size(l)
               PROVE  file[levelOffset[l] + j - 1] = refLevel[l][j]
    BY <1>1 DEF LevelWritten
  <2>1. /\ j - 1 \in 0 .. Size(l) - 1 /\ (j - 1) + 1 = j
        /\ levelOffset[l] + j - 1 = levelOffset[l] + (j - 1)
    BY <1>1
  <2> QED BY <1>1, <1>3, <2>1 DEF InPlace, Place
<1> QED BY <1>2, <1>3

\* Where the consumer looks for what covers b is the level's block.
LEMMA DmBlockIs ==
    ASSUME n \in Nat, n > 0, NEW b \in 0 .. n - 1, NEW l \in 0 .. Height, InPlace(l)
    PROVE  /\ b \div power[l] \in 0 .. Size(l) - 1
           /\ dmBlock(b, l - 1) = refLevel[l][(b \div power[l]) + 1]
<1> DEFINE t == b \div power[l]
<1>1. Height \in Nat /\ l \in Nat /\ Size(l) \in Nat /\ b \in Nat
  BY SizeFacts
<1>2. power[l] \in Nat /\ power[l] > 0 /\ t \in Nat
  BY <1>1, CoveringBlock
<1>3. t < Size(l)
  <2>1. t * power[l] <= b
    <3> DEFINE p == power[l]
    <3>1. p \in Nat /\ p > 0
      BY <1>2
    <3> HIDE DEF p
    <3>2. b = (b \div p) * p + (b % p) /\ b % p \in 0 .. p - 1 /\ b \div p \in Nat
      BY <1>1, <3>1, Quotient
    <3>3. (b \div p) * p \in Nat
      BY <3>1, <3>2, TimesNat
    <3>4. (b \div p) * p <= b
      BY <3>1, <3>2, <3>3
    <3> QED BY <3>4 DEF p
  <2>2. Size(l) = CeilDiv(n, power[l])
    BY SizeByDivision
  <2>3. t * power[l] \in Nat
    BY <1>2, TimesNat
  <2>4. t * power[l] < n
    BY <2>1, <2>3
  <2> HIDE DEF t
  <2> QED BY <1>2, <2>2, <2>4, CeilLess
<1>4. t \in 0 .. Size(l) - 1
  BY <1>1, <1>2, <1>3
<1>5. file[Place(l) + t] = refLevel[l][t + 1]
  BY <1>4 DEF InPlace
<1>6. dmBlock(b, l - 1) = file[Place(l) + t]
  <2>1. CASE l = 0
    <3>1. t = b
      <4>1. power[0] = 1 /\ b = b * 1 + 0
        BY <1>1, PowerFacts
      <4>2. b = b \div 1
        BY <1>1, <4>1, QuotientUnique
      <4> QED BY <2>1, <4>1, <4>2
    <3> HIDE DEF t
    <3> QED BY <1>1, <2>1, <3>1 DEF dmBlock, Place
  <2>2. CASE l # 0
    <3>1. l \in 1 .. Height /\ ~ (l - 1 < 0) /\ (l - 1) + 1 = l
      BY <1>1, <2>2
    <3>2. dmStart[l - 1] = levelOffset[l]
      BY <3>1, DmStartIs
    <3> QED BY <2>2, <3>1, <3>2 DEF dmBlock, Place
  <2> QED BY <2>1, <2>2
<1> QED BY <1>4, <1>5, <1>6

\* A complete tree under its root is one the consumer reads through.
LEMMA CompleteTreeReads ==
    ASSUME n \in Nat, n > 0, \A l \in 0 .. Height : InPlace(l),
           root = Digest(file[Place(Height)]),
           NEW b \in 0 .. n - 1
    PROVE  DmVerityReads(b)
<1>1. /\ Height \in Nat /\ Size(Height) = 1
      /\ \A l \in 0 .. Height : Size(l) \in Nat
  BY SizeFacts
<1>2. dmLevels = Height
  BY DmLevelsAre
<1>3. ASSUME NEW i \in 0 .. Height - 1
      PROVE  Holds(dmBlock(b, i), dmSlot(b, i), Digest(dmBlock(b, i - 1)))
  <2> DEFINE t == b \div power[i]
             u == b \div power[i + 1]
             r == t % D
  <2>1. /\ i \in Nat /\ i \in 0 .. Height /\ i + 1 \in 1 .. Height /\ i + 1 \in 0 .. Height
        /\ (i + 1) - 1 = i /\ b \in Nat
    BY <1>1
  <2>2. t \in 0 .. Size(i) - 1 /\ dmBlock(b, i - 1) = refLevel[i][t + 1]
    BY <2>1, DmBlockIs
  <2>3. u \in 0 .. Size(i + 1) - 1 /\ dmBlock(b, i) = refLevel[i + 1][u + 1]
    BY <2>1, DmBlockIs
  <2>4. r \in 0 .. D - 1 /\ t = u * D + r /\ t \in Nat /\ u \in Nat
    BY <2>1, CoveringBlock
  <2>5. dmSlot(b, i) = r + 1
    BY DEF dmSlot
  <2> HIDE DEF t, u, r
  <2>6. u + 1 \in 1 .. Size(i + 1) /\ (u + 1) - 1 = u
    BY <1>1, <2>1, <2>3
  <2>7. dmBlock(b, i) = RefBlock(i + 1, u + 1)
    BY <2>1, <2>3, <2>6, RefFacts
  <2>8. r + 1 \in 1 .. D /\ u * D + (r + 1) = t + 1 /\ t + 1 <= Size(i)
    <3>1. u * D \in Nat
      BY <2>4, TimesNat, VerityAssumption
    <3> QED BY <1>1, <2>1, <2>2, <2>4, <3>1, VerityAssumption
  <2>9. RefBlock(i + 1, u + 1) =
            HashBlock([s \in 1 .. D |-> IF u * D + s <= Size(i)
                                        THEN Digest(refLevel[i][u * D + s]) ELSE Zero])
    BY <2>1, <2>6 DEF RefBlock
  <2>10. HashBlock([s \in 1 .. D |-> IF u * D + s <= Size(i)
                                     THEN Digest(refLevel[i][u * D + s]) ELSE Zero]).digests[r + 1]
             = Digest(refLevel[i][t + 1])
    BY <2>8 DEF HashBlock
  <2>11. "digests" \in DOMAIN RefBlock(i + 1, u + 1)
    BY <2>9 DEF HashBlock
  <2> QED BY <2>2, <2>5, <2>7, <2>9, <2>10, <2>11 DEF Holds
<1>4. root = Digest(dmBlock(b, Height - 1))
  <2> DEFINE t == b \div power[Height]
  <2>1. Height \in 0 .. Height
    BY <1>1
  <2>2. t \in 0 .. Size(Height) - 1 /\ dmBlock(b, Height - 1) = refLevel[Height][t + 1]
    BY <2>1, DmBlockIs
  <2> HIDE DEF t
  <2>3. t = 0 /\ 0 \in 0 .. Size(Height) - 1
    BY <1>1, <2>2
  <2>4. file[Place(Height) + 0] = refLevel[Height][0 + 1]
    BY <2>1, <2>3 DEF InPlace
  <2>5. Place(Height) + 0 = Place(Height)
    <3>1. Place(Height) \in Nat
      BY <1>1, OffsetFacts DEF Place
    <3> QED BY <3>1
  <2> QED BY <2>2, <2>3, <2>4, <2>5
<1> QED BY <1>2, <1>3, <1>4 DEF DmVerityReads

-----------------------------------------------------------------------------
(* Addresses.                                                              *)

\* No level is behind the bound of OnlyTreeWritten, nor behind the file.
LEMMA TreeEnds ==
    ASSUME n \in 1 .. MaxData
    PROVE  levelOffset[0] - 1 <= TreeBound /\ levelOffset[0] <= LastAddress
<1> DEFINE x == levelOffset[0] - (n + 1) - Height
           q == (n - 1) \div (D - 1)
           r == (n - 1) % (D - 1)
<1>1. /\ n \in Nat /\ n > 0 /\ Height \in Nat /\ Height < n
      /\ levelOffset[0] \in Nat /\ (D - 1) * x <= n - 1
  <2>1. n \in Nat /\ n > 0
    BY VerityAssumption
  <2>2. Height \in Nat /\ Height < n /\ 0 \in 0 .. Height /\ Size(0) = n
    BY <2>1, SizeFacts
  <2>3. (D - 1) * (levelOffset[0] - (n + 1) - (Height - 0)) <= Size(0) - 1 /\ levelOffset[0] \in Nat
    BY <2>1, <2>2, OffsetFacts
  <2>4. Height - 0 = Height
    BY <2>2
  <2> QED BY <2>1, <2>2, <2>3, <2>4
<1>2. D - 1 \in Nat /\ D - 1 > 0 /\ x \in Int
  BY <1>1, VerityAssumption
<1>3. q \in Nat /\ r \in 0 .. D - 1 - 1 /\ n - 1 = q * (D - 1) + r /\ q <= n - 1
  <2>1. n - 1 \in Nat
    BY <1>1
  <2>2. q \in Nat /\ r \in 0 .. D - 1 - 1 /\ n - 1 = q * (D - 1) + r
    BY <1>2, <2>1, Quotient
  <2> HIDE DEF q, r
  <2>3. q <= q * (D - 1) /\ q * (D - 1) \in Nat
    BY <1>2, <2>2, TimesNat
  <2> QED BY <1>1, <1>2, <2>2, <2>3
<1> HIDE DEF x, q, r
<1>4. x <= q
  <2> SUFFICES ASSUME q + 1 <= x PROVE FALSE
    BY <1>2, <1>3
  <2>1. (q + 1) * (D - 1) <= x * (D - 1) /\ (q + 1) * (D - 1) = q * (D - 1) + 1 * (D - 1)
    BY <1>2, <1>3, TimesMonotone, Distrib
  <2>2. x * (D - 1) = (D - 1) * x /\ 1 * (D - 1) = D - 1 /\ q * (D - 1) \in Nat /\ (D - 1) * x \in Int
    BY <1>2, <1>3, TimesNat
  <2> QED BY <1>1, <1>2, <1>3, <2>1, <2>2
<1>5. levelOffset[0] = x + n + 1 + Height
  BY <1>1 DEF x
<1>6. TreeBound = n + Height + q
  BY DEF TreeBound, q
<1> QED BY <1>1, <1>2, <1>3, <1>4, <1>5, <1>6, VerityAssumption DEF LastAddress

\* A block of a level has an address of its own, behind the higher levels.
LEMMA Addresses ==
    ASSUME n \in 1 .. MaxData, NEW l \in 0 .. Height, NEW k \in 0 .. Size(l) - 1
    PROVE  /\ Place(l) \in Nat /\ Place(l) + k \in 0 .. LastAddress
           /\ l = 0 => Place(l) + k < n
           /\ l > 0 => Place(l) + k >= n + 1 /\ Place(l) + k < levelOffset[l - 1]
                       /\ Place(l) + k < levelOffset[0]
<1>1. /\ n \in Nat /\ n > 0 /\ Height \in Nat /\ l \in Nat /\ Size(l) \in Nat
      /\ LastAddress \in Nat /\ MaxData \in Nat /\ n <= LastAddress
  BY SizeFacts, VerityAssumption DEF LastAddress
<1>2. CASE l = 0
  BY <1>1, <1>2, SizeFacts DEF Place
<1>3. CASE l > 0
  <2>1. l \in 1 .. Height /\ l - 1 \in 0 .. Height /\ 0 \in 0 .. Height /\ 0 <= l - 1
    BY <1>1, <1>3
  <2>2. /\ levelOffset[l] \in Nat /\ levelOffset[l] >= n + 1 /\ levelOffset[l - 1] \in Nat
        /\ levelOffset[l - 1] = levelOffset[l] + Size(l) /\ levelOffset[0] \in Nat
    BY <1>1, <2>1, OffsetFacts
  <2>3. levelOffset[l - 1] <= levelOffset[0]
    BY <1>1, <2>1, OffsetOrder
  <2>4. levelOffset[0] <= LastAddress
    BY TreeEnds
  <2> QED BY <1>1, <1>3, <2>2, <2>3, <2>4 DEF Place
<1> QED BY <1>1, <1>2, <1>3

\* Nothing of the geometry changes while the count of the data does not.
OffsetOf(m) == CHOOSE f : f = [i \in Nat |-> IF i >= Len(levelBlocks[m]) THEN m + 1
                                             ELSE f[i + 1] + levelBlocks[m][i + 1]]
RefOf(m) == CHOOSE f : f = [l \in Nat |->
    IF l = 0 THEN [i \in 1 .. m |-> Data(i - 1)]
    ELSE LET below == f[l - 1]
         IN  [j \in 1 .. CeilDiv(Len(below), D) |->
                 HashBlock([s \in 1 .. D |-> IF (j - 1) * D + s <= Len(below)
                                             THEN Digest(below[(j - 1) * D + s])
                                             ELSE Zero])]]

\* So none of it changes.
LEMMA Unchanging ==
    ASSUME n' = n
    PROVE  /\ Height' = Height /\ levelOffset' = levelOffset /\ refLevel' = refLevel
           /\ Superblock' = Superblock
           /\ \A l : Size(l)' = Size(l) /\ Place(l)' = Place(l)
<1>1. levelOffset = OffsetOf(n) /\ levelOffset' = OffsetOf(n')
  BY DEF levelOffset, OffsetOf, Height, Sizes
<1>2. refLevel = RefOf(n) /\ refLevel' = RefOf(n')
  BY DEF refLevel, RefOf
<1>3. OffsetOf(n') = OffsetOf(n) /\ RefOf(n') = RefOf(n)
  OBVIOUS
<1>4. levelOffset' = levelOffset /\ refLevel' = refLevel
  BY <1>1, <1>2, <1>3
<1>5. Height' = Height /\ Sizes' = Sizes /\ Superblock' = Superblock
  BY DEF Height, Sizes, Superblock
<1> QED BY <1>4, <1>5 DEF Size, Place

\* The names of the level at work.
LEMMA LevelNames ==
    ASSUME n \in Nat, n > 0, level \in 1 .. Height + 1
    PROVE  /\ srcBlocks = Size(level - 1) /\ srcOff = Place(level - 1)
           /\ level - 1 \in 0 .. Height
           /\ level <= Height => dstBlocks = Size(level) /\ dstOff = Place(level)
<1>1. Height \in Nat /\ \A l \in 1 .. Height : Size(l) = CeilDiv(Size(l - 1), D)
  BY SizeFacts
<1>2. srcBlocks = Size(level - 1) /\ srcOff = Place(level - 1)
  BY <1>1 DEF srcBlocks, srcOff, Size, Place
<1>3. ASSUME level <= Height PROVE dstBlocks = Size(level) /\ dstOff = Place(level)
  BY <1>1, <1>2, <1>3 DEF dstBlocks, dstOff, Place
<1> QED BY <1>1, <1>2, <1>3

-----------------------------------------------------------------------------
(* The invariant.                                                          *)

\* What never changes its type, and what the control says of the level.
StateType ==
    /\ n \in 1 .. MaxData
    /\ DOMAIN file = 0 .. LastAddress
    /\ firstErr \in BOOLEAN
    /\ DOMAIN out = Pool
    /\ \A w \in Pool : DOMAIN out[w] = 1 .. T * D

PhaseInv ==
    /\ phase \in {"superblock", "spawn", "hash", "root", "done", "failed"}
    /\ phase = "superblock" => level = 0
    /\ phase \in {"spawn", "hash"} => level \in 1 .. Height
    /\ phase = "failed" => level \in 0 .. Height + 1
    /\ phase \in {"root", "done"} => level = Height + 1
    /\ firstErr => phase \in {"hash", "failed"}

\* The image, the superblock and what is behind the tree.
Untouched ==
    \A a \in 0 .. LastAddress :
        /\ a < n => file[a] = Data(a)
        /\ a = n /\ level > 0 => file[a] = Superblock
        /\ a >= levelOffset[0] => file[a] = Hole

\* All levels below the one at work are in place.
LowerInPlace ==
    phase \in {"spawn", "hash", "root", "done"} => \A l \in 0 .. level - 1 : InPlace(l)

\* The blocks of a task are in place.
TaskInPlace(t) ==
    \A k \in 0 .. dstBlocks - 1 :
        t * T <= k /\ k < t * T + T => file[dstOff + k] = refLevel[level][k + 1]

\* The buffer of w holds the digests of its task, and zeros behind the last.
Buffered(w) ==
    \A s \in 1 .. nDst(w) * D :
        out[w][s] = IF srcStart(w) + s <= srcBlocks
                    THEN Digest(refLevel[level - 1][srcStart(w) + s]) ELSE Zero

\* A goroutine works on a task of the level; without an error, a task drawn
\* is at work or in place, and who has stopped has found no task left.
Hashing ==
    phase = "hash" =>
        /\ \A w \in Pool : wpc[w] \in Busy => task[w] < tasks
        /\ \A w \in Pool : wpc[w] = "write" => Buffered(w)
        /\ ~firstErr =>
              \A t \in Nat : t < nextTask /\ t < tasks =>
                  TaskInPlace(t) \/ \E w \in Pool : wpc[w] \in Busy /\ task[w] = t
        /\ ~firstErr =>
              \A w \in Pool : w <= Lesser(W, tasks) => wpc[w] # "stopped" \/ nextTask >= tasks

RootInv == phase = "done" => root = Digest(file[srcOff])

TreeInv ==
    /\ TaskInv /\ StateType /\ PhaseInv /\ Untouched
    /\ LowerInPlace /\ Hashing /\ RootInv

-----------------------------------------------------------------------------
(* Tasks.                                                                  *)

\* A task of the level begins in it and has at most T blocks there.
LEMMA TaskRange ==
    ASSUME n \in Nat, n > 0, level \in 1 .. Height, NEW w \in Pool,
           task[w] \in Nat, task[w] < tasks
    PROVE  /\ dstStart(w) = task[w] * T /\ dstStart(w) \in Nat /\ dstStart(w) < dstBlocks
           /\ nDst(w) \in 1 .. T /\ dstBlocks \in Nat
           /\ \A k \in Nat : k >= dstStart(w) /\ k < dstStart(w) + nDst(w)
                             <=> k < dstBlocks /\ task[w] * T <= k /\ k < task[w] * T + T
           /\ nDst(w) * D \in Nat /\ nDst(w) * D <= T * D
           /\ srcStart(w) = dstStart(w) * D /\ srcStart(w) \in Nat
<1>1. T \in Nat /\ T > 0 /\ D \in Nat /\ D > 1
  BY VerityAssumption
<1>2. dstBlocks \in Nat /\ dstBlocks >= 1
  <2>1. level \in 0 .. Height /\ level <= Height
    BY SizeFacts
  <2> QED BY <2>1, SizeFacts, LevelNames
<1>3. task[w] * T < dstBlocks
  BY <1>1, <1>2, CeilLess DEF tasks
<1>4. task[w] * T \in Nat
  BY <1>1, TimesNat
<1>5. dstStart(w) = task[w] * T
  BY DEF dstStart
<1>6. /\ nDst(w) \in 1 .. T
      /\ nDst(w) = IF T < dstBlocks - dstStart(w) THEN T ELSE dstBlocks - dstStart(w)
  BY <1>1, <1>2, <1>3, <1>4, <1>5 DEF nDst, Lesser
<1>7. nDst(w) * D \in Nat /\ nDst(w) * D <= T * D
  BY <1>1, <1>6, TimesNat, TimesMonotone
<1>8. srcStart(w) = dstStart(w) * D /\ srcStart(w) \in Nat
  BY <1>1, <1>4, <1>5, TimesNat DEF srcStart
<1>9. \A k \in Nat : k >= dstStart(w) /\ k < dstStart(w) + nDst(w)
                     <=> k < dstBlocks /\ task[w] * T <= k /\ k < task[w] * T + T
  BY <1>1, <1>2, <1>3, <1>4, <1>5, <1>6
<1> QED BY <1>2, <1>3, <1>4, <1>5, <1>6, <1>7, <1>8, <1>9

\* Two tasks have no block in common.
LEMMA TasksApart ==
    ASSUME NEW t \in Nat, NEW u \in Nat, t # u, NEW k \in Nat,
           t * T <= k, k < t * T + T, u * T <= k, k < u * T + T
    PROVE  FALSE
<1>1. T \in Nat /\ t * T \in Nat /\ u * T \in Nat
  BY TimesNat, VerityAssumption
<1>2. ASSUME NEW x \in Nat, NEW y \in Nat, x < y PROVE x * T + T <= y * T
  <2>1. (x + 1) * T <= y * T /\ (x + 1) * T = x * T + 1 * T /\ 1 * T = T
    BY <1>1, <1>2, TimesMonotone, Distrib
  <2> QED BY <2>1
<1>3. t < u \/ u < t
  OBVIOUS
<1>4. CASE t < u
  BY <1>1, <1>2, <1>4
<1>5. CASE u < t
  BY <1>1, <1>2, <1>5
<1> QED BY <1>3, <1>4, <1>5

\* When all tasks are in place, so is the level.
LEMMA TasksMakeLevel ==
    ASSUME n \in Nat, n > 0, level \in 1 .. Height,
           \A t \in Nat : t < tasks => TaskInPlace(t)
    PROVE  InPlace(level)
<1>1. T \in Nat /\ T > 0
  BY VerityAssumption
<1>2. dstBlocks = Size(level) /\ dstOff = Place(level) /\ Size(level) \in Nat
  <2>1. level \in 0 .. Height /\ level <= Height
    BY SizeFacts
  <2> QED BY <2>1, SizeFacts, LevelNames
<1> SUFFICES ASSUME NEW k \in 0 .. dstBlocks - 1
             PROVE  file[dstOff + k] = refLevel[level][k + 1]
  BY <1>2 DEF InPlace
<1> DEFINE t == k \div T
<1>3. k \in Nat /\ t \in Nat /\ k % T \in 0 .. T - 1 /\ k = t * T + (k % T)
  BY <1>1, <1>2, Quotient
<1> HIDE DEF t
<1>4. t * T \in Nat
  BY <1>1, <1>3, TimesNat
<1>5. t * T <= k /\ k < t * T + T /\ t * T < dstBlocks
  BY <1>1, <1>2, <1>3, <1>4
<1>6. t < tasks
  BY <1>1, <1>2, <1>3, <1>5, CeilLess DEF tasks
<1> QED BY <1>3, <1>5, <1>6 DEF TaskInPlace

\* A part of a function on numbers, cut out and by its values.
Part(f, m, d)  == SubSeq(f, m + 1, m + d)
Shift(f, m, d) == [s \in 1 .. d |-> f[m + s]]

\* They are the same.
LEMMA PartOf ==
    ASSUME NEW f, NEW m \in Nat, NEW d \in Nat, d > 0
    PROVE  Part(f, m, d) = Shift(f, m, d)
<1> DEFINE S == {f[i] : i \in m + 1 .. m + d}
           p == SubSeq(f, m + 1, m + d)
<1>1. /\ p \in Seq(S) /\ Len(p) = IF m + 1 <= m + d THEN m + d - (m + 1) + 1 ELSE 0
      /\ \A i \in 1 .. m + d - (m + 1) + 1 : p[i] = f[m + 1 + i - 1]
  <2>1. m + 1 \in Int /\ m + d \in Int /\ \A i \in m + 1 .. m + d : f[i] \in S
    OBVIOUS
  <2> HIDE DEF S
  <2> QED BY <2>1, SubSeqProperties
<1> HIDE DEF p, S
<1>2. Len(p) = d /\ \A i \in 1 .. d : p[i] = f[m + i]
  <2>1. m + d - (m + 1) + 1 = d /\ \A i \in 1 .. d : m + 1 + i - 1 = m + i
    OBVIOUS
  <2> QED BY <1>1, <2>1
<1>3. p \in [1 .. d -> S]
  BY <1>1, <1>2, LenProperties
<1>4. p = [s \in 1 .. d |-> p[s]]
  BY <1>3
<1> QED BY <1>2, <1>4 DEF p, Part, Shift

\* What a worker writes is the level's, block for block.
LEMMA WrittenBlock ==
    ASSUME n \in Nat, n > 0, level \in 1 .. Height, NEW w \in Pool,
           task[w] \in Nat, task[w] < tasks, Buffered(w),
           NEW j \in 0 .. nDst(w) - 1
    PROVE  HashBlock(SubSeq(out[w], j * D + 1, (j + 1) * D)) = refLevel[level][dstStart(w) + j + 1]
<1>1. D \in Nat /\ D > 1 /\ j \in Nat
  BY VerityAssumption
<1>2. /\ dstStart(w) \in Nat /\ srcStart(w) = dstStart(w) * D /\ srcStart(w) \in Nat
      /\ nDst(w) \in Nat /\ dstBlocks \in Nat /\ dstStart(w) + j < dstBlocks
  <2>1. dstStart(w) + j \in Nat /\ dstStart(w) + j >= dstStart(w)
        /\ dstStart(w) + j < dstStart(w) + nDst(w)
    BY <1>1, TaskRange
  <2> QED BY <2>1, TaskRange
<1>3. j * D \in Nat /\ (j + 1) * D = j * D + D /\ (j + 1) * D <= nDst(w) * D
      /\ nDst(w) * D \in Nat /\ (dstStart(w) + j) * D = srcStart(w) + j * D
  <2>1. j + 1 <= nDst(w)
    BY <1>1, <1>2
  <2>2. (j + 1) * D = j * D + 1 * D /\ 1 * D = D
    BY <1>1, Distrib
  <2>3. (dstStart(w) + j) * D = dstStart(w) * D + j * D
    BY <1>1, <1>2, Distrib
  <2> QED BY <1>1, <1>2, <2>1, <2>2, <2>3, TimesNat, TimesMonotone
<1>4. SubSeq(out[w], j * D + 1, (j + 1) * D) = [s \in 1 .. D |-> out[w][j * D + s]]
  <2> DEFINE m == j * D
  <2>1. m \in Nat /\ D \in Nat /\ D > 0 /\ (j + 1) * D = m + D
    BY <1>1, <1>3
  <2> HIDE DEF m
  <2>2. SubSeq(out[w], m + 1, m + D) = [s \in 1 .. D |-> out[w][m + s]]
    <3>1. Part(out[w], m, D) = Shift(out[w], m, D)
      BY <2>1, PartOf
    <3> QED BY <3>1 DEF Part, Shift
  <2> QED BY <2>1, <2>2 DEF m
<1> DEFINE k == dstStart(w) + j
<1>5. ASSUME NEW s \in 1 .. D
      PROVE  out[w][j * D + s] = IF k * D + s <= Size(level - 1)
                                 THEN Digest(refLevel[level - 1][k * D + s]) ELSE Zero
  <2>1. j * D + s \in 1 .. nDst(w) * D
    BY <1>1, <1>3
  <2>2. srcStart(w) + (j * D + s) = k * D + s
    BY <1>1, <1>2, <1>3
  <2>3. srcBlocks = Size(level - 1)
    <3>1. level \in 1 .. Height + 1
      BY SizeFacts
    <3> QED BY <3>1, LevelNames
  <2>4. out[w][j * D + s] = IF srcStart(w) + (j * D + s) <= srcBlocks
                            THEN Digest(refLevel[level - 1][srcStart(w) + (j * D + s)]) ELSE Zero
    BY <2>1 DEF Buffered
  <2> HIDE DEF k
  <2> QED BY <2>2, <2>3, <2>4
<1>6. k + 1 \in 1 .. Size(level) /\ (k + 1) - 1 = k
  <2>1. level \in 1 .. Height + 1 /\ level <= Height
    BY SizeFacts
  <2>2. dstBlocks = Size(level)
    BY <2>1, LevelNames
  <2> QED BY <1>1, <1>2, <2>2
<1> HIDE DEF k
<1>7. refLevel[level][k + 1] = HashBlock([s \in 1 .. D |-> IF k * D + s <= Size(level - 1)
                                          THEN Digest(refLevel[level - 1][k * D + s]) ELSE Zero])
  BY <1>6, RefFacts DEF RefBlock
<1>8. [s \in 1 .. D |-> out[w][j * D + s]] =
          [s \in 1 .. D |-> IF k * D + s <= Size(level - 1)
                            THEN Digest(refLevel[level - 1][k * D + s]) ELSE Zero]
  BY <1>5
<1> QED BY <1>4, <1>7, <1>8 DEF k

-----------------------------------------------------------------------------
(* The steps.                                                              *)

\* The count of the data stays.
LEMMA SameData == [Next]_vars => n' = n
BY DEF Next, vars, Main, Worker, WriteSuperblock, SpawnWorkers, WaitWorkers, ReturnRoot,
       MainFails, TakeTask, ReadAndHash, WriteBlocks, WorkerFails

\* What is known of the level at work.
LEMMA LevelRange ==
    ASSUME StateType, PhaseInv
    PROVE  /\ n \in Nat /\ n > 0 /\ Height \in Nat
           /\ phase \in {"spawn", "hash", "root", "done"} => level \in 1 .. Height + 1
           /\ phase = "hash" => level \in 1 .. Height
<1>1. n \in Nat /\ n > 0
  BY VerityAssumption DEF StateType
<1>2. Height \in Nat
  BY <1>1, SizeFacts
<1> QED BY <1>1, <1>2 DEF PhaseInv

\* A level whose blocks are not written stays in place.
LEMMA LevelStays ==
    ASSUME n' = n, NEW l, InPlace(l),
           \A k \in 0 .. Size(l) - 1 : file'[Place(l) + k] = file[Place(l) + k]
    PROVE  InPlace(l)'
<1>1. Size(l)' = Size(l) /\ Place(l)' = Place(l) /\ refLevel' = refLevel
  BY Unchanging
<1> QED BY <1>1 DEF InPlace

\* The level at work keeps its measures, its tasks what they have in place.
LEMMA SameLevel ==
    ASSUME n' = n, level' = level
    PROVE  /\ srcBlocks' = srcBlocks /\ srcOff' = srcOff /\ dstBlocks' = dstBlocks
           /\ dstOff' = dstOff /\ tasks' = tasks
           /\ refLevel' = refLevel
           /\ file' = file => \A t : TaskInPlace(t)' = TaskInPlace(t)
           /\ \A w : out'[w] = out[w] /\ task'[w] = task[w] => Buffered(w)' = Buffered(w)
<1>1. levelOffset' = levelOffset /\ refLevel' = refLevel
  BY Unchanging
<1>2. srcBlocks' = srcBlocks /\ srcOff' = srcOff
  BY <1>1 DEF srcBlocks, srcOff, Sizes
<1>3. dstBlocks' = dstBlocks /\ dstOff' = dstOff /\ tasks' = tasks
  BY <1>1, <1>2 DEF dstBlocks, dstOff, tasks
<1>4. ASSUME file' = file, NEW t PROVE TaskInPlace(t)' = TaskInPlace(t)
  BY <1>1, <1>3, <1>4 DEF TaskInPlace
<1>5. ASSUME NEW w, out'[w] = out[w], task'[w] = task[w] PROVE Buffered(w)' = Buffered(w)
  <2>1. srcStart(w)' = srcStart(w) /\ nDst(w)' = nDst(w)
    BY <1>3, <1>5 DEF srcStart, nDst, dstStart
  <2> QED BY <1>1, <1>2, <1>5, <2>1 DEF Buffered
<1> QED BY <1>1, <1>2, <1>3, <1>4, <1>5

\* A step that writes no file and starts no level breaks nothing of either.
LEMMA SameFile ==
    ASSUME n' = n, file' = file, level' = level, phase \in {"spawn", "hash", "root", "done"},
           Untouched, LowerInPlace
    PROVE  Untouched' /\ LowerInPlace'
<1>1. levelOffset' = levelOffset /\ Superblock' = Superblock
  BY Unchanging
<1>2. LastAddress' = LastAddress
  BY DEF LastAddress
<1>3. Untouched'
  BY <1>1, <1>2 DEF Untouched, Data, Hole
<1>4. ASSUME NEW l \in 0 .. level - 1, InPlace(l) PROVE InPlace(l)'
  BY <1>4, LevelStays
<1> QED BY <1>3, <1>4 DEF LowerInPlace

\* A level has a task.
LEMMA LevelTasks ==
    ASSUME StateType, PhaseInv, phase = "hash"
    PROVE  tasks \in Nat /\ tasks > 0 /\ dstBlocks \in Nat /\ dstBlocks > 0
<1>1. n \in Nat /\ n > 0 /\ level \in 1 .. Height /\ Height \in Nat
  BY LevelRange
<1>2. dstBlocks \in Nat /\ dstBlocks > 0
  <2>1. level \in 1 .. Height + 1 /\ level <= Height /\ level \in 0 .. Height
    BY <1>1
  <2> QED BY <1>1, <2>1, SizeFacts, LevelNames
<1>3. tasks \in Nat /\ tasks > 0
  BY <1>2, CeilBounds, VerityAssumption DEF tasks
<1> QED BY <1>2, <1>3

\* Before anything is written the image is all there is.
LEMMA InitTree == Init => TreeInv
<1> SUFFICES ASSUME Init PROVE TreeInv
  OBVIOUS
<1>1. n \in Nat /\ n > 0 /\ n \in 1 .. MaxData
  BY VerityAssumption DEF Init
<1>2. 0 \in 0 .. Height /\ levelOffset[0] >= n + 1 /\ levelOffset[0] \in Nat
  BY <1>1, SizeFacts, OffsetFacts
<1>3. Untouched
  BY <1>1, <1>2 DEF Init, Untouched
<1>4. StateType /\ PhaseInv
  BY DEF Init, StateType, PhaseInv
<1>5. LowerInPlace /\ Hashing /\ RootInv
  BY DEF Init, LowerInPlace, Hashing, RootInv
<1> QED BY <1>3, <1>4, <1>5, InitTask DEF TreeInv

\* The superblock goes between the image and the levels.
LEMMA SuperblockTree ==
    ASSUME TreeInv, TaskInv', WriteSuperblock
    PROVE  TreeInv'
<1>1. /\ n' = n /\ phase = "superblock" /\ level' = 1 /\ firstErr' = firstErr /\ out' = out
      /\ phase' = IF 1 <= Height THEN "spawn" ELSE "root"
      /\ file' = [file EXCEPT ![n] = Superblock]
  BY DEF WriteSuperblock, NextLevel, workers
<1>2. /\ n \in Nat /\ n > 0 /\ Height \in Nat /\ n \in 1 .. MaxData
      /\ StateType /\ PhaseInv /\ Untouched
  BY LevelRange DEF TreeInv, StateType
<1>3. levelOffset[0] \in Nat /\ levelOffset[0] >= n + 1 /\ Height' = Height
      /\ levelOffset' = levelOffset /\ Superblock' = Superblock /\ Size(0) = n /\ Place(0) = 0
  <2>1. 0 \in 0 .. Height
    BY <1>2
  <2> QED BY <1>1, <1>2, <2>1, OffsetFacts, SizeFacts, Unchanging DEF Place
<1>4. /\ LastAddress' = LastAddress /\ LastAddress \in Nat /\ n \in 0 .. LastAddress
      /\ DOMAIN file = 0 .. LastAddress /\ DOMAIN file' = 0 .. LastAddress
      /\ file'[n] = Superblock /\ \A a \in 0 .. LastAddress : a # n => file'[a] = file[a]
  <2>1. n \in 0 .. LastAddress /\ LastAddress' = LastAddress /\ LastAddress \in Nat
    BY <1>2, VerityAssumption DEF LastAddress
  <2>2. DOMAIN file = 0 .. LastAddress
    BY <1>2 DEF StateType
  <2> QED BY <1>1, <2>1, <2>2
<1>5. StateType'
  BY <1>1, <1>2, <1>4 DEF StateType, Pool
<1>6. PhaseInv'
  BY <1>1, <1>2, <1>3 DEF PhaseInv
<1>7. Untouched'
  BY <1>1, <1>2, <1>3, <1>4 DEF Untouched, Data, Hole
<1>8. LowerInPlace'
  <2>1. n \in Nat /\ n > 0 /\ \A a \in 0 .. n - 1 : file[a] = Data(a)
    BY <1>2, <1>4 DEF Untouched
  <2>2. InPlace(0)
    BY <2>1, InPlaceData
  <2>3. \A k \in 0 .. Size(0) - 1 : file'[Place(0) + k] = file[Place(0) + k]
    BY <1>2, <1>3, <1>4
  <2>4. InPlace(0)'
    BY <1>1, <2>2, <2>3, LevelStays
  <2> QED BY <1>1, <2>4 DEF LowerInPlace
<1>9. Hashing' /\ RootInv'
  BY <1>1 DEF Hashing, RootInv
<1> QED BY <1>5, <1>6, <1>7, <1>8, <1>9 DEF TreeInv

\* The goroutines of a level start with no task.
LEMMA SpawnTree ==
    ASSUME TreeInv, TaskInv', SpawnWorkers
    PROVE  TreeInv'
<1>1. /\ n' = n /\ file' = file /\ level' = level /\ firstErr' = firstErr
      /\ phase = "spawn" /\ phase' = "hash" /\ nextTask' = 0
      /\ DOMAIN out' = Pool /\ \A w \in Pool : DOMAIN out'[w] = 1 .. T * D
      /\ \A w \in Pool : wpc'[w] = IF w <= Lesser(W, tasks) THEN "take" ELSE "stopped"
  BY DEF SpawnWorkers
<1>2. StateType /\ PhaseInv /\ Untouched /\ LowerInPlace
  BY DEF TreeInv
<1>3. Untouched' /\ LowerInPlace'
  BY <1>1, <1>2, SameFile
<1>4. StateType'
  BY <1>1, <1>2 DEF StateType, Pool, LastAddress
<1>5. PhaseInv'
  BY <1>1, <1>2, Unchanging DEF PhaseInv
<1>6. Hashing'
  <2>1. tasks' = tasks
    BY <1>1, SameLevel
  <2> QED BY <1>1, <2>1 DEF Hashing, Busy, Pool, Lesser
<1>7. RootInv'
  BY <1>1 DEF RootInv
<1> QED BY <1>3, <1>4, <1>5, <1>6, <1>7 DEF TreeInv

\* A task of the level is drawn, or the goroutine finds none left.
LEMMA TakeTree ==
    ASSUME TreeInv, TaskInv', NEW w \in Pool, TakeTask(w)
    PROVE  TreeInv'
<1>1. /\ n' = n /\ file' = file /\ level' = level /\ firstErr' = firstErr /\ phase' = phase
      /\ out' = out /\ nextTask' = nextTask + 1 /\ wpc[w] = "take" /\ nextTask \in Nat
      /\ wpc'[w] = IF nextTask >= tasks THEN "stopped" ELSE "read"
      /\ task'[w] = nextTask
      /\ \A v \in Pool : v # w => wpc'[v] = wpc[v] /\ task'[v] = task[v]
      /\ task \in [Pool -> Nat]
  BY DEF TakeTask, TreeInv, TaskInv, WorkerType
<1>2. StateType /\ PhaseInv /\ Untouched /\ LowerInPlace /\ Hashing /\ phase = "hash"
  BY <1>1 DEF TreeInv, TaskInv, Joined
<1>3. Untouched' /\ LowerInPlace'
  BY <1>1, <1>2, SameFile
<1>4. StateType' /\ PhaseInv' /\ RootInv'
  BY <1>1, <1>2, Unchanging DEF StateType, PhaseInv, RootInv, Pool, LastAddress
<1>5. /\ tasks' = tasks /\ \A t : TaskInPlace(t)' = TaskInPlace(t)
      /\ \A v \in Pool : v # w => Buffered(v)' = Buffered(v)
  BY <1>1, SameLevel
<1>6. Hashing'
  <2>1. /\ \A v \in Pool : wpc[v] \in Busy => task[v] < tasks
        /\ \A v \in Pool : wpc[v] = "write" => Buffered(v)
    BY <1>2 DEF Hashing
  <2>2. \A v \in Pool : wpc'[v] \in Busy => task'[v] < tasks
    <3>1. tasks \in Int => (wpc'[w] = "read" => nextTask < tasks)
      BY <1>1
    <3>2. tasks \in Int
      BY <1>2, LevelTasks
    <3> QED BY <1>1, <2>1, <3>1, <3>2 DEF Busy
  <2>3. \A v \in Pool : wpc'[v] = "write" => Buffered(v)'
    BY <1>1, <1>5, <2>1
  <2>4. ASSUME ~firstErr, NEW t \in Nat, t < nextTask', t < tasks, ~TaskInPlace(t)
        PROVE  \E v \in Pool : wpc'[v] \in Busy /\ task'[v] = t
    <3>1. CASE t = nextTask
      <4>1. tasks \in Int
        BY <1>2, LevelTasks
      <4> QED BY <1>1, <2>4, <3>1, <4>1 DEF Busy
    <3>2. CASE t < nextTask
      <4>1. PICK v \in Pool : wpc[v] \in Busy /\ task[v] = t
        BY <1>2, <2>4, <3>2 DEF Hashing
      <4> QED BY <1>1, <4>1 DEF Busy
    <3> QED BY <1>1, <2>4, <3>1, <3>2
  <2>5. ASSUME ~firstErr, NEW v \in Pool, v <= Lesser(W, tasks)
        PROVE  wpc'[v] # "stopped" \/ nextTask' >= tasks
    <3>1. tasks \in Int
      BY <1>2, LevelTasks
    <3>2. wpc[v] # "stopped" \/ nextTask >= tasks
      BY <1>2, <2>5 DEF Hashing
    <3> QED BY <1>1, <3>1, <3>2
  <2> QED BY <1>1, <1>5, <2>2, <2>3, <2>4, <2>5 DEF Hashing, Pool, Lesser
<1> QED BY <1>3, <1>4, <1>6 DEF TreeInv

\* The digests of the task's blocks are taken from a level that is in place.
LEMMA ReadTree ==
    ASSUME TreeInv, TaskInv', NEW w \in Pool, ReadAndHash(w)
    PROVE  TreeInv'
<1>1. /\ n' = n /\ file' = file /\ level' = level /\ firstErr' = firstErr /\ phase' = phase
      /\ nextTask' = nextTask /\ task' = task /\ wpc[w] = "read" /\ wpc'[w] = "write"
      /\ \A v \in Pool : v # w => wpc'[v] = wpc[v]
      /\ task \in [Pool -> Nat]
  BY DEF ReadAndHash, level_vars, TreeInv, TaskInv, WorkerType
<1>2. StateType /\ PhaseInv /\ Untouched /\ LowerInPlace /\ Hashing /\ phase = "hash"
  BY <1>1 DEF TreeInv, TaskInv, Joined
<1>3. /\ DOMAIN out' = Pool /\ DOMAIN out'[w] = 1 .. T * D
      /\ \A v \in Pool : v # w => out'[v] = out[v]
      /\ \A s \in 1 .. T * D :
            out'[w][s] = IF s <= nSrc(w) THEN Digest(file[srcOff + srcStart(w) + s - 1])
                         ELSE IF s <= nDst(w) * D THEN Zero ELSE out[w][s]
  BY <1>2 DEF ReadAndHash, StateType
<1>4. Untouched' /\ LowerInPlace'
  BY <1>1, <1>2, SameFile
<1>5. StateType' /\ PhaseInv' /\ RootInv'
  <2>1. \A v \in Pool : DOMAIN out'[v] = 1 .. T * D
    BY <1>2, <1>3 DEF StateType
  <2> QED BY <1>1, <1>2, <1>3, <2>1, Unchanging DEF StateType, PhaseInv, RootInv, Pool, LastAddress
<1>6. /\ tasks' = tasks /\ srcBlocks' = srcBlocks /\ refLevel' = refLevel
      /\ \A t : TaskInPlace(t)' = TaskInPlace(t)
      /\ \A v \in Pool : v # w => Buffered(v)' = Buffered(v)
  BY <1>1, <1>3, SameLevel
<1>7. /\ n \in Nat /\ n > 0 /\ level \in 1 .. Height /\ Height \in Nat
      /\ task[w] \in Nat /\ task[w] < tasks
  BY <1>1, <1>2, LevelRange DEF Hashing, Busy
<1>8. /\ nDst(w) * D \in Nat /\ nDst(w) * D <= T * D /\ T * D \in Nat /\ srcStart(w) \in Nat
      /\ srcBlocks \in Nat /\ srcBlocks = Size(level - 1) /\ srcOff = Place(level - 1)
      /\ srcOff \in Nat /\ level - 1 \in 0 .. level - 1
  <2>1. level \in 1 .. Height + 1 /\ level - 1 \in 0 .. Height /\ level - 1 \in 0 .. level - 1
    BY <1>7
  <2>2. srcBlocks \in Nat /\ srcBlocks = Size(level - 1) /\ srcOff = Place(level - 1)
    BY <1>7, <2>1, SizeFacts, LevelNames
  <2>3. srcOff \in Nat
    BY <1>7, <2>1, <2>2, OffsetFacts DEF Place
  <2> QED BY <1>7, <2>1, <2>2, <2>3, TaskRange, TimesNat, VerityAssumption
<1>9. nSrc(w) = IF nDst(w) * D < srcBlocks - srcStart(w)
                THEN nDst(w) * D ELSE srcBlocks - srcStart(w)
  BY DEF nSrc, Lesser
<1>10. Buffered(w)'
  <2>1. nDst(w)' = nDst(w) /\ srcStart(w)' = srcStart(w)
    <3>1. dstBlocks' = dstBlocks
      BY <1>1, SameLevel
    <3> QED BY <1>1, <3>1 DEF nDst, srcStart, dstStart
  <2>2. ASSUME NEW s \in 1 .. nDst(w) * D
        PROVE  out'[w][s] = IF srcStart(w) + s <= srcBlocks
                            THEN Digest(refLevel[level - 1][srcStart(w) + s]) ELSE Zero
    <3>1. s \in 1 .. T * D /\ s \in Nat /\ s <= nDst(w) * D
      BY <1>8
    <3>2. CASE srcStart(w) + s <= srcBlocks
      <4>1. s <= nSrc(w)
        BY <1>8, <1>9, <3>1, <3>2
      <4> DEFINE k == srcStart(w) + s - 1
      <4>2. k \in 0 .. Size(level - 1) - 1 /\ k + 1 = srcStart(w) + s
            /\ srcOff + srcStart(w) + s - 1 = Place(level - 1) + k
        BY <1>8, <3>1, <3>2
      <4> HIDE DEF k
      <4>3. file[Place(level - 1) + k] = refLevel[level - 1][k + 1]
        <5>1. InPlace(level - 1)
          BY <1>2, <1>8 DEF LowerInPlace
        <5> QED BY <4>2, <5>1 DEF InPlace
      <4>4. out'[w][s] = Digest(file[srcOff + srcStart(w) + s - 1])
        BY <1>3, <3>1, <4>1
      <4> QED BY <3>2, <4>2, <4>3, <4>4
    <3>3. CASE ~(srcStart(w) + s <= srcBlocks)
      <4>1. ~(s <= nSrc(w))
        BY <1>8, <1>9, <3>1, <3>3
      <4> QED BY <1>3, <3>1, <3>3, <4>1
    <3> QED BY <3>2, <3>3
  <2> QED BY <1>1, <1>6, <2>1, <2>2 DEF Buffered, Digest, Zero
<1>11. Hashing'
  <2>1. /\ \A v \in Pool : wpc'[v] \in Busy <=> wpc[v] \in Busy
        /\ \A v \in Pool : wpc'[v] = "stopped" <=> wpc[v] = "stopped"
    BY <1>1 DEF Busy
  <2>2. \A v \in Pool : wpc'[v] = "write" => Buffered(v)'
    BY <1>1, <1>2, <1>6, <1>10 DEF Hashing
  <2> QED BY <1>1, <1>2, <1>6, <2>1, <2>2 DEF Hashing, Pool, Lesser
<1> QED BY <1>4, <1>5, <1>11 DEF TreeInv

\* A write puts the blocks of its task in place and touches no others.
LEMMA WriteTree ==
    ASSUME TreeInv, TaskInv', NEW w \in Pool, WriteBlocks(w)
    PROVE  TreeInv'
<1> DEFINE first == dstOff + dstStart(w)
           mine  == first .. first + nDst(w) - 1
<1>1. /\ n' = n /\ level' = level /\ firstErr' = firstErr /\ phase' = phase /\ out' = out
      /\ nextTask' = nextTask /\ task' = task /\ wpc[w] = "write" /\ wpc'[w] = "take"
      /\ \A v \in Pool : v # w => wpc'[v] = wpc[v]
      /\ task \in [Pool -> Nat]
  BY DEF WriteBlocks, level_vars, TreeInv, TaskInv, WorkerType
<1>2. StateType /\ PhaseInv /\ Untouched /\ LowerInPlace /\ Hashing /\ phase = "hash"
  BY <1>1 DEF TreeInv, TaskInv, Joined
<1>3. /\ DOMAIN file' = 0 .. LastAddress
      /\ \A a \in 0 .. LastAddress :
            file'[a] = IF a \in mine
                       THEN HashBlock(SubSeq(out[w], (a - first) * D + 1, (a - first + 1) * D))
                       ELSE file[a]
  BY DEF WriteBlocks
<1>4. /\ n \in Nat /\ n > 0 /\ n \in 1 .. MaxData /\ level \in 1 .. Height /\ Height \in Nat
      /\ task[w] \in Nat /\ task[w] < tasks /\ Buffered(w)
  BY <1>1, <1>2, LevelRange DEF Hashing, Busy, StateType
<1>5. /\ dstOff = Place(level) /\ dstBlocks = Size(level) /\ dstOff \in Nat
      /\ dstOff = levelOffset[level] /\ dstOff >= n + 1
      /\ levelOffset[level - 1] = dstOff + dstBlocks /\ dstBlocks \in Nat
      /\ level \in 0 .. Height /\ level - 1 \in 0 .. Height
  <2>1. level \in 1 .. Height + 1 /\ level <= Height /\ level \in 0 .. Height
        /\ level - 1 \in 0 .. Height /\ level # 0
    BY <1>4
  <2> QED BY <1>4, <2>1, LevelNames, OffsetFacts, SizeFacts DEF Place
<1>6. /\ dstStart(w) \in Nat /\ dstStart(w) < dstBlocks /\ nDst(w) \in 1 .. T /\ nDst(w) \in Nat
      /\ \A k \in Nat : k >= dstStart(w) /\ k < dstStart(w) + nDst(w)
                        <=> k < dstBlocks /\ task[w] * T <= k /\ k < task[w] * T + T
  BY <1>4, TaskRange, VerityAssumption
<1>7. /\ \A k \in Nat : dstOff + k \in mine
                        <=> k < dstBlocks /\ task[w] * T <= k /\ k < task[w] * T + T
      /\ \A a \in Nat : a \in mine => a >= dstOff /\ a < dstOff + dstBlocks
  <2>1. \A k \in Nat : dstOff + k \in mine <=> k >= dstStart(w) /\ k < dstStart(w) + nDst(w)
    BY <1>5, <1>6
  <2>2. ASSUME NEW a \in Nat, a \in mine PROVE a >= dstOff /\ a < dstOff + dstBlocks
    <3> DEFINE k == a - dstOff
    <3>1. k \in Nat /\ a = dstOff + k /\ k >= dstStart(w) /\ k < dstStart(w) + nDst(w)
      BY <1>5, <1>6, <2>2
    <3> HIDE DEF k, mine
    <3>2. k < dstBlocks
      BY <1>6, <3>1
    <3> QED BY <1>5, <3>1, <3>2
  <2> HIDE DEF mine
  <2> QED BY <1>6, <2>1, <2>2
<1> DEFINE written(a) == HashBlock(SubSeq(out[w], (a - first) * D + 1, (a - first + 1) * D))
<1>8. ASSUME NEW k \in Nat, dstOff + k \in mine
      PROVE  written(dstOff + k) = refLevel[level][k + 1]
  <2> DEFINE j == k - dstStart(w)
  <2>1. j \in 0 .. nDst(w) - 1 /\ dstStart(w) + j + 1 = k + 1 /\ (dstOff + k) - first = j
    BY <1>5, <1>6, <1>8
  <2> HIDE DEF j, first, mine
  <2>2. HashBlock(SubSeq(out[w], j * D + 1, (j + 1) * D)) = refLevel[level][dstStart(w) + j + 1]
    BY <1>4, <2>1, WrittenBlock
  <2> QED BY <2>1, <2>2
<1> HIDE DEF first, mine
\* What is written is between the level and the one below.
<1>9. ASSUME NEW a \in 0 .. LastAddress, a < dstOff \/ a >= dstOff + dstBlocks
      PROVE  file'[a] = file[a]
  <2>1. a \in Nat /\ LastAddress \in Int
    BY VerityAssumption DEF LastAddress
  <2>2. a \notin mine
    BY <1>5, <1>7, <1>9, <2>1
  <2> QED BY <1>3, <2>2
<1>10. /\ levelOffset' = levelOffset /\ Superblock' = Superblock /\ LastAddress' = LastAddress
       /\ Height' = Height /\ refLevel' = refLevel
  BY <1>1, Unchanging DEF LastAddress
<1>11. /\ tasks' = tasks /\ dstBlocks' = dstBlocks /\ dstOff' = dstOff
       /\ \A v \in Pool : Buffered(v)' = Buffered(v)
  BY <1>1, SameLevel
<1>12. StateType' /\ PhaseInv' /\ RootInv'
  BY <1>1, <1>2, <1>3, <1>10 DEF StateType, PhaseInv, RootInv, Pool
<1>13. Untouched'
  <2>1. levelOffset[0] \in Nat /\ levelOffset[0] >= dstOff + dstBlocks
    <3>1. 0 \in 0 .. Height /\ 0 <= level - 1
      BY <1>4
    <3> QED BY <1>4, <1>5, <3>1, OffsetFacts, OffsetOrder
  <2>2. LastAddress \in Nat
    BY VerityAssumption DEF LastAddress
  <2> SUFFICES ASSUME NEW a \in 0 .. LastAddress
               PROVE  /\ a < n => file'[a] = Data(a)
                      /\ a = n => file'[a] = Superblock
                      /\ a >= levelOffset[0] => file'[a] = Hole
    BY <1>1, <1>10 DEF Untouched, Data, Hole
  <2>3. ASSUME a <= n \/ a >= levelOffset[0] PROVE file'[a] = file[a]
    BY <1>4, <1>5, <1>9, <2>1, <2>2, <2>3
  <2> QED BY <1>2, <1>4, <2>1, <2>2, <2>3 DEF Untouched
<1>14. LowerInPlace'
  <2> SUFFICES ASSUME NEW l \in 0 .. level - 1 PROVE InPlace(l)'
    BY <1>1 DEF LowerInPlace
  <2>1. InPlace(l) /\ l \in 0 .. Height /\ l <= level - 1
    BY <1>2, <1>4 DEF LowerInPlace
  <2>2. ASSUME NEW k \in 0 .. Size(l) - 1 PROVE file'[Place(l) + k] = file[Place(l) + k]
    <3>1. /\ Place(l) \in Nat /\ Place(l) + k \in 0 .. LastAddress
          /\ l = 0 => Place(l) + k < n
      BY <1>4, <2>1, Addresses
    <3>2. CASE l = 0
      BY <1>4, <1>5, <1>9, <2>1, <3>1, <3>2, SizeFacts
    <3>3. CASE l # 0
      <4>1. levelOffset[level - 1] <= levelOffset[l] /\ Place(l) = levelOffset[l]
        BY <1>4, <1>5, <2>1, <3>3, OffsetOrder DEF Place
      <4>2. k \in Nat
        BY <1>4, <2>1, SizeFacts
      <4> QED BY <1>5, <1>9, <3>1, <4>1, <4>2
    <3> QED BY <3>2, <3>3
  <2> QED BY <1>1, <2>1, <2>2, LevelStays
<1>15. ASSUME NEW t \in Nat, TaskInPlace(t) \/ t = task[w] PROVE TaskInPlace(t)'
  <2> SUFFICES ASSUME NEW k \in 0 .. dstBlocks - 1, t * T <= k, k < t * T + T
               PROVE  file'[dstOff + k] = refLevel[level][k + 1]
    BY <1>1, <1>10, <1>11 DEF TaskInPlace
  <2>1. k \in Nat /\ k < dstBlocks
    BY <1>5
  <2>2. dstOff + k \in 0 .. LastAddress
    BY <1>4, <1>5, Addresses
  <2>3. CASE t = task[w]
    <3>1. dstOff + k \in mine
      BY <1>7, <2>1, <2>3
    <3> QED BY <1>3, <1>8, <2>1, <2>2, <3>1
  <2>4. CASE t # task[w]
    <3>1. dstOff + k \notin mine
      <4> SUFFICES ASSUME dstOff + k \in mine PROVE FALSE
        OBVIOUS
      <4>1. task[w] * T <= k /\ k < task[w] * T + T
        BY <1>7, <2>1
      <4> QED BY <1>4, <2>1, <2>4, <4>1, TasksApart
    <3>2. file[dstOff + k] = refLevel[level][k + 1]
      BY <1>15, <2>4 DEF TaskInPlace
    <3> QED BY <1>3, <2>2, <3>1, <3>2
  <2> QED BY <2>3, <2>4
<1>16. Hashing'
  <2>1. /\ \A v \in Pool : wpc'[v] \in Busy => wpc[v] \in Busy /\ v # w
        /\ \A v \in Pool : wpc'[v] = "write" => wpc[v] = "write"
        /\ \A v \in Pool : wpc[v] \in Busy /\ v # w => wpc'[v] \in Busy
        /\ \A v \in Pool : wpc'[v] = "stopped" => wpc[v] = "stopped"
    BY <1>1 DEF Busy
  <2>2. ASSUME ~firstErr, NEW t \in Nat, t < nextTask, t < tasks, ~TaskInPlace(t)'
        PROVE  \E v \in Pool : wpc'[v] \in Busy /\ task'[v] = t
    <3>1. PICK v \in Pool : wpc[v] \in Busy /\ task[v] = t
      BY <1>2, <1>15, <2>2 DEF Hashing
    <3>2. v # w
      BY <1>15, <2>2, <3>1
    <3> QED BY <1>1, <2>1, <3>1, <3>2
  <2> QED BY <1>1, <1>2, <1>11, <2>1, <2>2 DEF Hashing, Pool, Lesser
<1> QED BY <1>12, <1>13, <1>14, <1>16 DEF TreeInv

\* A goroutine that fails writes nothing more.
LEMMA FailTree ==
    ASSUME TreeInv, TaskInv', NEW w \in Pool, WorkerFails(w)
    PROVE  TreeInv'
<1>1. /\ n' = n /\ file' = file /\ level' = level /\ firstErr' = TRUE /\ phase' = phase
      /\ out' = out /\ nextTask' = nextTask /\ task' = task /\ wpc[w] \in Busy
      /\ wpc'[w] = "stopped" /\ \A v \in Pool : v # w => wpc'[v] = wpc[v]
  BY DEF WorkerFails, level_vars, TreeInv, TaskInv, WorkerType, Busy
<1>2. StateType /\ PhaseInv /\ Untouched /\ LowerInPlace /\ Hashing /\ phase = "hash"
  BY <1>1 DEF TreeInv, TaskInv, Joined, Busy
<1>3. Untouched' /\ LowerInPlace'
  BY <1>1, <1>2, SameFile
<1>4. StateType' /\ PhaseInv' /\ RootInv'
  BY <1>1, <1>2, Unchanging DEF StateType, PhaseInv, RootInv, Pool, LastAddress
<1>5. tasks' = tasks /\ \A v \in Pool : Buffered(v)' = Buffered(v)
  BY <1>1, SameLevel
<1>6. Hashing'
  BY <1>1, <1>2, <1>5 DEF Hashing, Busy, Pool
<1> QED BY <1>3, <1>4, <1>6 DEF TreeInv

\* When all goroutines have stopped without an error the level is in place.
LEMMA LevelDone ==
    ASSUME TreeInv, phase = "hash", ~firstErr, \A w \in Pool : wpc[w] = "stopped"
    PROVE  InPlace(level)
<1>1. StateType /\ PhaseInv /\ Hashing /\ nextTask \in Nat
  BY DEF TreeInv, TaskInv, WorkerType
<1>2. n \in Nat /\ n > 0 /\ level \in 1 .. Height
  BY <1>1, LevelRange
<1>3. tasks \in Nat /\ tasks > 0
  BY <1>1, LevelTasks
<1>4. nextTask >= tasks
  <2>1. 1 \in Pool /\ 1 <= Lesser(W, tasks)
    BY <1>3, VerityAssumption DEF Pool, Lesser
  <2> QED BY <1>1, <2>1 DEF Hashing
<1>5. ASSUME NEW t \in Nat, t < tasks PROVE TaskInPlace(t)
  <2>1. t < nextTask
    BY <1>1, <1>3, <1>4, <1>5
  <2> QED BY <1>1, <1>5, <2>1 DEF Hashing, Busy
<1> QED BY <1>2, <1>5, TasksMakeLevel

\* A level that went without an error is in place, and the next is begun.
LEMMA WaitTree ==
    ASSUME TreeInv, TaskInv', WaitWorkers
    PROVE  TreeInv'
<1>1. /\ n' = n /\ file' = file /\ firstErr' = firstErr /\ out' = out
      /\ phase = "hash" /\ \A w \in Pool : wpc[w] = "stopped"
      /\ \/ firstErr /\ phase' = "failed" /\ level' = level
         \/ ~firstErr /\ level' = level + 1
            /\ phase' = IF level + 1 <= Height THEN "spawn" ELSE "root"
  BY DEF WaitWorkers, NextLevel, workers
<1>2. StateType /\ PhaseInv /\ Untouched /\ LowerInPlace
  BY DEF TreeInv
<1>3. n \in Nat /\ n > 0 /\ level \in 1 .. Height /\ Height \in Nat
  BY <1>1, <1>2, LevelRange
<1>4. Untouched'
  <2>1. levelOffset' = levelOffset /\ Superblock' = Superblock /\ LastAddress' = LastAddress
    BY <1>1, Unchanging DEF LastAddress
  <2>2. level > 0 /\ n' = n /\ file' = file
    BY <1>1, <1>3
  <2> QED BY <1>2, <2>1, <2>2 DEF Untouched, Data, Hole
<1>5. StateType' /\ Hashing' /\ RootInv'
  BY <1>1, <1>2 DEF StateType, Hashing, RootInv, Pool, LastAddress
<1>6. PhaseInv'
  <2>1. Height' = Height
    BY <1>1, Unchanging
  <2> QED BY <1>1, <1>2, <1>3, <2>1 DEF PhaseInv
<1>7. LowerInPlace'
  <2>1. CASE firstErr
    BY <1>1, <2>1 DEF LowerInPlace
  <2>2. CASE ~firstErr
    <3>1. ASSUME NEW l \in 0 .. level PROVE InPlace(l)
      <4>1. CASE l = level
        BY <1>1, <2>2, <4>1, LevelDone
      <4>2. CASE l # level
        <5>1. l \in 0 .. level - 1
          BY <1>3, <4>2
        <5> QED BY <1>1, <1>2, <5>1 DEF LowerInPlace
      <4> QED BY <4>1, <4>2
    <3>2. ASSUME NEW l \in 0 .. level PROVE InPlace(l)'
      <4>1. InPlace(l)
        BY <3>1
      <4> QED BY <1>1, <4>1, LevelStays
    <3>3. level' - 1 = level
      BY <1>1, <1>3, <2>2
    <3> QED BY <3>2, <3>3 DEF LowerInPlace
  <2> QED BY <2>1, <2>2
<1> QED BY <1>4, <1>5, <1>6, <1>7 DEF TreeInv

\* The root is the digest of the highest block.
LEMMA RootTree ==
    ASSUME TreeInv, TaskInv', ReturnRoot
    PROVE  TreeInv'
<1>1. /\ n' = n /\ file' = file /\ level' = level /\ firstErr' = firstErr /\ out' = out
      /\ phase = "root" /\ phase' = "done" /\ root' = Digest(file[srcOff])
  BY DEF ReturnRoot, level_vars, workers
<1>2. StateType /\ PhaseInv /\ Untouched /\ LowerInPlace
  BY DEF TreeInv
<1>3. Untouched' /\ LowerInPlace'
  BY <1>1, <1>2, SameFile
<1>4. StateType' /\ PhaseInv' /\ Hashing'
  BY <1>1, <1>2, Unchanging DEF StateType, PhaseInv, Hashing, Pool, LastAddress
<1>5. srcOff' = srcOff
  BY <1>1, SameLevel
<1>6. RootInv'
  BY <1>1, <1>5 DEF RootInv, Digest
<1> QED BY <1>3, <1>4, <1>6 DEF TreeInv

\* A formatting that fails before or after the levels changes nothing.
LEMMA MainFailTree ==
    ASSUME TreeInv, TaskInv', MainFails
    PROVE  TreeInv'
<1>1. /\ n' = n /\ file' = file /\ level' = level /\ firstErr' = firstErr /\ out' = out
      /\ phase \in {"superblock", "root"} /\ phase' = "failed"
  BY DEF MainFails, level_vars, workers
<1>2. StateType /\ PhaseInv /\ Untouched
  BY DEF TreeInv
<1>3. Height' = Height /\ levelOffset' = levelOffset /\ Superblock' = Superblock
  BY <1>1, Unchanging
<1>4. StateType' /\ Untouched'
  BY <1>1, <1>2, <1>3 DEF StateType, Untouched, Pool, LastAddress, Data, Hole
<1>5. PhaseInv'
  <2>1. Height \in Nat
    BY <1>2, LevelRange
  <2> QED BY <1>1, <1>2, <1>3, <2>1 DEF PhaseInv
<1>6. LowerInPlace' /\ Hashing' /\ RootInv'
  BY <1>1 DEF LowerInPlace, Hashing, RootInv
<1> QED BY <1>4, <1>5, <1>6 DEF TreeInv

\* The invariant is preserved by every step.
LEMMA NextTree == TreeInv /\ [Next]_vars => TreeInv'
<1> SUFFICES ASSUME TreeInv, [Next]_vars PROVE TreeInv'
  OBVIOUS
<1>1. TaskInv'
  BY NextTask DEF TreeInv
<1>2. CASE Main \/ MainFails
  BY <1>1, <1>2, MainFailTree, SuperblockTree, SpawnTree, WaitTree, RootTree DEF Main
<1>3. ASSUME NEW w \in Pool, Worker(w) \/ WorkerFails(w) PROVE TreeInv'
  BY <1>1, <1>3, TakeTree, ReadTree, WriteTree, FailTree DEF Worker
<1>4. CASE UNCHANGED vars
  <2>1. /\ n' = n /\ file' = file /\ phase' = phase /\ level' = level /\ nextTask' = nextTask
        /\ wpc' = wpc /\ task' = task /\ out' = out /\ firstErr' = firstErr /\ root' = root
    BY <1>4 DEF vars
  <2>2. StateType' /\ PhaseInv' /\ Untouched'
    BY <2>1, Unchanging
       DEF TreeInv, StateType, PhaseInv, Untouched, Pool, LastAddress, Data, Hole
  <2>3. LowerInPlace'
    <3>1. ASSUME NEW l, InPlace(l) PROVE InPlace(l)'
      BY <2>1, <3>1, LevelStays
    <3> QED BY <2>1, <3>1 DEF TreeInv, LowerInPlace
  <2>4. Hashing' /\ RootInv'
    <3>1. /\ tasks' = tasks /\ srcOff' = srcOff
          /\ \A t : TaskInPlace(t)' = TaskInPlace(t)
          /\ \A v \in Pool : Buffered(v)' = Buffered(v)
      BY <2>1, SameLevel
    <3> QED BY <2>1, <3>1 DEF TreeInv, Hashing, RootInv, Pool, Lesser, Digest
  <2> QED BY <1>1, <2>2, <2>3, <2>4 DEF TreeInv
<1> QED BY <1>2, <1>3, <1>4 DEF Next

-----------------------------------------------------------------------------
(* The theorems.                                                           *)

\* TreeInv holds in every state.
THEOREM TreeInvariant == Spec => []TreeInv
BY InitTree, NextTree, PTL DEF Spec

\* Every variable keeps its type, the level at work is one of the tree's, and
\* a goroutine that reads or writes has one of its tasks (verityHashLevel).
THEOREM VerityTypeCorrect == Spec => []TypeOK
<1>1. TreeInv => TypeOK
  <2> SUFFICES ASSUME TreeInv PROVE TypeOK
    OBVIOUS
  <2>1. StateType /\ PhaseInv /\ WorkerType /\ Joined /\ Hashing
    BY DEF TreeInv, TaskInv
  <2>2. Height \in Nat
    BY <2>1, LevelRange
  <2>3. level \in 0 .. Height + 1
    BY <2>1, <2>2 DEF PhaseInv
  <2>4. \A w \in Pool : wpc[w] \in {"read", "write"} => task[w] < tasks
    BY <2>1 DEF Joined, Hashing, Busy
  <2> QED BY <2>1, <2>3, <2>4 DEF TypeOK, StateType, PhaseInv, WorkerType, Busy
<1> QED BY <1>1, TreeInvariant, PTL

\* A level is hashed only from levels that are byte for byte the format's,
\* and the root is taken over a complete tree, however the goroutines are
\* scheduled and whoever fails (FormatVerityHashTree).
THEOREM LevelsStayComplete == Spec => []LowerLevelsComplete
<1>1. TreeInv => LowerLevelsComplete
  <2> SUFFICES ASSUME TreeInv, phase \in {"spawn", "hash", "root", "done"},
                      NEW l \in 1 .. level - 1
               PROVE  LevelWritten(l)
    BY DEF LowerLevelsComplete
  <2>1. n \in Nat /\ n > 0 /\ Height \in Nat /\ level \in 1 .. Height + 1
    BY LevelRange DEF TreeInv
  <2>2. l \in 1 .. Height /\ l \in 0 .. level - 1
    BY <2>1
  <2> QED BY <2>1, <2>2, InPlaceWritten DEF TreeInv, LowerInPlace
<1> QED BY <1>1, TreeInvariant, PTL

\* No write reaches the image, the superblock or anything behind the levels,
\* and these end within TreeBound, so that no offset of the formatting
\* overflows (WriteAt in verityHashLevel, verityLevelOffsets).
THEOREM WritesStayInTree == Spec => []OnlyTreeWritten
<1>1. TreeInv => OnlyTreeWritten
  <2> SUFFICES ASSUME TreeInv PROVE OnlyTreeWritten
    OBVIOUS
  <2>1. n \in Nat /\ n > 0 /\ Height \in Nat /\ n \in 1 .. MaxData /\ Untouched
    BY LevelRange DEF TreeInv, StateType
  <2>2. levelOffset[0] \in Nat /\ levelOffset[0] - 1 <= TreeBound
    <3>1. 0 \in 0 .. Height
      BY <2>1
    <3> QED BY <2>1, <3>1, OffsetFacts, TreeEnds
  <2>3. TreeBound \in Int
    <3>1. n - 1 \in Nat /\ D - 1 \in Nat /\ D - 1 > 0
      BY <2>1, VerityAssumption
    <3> QED BY <2>1, <3>1, Quotient DEF TreeBound
  <2>4. \A a \in 0 .. LastAddress : a > TreeBound => a >= levelOffset[0]
    BY <2>2, <2>3, VerityAssumption DEF LastAddress
  <2> QED BY <2>1, <2>4 DEF OnlyTreeWritten, Untouched
<1> QED BY <1>1, TreeInvariant, PTL

\* A consumer that knows only the hash offset and the root computes the
\* levels and the places the formatting used, and every digest on the way
\* from any data block to the root fits (VerityParamsForArtifact).
THEOREM ConsumerAlwaysReads == Spec => []ConsumerReads
<1>1. TreeInv => ConsumerReads
  <2> SUFFICES ASSUME TreeInv, phase = "done", NEW b \in 0 .. n - 1
               PROVE  DmVerityReads(b)
    BY DEF ConsumerReads
  <2>1. n \in Nat /\ n > 0 /\ Height \in Nat /\ level = Height + 1
    BY LevelRange DEF TreeInv, PhaseInv
  <2>2. \A l \in 0 .. Height : InPlace(l)
    BY <2>1 DEF TreeInv, LowerInPlace
  <2>3. root = Digest(file[Place(Height)])
    <3>1. level \in 1 .. Height + 1 /\ level - 1 = Height
      BY <2>1
    <3>2. srcOff = Place(Height)
      BY <2>1, <3>1, LevelNames
    <3> QED BY <3>2 DEF TreeInv, RootInv
  <2> QED BY <2>1, <2>2, <2>3, CompleteTreeReads
<1> QED BY <1>1, TreeInvariant, PTL

\* The root hash a formatting returns is the format's for the image: neither
\* the number of goroutines nor their order is in it.
RootIsFormats == phase = "done" => root = Digest(refLevel[Height][1])

\* Packing the same image again gives the attested root again
\* (FormatVerityHashTree).
THEOREM RootReproducible == Spec => []RootIsFormats
<1>1. TreeInv => RootIsFormats
  <2> SUFFICES ASSUME TreeInv, phase = "done" PROVE root = Digest(refLevel[Height][1])
    BY DEF RootIsFormats
  <2>1. n \in Nat /\ n > 0 /\ Height \in Nat /\ level = Height + 1
    BY LevelRange DEF TreeInv, PhaseInv
  <2>2. level \in 1 .. Height + 1 /\ level - 1 = Height /\ Height \in 0 .. level - 1
    BY <2>1
  <2>3. root = Digest(file[Place(Height)]) /\ InPlace(Height)
    BY <2>1, <2>2, LevelNames DEF TreeInv, RootInv, LowerInPlace
  <2>4. file[Place(Height)] = refLevel[Height][1]
    <3>1. 0 \in 0 .. Size(Height) - 1 /\ 0 + 1 = 1
      BY <2>1, SizeFacts
    <3>2. Place(Height) \in Nat
      BY <2>1, OffsetFacts DEF Place
    <3> QED BY <2>3, <3>1, <3>2 DEF InPlace
  <2> QED BY <2>3, <2>4
<1> QED BY <1>1, TreeInvariant, PTL

-----------------------------------------------------------------------------
(* Every step comes closer to the end.                                     *)

\* What a goroutine has still to do with the task it has.
StepsOf(s) == IF s = "read" THEN 3 ELSE IF s = "write" THEN 2 ELSE IF s = "take" THEN 1 ELSE 0

\* The same for all goroutines: who runs, who has a task, who has yet to read.
Running  == {w \in Pool : wpc[w] # "stopped"}
Tasked   == {w \in Pool : wpc[w] \in Busy}
Unread   == {w \in Pool : wpc[w] = "read"}
Underway == Cardinality(Running) + Cardinality(Tasked) + Cardinality(Unread)

\* Within a level: drawing a task costs less than the task.
Undrawn == IF nextTask < tasks THEN tasks - nextTask ELSE 0
Work    == IF phase = "hash" THEN 3 * Undrawn + Underway ELSE 0

\* Between levels: each is spawned, then hashed; the root comes last.
Stage == IF phase \in {"done", "failed"} THEN 0 ELSE
         IF phase = "root" THEN 1 ELSE
         IF phase = "spawn" THEN 2 * (Height + 1 - level) + 1
         ELSE 2 * (Height + 1 - level)

StepsLeft == Stage \in Nat /\ Work \in Nat
Advances  == ~Over => Stage' < Stage \/ (Stage' = Stage /\ Work' < Work)

LEMMA PoolFinite == IsFiniteSet(Pool) /\ \A S \in SUBSET Pool : IsFiniteSet(S)
<1>1. IsFiniteSet(Pool)
  BY FS_Interval, VerityAssumption DEF Pool
<1> QED BY <1>1, FS_Subset

LEMMA CountWithout ==
    ASSUME NEW S, IsFiniteSet(S), NEW x
    PROVE  /\ Cardinality(S \ {x}) \in Nat
           /\ Cardinality(S) = Cardinality(S \ {x}) + (IF x \in S THEN 1 ELSE 0)
<1>1. IsFiniteSet(S \ {x}) /\ Cardinality(S) \in Nat /\ Cardinality(S \ {x}) \in Nat
  BY FS_RemoveElement, FS_CardinalityType
<1>2. Cardinality(S \ {x}) = IF x \in S THEN Cardinality(S) - 1 ELSE Cardinality(S)
  BY FS_RemoveElement
<1> QED BY <1>1, <1>2

\* Only what a goroutine itself has to do is in it.
LEMMA UnderwayWithout ==
    ASSUME WorkerType, NEW w \in Pool, NEW s \in {"stopped", "take"} \cup Busy,
           wpc' = [wpc EXCEPT ![w] = s]
    PROVE  \E m \in Nat : Underway = m + StepsOf(wpc[w]) /\ Underway' = m + StepsOf(s)
<1> DEFINE a == Cardinality(Running \ {w})
           b == Cardinality(Tasked \ {w})
           c == Cardinality(Unread \ {w})
<1>1. /\ Running \in SUBSET Pool /\ Running' \in SUBSET Pool
      /\ Tasked \in SUBSET Pool /\ Tasked' \in SUBSET Pool
      /\ Unread \in SUBSET Pool /\ Unread' \in SUBSET Pool
  BY DEF Running, Tasked, Unread, Pool
<1>2. /\ wpc[w] \in {"stopped", "take"} \cup Busy /\ wpc'[w] = s
      /\ \A v \in Pool : v # w => wpc'[v] = wpc[v]
  BY DEF WorkerType
<1>3. /\ Running' \ {w} = Running \ {w} /\ Tasked' \ {w} = Tasked \ {w}
      /\ Unread' \ {w} = Unread \ {w}
  BY <1>2 DEF Running, Tasked, Unread, Pool
<1>4. a \in Nat /\ b \in Nat /\ c \in Nat
  BY <1>1, PoolFinite, CountWithout
<1>5. /\ Cardinality(Running) = a + (IF w \in Running THEN 1 ELSE 0)
      /\ Cardinality(Tasked) = b + (IF w \in Tasked THEN 1 ELSE 0)
      /\ Cardinality(Unread) = c + (IF w \in Unread THEN 1 ELSE 0)
  BY <1>1, PoolFinite, CountWithout
<1>6. /\ Cardinality(Running') = a + (IF w \in Running' THEN 1 ELSE 0)
      /\ Cardinality(Tasked') = b + (IF w \in Tasked' THEN 1 ELSE 0)
      /\ Cardinality(Unread') = c + (IF w \in Unread' THEN 1 ELSE 0)
  BY <1>1, <1>3, PoolFinite, CountWithout
<1> HIDE DEF a, b, c
<1>7. Underway = (a + b + c) + StepsOf(wpc[w])
  <2>1. /\ w \in Running <=> wpc[w] # "stopped"
        /\ w \in Tasked <=> wpc[w] \in Busy
        /\ w \in Unread <=> wpc[w] = "read"
    BY DEF Running, Tasked, Unread
  <2> QED BY <1>2, <1>4, <1>5, <2>1 DEF Underway, StepsOf, Busy
<1>8. Underway' = (a + b + c) + StepsOf(s)
  <2>1. /\ w \in Running' <=> s # "stopped"
        /\ w \in Tasked' <=> s \in Busy
        /\ w \in Unread' <=> s = "read"
    BY <1>2 DEF Running, Tasked, Unread, Pool
  <2> QED BY <1>4, <1>6, <2>1 DEF Underway, StepsOf, Busy
<1>9. a + b + c \in Nat
  BY <1>4
<1> QED BY <1>7, <1>8, <1>9

LEMMA UndrawnCount ==
    ASSUME TreeInv, phase = "hash"
    PROVE  /\ Undrawn \in Nat /\ nextTask \in Nat /\ tasks \in Nat
           /\ nextTask >= tasks => Undrawn = 0
           /\ nextTask < tasks => Undrawn = tasks - nextTask
<1>1. tasks \in Nat /\ nextTask \in Nat
  BY LevelTasks DEF TreeInv, TaskInv, WorkerType
<1> QED BY <1>1 DEF Undrawn

LEMMA UnderwayCount == Underway \in Nat
<1>1. Running \in SUBSET Pool /\ Tasked \in SUBSET Pool /\ Unread \in SUBSET Pool
  BY DEF Running, Tasked, Unread
<1>2. /\ Cardinality(Running) \in Nat /\ Cardinality(Tasked) \in Nat
      /\ Cardinality(Unread) \in Nat
  BY <1>1, PoolFinite, FS_CardinalityType
<1> QED BY <1>2 DEF Underway

LEMMA LeftIsCount == TreeInv => StepsLeft
<1> SUFFICES ASSUME TreeInv PROVE Stage \in Nat /\ Work \in Nat
  BY DEF StepsLeft
<1>1. /\ Height \in Nat /\ PhaseInv
      /\ phase \in {"spawn", "hash"} => level \in 1 .. Height
  BY LevelRange DEF TreeInv, PhaseInv
<1>2. Stage \in Nat
  BY <1>1 DEF Stage, PhaseInv
<1>3. Work \in Nat
  BY UndrawnCount, UnderwayCount DEF Work
<1> QED BY <1>2, <1>3

\* A step of a goroutine lowers what is left of the level.
LEMMA WorkerAdvances ==
    ASSUME TreeInv, NEW w \in Pool, Worker(w) \/ WorkerFails(w)
    PROVE  Stage' = Stage /\ Work' < Work
<1>1. /\ n' = n /\ phase' = phase /\ level' = level
      /\ nextTask' = nextTask \/ (nextTask' = nextTask + 1 /\ TakeTask(w))
      /\ wpc[w] # "stopped"
  BY DEF Worker, TakeTask, ReadAndHash, WriteBlocks, WorkerFails, level_vars
<1>2. WorkerType /\ phase = "hash"
  BY <1>1 DEF TreeInv, TaskInv, Joined
<1>3. tasks' = tasks /\ Height' = Height
  BY <1>1, SameLevel DEF Height, Sizes
<1>4. Stage' = Stage
  BY <1>1, <1>3 DEF Stage
<1>5. Undrawn \in Nat /\ nextTask \in Nat /\ tasks \in Nat
  BY <1>2, UndrawnCount
<1>6. CASE TakeTask(w) /\ nextTask < tasks
  <2>a. (IF nextTask >= tasks THEN "stopped" ELSE "read") = "read"
    BY <1>5, <1>6
  <2>1. wpc' = [wpc EXCEPT ![w] = "read"] /\ wpc[w] = "take" /\ nextTask' = nextTask + 1
    BY <1>6, <2>a, Zenon DEF TakeTask
  <2>2. PICK m \in Nat : Underway = m + StepsOf(wpc[w]) /\ Underway' = m + StepsOf("read")
    BY <1>2, <2>1, UnderwayWithout DEF Busy
  <2>3. Underway = m + 1 /\ Underway' = m + 3
    BY <2>1, <2>2 DEF StepsOf
  <2>4. PICK u \in Nat : Undrawn = u /\ u = tasks - nextTask
    BY <1>2, <1>5, <1>6, UndrawnCount
  <2>5. Undrawn' = u - 1
    <3>1. Undrawn' = IF nextTask + 1 < tasks THEN tasks - (nextTask + 1) ELSE 0
      BY <1>3, <2>1 DEF Undrawn
    <3> QED BY <1>5, <1>6, <2>4, <3>1
  <2>6. Work = 3 * u + (m + 1) /\ Work' = 3 * (u - 1) + (m + 3)
    BY <1>1, <1>2, <2>3, <2>4, <2>5 DEF Work
  <2>7. 3 * (u - 1) + (m + 3) < 3 * u + (m + 1)
    OBVIOUS
  <2> QED BY <1>4, <2>6, <2>7
<1>7. ASSUME NEW s \in {"stopped", "take", "write"}, wpc' = [wpc EXCEPT ![w] = s],
             StepsOf(s) < StepsOf(wpc[w]), Undrawn' = Undrawn
      PROVE  Work' < Work
  <2>1. PICK m \in Nat : Underway = m + StepsOf(wpc[w]) /\ Underway' = m + StepsOf(s)
    BY <1>2, <1>7, UnderwayWithout DEF Busy
  <2>2. PICK q \in 0 .. 3, r \in 0 .. 3 : q = StepsOf(s) /\ r = StepsOf(wpc[w])
    BY DEF StepsOf
  <2>3. PICK u \in Nat : Undrawn = u
    BY <1>5
  <2>4. Work = 3 * u + (m + r) /\ Work' = 3 * u + (m + q)
    BY <1>1, <1>2, <1>7, <2>1, <2>2, <2>3 DEF Work
  <2>5. 3 * u + (m + q) < 3 * u + (m + r)
    BY <1>7, <2>2
  <2> QED BY <2>4, <2>5
<1>8. CASE TakeTask(w) /\ ~(nextTask < tasks)
  <2>a. (IF nextTask >= tasks THEN "stopped" ELSE "read") = "stopped"
    BY <1>5, <1>8
  <2>1. wpc' = [wpc EXCEPT ![w] = "stopped"] /\ wpc[w] = "take" /\ nextTask' = nextTask + 1
    BY <1>8, <2>a, Zenon DEF TakeTask
  <2>2. Undrawn' = Undrawn
    BY <1>3, <1>5, <1>8, <2>1 DEF Undrawn
  <2>3. StepsOf("stopped") < StepsOf(wpc[w])
    BY <2>1 DEF StepsOf
  <2> QED BY <1>4, <1>7, <2>1, <2>2, <2>3
<1>9. CASE ReadAndHash(w) \/ WriteBlocks(w) \/ WorkerFails(w)
  <2>1. nextTask' = nextTask
    BY <1>9 DEF ReadAndHash, WriteBlocks, WorkerFails, level_vars
  <2>2. Undrawn' = Undrawn
    BY <1>3, <2>1 DEF Undrawn
  <2>3. CASE ReadAndHash(w)
    BY <1>4, <1>7, <2>2, <2>3 DEF ReadAndHash, StepsOf
  <2>4. CASE WriteBlocks(w)
    BY <1>4, <1>7, <2>2, <2>4 DEF WriteBlocks, StepsOf
  <2>5. CASE WorkerFails(w)
    BY <1>4, <1>7, <2>2, <2>5 DEF WorkerFails, StepsOf
  <2> QED BY <1>9, <2>3, <2>4, <2>5
<1> QED BY <1>6, <1>8, <1>9 DEF Worker

\* A step of FormatVerityHashTree itself begins a stage nearer the root.
LEMMA MainAdvances == ASSUME TreeInv, Main \/ MainFails PROVE Stage' < Stage
<1>1. /\ Height \in Nat /\ PhaseInv /\ n' = n
      /\ phase \in {"spawn", "hash"} => level \in 1 .. Height
  BY LevelRange, SameData DEF TreeInv, PhaseInv, Next
<1>2. Height' = Height
  BY <1>1 DEF Height, Sizes
<1>3. CASE WriteSuperblock
  BY <1>1, <1>2, <1>3 DEF WriteSuperblock, NextLevel, Stage, PhaseInv
<1>4. CASE SpawnWorkers
  BY <1>1, <1>2, <1>4 DEF SpawnWorkers, Stage
<1>5. CASE WaitWorkers
  BY <1>1, <1>2, <1>5 DEF WaitWorkers, NextLevel, Stage
<1>6. CASE ReturnRoot
  BY <1>1, <1>2, <1>6 DEF ReturnRoot, Stage
<1>7. CASE MainFails
  BY <1>1, <1>2, <1>7 DEF MainFails, Stage, PhaseInv
<1> QED BY <1>3, <1>4, <1>5, <1>6, <1>7 DEF Main

\* The formatting cannot run for ever, whatever the scheduling and whoever
\* fails: a step of its own begins an earlier stage of finitely many, a step
\* of a goroutine lowers the number that counts what is left of its level.
THEOREM FormattingAlwaysAdvances == Spec => []StepsLeft /\ [][Advances]_vars
<1>1. TreeInv => StepsLeft
  BY LeftIsCount
<1>2. TreeInv /\ [Next]_vars => [Advances]_vars
  BY WorkerAdvances, MainAdvances DEF Next, Advances
<1> QED BY <1>1, <1>2, TreeInvariant, PTL DEF Spec

-----------------------------------------------------------------------------
(* Byte offsets.                                                           *)

BlockSize     == 4096                   \* VerityDataBlockSize, VerityHashBlockSize
MaxHashOffset == 4611686018427387904    \* maxHashOffset, 1 << 62
MaxInt64      == 9223372036854775807

\* The end of the hash area, in bytes, the largest of next's values.
OffsetsFit == levelOffset[0] * BlockSize <= MaxInt64

\* With the source's 128 digests to a block, no image that the check of
\* DataBlocks against maxHashOffset lets pass has a tree whose offsets
\* overflow (FormatVerityHashTree).
THEOREM OffsetsNeverOverflow ==
    ASSUME D = 128, MaxData * BlockSize <= MaxHashOffset
    PROVE  Spec => []OffsetsFit
<1>1. TreeInv => OffsetsFit
  <2> SUFFICES ASSUME TreeInv PROVE OffsetsFit
    OBVIOUS
  <2>1. n \in Nat /\ n > 0 /\ Height \in Nat /\ n <= MaxData /\ MaxData \in Nat
    BY LevelRange, VerityAssumption DEF TreeInv, StateType
  <2>2. /\ levelOffset[0] \in Nat
        /\ 127 * (levelOffset[0] - (n + 1) - Height) <= n - 1
    <3>1. 0 \in 0 .. Height /\ Size(0) = n /\ Height - 0 = Height /\ D - 1 = 127
      BY <2>1, SizeFacts
    <3>2. (D - 1) * (levelOffset[0] - (n + 1) - (Height - 0)) <= Size(0) - 1
          /\ levelOffset[0] \in Nat
      BY <2>1, <3>1, OffsetFacts
    <3> QED BY <3>1, <3>2
  <2>3. 128 * Height <= n + 127
    <3>1. CASE Height = 0
      BY <2>1, <3>1
    <3>2. CASE Height # 0
      <4>1. 1 \in 0 .. Height /\ 1 \in 1 .. Height /\ 0 \in 0 .. Height /\ 1 - 1 = 0
        BY <2>1, <3>2
      <4>2. Height - 1 <= Size(1) - 1 /\ Size(1) \in Nat /\ Size(1) = CeilDiv(Size(1 - 1), D)
            /\ Size(0) = n
        BY <2>1, <4>1, OffsetFacts, SizeFacts
      <4>3. Size(1) = CeilDiv(n, 128)
        BY <4>1, <4>2
      <4>4. CeilDiv(n, 128) * 128 < n + 128
        BY <2>1, CeilBounds
      <4> QED BY <2>1, <4>2, <4>3, <4>4
    <3> QED BY <3>1, <3>2
  <2> QED BY <2>1, <2>2, <2>3 DEF OffsetsFit, BlockSize, MaxHashOffset, MaxInt64
<1> QED BY <1>1, TreeInvariant, PTL
=============================================================================
