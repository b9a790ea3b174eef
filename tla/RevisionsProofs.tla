---------------------------- MODULE RevisionsProofs ----------------------------
(***************************************************************************)
(* Proofs about Revisions, for any names, runs and random parts: where the *)
(* paths of two identities meet, and what a run therefore does to the      *)
(* files of others.                                                        *)
(***************************************************************************)
EXTENDS Revisions, SequenceTheorems, WellFoundedInduction, TLAPS

Token   == Letters \cup Rands
Strings == Seq(Token)

-----------------------------------------------------------------------------
(* Sequences.                                                              *)

LEMMA Cat ==
    ASSUME NEW s \in Strings, NEW t \in Strings
    PROVE  /\ s \o t \in Strings /\ Len(s \o t) = Len(s) + Len(t)
           /\ Len(s) \in Nat /\ Len(t) \in Nat
           /\ \A i \in 1 .. Len(s) : (s \o t)[i] = s[i]
           /\ \A i \in 1 .. Len(t) : (s \o t)[Len(s) + i] = t[i]
<1>1. /\ s \o t \in Strings /\ Len(s \o t) = Len(s) + Len(t)
      /\ Len(s) \in Nat /\ Len(t) \in Nat
      /\ \A i \in 1 .. Len(s) + Len(t) :
            (s \o t)[i] = IF i <= Len(s) THEN s[i] ELSE t[i - Len(s)]
  BY ConcatProperties, LenProperties DEF Strings
<1> QED BY <1>1

LEMMA CancelLeft ==
    ASSUME NEW s \in Strings, NEW t \in Strings, NEW v \in Strings, s \o t = s \o v
    PROVE  t = v
<1>1. /\ Len(s \o t) = Len(s) + Len(t)
      /\ Len(s) \in Nat /\ Len(t) \in Nat
      /\ \A i \in 1 .. Len(t) : (s \o t)[Len(s) + i] = t[i]
  BY Cat
<1>2. /\ Len(s \o v) = Len(s) + Len(v)
      /\ Len(v) \in Nat
      /\ \A i \in 1 .. Len(v) : (s \o v)[Len(s) + i] = v[i]
  BY Cat
<1>3. Len(t) = Len(v) /\ \A i \in 1 .. Len(t) : t[i] = v[i]
  BY <1>1, <1>2
<1> QED BY <1>3, SeqEqual DEF Strings

LEMMA CancelRight ==
    ASSUME NEW s \in Strings, NEW t \in Strings, NEW v \in Strings, s \o v = t \o v
    PROVE  s = t
<1>1. /\ Len(s \o v) = Len(s) + Len(v)
      /\ Len(s) \in Nat /\ Len(v) \in Nat
      /\ \A i \in 1 .. Len(s) : (s \o v)[i] = s[i]
  BY Cat
<1>2. /\ Len(t \o v) = Len(t) + Len(v)
      /\ Len(t) \in Nat
      /\ \A i \in 1 .. Len(t) : (t \o v)[i] = t[i]
  BY Cat
<1>3. Len(s) = Len(t) /\ \A i \in 1 .. Len(s) : s[i] = t[i]
  BY <1>1, <1>2
<1> QED BY <1>3, SeqEqual DEF Strings

LEMMA Assoc ==
    ASSUME NEW s \in Strings, NEW t \in Strings, NEW v \in Strings
    PROVE  (s \o t) \o v = s \o (t \o v)
BY ConcatAssociative DEF Strings

\* The literals.
LEMMA Literals ==
    /\ Slash \in Strings /\ At \in Strings /\ Anchor \in Strings
    /\ mpk \in Strings /\ info \in Strings /\ emwp \in Strings /\ schema \in Strings
    /\ emwpInfo \in Strings
    /\ <<"output", "/">> \in Strings /\ <<"cache", "/">> \in Strings
    /\ <<"weights">> \in Strings /\ <<".">> \in Strings
    /\ \A rand \in Rands : <<".", rand>> \in Strings
<1>1. \A a \in Token : <<a>> \in Strings
  BY DEF Strings
<1>2. \A a, b \in Token : <<a, b>> \in Strings
  BY DEF Strings
<1>3. \A a, b, c \in Token : <<a, b, c>> \in Strings
  BY DEF Strings
<1>4. /\ \A rand \in Rands : rand \in Token
      /\ "/" \in Token /\ "." \in Token /\ "@" \in Token /\ "staged" \in Token
      /\ "mpk" \in Token /\ "info" \in Token /\ "emwp" \in Token /\ "schema" \in Token
      /\ "output" \in Token /\ "cache" \in Token /\ "weights" \in Token
  BY DEF Token, Letters
<1>5. emwp \in Strings /\ info \in Strings
  BY <1>2, <1>4 DEF emwp, info
<1>6. emwpInfo \in Strings
  BY <1>5, Cat DEF emwpInfo
<1>7. Slash \in Strings /\ At \in Strings /\ <<"weights">> \in Strings /\ <<".">> \in Strings
  BY <1>1, <1>4 DEF Slash, At
<1>8. /\ mpk \in Strings /\ schema \in Strings
      /\ <<"output", "/">> \in Strings /\ <<"cache", "/">> \in Strings
      /\ \A rand \in Rands : <<".", rand>> \in Strings
  BY <1>2, <1>4 DEF mpk, schema
<1>9. Anchor \in Strings
  BY <1>3, <1>4 DEF Anchor
<1> QED BY <1>5, <1>6, <1>7, <1>8, <1>9

\* A prefix, and the rest.
LEMMA Prefix ==
    ASSUME NEW s \in Strings, NEW t \in Strings
    PROVE  /\ \A v \in Strings : t = s \o v => IsPrefix(s, t)
           /\ IsPrefix(s, t) =>
                 /\ SubSeq(t, Len(s) + 1, Len(t)) \in Strings
                 /\ t = s \o SubSeq(t, Len(s) + 1, Len(t))
<1>0. Len(s) \in Nat /\ Len(t) \in Nat /\ SubSeq(s, 1, Len(s)) = s
  BY LenProperties, SubSeqFull DEF Strings
<1>1. ASSUME NEW v \in Strings, t = s \o v PROVE IsPrefix(s, t)
  <2>1. Len(t) = Len(s) + Len(v) /\ Len(v) \in Nat /\ \A i \in 1 .. Len(s) : t[i] = s[i]
    BY <1>1, Cat
  <2>2. \A i \in 1 .. Len(s) : t[i] \in Token /\ s[i] \in Token
    BY <2>1, ElementOfSeq DEF Strings
  <2>3. /\ SubSeq(t, 1, Len(s)) \in Seq(Token) /\ Len(SubSeq(t, 1, Len(s))) = Len(s)
        /\ \A i \in 1 .. Len(s) : SubSeq(t, 1, Len(s))[i] = t[i]
    <3>1. /\ SubSeq(t, 1, Len(s)) \in Seq(Token)
          /\ Len(SubSeq(t, 1, Len(s))) = IF 1 <= Len(s) THEN Len(s) - 1 + 1 ELSE 0
          /\ \A i \in 1 .. Len(s) - 1 + 1 : SubSeq(t, 1, Len(s))[i] = t[1 + i - 1]
      BY <1>0, <2>2, SubSeqProperties
    <3> QED BY <1>0, <3>1
  <2>4. SubSeq(t, 1, Len(s)) = s
    BY <2>1, <2>3, SeqEqual DEF Strings
  <2> QED BY <1>0, <2>1, <2>4 DEF IsPrefix
<1>2. ASSUME IsPrefix(s, t)
      PROVE  /\ SubSeq(t, Len(s) + 1, Len(t)) \in Strings
             /\ t = s \o SubSeq(t, Len(s) + 1, Len(t))
  <2>1. Len(s) <= Len(t) /\ SubSeq(t, 1, Len(s)) = s
    BY <1>0, <1>2 DEF IsPrefix
  <2>2. SubSeq(t, Len(s) + 1, Len(t)) \in Seq(Token)
    <3>1. \A i \in Len(s) + 1 .. Len(t) : t[i] \in Token
      BY <1>0, ElementOfSeq DEF Strings
    <3> QED BY <1>0, <3>1, SubSeqProperties
  <2>3. SubSeq(t, 1, Len(s)) \o SubSeq(t, Len(s) + 1, Len(t)) = SubSeq(t, 1, Len(t))
    <3>1. /\ 1 \in 1 .. Len(t) + 1 /\ Len(s) \in 1 - 1 .. Len(t)
          /\ Len(t) \in Len(s) .. Len(t)
      BY <1>0, <2>1
    <3> QED BY <3>1, ConcatAdjacentSubSeq DEF Strings
  <2> QED BY <2>1, <2>2, <2>3, SubSeqFull DEF Strings
<1> QED BY <1>1, <1>2

\* What it is to have a token, or two in a row.
LEMMA HasOne ==
    ASSUME NEW s \in Strings, NEW c \in Token
    PROVE  Has(s, <<c>>) <=> \E i \in 1 .. Len(s) : s[i] = c
<1>0. <<c>> \in Strings /\ Len(<<c>>) = 1 /\ <<c>>[1] = c /\ Len(s) \in Nat
  BY LenProperties DEF Strings
<1>1. ASSUME NEW i \in 1 .. Len(s)
      PROVE  IsPrefix(<<c>>, SubSeq(s, i, Len(s))) <=> s[i] = c
  <2> DEFINE t == SubSeq(s, i, Len(s))
             r == SubSeq(s, i + 1, Len(s))
  <2>1. Len(s) \in i .. Len(s) /\ \A j \in 1 .. Len(s) : s[j] \in Token
    BY <1>0, <1>1, ElementOfSeq DEF Strings
  <2>2. t = <<s[i]>> \o r
    BY <1>1, <2>1, SubSeqRecursiveFirst DEF Strings
  <2>3. t \in Strings /\ r \in Strings
    <3>1. (\A j \in i .. Len(s) : s[j] \in Token) /\ (\A j \in i + 1 .. Len(s) : s[j] \in Token)
      BY <1>0, <1>1, <2>1
    <3>2. i \in Int /\ i + 1 \in Int /\ Len(s) \in Int
      BY <1>0, <1>1
    <3> QED BY <3>1, <3>2, SubSeqProperties DEF Strings
  <2>4. <<s[i]>> \in Strings /\ Len(<<s[i]>>) = 1 /\ <<s[i]>>[1] = s[i]
    BY <1>1, <2>1 DEF Strings
  <2> HIDE DEF t, r
  <2>5. s[i] = c => IsPrefix(<<c>>, t)
    BY <1>0, <2>2, <2>3, Prefix
  <2>6. IsPrefix(<<c>>, t) => s[i] = c
    <3>1. ASSUME IsPrefix(<<c>>, t) PROVE s[i] = c
      <4>1. PICK v \in Strings : t = <<c>> \o v
        BY <1>0, <2>3, <3>1, Prefix
      <4>2. t[1] = <<c>>[1]
        <5>1. \A j \in 1 .. Len(<<c>>) : (<<c>> \o v)[j] = <<c>>[j]
          BY <1>0, Cat
        <5> QED BY <1>0, <4>1, <5>1
      <4>3. t[1] = <<s[i]>>[1]
        <5>1. \A j \in 1 .. Len(<<s[i]>>) : (<<s[i]>> \o r)[j] = <<s[i]>>[j]
          BY <2>3, <2>4, Cat
        <5> QED BY <2>2, <2>4, <5>1
      <4> QED BY <1>0, <2>4, <4>2, <4>3
    <3> QED BY <3>1
  <2> QED BY <2>5, <2>6 DEF t
<1> QED BY <1>1 DEF Has

LEMMA HasTwo ==
    ASSUME NEW s \in Strings, NEW a \in Token, NEW b \in Token, ~ Has(s, <<a, b>>)
    PROVE  \A i \in 1 .. Len(s) : i + 1 <= Len(s) => ~ (s[i] = a /\ s[i + 1] = b)
<1> SUFFICES ASSUME NEW i \in 1 .. Len(s), i + 1 <= Len(s), s[i] = a, s[i + 1] = b
             PROVE  FALSE
  OBVIOUS
<1>0. Len(s) \in Nat /\ \A j \in 1 .. Len(s) : s[j] \in Token
  BY LenProperties, ElementOfSeq DEF Strings
<1> DEFINE t == SubSeq(s, i, Len(s))
           ab == <<a, b>>
<1>1. t \in Seq(Token) /\ Len(t) = Len(s) - i + 1 /\ t[1] = a /\ t[2] = b
  <2>1. i \in Int /\ Len(s) \in Int /\ \A j \in i .. Len(s) : s[j] \in Token
    BY <1>0
  <2>2. /\ t \in Seq(Token) /\ Len(t) = IF i <= Len(s) THEN Len(s) - i + 1 ELSE 0
        /\ \A j \in 1 .. Len(s) - i + 1 : t[j] = s[i + j - 1]
    BY <2>1, SubSeqProperties
  <2>3. 1 \in 1 .. Len(s) - i + 1 /\ 2 \in 1 .. Len(s) - i + 1 /\ i + 1 - 1 = i /\ i + 2 - 1 = i + 1
    BY <1>0
  <2> HIDE DEF t
  <2> QED BY <1>0, <2>2, <2>3
<1>2. ab \in Seq(Token) /\ Len(ab) = 2 /\ ab[1] = a /\ ab[2] = b
  OBVIOUS
<1> HIDE DEF t, ab
<1>3. \A k \in 1 .. 2 : t[k] \in Token
  BY <1>1
<1>4. /\ SubSeq(t, 1, 2) \in Seq(Token) /\ Len(SubSeq(t, 1, 2)) = 2
      /\ \A k \in 1 .. 2 : SubSeq(t, 1, 2)[k] = t[k]
  <2>1. /\ SubSeq(t, 1, 2) \in Seq(Token) /\ Len(SubSeq(t, 1, 2)) = IF 1 <= 2 THEN 2 - 1 + 1 ELSE 0
        /\ \A k \in 1 .. 2 - 1 + 1 : SubSeq(t, 1, 2)[k] = t[1 + k - 1]
    BY <1>3, SubSeqProperties
  <2> QED BY <2>1
<1>5. SubSeq(t, 1, 2) = ab
  BY <1>1, <1>2, <1>4, SeqEqual
<1>6. IsPrefix(ab, t)
  <2>1. SubSeq(ab, 1, Len(ab)) = ab
    BY <1>2, SubSeqFull
  <2> QED BY <1>0, <1>1, <1>2, <1>5, <2>1 DEF IsPrefix
<1> QED BY <1>6 DEF Has, t, ab

-----------------------------------------------------------------------------
(* Names.                                                                  *)

Names == [name : Strings, revision : Strings]
Dir(m) == <<"output", "/">> \o m.name \o Slash

Lacks(s, c) == \A i \in 1 .. Len(s) : s[i] # c
NoDots(s)   == \A i \in 1 .. Len(s) : i + 1 <= Len(s) => ~ (s[i] = "." /\ s[i + 1] = ".")

NameSuffixes == {mpk, info, emwp, emwpInfo, schema}

\* What may follow a base path: a suffix, or an anchor and what goes on.
TailShape(t) ==
    /\ t \in Strings /\ Len(t) \in Nat /\ Len(t) > 1 /\ t[1] = "." /\ Lacks(t, "/")
    /\ \/ Len(t) > 2 /\ t[2] = "." /\ t[3] = "staged"
       \/ t[2] \notin {".", "staged"} /\ NoDots(t)
StagedTail(suffix, rand) == Anchor \o (suffix \o <<".", rand>>)

LEMMA Tokens ==
    /\ "/" \in Token /\ "." \in Token /\ "@" \in Token /\ "staged" \in Token
    /\ "mpk" \in Token /\ "info" \in Token /\ "emwp" \in Token /\ "schema" \in Token
    /\ \A rand \in Rands : rand \in Token /\ rand \notin Letters
BY RevisionsAssumption DEF Token, Letters

\* A revision that passed validation.
LEMMA ValidFacts ==
    ASSUME NEW m \in Names, Valid(m)
    PROVE  m.revision \in Strings /\ Lacks(m.revision, "/") /\ NoDots(m.revision)
           /\ m.revision # << >>
<1>1. m.revision \in Strings
  BY DEF Names
<1>2. ~ Has(m.revision, <<".", ".">>) /\ ~ Has(m.revision, <<"/">>) /\ m.revision # << >>
  BY DEF Valid, ValidRevision, Slash
<1>3. Lacks(m.revision, "/")
  BY <1>1, <1>2, HasOne, Tokens DEF Lacks
<1>4. NoDots(m.revision)
  BY <1>1, <1>2, HasTwo, Tokens DEF NoDots
<1> QED BY <1>1, <1>2, <1>3, <1>4

\* Something in brackets.
LEMMA Bracket ==
    ASSUME NEW s \in Strings, NEW t \in Strings, NEW v \in Strings, Len(s) > 0, Len(v) = 1
    PROVE  /\ (s \o t) \o v \in Strings /\ s \o t \in Strings
           /\ Len((s \o t) \o v) \in Nat /\ Len((s \o t) \o v) > Len(s)
           /\ ((s \o t) \o v)[1] = s[1]
           /\ ((s \o t) \o v)[Len((s \o t) \o v)] = v[1]
<1> DEFINE a == s \o t
<1>1. /\ a \in Strings /\ Len(a) = Len(s) + Len(t) /\ Len(s) \in Nat /\ Len(t) \in Nat
      /\ \A i \in 1 .. Len(s) : a[i] = s[i]
  BY Cat
<1> HIDE DEF a
<1>2. /\ a \o v \in Strings /\ Len(a \o v) = Len(a) + Len(v)
      /\ \A i \in 1 .. Len(a) : (a \o v)[i] = a[i]
      /\ \A i \in 1 .. Len(v) : (a \o v)[Len(a) + i] = v[i]
  BY <1>1, Cat
<1>3. (a \o v)[1] = s[1] /\ (a \o v)[Len(a \o v)] = v[1] /\ Len(a \o v) > Len(s)
  BY <1>1, <1>2
<1> QED BY <1>1, <1>2, <1>3 DEF a

\* A base path is a directory and a revision.
LEMMA DirFacts ==
    ASSUME NEW m \in Names
    PROVE  /\ Dir(m) \in Strings /\ m.revision \in Strings /\ Base(m) \in Strings
           /\ Base(m) = Dir(m) \o m.revision
           /\ Len(Dir(m)) \in Nat /\ Len(Dir(m)) > 2 /\ Dir(m)[Len(Dir(m))] = "/"
           /\ Dir(m)[1] = "output"
<1> DEFINE o == <<"output", "/">>
           n == m.name
           r == m.revision
           d == (o \o n) \o Slash
<1>1. n \in Strings /\ r \in Strings /\ o \in Strings /\ Slash \in Strings
  BY Literals DEF Names
<1>2. Len(o) = 2 /\ o[1] = "output" /\ Len(Slash) = 1 /\ Slash[1] = "/"
  BY DEF Slash
<1>3. Dir(m) = d /\ Base(m) = d \o r
  BY DEF Dir, Base
<1> HIDE DEF o, n, r
<1>4. d \in Strings /\ Len(d) \in Nat /\ Len(d) > 2 /\ d[1] = "output" /\ d[Len(d)] = "/"
  <2>1. Len(o) > 0
    BY <1>2
  <2>2. /\ d \in Strings /\ Len(d) \in Nat /\ Len(d) > Len(o)
        /\ d[1] = o[1] /\ d[Len(d)] = Slash[1]
    BY <1>1, <1>2, <2>1, Bracket
  <2> HIDE DEF d
  <2> QED BY <1>2, <2>2
<1> HIDE DEF d
<1>5. d \o r \in Strings
  BY <1>1, <1>4, Cat
<1> QED BY <1>1, <1>3, <1>4, <1>5 DEF r

\* What a path ends with after its last slash.
LEMMA LastSlash ==
    ASSUME NEW h1 \in Strings, NEW h2 \in Strings, NEW t1 \in Strings, NEW t2 \in Strings,
           Len(h1) > 0, h1[Len(h1)] = "/", Len(h2) > 0, h2[Len(h2)] = "/",
           Lacks(t1, "/"), Lacks(t2, "/"), h1 \o t1 = h2 \o t2
    PROVE  h1 = h2 /\ t1 = t2
<1>1. /\ Len(h1 \o t1) = Len(h1) + Len(t1) /\ Len(h1) \in Nat /\ Len(t1) \in Nat
      /\ \A i \in 1 .. Len(h1) : (h1 \o t1)[i] = h1[i]
      /\ \A i \in 1 .. Len(t1) : (h1 \o t1)[Len(h1) + i] = t1[i]
  BY Cat
<1>2. /\ Len(h2 \o t2) = Len(h2) + Len(t2) /\ Len(h2) \in Nat /\ Len(t2) \in Nat
      /\ \A i \in 1 .. Len(h2) : (h2 \o t2)[i] = h2[i]
      /\ \A i \in 1 .. Len(t2) : (h2 \o t2)[Len(h2) + i] = t2[i]
  BY Cat
<1>3. ~ (Len(h1) < Len(h2))
  <2>1. SUFFICES ASSUME Len(h1) < Len(h2) PROVE FALSE
    OBVIOUS
  <2> DEFINE i == Len(h2) - Len(h1)
  <2>2. i \in 1 .. Len(t1) /\ Len(h1) + i = Len(h2)
    BY <1>1, <1>2, <2>1
  <2>3. t1[i] = h2[Len(h2)]
    BY <1>1, <1>2, <2>2
  <2> QED BY <2>2, <2>3 DEF Lacks
<1>4. ~ (Len(h2) < Len(h1))
  <2>1. SUFFICES ASSUME Len(h2) < Len(h1) PROVE FALSE
    OBVIOUS
  <2> DEFINE i == Len(h1) - Len(h2)
  <2>2. i \in 1 .. Len(t2) /\ Len(h2) + i = Len(h1)
    BY <1>1, <1>2, <2>1
  <2>3. t2[i] = h1[Len(h1)]
    BY <1>1, <1>2, <2>2
  <2> QED BY <2>2, <2>3 DEF Lacks
<1>5. Len(h1) = Len(h2)
  BY <1>1, <1>2, <1>3, <1>4
<1>6. h1 = h2
  <2>1. \A i \in 1 .. Len(h1) : h1[i] = h2[i]
    BY <1>1, <1>2, <1>5
  <2> QED BY <1>5, <2>1, SeqEqual DEF Strings
<1>7. t1 = t2
  <2>1. h1 \o t1 = h1 \o t2
    BY <1>6
  <2> QED BY <2>1, CancelLeft
<1> QED BY <1>6, <1>7

\* No revision without ".." in it hides another's anchor.
LEMMA Anchored ==
    ASSUME NEW r1 \in Strings, NEW r2 \in Strings, NEW w \in Strings, NEW t,
           NoDots(r1), NoDots(r2), TailShape(t), r1 \o (Anchor \o w) = r2 \o t
    PROVE  r1 = r2 /\ t[2] = "."
<1>0. /\ t \in Strings /\ Len(t) > 1 /\ t[1] = "."
      /\ \/ Len(t) > 2 /\ t[2] = "." /\ t[3] = "staged"
         \/ t[2] \notin {".", "staged"} /\ NoDots(t)
  BY DEF TailShape
<1> DEFINE a == Anchor \o w
<1>1. a \in Strings /\ Len(a) > 2 /\ a[1] = "." /\ a[2] = "." /\ a[3] = "staged"
  <2>1. Anchor \in Strings /\ Len(Anchor) = 3
        /\ Anchor[1] = "." /\ Anchor[2] = "." /\ Anchor[3] = "staged"
    BY Literals DEF Anchor
  <2>2. /\ a \in Strings /\ Len(a) = Len(Anchor) + Len(w) /\ Len(w) \in Nat
        /\ \A i \in 1 .. Len(Anchor) : a[i] = Anchor[i]
    BY <2>1, Cat
  <2> HIDE DEF a
  <2> QED BY <2>1, <2>2
<1> HIDE DEF a
<1> DEFINE P  == r1 \o a
           n1 == Len(r1)
           n2 == Len(r2)
<1>2. /\ Len(P) = n1 + Len(a) /\ n1 \in Nat /\ Len(a) \in Nat
      /\ \A i \in 1 .. n1 : P[i] = r1[i]
      /\ \A i \in 1 .. Len(a) : P[n1 + i] = a[i]
  BY <1>1, Cat
<1>3. P = r2 \o t
  BY DEF a
<1>4. /\ Len(P) = n2 + Len(t) /\ n2 \in Nat /\ Len(t) \in Nat
      /\ \A i \in 1 .. n2 : P[i] = r2[i]
      /\ \A i \in 1 .. Len(t) : P[n2 + i] = t[i]
  BY <1>0, <1>3, Cat
<1> HIDE DEF P
<1>5. P[n1 + 1] = "." /\ P[n1 + 2] = "." /\ P[n1 + 3] = "staged" /\ n1 + 3 <= Len(P)
  BY <1>1, <1>2
<1>6. P[n2 + 1] = "." /\ P[n2 + 2] = t[2] /\ n2 + 2 <= Len(P)
  BY <1>0, <1>4
<1>7. \A i \in 1 .. n1 : i + 1 <= n1 => ~ (P[i] = "." /\ P[i + 1] = ".")
  <2>1. SUFFICES ASSUME NEW i \in 1 .. n1, i + 1 <= n1
                 PROVE  ~ (P[i] = "." /\ P[i + 1] = ".")
    OBVIOUS
  <2>2. P[i] = r1[i] /\ P[i + 1] = r1[i + 1]
    BY <1>2, <2>1
  <2> QED BY <2>1, <2>2 DEF NoDots
<1>8. \A i \in 1 .. n2 : i + 1 <= n2 => ~ (P[i] = "." /\ P[i + 1] = ".")
  <2>1. SUFFICES ASSUME NEW i \in 1 .. n2, i + 1 <= n2
                 PROVE  ~ (P[i] = "." /\ P[i + 1] = ".")
    OBVIOUS
  <2>2. P[i] = r2[i] /\ P[i + 1] = r2[i + 1]
    BY <1>4, <2>1
  <2> QED BY <2>1, <2>2 DEF NoDots
<1>9. ~ (n1 < n2)
  <2>1. SUFFICES ASSUME n1 < n2 PROVE FALSE
    OBVIOUS
  <2>2. CASE n1 + 2 <= n2
    <3>1. n1 + 1 \in 1 .. n2 /\ n1 + 1 + 1 = n1 + 2
      BY <1>2, <1>4, <2>2
    <3> QED BY <1>5, <1>8, <2>2, <3>1
  <2>3. CASE n1 + 1 = n2
    <3>1. n2 + 2 = n1 + 3
      BY <1>2, <2>3
    <3>2. t[2] = "staged"
      BY <1>5, <1>6, <3>1
    <3> QED BY <1>0, <3>2
  <2> QED BY <1>2, <1>4, <2>1, <2>2, <2>3
<1>10. ~ (n2 < n1)
  <2>1. SUFFICES ASSUME n2 < n1 PROVE FALSE
    OBVIOUS
  <2>2. CASE Len(t) > 2 /\ t[2] = "." /\ t[3] = "staged"
    <3>1. P[n2 + 3] = "staged"
      BY <1>4, <2>2
    <3>2. CASE n2 + 2 <= n1
      <4>1. n2 + 1 \in 1 .. n1 /\ n2 + 1 + 1 = n2 + 2
        BY <1>2, <1>4, <3>2
      <4> QED BY <1>6, <1>7, <2>2, <3>2, <4>1
    <3>3. CASE n2 + 1 = n1
      <4>1. n1 + 2 = n2 + 3
        BY <1>4, <3>3
      <4> QED BY <1>5, <3>1, <4>1
    <3> QED BY <1>2, <1>4, <2>1, <3>2, <3>3
  <2>3. CASE NoDots(t)
    <3> DEFINE j == n1 - n2 + 1
    <3>1. /\ j \in 1 .. Len(t) /\ j + 1 \in 1 .. Len(t) /\ j + 1 <= Len(t)
          /\ n2 + j = n1 + 1 /\ n2 + (j + 1) = n1 + 2
      BY <1>2, <1>4, <1>5, <2>1
    <3> HIDE DEF j
    <3>2. t[j] = P[n1 + 1] /\ t[j + 1] = P[n1 + 2]
      BY <1>4, <3>1
    <3> QED BY <1>5, <2>3, <3>1, <3>2 DEF NoDots
  <2> QED BY <1>0, <2>2, <2>3
<1>11. n1 = n2
  BY <1>2, <1>4, <1>9, <1>10
<1>12. r1 = r2
  <2>1. \A i \in 1 .. Len(r1) : r1[i] = r2[i]
    BY <1>2, <1>4, <1>11
  <2> QED BY <1>11, <2>1, SeqEqual DEF Strings
<1> QED BY <1>5, <1>6, <1>11, <1>12

LEMMA CatLacks ==
    ASSUME NEW s \in Strings, NEW t \in Strings, NEW c, Lacks(s, c), Lacks(t, c)
    PROVE  Lacks(s \o t, c)
<1> DEFINE P == s \o t
<1>1. /\ Len(P) = Len(s) + Len(t) /\ Len(s) \in Nat /\ Len(t) \in Nat
      /\ \A i \in 1 .. Len(s) : P[i] = s[i]
      /\ \A i \in 1 .. Len(t) : P[Len(s) + i] = t[i]
  BY Cat
<1> HIDE DEF P
<1>2. ASSUME NEW i \in 1 .. Len(P) PROVE P[i] # c
  <2>1. CASE i <= Len(s)
    <3>1. i \in 1 .. Len(s)
      BY <1>1, <2>1
    <3> QED BY <1>1, <3>1 DEF Lacks
  <2>2. CASE i > Len(s)
    <3>1. i - Len(s) \in 1 .. Len(t) /\ Len(s) + (i - Len(s)) = i
      BY <1>1, <2>2
    <3>2. P[i] = t[i - Len(s)]
      BY <1>1, <3>1
    <3> QED BY <3>1, <3>2 DEF Lacks
  <2> QED BY <1>1, <2>1, <2>2
<1> QED BY <1>2 DEF Lacks, P

\* What the suffixes look like.
LEMMA SuffixFacts ==
    ASSUME NEW s \in NameSuffixes
    PROVE  /\ s \in Strings /\ Len(s) \in Nat /\ Len(s) > 1
           /\ s[1] = "." /\ s[2] \notin {".", "staged"} /\ NoDots(s) /\ Lacks(s, "/")
           /\ s[Len(s)] \in {"mpk", "info", "emwp", "schema"}
<1> USE DEF NoDots, Lacks
<1>1. CASE s \in {mpk, info, emwp, schema}
  <2>1. s \in Strings /\ Len(s) = 2 /\ s[1] = "." /\ s[2] \in {"mpk", "info", "emwp", "schema"}
    BY <1>1, Literals DEF mpk, info, emwp, schema
  <2>2. NoDots(s) /\ Lacks(s, "/")
    <3>1. \A i \in 1 .. Len(s) : i \in {1, 2}
      BY <2>1
    <3>2. ASSUME NEW i \in 1 .. Len(s) PROVE s[i] # "/"
      BY <2>1, <3>1
    <3>3. ASSUME NEW i \in 1 .. Len(s), i + 1 <= Len(s), s[i] = ".", s[i + 1] = "." PROVE FALSE
      <4>1. i = 1
        BY <2>1, <3>3
      <4> QED BY <2>1, <3>3, <4>1
    <3> QED BY <3>2, <3>3
  <2> QED BY <2>1, <2>2
<1>2. CASE s = emwpInfo
  <2>1. /\ emwp \in Strings /\ Len(emwp) = 2 /\ emwp[1] = "." /\ emwp[2] = "emwp"
        /\ info \in Strings /\ Len(info) = 2 /\ info[1] = "." /\ info[2] = "info"
    BY Literals DEF emwp, info
  <2>2. /\ s \in Strings /\ Len(s) = Len(emwp) + Len(info)
        /\ \A i \in 1 .. Len(emwp) : s[i] = emwp[i]
        /\ \A i \in 1 .. Len(info) : s[Len(emwp) + i] = info[i]
    BY <1>2, <2>1, Cat DEF emwpInfo
  <2>3. Len(s) = 4 /\ s[1] = "." /\ s[2] = "emwp" /\ s[3] = "." /\ s[4] = "info"
    <3>1. s[2 + 1] = info[1] /\ s[2 + 2] = info[2]
      BY <2>1, <2>2
    <3> QED BY <2>1, <2>2, <3>1
  <2>4. NoDots(s) /\ Lacks(s, "/")
    <3>1. \A i \in 1 .. Len(s) : i \in {1, 2, 3, 4}
      BY <2>3
    <3>2. ASSUME NEW i \in 1 .. Len(s) PROVE s[i] # "/"
      BY <2>3, <3>1
    <3>3. ASSUME NEW i \in 1 .. Len(s), i + 1 <= Len(s), s[i] = ".", s[i + 1] = "." PROVE FALSE
      <4>1. i \in {1, 2, 3}
        BY <2>3, <3>3
      <4> QED BY <2>3, <3>3, <4>1
    <3> QED BY <3>2, <3>3
  <2> HIDE DEF NoDots, Lacks
  <2>5. s[Len(s)] = "info" /\ Len(s) \in Nat /\ Len(s) > 1
    BY <2>3
  <2> QED BY <2>2, <2>3, <2>4, <2>5
<1> QED BY <1>1, <1>2 DEF NameSuffixes

\* What staged names look like.
LEMMA StagedFacts ==
    ASSUME NEW s \in NameSuffixes, NEW rand \in Rands
    PROVE  LET t == StagedTail(s, rand)
           IN  /\ t \in Strings /\ Len(t) \in Nat /\ Len(t) > 2
               /\ t[1] = "." /\ t[2] = "." /\ t[3] = "staged" /\ Lacks(t, "/")
               /\ t[Len(t)] = rand
               /\ \A b \in Strings : StagedPath(b, s, rand) = b \o t
<1> DEFINE e == <<".", rand>>
           x == s \o e
           t == Anchor \o x
<1>1. e \in Strings /\ Len(e) = 2 /\ e[1] = "." /\ e[2] = rand
  BY Literals
<1>2. rand # "/"
  BY Tokens DEF Letters
<1>3. s \in Strings /\ Len(s) \in Nat /\ Lacks(s, "/")
  BY SuffixFacts
<1>4. /\ Anchor \in Strings /\ Len(Anchor) = 3
      /\ Anchor[1] = "." /\ Anchor[2] = "." /\ Anchor[3] = "staged"
  BY Literals DEF Anchor
<1>5. \A b \in Strings : StagedPath(b, s, rand) = b \o t
  <2>1. SUFFICES ASSUME NEW b \in Strings PROVE ((b \o Anchor) \o s) \o e = b \o t
    BY DEF StagedPath
  <2> HIDE DEF e
  <2>2. b \o Anchor \in Strings
    BY <1>4, Cat
  <2>3. ((b \o Anchor) \o s) \o e = (b \o Anchor) \o (s \o e)
    BY <1>1, <1>3, <2>2, Assoc
  <2>4. s \o e \in Strings
    BY <1>1, <1>3, Cat
  <2>5. (b \o Anchor) \o (s \o e) = b \o (Anchor \o (s \o e))
    BY <1>4, <2>4, Assoc
  <2> QED BY <2>3, <2>5
<1> HIDE DEF e
<1>6. /\ x \in Strings /\ Len(x) = Len(s) + Len(e)
      /\ \A i \in 1 .. Len(s) : x[i] = s[i]
      /\ \A i \in 1 .. Len(e) : x[Len(s) + i] = e[i]
  BY <1>1, <1>3, Cat
<1> HIDE DEF x
<1>7. /\ t \in Strings /\ Len(t) = Len(Anchor) + Len(x)
      /\ \A i \in 1 .. Len(Anchor) : t[i] = Anchor[i]
      /\ \A i \in 1 .. Len(x) : t[Len(Anchor) + i] = x[i]
  BY <1>4, <1>6, Cat
<1>8. t = StagedTail(s, rand)
  BY DEF StagedTail, x, e
<1> HIDE DEF t
<1>9. Len(x) \in Nat /\ Len(x) = Len(s) + 2 /\ Len(t) = Len(x) + 3
  BY <1>1, <1>3, <1>4, <1>6, <1>7
<1>10. t[1] = "." /\ t[2] = "." /\ t[3] = "staged"
  BY <1>4, <1>7
<1>11. x[Len(x)] = rand /\ Lacks(x, "/")
  <2>1. x[Len(s) + 1] = "." /\ x[Len(s) + 2] = rand
    BY <1>1, <1>6
  <2>2. ASSUME NEW i \in 1 .. Len(x) PROVE x[i] # "/"
    <3>1. i \in 1 .. Len(s) \/ i = Len(s) + 1 \/ i = Len(s) + 2
      BY <1>3, <1>9
    <3> QED BY <1>2, <1>3, <1>6, <2>1, <3>1 DEF Lacks
  <2> QED BY <1>9, <2>1, <2>2 DEF Lacks
<1>12. t[Len(t)] = rand
  <2>1. Len(x) \in 1 .. Len(x) /\ Len(t) = 3 + Len(x)
    BY <1>3, <1>9
  <2> QED BY <1>4, <1>7, <1>11, <2>1
<1>13. Lacks(t, "/")
  <2>1. ASSUME NEW i \in 1 .. Len(t) PROVE t[i] # "/"
    <3>1. CASE i <= 3
      BY <1>10, <3>1
    <3>2. CASE i > 3
      <4>1. i - 3 \in 1 .. Len(x) /\ 3 + (i - 3) = i
        BY <1>9, <3>2
      <4>2. t[i] = x[i - 3]
        BY <1>4, <1>7, <4>1
      <4> QED BY <1>11, <4>1, <4>2 DEF Lacks
    <3> QED BY <1>9, <3>1, <3>2
  <2> QED BY <2>1 DEF Lacks
<1> QED BY <1>5, <1>7, <1>8, <1>9, <1>10, <1>12, <1>13

\* The grammar is unambiguous (delete.go:110): what the sweep of one
\* identity takes for its staged file is a staged file of no other.
THEOREM SweepsItsOwn ==
    ASSUME NEW m1 \in Names, NEW m2 \in Names, Valid(m1), Valid(m2),
           NEW t, TailShape(t), IsStagedLeftover(Base(m2) \o t, Base(m1))
    PROVE  Base(m1) = Base(m2) /\ t[2] = "."
<1> DEFINE path   == Base(m2) \o t
           prefix == Base(m1) \o Anchor \o <<".">>
           rest   == SubSeq(path, Len(prefix) + 1, Len(path))
           r1     == m1.revision
           r2     == m2.revision
           dot    == <<".">>
           w      == dot \o rest
<1>0. t \in Strings /\ Lacks(t, "/")
  BY DEF TailShape
<1>1. /\ Dir(m1) \in Strings /\ r1 \in Strings /\ Base(m1) \in Strings /\ Base(m1) = Dir(m1) \o r1
      /\ Len(Dir(m1)) > 0 /\ Dir(m1)[Len(Dir(m1))] = "/"
      /\ Lacks(r1, "/") /\ NoDots(r1)
  BY DirFacts, ValidFacts
<1>2. /\ Dir(m2) \in Strings /\ r2 \in Strings /\ Base(m2) \in Strings /\ Base(m2) = Dir(m2) \o r2
      /\ Len(Dir(m2)) > 0 /\ Dir(m2)[Len(Dir(m2))] = "/"
      /\ Lacks(r2, "/") /\ NoDots(r2)
  BY DirFacts, ValidFacts
<1>3. Anchor \in Strings /\ dot \in Strings /\ path \in Strings
      /\ Base(m1) \o Anchor \in Strings
  BY <1>0, <1>1, <1>2, Literals, Cat
<1>4. prefix \in Strings
  BY <1>3, Cat
<1>5. rest \in Strings /\ path = prefix \o rest
  <2>1. IsPrefix(prefix, path)
    BY DEF IsStagedLeftover, IsStrictPrefix
  <2> HIDE DEF prefix, path
  <2> QED BY <1>3, <1>4, <2>1, Prefix
<1>6. Lacks(rest, "/")
  <2>1. ~ Has(rest, <<"/">>)
    BY DEF IsStagedLeftover, Slash
  <2> HIDE DEF rest
  <2> QED BY <1>5, <2>1, HasOne, Tokens DEF Lacks
<1> HIDE DEF rest, dot, r1, r2
<1>7. w \in Strings
  BY <1>3, <1>5, Cat
<1>8. path = Dir(m1) \o (r1 \o (Anchor \o w))
  <2>1. path = ((Base(m1) \o Anchor) \o dot) \o rest
    BY <1>5 DEF dot
  <2>2. ((Base(m1) \o Anchor) \o dot) \o rest = (Base(m1) \o Anchor) \o w
    BY <1>3, <1>5, Assoc
  <2> HIDE DEF w
  <2>3. (Base(m1) \o Anchor) \o w = Base(m1) \o (Anchor \o w)
    <3>1. Base(m1) \in Strings /\ Anchor \in Strings /\ w \in Strings
      BY <1>1, <1>3, <1>7
    <3> QED BY ONLY <3>1, Assoc
  <2>4. Anchor \o w \in Strings
    BY <1>3, <1>7, Cat
  <2>5. (Dir(m1) \o r1) \o (Anchor \o w) = Dir(m1) \o (r1 \o (Anchor \o w))
    BY <1>1, <2>4, Assoc
  <2> QED BY <1>1, <2>1, <2>2, <2>3, <2>5
<1>9. path = Dir(m2) \o (r2 \o t)
  <2>1. (Dir(m2) \o r2) \o t = Dir(m2) \o (r2 \o t)
    BY <1>0, <1>2, Assoc
  <2> QED BY <1>2, <2>1
<1>10. r1 \o (Anchor \o w) \in Strings /\ Lacks(r1 \o (Anchor \o w), "/")
  <2>1. Len(dot) = 1 /\ dot[1] = "."
    BY DEF dot
  <2>2. Lacks(dot, "/")
    BY <2>1 DEF Lacks
  <2>3. Lacks(w, "/")
    BY <1>3, <1>5, <1>6, <2>2, CatLacks
  <2>4. Len(Anchor) = 3 /\ Anchor[1] = "." /\ Anchor[2] = "." /\ Anchor[3] = "staged"
    BY DEF Anchor
  <2>5. Lacks(Anchor, "/")
    BY <2>4 DEF Lacks
  <2>6. Anchor \o w \in Strings /\ Lacks(Anchor \o w, "/")
    BY <1>3, <1>7, <2>3, <2>5, CatLacks, Cat
  <2> QED BY <1>1, <2>6, CatLacks, Cat
<1>11. r2 \o t \in Strings /\ Lacks(r2 \o t, "/")
  BY <1>0, <1>2, CatLacks, Cat
<1> HIDE DEF path, w
<1>12. Dir(m1) = Dir(m2) /\ r1 \o (Anchor \o w) = r2 \o t
  <2> DEFINE t1 == r1 \o (Anchor \o w)
             t2 == r2 \o t
  <2>1. t1 \in Strings /\ t2 \in Strings /\ Lacks(t1, "/") /\ Lacks(t2, "/")
        /\ Dir(m1) \o t1 = Dir(m2) \o t2
    BY <1>8, <1>9, <1>10, <1>11
  <2> HIDE DEF t1, t2
  <2>2. Dir(m1) = Dir(m2) /\ t1 = t2
    BY <1>1, <1>2, <2>1, LastSlash
  <2> QED BY <2>2 DEF t1, t2
<1>13. r1 = r2 /\ t[2] = "."
  <2>1. r1 \in Strings /\ NoDots(r1) /\ r2 \in Strings /\ NoDots(r2) /\ w \in Strings
        /\ TailShape(t) /\ r1 \o (Anchor \o w) = r2 \o t
    BY <1>1, <1>2, <1>7, <1>12
  <2> QED BY ONLY <2>1, Anchored
<1> QED BY <1>1, <1>2, <1>12, <1>13

-----------------------------------------------------------------------------
(* Identities.                                                             *)

LEMMA FirstIndex ==
    ASSUME NEW I, I \subseteq Nat, I # {}
    PROVE  Min(I) \in I /\ \A j \in I : Min(I) <= j
<1> DEFINE R == {ss \in Nat \X Nat : ss[1] < ss[2]}
<1>1. IsWellFoundedOn(R, Nat)
  BY NatLessThanWellFounded DEF OpToRel
<1>2. \A i, j \in Nat : <<i, j>> \in R <=> i < j
  OBVIOUS
<1> HIDE DEF R
<1>3. \E x \in I : \A y \in I : ~ (<<y, x>> \in R)
  BY <1>1, WFMin
<1>4. PICK x \in I : \A y \in I : ~ (<<y, x>> \in R)
  BY <1>3
<1>5. \A y \in I : x <= y
  <2> TAKE y \in I
  <2>1. x \in Nat /\ y \in Nat /\ ~ (y < x)
    BY <1>2, <1>4
  <2> QED BY <2>1
<1> QED BY <1>5 DEF Min

\* strings.Cut: at the first "@".
LEMMA CutFacts ==
    ASSUME NEW s \in Strings
    PROVE  /\ Cut(s) \in Names
           /\ \A n \in Strings, r \in Strings :
                 s = (n \o At) \o r /\ Lacks(n, "@") => Cut(s) = [name |-> n, revision |-> r]
<1> DEFINE I == {i \in 1 .. Len(s) : s[i] = "@"}
           k == IF I # {} THEN Min(I) ELSE 0
<1>1. Cut(s) = IF k = 0 THEN [name |-> s, revision |-> << >>]
               ELSE [name |-> SubSeq(s, 1, k - 1), revision |-> SubSeq(s, k + 1, Len(s))]
  BY DEF Cut, SelectInSeq
<1>2. Len(s) \in Nat /\ I \subseteq Nat
  BY LenProperties DEF Strings
<1>3. I # {} => k \in I /\ \A j \in I : k <= j
  BY <1>2, FirstIndex
<1>4. << >> \in Strings
  BY DEF Strings
<1>5. Cut(s) \in Names
  <2>1. CASE k = 0
    BY <1>1, <1>4, <2>1 DEF Names
  <2>2. CASE k # 0
    <3>1. k \in 1 .. Len(s)
      BY <1>3, <2>2
    <3>2. SubSeq(s, 1, k - 1) \in Strings /\ SubSeq(s, k + 1, Len(s)) \in Strings
      <4>1. \A i \in 1 .. Len(s) : s[i] \in Token
        BY ElementOfSeq DEF Strings
      <4> HIDE DEF k
      <4> QED BY <1>2, <3>1, <4>1, SubSeqProperties DEF Strings
    <3> QED BY <1>1, <2>2, <3>2 DEF Names
  <2> QED BY <2>1, <2>2
<1>6. ASSUME NEW n \in Strings, NEW r \in Strings, s = (n \o At) \o r, Lacks(n, "@")
      PROVE  Cut(s) = [name |-> n, revision |-> r]
  <2> DEFINE a == n \o At
  <2>1. At \in Strings /\ Len(At) = 1 /\ At[1] = "@"
    BY Literals DEF At
  <2>2. /\ a \in Strings /\ Len(a) = Len(n) + 1 /\ Len(n) \in Nat
        /\ \A i \in 1 .. Len(n) : a[i] = n[i]
        /\ \A i \in 1 .. Len(At) : a[Len(n) + i] = At[i]
    <3>1. At \in Strings
      BY <2>1
    <3>2. /\ n \o At \in Strings /\ Len(n \o At) = Len(n) + Len(At) /\ Len(n) \in Nat
          /\ \A i \in 1 .. Len(n) : (n \o At)[i] = n[i]
          /\ \A i \in 1 .. Len(At) : (n \o At)[Len(n) + i] = At[i]
      BY <3>1, Cat
    <3> QED BY <2>1, <3>2
  <2> HIDE DEF a
  <2>3. /\ a \o r \in Strings /\ Len(a \o r) = Len(a) + Len(r) /\ Len(r) \in Nat
        /\ \A i \in 1 .. Len(a) : (a \o r)[i] = a[i]
        /\ \A i \in 1 .. Len(r) : (a \o r)[Len(a) + i] = r[i]
    BY <2>2, Cat
  <2>4. s = a \o r
    BY <1>6 DEF a
  <2>5. s[Len(n) + 1] = "@"
    <3>1. 1 \in 1 .. Len(At) /\ Len(n) + 1 \in 1 .. Len(a)
      BY <2>1, <2>2
    <3> QED BY <2>1, <2>2, <2>3, <2>4, <3>1
  <2>6. \A i \in 1 .. Len(n) : s[i] = n[i] /\ s[i] # "@"
    <3> TAKE i \in 1 .. Len(n)
    <3>1. i \in 1 .. Len(a) /\ n[i] # "@"
      BY <1>6, <2>2 DEF Lacks
    <3> QED BY <2>2, <2>3, <2>4, <3>1
  <2>7. Len(n) + 1 \in I
    BY <2>2, <2>3, <2>4, <2>5
  <2>8. k = Len(n) + 1
    <3>1. k \in I /\ k <= Len(n) + 1
      BY <1>3, <2>7
    <3>2. k \notin 1 .. Len(n)
      BY <2>6, <3>1
    <3> QED BY <1>2, <2>2, <3>1, <3>2
  <2>9. SubSeq(s, 1, Len(n)) = n
    BY <2>2, <2>3, <2>4, <2>6, SubSeqProperties, SeqEqual DEF Strings
  <2>10. SubSeq(s, Len(n) + 2, Len(s)) = r
    BY <2>2, <2>3, <2>4, SubSeqProperties, SeqEqual DEF Strings
  <2>11. k # 0 /\ k - 1 = Len(n) /\ k + 1 = Len(n) + 2
    BY <2>2, <2>8
  <2> HIDE DEF k
  <2>12. Cut(s) = [name |-> SubSeq(s, 1, k - 1), revision |-> SubSeq(s, k + 1, Len(s))]
    BY <1>1, <2>11
  <2> QED BY <2>9, <2>10, <2>11, <2>12
<1> QED BY <1>5, <1>6

LEMMA SubjectFacts ==
    ASSUME NEW u \in Users, request \in [Users -> Requests]
    PROVE  Packed(u) \in Names /\ Deleted(u) \in Names /\ Subject(u) \in Names
<1> DEFINE q == request[u]
<1>1. q.model \in Strings /\ q.dir \in Strings
  <2>1. q \in [model : Seq(Letters), dir : Seq(Letters)]
    BY RevisionsAssumption
  <2>2. Seq(Letters) \subseteq Strings
    BY SeqMonotonic DEF Strings, Token
  <2> HIDE DEF q
  <2> QED BY <2>1, <2>2
<1>2. Packed(u) \in Names
  <2>1. Cut(q.model) \in Names
    BY <1>1, CutFacts
  <2>2. Packed(u) = Resolve(q)
    BY DEF Packed
  <2>3. <<"commit">> \in Strings /\ <<"hash">> \in Strings
    <3>1. "commit" \in Token /\ "hash" \in Token
      BY DEF Token, Letters
    <3> HIDE DEF Token
    <3> QED BY <3>1 DEF Strings
  <2> HIDE DEF q
  <2> QED BY <1>1, <2>1, <2>2, <2>3 DEF Resolve, Names
<1>3. Deleted(u) \in Names
  <2> DEFINE a == Packed(u).name \o At
             b == a \o Packed(u).revision
  <2>1. Packed(u).name \in Strings /\ Packed(u).revision \in Strings /\ At \in Strings
    BY <1>2, Literals DEF Names
  <2>2. a \in Strings
    BY <2>1, Cat
  <2> HIDE DEF a
  <2>3. b \in Strings
    BY <2>1, <2>2, Cat
  <2> HIDE DEF b
  <2>4. Cut(b) \in Names
    BY <2>3, CutFacts
  <2> QED BY <2>4 DEF Deleted, a, b
<1> QED BY <1>2, <1>3 DEF Subject

-----------------------------------------------------------------------------
(* Where paths meet.                                                       *)

LEMMA LastOf ==
    ASSUME NEW s \in Strings, NEW t \in Strings, Len(t) > 0
    PROVE  /\ s \o t \in Strings /\ Len(s \o t) \in Nat /\ Len(s \o t) > 0
           /\ (s \o t)[Len(s \o t)] = t[Len(t)]
<1>1. /\ s \o t \in Strings /\ Len(s \o t) = Len(s) + Len(t) /\ Len(s) \in Nat /\ Len(t) \in Nat
      /\ \A i \in 1 .. Len(t) : (s \o t)[Len(s) + i] = t[i]
  BY Cat
<1>2. Len(t) \in 1 .. Len(t)
  BY <1>1
<1> QED BY <1>1, <1>2

LEMMA FirstOf ==
    ASSUME NEW s \in Strings, NEW t \in Strings, Len(s) > 0
    PROVE  s \o t \in Strings /\ Len(s \o t) > 0 /\ (s \o t)[1] = s[1]
<1>1. /\ s \o t \in Strings /\ Len(s \o t) = Len(s) + Len(t) /\ Len(s) \in Nat /\ Len(t) \in Nat
      /\ \A i \in 1 .. Len(s) : (s \o t)[i] = s[i]
  BY Cat
<1>2. 1 \in 1 .. Len(s)
  BY <1>1
<1> QED BY <1>1, <1>2

\* A staged name ends in its random part, a published one never does.
LEMMA PublishedNotStaged ==
    ASSUME NEW b1 \in Strings, NEW b2 \in Strings, NEW s1 \in NameSuffixes, NEW s2 \in NameSuffixes,
           NEW rand \in Rands
    PROVE  b1 \o s1 # StagedPath(b2, s2, rand)
<1> DEFINE t == StagedTail(s2, rand)
<1>1. /\ t \in Strings /\ Len(t) \in Nat /\ Len(t) > 2 /\ t[Len(t)] = rand
      /\ StagedPath(b2, s2, rand) = b2 \o t
  BY StagedFacts
<1> HIDE DEF t
<1>2. (b2 \o t)[Len(b2 \o t)] = rand
  <2>1. Len(t) > 0
    BY <1>1
  <2>2. (b2 \o t)[Len(b2 \o t)] = t[Len(t)]
    BY <1>1, <2>1, LastOf
  <2> QED BY <1>1, <2>2
<1>3. (b1 \o s1)[Len(b1 \o s1)] \in {"mpk", "info", "emwp", "schema"}
  <2>1. s1 \in Strings /\ Len(s1) > 0 /\ s1[Len(s1)] \in {"mpk", "info", "emwp", "schema"}
    BY SuffixFacts
  <2>2. (b1 \o s1)[Len(b1 \o s1)] = s1[Len(s1)]
    BY <2>1, LastOf
  <2> QED BY <2>1, <2>2
<1>4. rand \notin {"mpk", "info", "emwp", "schema"}
  BY Tokens DEF Letters
<1> QED BY <1>1, <1>2, <1>3, <1>4

\* Published files of two identities: their records may meet.
LEMMA PublishedMeet ==
    ASSUME NEW b1 \in Strings, NEW b2 \in Strings, NEW s1 \in NameSuffixes, NEW s2 \in NameSuffixes,
           b1 \o s1 = b2 \o s2
    PROVE  \/ s1 = s2 /\ b1 = b2
           \/ s1 = info /\ s2 = emwpInfo /\ Dotted(b2, b1)
           \/ s1 = emwpInfo /\ s2 = info /\ Dotted(b1, b2)
<1>1. /\ mpk[Len(mpk)] = "mpk" /\ info[Len(info)] = "info" /\ emwp[Len(emwp)] = "emwp"
      /\ schema[Len(schema)] = "schema"
  BY DEF mpk, info, emwp, schema
<1>2. Len(info) > 0
  BY DEF info
<1>3. emwpInfo[Len(emwpInfo)] = "info"
  <2>1. (emwp \o info)[Len(emwp \o info)] = info[Len(info)]
    BY <1>2, Literals, LastOf
  <2> QED BY <1>1, <2>1 DEF emwpInfo
<1>4. s1[Len(s1)] = s2[Len(s2)]
  <2>1. s1 \in Strings /\ Len(s1) > 0 /\ s2 \in Strings /\ Len(s2) > 0
    BY SuffixFacts
  <2>2. (b1 \o s1)[Len(b1 \o s1)] = s1[Len(s1)]
    BY <2>1, LastOf
  <2>3. (b2 \o s2)[Len(b2 \o s2)] = s2[Len(s2)]
    BY <2>1, LastOf
  <2> QED BY <2>2, <2>3
<1>5. s1 = s2 \/ (s1 = info /\ s2 = emwpInfo) \/ (s1 = emwpInfo /\ s2 = info)
  <2>1. s1 \in {mpk, info, emwp, emwpInfo, schema} /\ s2 \in {mpk, info, emwp, emwpInfo, schema}
    BY DEF NameSuffixes
  <2> QED BY ONLY <1>1, <1>3, <1>4, <2>1
<1>6. ASSUME NEW b \in Strings, NEW c \in Strings, b \o info = c \o emwpInfo
      PROVE  Dotted(c, b)
  <2>1. c \o (emwp \o info) = (c \o emwp) \o info
    <3>1. c \in Strings /\ emwp \in Strings /\ info \in Strings
      BY Literals
    <3> QED BY ONLY <3>1, Assoc
  <2>2. b \o info = (c \o emwp) \o info
    BY <1>6, <2>1 DEF emwpInfo
  <2>3. c \o emwp \in Strings
    BY Literals, Cat
  <2>4. b = c \o emwp
    BY <2>2, <2>3, Literals, CancelRight
  <2> QED BY <2>4 DEF Dotted
<1>7. CASE s1 = s2
  BY <1>7, SuffixFacts, CancelRight
<1> QED BY <1>5, <1>6, <1>7

LEMMA SplitLast ==
    ASSUME NEW t \in Strings, t # << >>
    PROVE  \E h \in Strings, c \in Token :
              t = h \o <<c>> /\ <<c>> \in Strings /\ Len(t) > 0 /\ t[Len(t)] = c
<1>1. \E h \in Strings, c \in Token : t = Append(h, c)
  BY SequenceEmptyOrAppend DEF Strings
<1>2. PICK h \in Strings, c \in Token : t = Append(h, c)
  BY <1>1
<1>3. t = h \o <<c>>
  BY <1>2, AppendIsConcat DEF Strings
<1>4. <<c>> \in Strings /\ Len(<<c>>) = 1 /\ <<c>>[1] = c
  BY DEF Strings
<1>5. Len(t) > 0 /\ t[Len(t)] = c
  <2> DEFINE e == <<c>>
  <2>1. e \in Strings /\ Len(e) = 1 /\ e[1] = c /\ t = h \o e
    BY <1>3, <1>4
  <2> HIDE DEF e
  <2>2. Len(h \o e) > 0 /\ (h \o e)[Len(h \o e)] = e[Len(e)]
    <3>1. Len(e) > 0
      BY <2>1
    <3> QED BY <2>1, <3>1, LastOf
  <2> QED BY <2>1, <2>2
<1> QED BY <1>3, <1>4, <1>5

\* What base path and cache directory share.
Key(m) == (m.name \o Slash) \o m.revision
Output == <<"output", "/">>
CacheRoot == <<"cache", "/">>
Weights == <<"weights">>
Cached(m) == Cache(m) \o Slash \o Weights

LEMMA KeyFacts ==
    ASSUME NEW m \in Names
    PROVE  /\ Key(m) \in Strings /\ Base(m) \in Strings /\ Cache(m) \in Strings
           /\ Cached(m) \in Strings
           /\ Base(m) = Output \o Key(m) /\ Cache(m) = CacheRoot \o Key(m)
           /\ Output \in Strings /\ CacheRoot \in Strings /\ Slash \in Strings
           /\ Weights \in Strings /\ Weights # << >>
<1>1. m.name \in Strings /\ m.revision \in Strings
  BY DEF Names
<1>2. /\ Output \in Strings /\ CacheRoot \in Strings /\ Slash \in Strings
      /\ Weights \in Strings /\ Weights # << >>
  BY Literals DEF Output, CacheRoot, Weights
<1>3. Base(m) = ((Output \o m.name) \o Slash) \o m.revision
      /\ Cache(m) = ((CacheRoot \o m.name) \o Slash) \o m.revision
  BY DEF Base, Cache, Output, CacheRoot
<1>4. ASSUME NEW o \in Strings
      PROVE  /\ o \o Key(m) = ((o \o m.name) \o Slash) \o m.revision
             /\ o \o Key(m) \in Strings /\ Key(m) \in Strings
  <2> DEFINE n == m.name
             r == m.revision
             s == Slash
             a == n \o s
  <2>1. n \in Strings /\ r \in Strings /\ s \in Strings
    BY <1>1, <1>2
  <2>2. Key(m) = (n \o s) \o r /\ ((o \o m.name) \o Slash) \o m.revision = ((o \o n) \o s) \o r
    BY DEF Key
  <2> HIDE DEF n, r, s
  <2>3. (o \o n) \o s = o \o (n \o s)
    BY <2>1, Assoc
  <2>4. a \in Strings
    BY <2>1, Cat
  <2>5. (o \o a) \o r = o \o (a \o r)
    BY <2>1, <2>4, Assoc
  <2>6. a \o r \in Strings
    BY <2>1, <2>4, Cat
  <2>7. o \o (a \o r) \in Strings
    BY <2>6, Cat
  <2> QED BY <2>2, <2>3, <2>5, <2>6, <2>7
<1>5. Base(m) = Output \o Key(m) /\ Base(m) \in Strings /\ Key(m) \in Strings
  BY <1>2, <1>3, <1>4
<1>6. Cache(m) = CacheRoot \o Key(m) /\ Cache(m) \in Strings
  BY <1>2, <1>3, <1>4
<1>7. Cached(m) \in Strings
  <2>1. Cache(m) \o Slash \in Strings
    BY <1>2, <1>6, Cat
  <2> QED BY <1>2, <2>1, Cat DEF Cached
<1> QED BY <1>2, <1>5, <1>6, <1>7

LEMMA UnderSplit ==
    ASSUME NEW d \in Strings, NEW p \in Strings, Under(d, p)
    PROVE  \E w \in Strings : w # << >> /\ p = (d \o Slash) \o w
<1> DEFINE a == d \o Slash
           w == SubSeq(p, Len(a) + 1, Len(p))
<1>1. a \in Strings
  BY Literals, Cat
<1>2. IsPrefix(a, p) /\ a # p
  BY DEF Under, IsStrictPrefix
<1> HIDE DEF a
<1>3. w \in Strings /\ p = a \o w
  BY <1>1, <1>2, Prefix
<1> HIDE DEF w
<1>4. w # << >>
  <2>1. a \o << >> = a
    BY <1>1, ConcatEmptySeq DEF Strings
  <2> QED BY <1>2, <1>3, <2>1
<1> QED BY <1>3, <1>4 DEF a

LEMMA UnderJoin ==
    ASSUME NEW d \in Strings, NEW w \in Strings, w # << >>
    PROVE  Under(d, (d \o Slash) \o w)
<1> DEFINE a == d \o Slash
           p == a \o w
<1>1. a \in Strings
  BY Literals, Cat
<1> HIDE DEF a
<1>2. p \in Strings
  BY <1>1, Cat
<1>3. IsPrefix(a, p)
  BY <1>1, <1>2, Prefix
<1>4. a # p
  <2>1. << >> \in Strings /\ a \o << >> = a
    BY <1>1, ConcatEmptySeq DEF Strings
  <2>2. SUFFICES ASSUME a \o w = a \o << >> PROVE FALSE
    BY <2>1
  <2> QED BY <1>1, <2>1, <2>2, CancelLeft
<1> QED BY <1>3, <1>4 DEF Under, IsStrictPrefix, a

\* The key of a valid identity ends in a word of its revision.
LEMMA KeyEnd ==
    ASSUME NEW m \in Names, Valid(m), NEW k \in Strings
    PROVE  Key(m) # k \o Slash
<1> DEFINE r == m.revision
           a == m.name \o Slash
<1>1. r \in Strings /\ Lacks(r, "/") /\ r # << >>
  BY ValidFacts
<1>2. a \in Strings
  BY Literals, Cat DEF Names
<1>3. Key(m) = a \o r
  BY DEF Key
<1> HIDE DEF r, a
<1>4. Len(r) \in Nat /\ Len(r) > 0
  BY <1>1, EmptySeq, LenProperties DEF Strings
<1>5. r[Len(r)] # "/"
  BY <1>1, <1>4 DEF Lacks
<1>6. Key(m)[Len(Key(m))] # "/"
  <2>1. (a \o r)[Len(a \o r)] = r[Len(r)]
    BY <1>1, <1>2, <1>4, LastOf
  <2> QED BY <1>3, <1>5, <2>1
<1>7. Len(Slash) = 1 /\ Slash[1] = "/" /\ Slash \in Strings
  BY Literals DEF Slash
<1>8. (k \o Slash)[Len(k \o Slash)] = "/"
  <2>1. Len(Slash) > 0 /\ Slash[Len(Slash)] = "/"
    BY <1>7
  <2> QED BY <1>7, <2>1, LastOf
<1> QED BY <1>6, <1>8

\* Named, so that the provers use them where they are cited only.
Groups(s, t, v) == (s \o t) \o v = s \o (t \o v)
Regroups(c, k, s, x) == ((c \o k) \o s) \o x = c \o ((k \o s) \o x)

LEMMA Group ==
    ASSUME NEW s \in Strings, NEW t \in Strings, NEW v \in Strings
    PROVE  Groups(s, t, v)
BY Assoc DEF Groups

LEMMA Regroup ==
    ASSUME NEW c \in Strings, NEW k \in Strings, NEW s \in Strings, NEW x \in Strings
    PROVE  Regroups(c, k, s, x)
<1> DEFINE a == k \o s
<1>1. (c \o k) \o s = c \o (k \o s)
  BY ONLY c \in Strings, k \in Strings, s \in Strings, Assoc
<1>2. a \in Strings
  BY Cat
<1> HIDE DEF a
<1>3. (c \o a) \o x = c \o (a \o x)
  BY ONLY <1>2, c \in Strings, x \in Strings, Assoc
<1> QED BY <1>1, <1>3 DEF a, Regroups

\* What is downloaded lies under no other identity's cache directory, but
\* for a model whose name goes on where that one's name/revision ends.
LEMMA CacheMeet ==
    ASSUME NEW m1 \in Names, NEW m2 \in Names, Valid(m2), Under(Cache(m1), Cached(m2))
    PROVE  Base(m1) = Base(m2) \/ Nested(Base(m1), Base(m2))
<1> DEFINE k1 == Key(m1)
           k2 == Key(m2)
           c  == CacheRoot
           sl == Slash
           W  == Weights
<1>1. /\ k1 \in Strings /\ k2 \in Strings /\ c \in Strings /\ sl \in Strings
      /\ W \in Strings /\ W # << >>
      /\ Cache(m1) = c \o k1 /\ Cache(m2) = c \o k2 /\ Cache(m1) \in Strings
      /\ Cached(m2) \in Strings /\ Cached(m2) = ((c \o k2) \o sl) \o W
  BY KeyFacts DEF Cached
<1>2. \E w \in Strings : w # << >> /\ Cached(m2) = (Cache(m1) \o sl) \o w
  BY <1>1, UnderSplit
<1>3. PICK w \in Strings : w # << >> /\ ((c \o k2) \o sl) \o W = ((c \o k1) \o sl) \o w
  BY <1>1, <1>2
<1> HIDE DEF k1, k2, c, sl, W
<1>4. /\ k1 \in Strings /\ k2 \in Strings /\ c \in Strings /\ sl \in Strings
      /\ W \in Strings /\ w \in Strings
  BY <1>1
<1>5. k1 \o sl \in Strings /\ k2 \o sl \in Strings /\ (k2 \o sl) \o W = (k1 \o sl) \o w
  <2> DEFINE x == (k2 \o sl) \o W
             y == (k1 \o sl) \o w
  <2>1. k1 \o sl \in Strings /\ k2 \o sl \in Strings
    BY <1>4, Cat
  <2>2. x \in Strings /\ y \in Strings
    BY <1>4, <2>1, Cat
  <2>3. c \o x = c \o y
    <3>1. Regroups(c, k1, sl, w) /\ Regroups(c, k2, sl, W)
      BY <1>4, Regroup
    <3> QED BY <1>3, <3>1 DEF Regroups
  <2> HIDE DEF x, y
  <2>4. x = y
    BY ONLY <1>4, <2>2, <2>3, CancelLeft
  <2> QED BY <2>1, <2>4 DEF x, y
<1>6. PICK v \in Strings, e \in Token : w = v \o <<e>> /\ <<e>> \in Strings
                                        /\ Len(w) > 0 /\ w[Len(w)] = e
  BY <1>3, SplitLast
<1>7. <<e>> = W
  <2>1. Len(W) = 1 /\ W[1] = "weights"
    BY DEF W, Weights
  <2>2. ((k2 \o sl) \o W)[Len((k2 \o sl) \o W)] = "weights"
    <3>1. Len(W) > 0 /\ W[Len(W)] = "weights"
      BY <2>1
    <3> QED BY <1>1, <1>5, <3>1, LastOf
  <2>3. ((k1 \o sl) \o w)[Len((k1 \o sl) \o w)] = e
    BY <1>5, <1>6, LastOf
  <2>4. e = "weights"
    BY <1>5, <2>2, <2>3
  <2> QED BY <2>4 DEF W, Weights
<1>8. k2 \o sl = (k1 \o sl) \o v
  <2> DEFINE a == k1 \o sl
             b == k2 \o sl
  <2>0. a \in Strings /\ v \in Strings
    BY <1>5
  <2>1. a \in Strings /\ b \in Strings /\ b \o W = a \o (v \o W)
    BY <1>5, <1>6, <1>7
  <2> HIDE DEF a, b
  <2>2. (a \o v) \o W = a \o (v \o W) /\ a \o v \in Strings
    <3>1. Groups(a, v, W)
      BY <1>4, <2>0, Group
    <3> QED BY <2>1, <3>1, Cat DEF Groups
  <2>3. b \o W = (a \o v) \o W
    BY <2>1, <2>2
  <2>4. b = a \o v
    BY <1>1, <2>1, <2>2, <2>3, CancelRight
  <2> QED BY <2>4 DEF a, b
<1>9. CASE v = << >>
  <2>1. (k1 \o sl) \o << >> = k1 \o sl
    BY <1>5, ConcatEmptySeq DEF Strings
  <2>2. k2 \o sl = k1 \o sl
    BY <1>8, <1>9, <2>1
  <2>3. k2 = k1
    BY ONLY <1>1, <2>2, CancelRight
  <2> QED BY <2>3, KeyFacts DEF k1, k2
<1>10. CASE v # << >>
  <2>1. PICK x \in Strings, f \in Token : v = x \o <<f>> /\ <<f>> \in Strings
                                          /\ Len(v) > 0 /\ v[Len(v)] = f
    BY <1>10, SplitLast
  <2>2. <<f>> = sl
    <3>1. Len(sl) = 1 /\ sl[1] = "/"
      BY DEF sl, Slash
    <3>2. (k2 \o sl)[Len(k2 \o sl)] = "/"
      <4>1. Len(sl) > 0 /\ sl[Len(sl)] = "/"
        BY <3>1
      <4> QED BY <1>1, <4>1, LastOf
    <3>3. ((k1 \o sl) \o v)[Len((k1 \o sl) \o v)] = f
      BY <1>5, <2>1, LastOf
    <3>4. f = "/"
      BY <1>8, <3>2, <3>3
    <3> QED BY <3>4 DEF sl, Slash
  <2>3. k2 = (k1 \o sl) \o x
    <3> DEFINE a == k1 \o sl
    <3>1. a \in Strings /\ k2 \o sl = a \o (x \o sl)
      BY <1>5, <1>8, <2>1, <2>2
    <3> HIDE DEF a
    <3>2. (a \o x) \o sl = a \o (x \o sl) /\ a \o x \in Strings
      <4>1. a \in Strings /\ x \in Strings /\ sl \in Strings
        BY <1>1, <3>1
      <4>2. Groups(a, x, sl)
        BY <4>1, Group
      <4> QED BY <4>1, <4>2, Cat DEF Groups
    <3> DEFINE y == a \o x
    <3>3. k2 \o sl = y \o sl /\ y \in Strings
      BY <3>1, <3>2
    <3> HIDE DEF y
    <3>4. k2 = y
      BY ONLY <1>1, <3>3, CancelRight
    <3> QED BY <3>4 DEF a, y
  <2>4. x # << >>
    <3>1. (k1 \o sl) \o << >> = k1 \o sl
      BY <1>5, ConcatEmptySeq DEF Strings
    <3>2. k2 # k1 \o sl
      BY <1>1, KeyEnd DEF k2, sl
    <3> QED BY <2>3, <3>1, <3>2
  <2>5. Base(m2) = (Base(m1) \o Slash) \o x
    <3> DEFINE o == Output
    <3>1. o \in Strings /\ Base(m1) = o \o k1 /\ Base(m2) = o \o k2
      BY KeyFacts DEF k1, k2
    <3> HIDE DEF o
    <3>2. ((o \o k1) \o sl) \o x = o \o ((k1 \o sl) \o x)
      <4>1. Regroups(o, k1, sl, x)
        BY <1>4, <3>1, Regroup
      <4> QED BY ONLY <4>1 DEF Regroups
    <3> QED BY <2>3, <3>1, <3>2 DEF sl
  <2>6. Under(Base(m1), Base(m2))
    <3>1. Base(m1) \in Strings /\ Base(m2) \in Strings
      BY KeyFacts
    <3> QED BY <2>4, <2>5, <3>1, UnderJoin
  <2> QED BY <2>6 DEF Nested
<1> QED BY <1>9, <1>10

LEMMA CacheNotOutput ==
    ASSUME NEW m1 \in Names, NEW m2 \in Names, NEW t \in Strings
    PROVE  Base(m1) \o t # Cached(m2) /\ ~ Under(Cache(m2), Base(m1) \o t)
<1>1. Output[1] = "output" /\ CacheRoot[1] = "cache" /\ Len(Output) > 0 /\ Len(CacheRoot) > 0
  BY DEF Output, CacheRoot
<1>2. /\ Base(m1) \in Strings /\ Cache(m2) \in Strings /\ Cached(m2) \in Strings
      /\ Base(m1) = Output \o Key(m1) /\ Cache(m2) = CacheRoot \o Key(m2)
      /\ Key(m1) \in Strings /\ Key(m2) \in Strings /\ Output \in Strings /\ CacheRoot \in Strings
      /\ Weights \in Strings
  BY KeyFacts
<1>3. (Base(m1) \o t)[1] = "output" /\ Base(m1) \o t \in Strings
  <2>1. Len(Base(m1)) > 0 /\ Base(m1)[1] = "output"
    BY <1>1, <1>2, FirstOf
  <2> QED BY <1>2, <2>1, FirstOf
<1>4. ASSUME NEW w \in Strings PROVE ((Cache(m2) \o Slash) \o w)[1] = "cache"
  <2>1. Len(Cache(m2)) > 0 /\ Cache(m2)[1] = "cache"
    BY <1>1, <1>2, FirstOf
  <2>2. Cache(m2) \o Slash \in Strings /\ Len(Cache(m2) \o Slash) > 0
        /\ (Cache(m2) \o Slash)[1] = "cache"
    BY <1>2, <2>1, Literals, FirstOf
  <2> QED BY <2>2, FirstOf
<1>5. Base(m1) \o t # Cached(m2)
  BY <1>2, <1>3, <1>4 DEF Cached
<1>6. ASSUME Under(Cache(m2), Base(m1) \o t) PROVE FALSE
  <2> DEFINE p == Base(m1) \o t
             d == Cache(m2)
  <2>1. p \in Strings /\ d \in Strings /\ Under(d, p)
    BY <1>2, <1>3, <1>6
  <2> HIDE DEF p, d
  <2>2. \E w \in Strings : w # << >> /\ p = (d \o Slash) \o w
    BY <2>1, UnderSplit
  <2> QED BY <1>3, <1>4, <2>2 DEF p, d
<1> QED BY <1>5, <1>6

\* Delete finds the staged files and the cache of its own identity.
LEMMA OwnFound ==
    ASSUME NEW m \in Names, NEW s \in NameSuffixes, NEW rand \in Rands
    PROVE  IsStagedLeftover(StagedPath(Base(m), s, rand), Base(m))
<1> DEFINE d  == <<".">>
           e  == <<".", rand>>
           pa == (Base(m) \o Anchor) \o d
           n  == Len(s)
           x  == SubSeq(s, 2, n)
           y  == x \o e
<1>1. /\ d \in Strings /\ e \in Strings /\ Anchor \in Strings /\ Base(m) \in Strings
      /\ Len(d) = 1 /\ d[1] = "." /\ Len(e) = 2 /\ e[1] = "." /\ e[2] = rand
      /\ rand # "/"
  BY Literals, KeyFacts, Tokens DEF Letters
<1>2. s \in Strings /\ n \in Nat /\ n > 1 /\ s[1] = "." /\ Lacks(s, "/")
  BY SuffixFacts
<1> HIDE DEF d, e, n
<1>3. /\ x \in Strings /\ Len(x) = n - 1 /\ \A i \in 1 .. n - 1 : x[i] = s[i + 1]
  <2>1. \A i \in 2 .. n : s[i] \in Token
    <3>1. Len(s) = n
      BY DEF n
    <3> QED BY <1>2, <3>1, ElementOfSeq DEF Strings
  <2> QED BY <1>2, <2>1, SubSeqProperties DEF Strings
<1> HIDE DEF x
<1>4. Lacks(x, "/")
  <2> SUFFICES ASSUME NEW i \in 1 .. Len(x) PROVE x[i] # "/"
    BY DEF Lacks
  <2>1. i \in 1 .. n - 1 /\ i + 1 \in 1 .. Len(s) /\ x[i] = s[i + 1]
    BY <1>2, <1>3 DEF n
  <2> QED BY <1>2, <2>1 DEF Lacks
<1>5. s = d \o x
  <2>1. /\ d \o x \in Strings /\ Len(d \o x) = Len(d) + Len(x)
        /\ \A i \in 1 .. Len(d) : (d \o x)[i] = d[i]
        /\ \A i \in 1 .. Len(x) : (d \o x)[Len(d) + i] = x[i]
    BY <1>1, <1>3, Cat
  <2> DEFINE t == d \o x
  <2>2. t \in Strings /\ Len(t) = Len(s) /\ t[1] = s[1]
        /\ \A i \in 1 .. n - 1 : t[1 + i] = x[i]
    BY <1>1, <1>2, <1>3, <2>1 DEF n
  <2> HIDE DEF t
  <2>3. \A i \in 1 .. Len(s) : t[i] = s[i]
    <3> TAKE i \in 1 .. Len(s)
    <3>1. CASE i = 1
      BY <2>2, <3>1
    <3>2. CASE i # 1
      <4>1. i - 1 \in 1 .. n - 1 /\ 1 + (i - 1) = i /\ (i - 1) + 1 = i
        BY <1>2, <3>2 DEF n
      <4> QED BY <1>3, <2>2, <4>1
    <3> QED BY <3>1, <3>2
  <2> QED BY <1>2, <2>2, <2>3, SeqEqual DEF Strings, t
<1>6. y \in Strings /\ Len(y) > 0 /\ Lacks(y, "/")
  <2>1. Lacks(e, "/")
    <3> SUFFICES ASSUME NEW i \in 1 .. Len(e) PROVE e[i] # "/"
      BY DEF Lacks
    <3>1. i = 1 \/ i = 2
      BY <1>1
    <3> QED BY <1>1, <3>1
  <2>2. Lacks(x \o e, "/")
    BY <1>1, <1>3, <1>4, <2>1, CatLacks
  <2>3. Len(e) > 0
    BY <1>1
  <2> QED BY <1>1, <1>3, <2>2, <2>3, LastOf
<1>7. pa \in Strings
  BY <1>1, Cat
<1>8. StagedPath(Base(m), s, rand) = pa \o y
  <2> DEFINE a == Base(m) \o Anchor
  <2>1. a \in Strings
    BY <1>1, Cat
  <2>2. StagedPath(Base(m), s, rand) = (a \o s) \o e
    BY DEF StagedPath, e
  <2> HIDE DEF a
  <2>3. ((a \o d) \o x) \o e = a \o ((d \o x) \o e)
    <3>1. Regroups(a, d, x, e)
      BY <1>1, <1>3, <2>1, Regroup
    <3> QED BY ONLY <3>1 DEF Regroups
  <2>4. (a \o s) \o e = a \o (s \o e)
    <3>1. Groups(a, s, e)
      BY <1>1, <1>2, <2>1, Group
    <3> QED BY ONLY <3>1 DEF Groups
  <2>5. a \o d \in Strings
    BY <1>1, <2>1, Cat
  <2>6. ((a \o d) \o x) \o e = (a \o d) \o (x \o e)
    <3> DEFINE b == a \o d
    <3>1. b \in Strings
      BY <2>5
    <3> HIDE DEF b
    <3>2. Groups(b, x, e)
      BY <1>1, <1>3, <3>1, Group
    <3> QED BY ONLY <3>2 DEF Groups, b
  <2> QED BY <1>5, <2>2, <2>3, <2>4, <2>6 DEF a
<1> HIDE DEF pa, y
<1> DEFINE p == pa \o y
<1>9. p \in Strings /\ IsPrefix(pa, p) /\ SubSeq(p, Len(pa) + 1, Len(p)) \in Strings
      /\ p = pa \o SubSeq(p, Len(pa) + 1, Len(p))
  <2>1. p \in Strings
    BY <1>6, <1>7, Cat
  <2>2. IsPrefix(pa, p)
    BY <1>6, <1>7, <2>1, Prefix
  <2> HIDE DEF p
  <2> QED BY <1>7, <2>1, <2>2, Prefix
<1>10. SubSeq(p, Len(pa) + 1, Len(p)) = y
  <2> DEFINE z == SubSeq(p, Len(pa) + 1, Len(p))
  <2>1. z \in Strings /\ pa \o z = pa \o y
    BY <1>9
  <2> HIDE DEF z, p
  <2>2. z = y
    BY <1>6, <1>7, <2>1, CancelLeft
  <2> QED BY <2>2 DEF z
<1>11. ~ Has(y, Slash)
  BY <1>6, HasOne, Tokens DEF Slash, Lacks
<1>12. pa # p
  <2>1. /\ Len(p) = Len(pa) + Len(y) /\ Len(pa) \in Nat /\ Len(y) \in Nat
    BY <1>6, <1>7, Cat
  <2> HIDE DEF p
  <2> QED BY <1>6, <2>1
<1>13. pa = Base(m) \o Anchor \o <<".">>
  BY DEF pa, d
<1> HIDE DEF p
<1>14. StagedPath(Base(m), s, rand) = p
  BY <1>8 DEF p
<1> QED BY <1>9, <1>10, <1>11, <1>12, <1>13, <1>14 DEF IsStagedLeftover, IsStrictPrefix

LEMMA SameCache ==
    ASSUME NEW m1 \in Names, NEW m2 \in Names, Base(m1) = Base(m2)
    PROVE  Under(Cache(m1), Cached(m2))
<1>1. /\ Base(m1) = Output \o Key(m1) /\ Base(m2) = Output \o Key(m2) /\ Output \in Strings
      /\ Key(m1) \in Strings /\ Key(m2) \in Strings
      /\ Cache(m1) = CacheRoot \o Key(m1) /\ Cache(m2) = CacheRoot \o Key(m2)
      /\ Cache(m1) \in Strings /\ Weights \in Strings /\ Weights # << >>
  BY KeyFacts
<1>2. Key(m1) = Key(m2)
  <2> DEFINE o == Output
             k1 == Key(m1)
             k2 == Key(m2)
  <2>1. o \in Strings /\ k1 \in Strings /\ k2 \in Strings /\ o \o k1 = o \o k2
    BY <1>1
  <2> HIDE DEF o, k1, k2
  <2>2. k1 = k2
    BY <2>1, CancelLeft
  <2> QED BY <2>2 DEF k1, k2
<1>3. Cached(m2) = (Cache(m1) \o Slash) \o Weights
  BY <1>1, <1>2 DEF Cached
<1>4. Under(Cache(m1), (Cache(m1) \o Slash) \o Weights)
  <2> DEFINE d == Cache(m1)
  <2>1. d \in Strings /\ Weights \in Strings /\ Weights # << >>
    BY <1>1
  <2> HIDE DEF d
  <2>2. Under(d, (d \o Slash) \o Weights)
    BY <2>1, UnderJoin
  <2> QED BY <2>2 DEF d
<1> QED BY <1>3, <1>4

LEMMA CachedTwice ==
    ASSUME NEW m1 \in Names, NEW m2 \in Names, Cached(m1) = Cached(m2)
    PROVE  Base(m1) = Base(m2)
<1> DEFINE k1 == Key(m1)
           k2 == Key(m2)
           c1 == Cache(m1)
           c2 == Cache(m2)
           d1 == c1 \o Slash
           d2 == c2 \o Slash
           c  == CacheRoot
<1>1. /\ c \in Strings /\ k1 \in Strings /\ k2 \in Strings /\ c1 = c \o k1 /\ c2 = c \o k2
      /\ c1 \in Strings /\ c2 \in Strings /\ Weights \in Strings /\ Slash \in Strings
      /\ Base(m1) = Output \o k1 /\ Base(m2) = Output \o k2
  BY KeyFacts
<1>2. d1 \o Weights = d2 \o Weights
  BY DEF Cached
<1> HIDE DEF k1, k2, c1, c2, c
<1>3. d1 \in Strings /\ d2 \in Strings
  BY <1>1, Cat
<1> HIDE DEF d1, d2
<1>4. d1 = d2
  BY <1>1, <1>2, <1>3, CancelRight
<1>5. c1 = c2
  BY <1>1, <1>4, CancelRight DEF d1, d2
<1>6. c \o k1 = c \o k2 /\ k1 \in Strings /\ k2 \in Strings /\ c \in Strings
  BY <1>1, <1>5
<1>7. k1 = k2
  BY ONLY <1>6, CancelLeft
<1> QED BY <1>1, <1>7

\* What the sweep of one identity takes.
LEMMA NotSwept ==
    ASSUME NEW m1 \in Names, NEW m2 \in Names, Valid(m1), Valid(m2)
    PROVE  /\ \A s \in NameSuffixes : ~ IsStagedLeftover(Base(m2) \o s, Base(m1))
           /\ \A s \in NameSuffixes, rand \in Rands :
                 IsStagedLeftover(StagedPath(Base(m2), s, rand), Base(m1)) => Base(m1) = Base(m2)
           /\ ~ IsStagedLeftover(Cached(m2), Base(m1))
<1>1. ASSUME NEW s \in NameSuffixes PROVE ~ IsStagedLeftover(Base(m2) \o s, Base(m1))
  <2>1. TailShape(s) /\ s[2] # "."
    BY SuffixFacts DEF TailShape
  <2> QED BY <2>1, SweepsItsOwn
<1>2. ASSUME NEW s \in NameSuffixes, NEW rand \in Rands,
             IsStagedLeftover(StagedPath(Base(m2), s, rand), Base(m1))
      PROVE  Base(m1) = Base(m2)
  <2> DEFINE t == StagedTail(s, rand)
  <2>1. /\ t \in Strings /\ Len(t) \in Nat /\ Len(t) > 2
        /\ t[1] = "." /\ t[2] = "." /\ t[3] = "staged" /\ Lacks(t, "/")
        /\ \A b \in Strings : StagedPath(b, s, rand) = b \o t
    BY StagedFacts
  <2> HIDE DEF t
  <2>2. TailShape(t)
    BY <2>1 DEF TailShape
  <2>3. Base(m2) \in Strings
    BY KeyFacts
  <2>4. IsStagedLeftover(Base(m2) \o t, Base(m1))
    BY <1>2, <2>1, <2>3
  <2> QED BY <2>2, <2>4, SweepsItsOwn
<1>3. ASSUME IsStagedLeftover(Cached(m2), Base(m1)) PROVE FALSE
  <2> DEFINE b    == Base(m1)
             dot  == <<".">>
             p    == Cached(m2)
             a    == (b \o Anchor) \o dot
             rest == SubSeq(p, Len(a) + 1, Len(p))
  <2>1. b \in Strings /\ Anchor \in Strings /\ dot \in Strings /\ p \in Strings
    BY KeyFacts, Literals
  <2>2. IsPrefix(a, p)
    BY <1>3 DEF IsStagedLeftover, IsStrictPrefix
  <2> HIDE DEF b, dot, p
  <2>3. a \in Strings
    BY <2>1, Cat
  <2> HIDE DEF a
  <2>4. rest \in Strings /\ p = a \o rest
    BY <2>1, <2>2, <2>3, Prefix
  <2> HIDE DEF rest
  <2>5. Regroups(b, Anchor, dot, rest)
    BY <2>1, <2>4, Regroup
  <2>6. p = b \o ((Anchor \o dot) \o rest)
    BY <2>4, <2>5 DEF Regroups, a
  <2>7. (Anchor \o dot) \o rest \in Strings
    BY <2>1, <2>4, Cat
  <2> QED BY <2>6, <2>7, CacheNotOutput DEF b, p
<1> QED BY <1>1, <1>2, <1>3

-----------------------------------------------------------------------------
(* The files of an identity.                                               *)

PathOf(p, m) ==
    \/ \E s \in NameSuffixes : p = Base(m) \o s
    \/ \E s \in NameSuffixes, rand \in Rands : p = StagedPath(Base(m), s, rand)
    \/ p = Cached(m)

\* What Delete removes.
Removes(m, p) ==
    \/ \E s \in Removed : p = Base(m) \o s
    \/ IsStagedLeftover(p, Base(m))
    \/ Under(Cache(m), p)

LEMMA RemovesOwn ==
    ASSUME NEW m1 \in Names, NEW m2 \in Names, NEW p, PathOf(p, m2), Base(m1) = Base(m2)
    PROVE  Removes(m1, p)
<1>1. CASE \E s \in NameSuffixes : p = Base(m2) \o s
  BY <1>1 DEF Removes, Removed, NameSuffixes
<1>2. CASE \E s \in NameSuffixes, rand \in Rands : p = StagedPath(Base(m2), s, rand)
  BY <1>2, OwnFound DEF Removes
<1>3. CASE p = Cached(m2)
  BY <1>3, SameCache DEF Removes
<1> QED BY <1>1, <1>2, <1>3 DEF PathOf

\* A published path is of its identity, but for the clash of two records.
LEMMA PublishedIsOwn ==
    ASSUME NEW m1 \in Names, NEW m2 \in Names, NEW s \in NameSuffixes, PathOf(Base(m1) \o s, m2)
    PROVE  \/ Base(m1) = Base(m2)
           \/ s = info /\ Dotted(Base(m2), Base(m1))
           \/ s = emwpInfo /\ Dotted(Base(m1), Base(m2)) /\ Base(m1) \o s = Base(m2) \o info
<1> DEFINE b1 == Base(m1)
           b2 == Base(m2)
<1>1. b1 \in Strings /\ b2 \in Strings
  BY KeyFacts
<1>2. CASE \E t \in NameSuffixes : b1 \o s = b2 \o t
  <2>1. PICK t \in NameSuffixes : b1 \o s = b2 \o t
    BY <1>2
  <2> HIDE DEF b1, b2
  <2>2. \/ s = t /\ b1 = b2
        \/ s = info /\ t = emwpInfo /\ Dotted(b2, b1)
        \/ s = emwpInfo /\ t = info /\ Dotted(b1, b2)
    BY <1>1, <2>1, PublishedMeet
  <2> QED BY <2>1, <2>2 DEF b1, b2
<1>3. CASE \E t \in NameSuffixes, rand \in Rands : b1 \o s = StagedPath(b2, t, rand)
  BY <1>1, <1>3, PublishedNotStaged
<1>4. CASE b1 \o s = Cached(m2)
  BY <1>4, SuffixFacts, CacheNotOutput
<1> QED BY <1>2, <1>3, <1>4 DEF PathOf

LEMMA RemovesOthers ==
    ASSUME NEW m1 \in Names, NEW m2 \in Names, Valid(m1), Valid(m2),
           NEW p, PathOf(p, m2), Removes(m1, p)
    PROVE  \/ Base(m1) = Base(m2)
           \/ Dotted(Base(m1), Base(m2)) /\ p = Base(m2) \o info
           \/ Dotted(Base(m2), Base(m1)) /\ p = Base(m1) \o info
           \/ Nested(Base(m1), Base(m2)) /\ Under(Cache(m1), p)
<1>1. CASE \E s \in Removed : p = Base(m1) \o s
  <2>1. PICK s \in NameSuffixes : p = Base(m1) \o s
    BY <1>1 DEF Removed, NameSuffixes
  <2> QED BY <2>1, PublishedIsOwn
<1>2. CASE IsStagedLeftover(p, Base(m1))
  BY <1>2, NotSwept DEF PathOf
<1>3. CASE Under(Cache(m1), p)
  <2>1. CASE \E s \in NameSuffixes : p = Base(m2) \o s
    BY <1>3, <2>1, SuffixFacts, CacheNotOutput
  <2>2. CASE \E s \in NameSuffixes, rand \in Rands : p = StagedPath(Base(m2), s, rand)
    <3>1. PICK s \in NameSuffixes, rand \in Rands : p = StagedPath(Base(m2), s, rand)
      BY <2>2
    <3> DEFINE t == StagedTail(s, rand)
    <3>2. t \in Strings /\ \A b \in Strings : StagedPath(b, s, rand) = b \o t
      BY StagedFacts
    <3> HIDE DEF t
    <3>3. p = Base(m2) \o t
      BY <3>1, <3>2, KeyFacts
    <3> QED BY <1>3, <3>2, <3>3, CacheNotOutput
  <2>3. CASE p = Cached(m2)
    BY <1>3, <2>3, CacheMeet
  <2> QED BY <2>1, <2>2, <2>3 DEF PathOf
<1> QED BY <1>1, <1>2, <1>3 DEF Removes

-----------------------------------------------------------------------------
(* The steps of a run.                                                     *)

LEMMA SuffixesDiffer ==
    /\ mpk # info /\ mpk # emwp /\ mpk # emwpInfo /\ mpk # schema /\ info # emwp
    /\ info # emwpInfo /\ info # schema /\ emwp # emwpInfo /\ emwp # schema
    /\ emwpInfo # schema
<1>1. /\ mpk[2] = "mpk" /\ info[2] = "info" /\ emwp[2] = "emwp" /\ schema[2] = "schema"
      /\ Len(emwp) = 2 /\ Len(info) = 2 /\ Len(mpk) = 2 /\ Len(schema) = 2
  BY DEF mpk, info, emwp, schema
<1>2. Len(emwpInfo) = Len(emwp) + Len(info)
  BY Literals, Cat DEF emwpInfo
<1>3. Len(emwpInfo) = 4
  BY <1>1, <1>2
<1> QED BY ONLY <1>1, <1>3

\* What is staged and not yet renamed before step i.
Waiting(i) ==
    CASE i \in {2, 4} -> {mpk}
      [] i = 3        -> {mpk, schema}
      [] i = 6        -> {info}
      [] i = 8        -> {emwp}
      [] i = 10       -> {emwpInfo}
      [] OTHER        -> {}

LEMMA StepValues ==
    /\ Len(Steps) = 10
    /\ Steps[1] = [do |-> "stage", suffix |-> mpk]
    /\ Steps[2] = [do |-> "stage", suffix |-> schema]
    /\ Steps[3] = [do |-> "rename", suffix |-> schema]
    /\ Steps[4] = [do |-> "rename", suffix |-> mpk]
    /\ Steps[5] = [do |-> "stage", suffix |-> info]
    /\ Steps[6] = [do |-> "rename", suffix |-> info]
    /\ Steps[7] = [do |-> "stage", suffix |-> emwp]
    /\ Steps[8] = [do |-> "rename", suffix |-> emwp]
    /\ Steps[9] = [do |-> "stage", suffix |-> emwpInfo]
    /\ Steps[10] = [do |-> "rename", suffix |-> emwpInfo]
BY DEF Steps

LEMMA WaitingValues ==
    /\ Waiting(1) = {} /\ Waiting(2) = {mpk} /\ Waiting(3) = {mpk, schema}
    /\ Waiting(4) = {mpk} /\ Waiting(5) = {} /\ Waiting(6) = {info} /\ Waiting(7) = {}
    /\ Waiting(8) = {emwp} /\ Waiting(9) = {} /\ Waiting(10) = {emwpInfo}
    /\ Waiting(11) = {} /\ Waiting(0) = {}
BY DEF Waiting

LEMMA StepFacts ==
    ASSUME NEW i \in 1 .. 10
    PROVE  /\ Steps[i].suffix \in NameSuffixes
           /\ Steps[i].do = "stage" =>
                 /\ Steps[i].suffix \notin Waiting(i)
                 /\ Waiting(i) \cup {Steps[i].suffix} \subseteq Waiting(i + 1)
                 /\ i \in {1, 2, 5, 7, 9}
           /\ Steps[i].do = "rename" =>
                 /\ Waiting(i) \ {Steps[i].suffix} \subseteq Waiting(i + 1)
                 /\ i = 4 => Steps[i].suffix = mpk
                 /\ i = 6 => Steps[i].suffix = info
           /\ \A w \in Waiting(i) : \E j \in 1 .. i - 1 : Steps[j].suffix = w
<1>1. i \in {1, 2, 3, 4, 5, 6, 7, 8, 9, 10}
  OBVIOUS
<1>2. Steps[i].suffix \in NameSuffixes
  BY <1>1, StepValues DEF NameSuffixes
<1>3. Steps[i].do = "stage" =>
         /\ Steps[i].suffix \notin Waiting(i)
         /\ Waiting(i) \cup {Steps[i].suffix} \subseteq Waiting(i + 1)
         /\ i \in {1, 2, 5, 7, 9}
  BY <1>1, StepValues, WaitingValues, SuffixesDiffer
<1>4. Steps[i].do = "rename" =>
         /\ Waiting(i) \ {Steps[i].suffix} \subseteq Waiting(i + 1)
         /\ i = 4 => Steps[i].suffix = mpk
         /\ i = 6 => Steps[i].suffix = info
  BY <1>1, StepValues, WaitingValues, SuffixesDiffer
<1>5. ASSUME NEW w \in Waiting(i) PROVE \E j \in 1 .. i - 1 : Steps[j].suffix = w
  <2>1. \/ i \in {2, 3, 4} /\ w = mpk
        \/ i = 3 /\ w = schema
        \/ i = 6 /\ w = info
        \/ i = 8 /\ w = emwp
        \/ i = 10 /\ w = emwpInfo
    BY <1>1, WaitingValues
  <2>2. CASE i \in {2, 3, 4} /\ w = mpk
    BY <2>2, StepValues
  <2>3. CASE i = 3 /\ w = schema
    BY <2>3, StepValues
  <2>4. CASE i = 6 /\ w = info
    BY <2>4, StepValues
  <2>5. CASE i = 8 /\ w = emwp
    BY <2>5, StepValues
  <2>6. CASE i = 10 /\ w = emwpInfo
    BY <2>6, StepValues
  <2> QED BY <2>1, <2>2, <2>3, <2>4, <2>5, <2>6
<1> QED BY <1>2, <1>3, <1>4, <1>5

LEMMA ContinueFacts ==
    ASSUME NEW u \in Users, NEW i \in 1 .. 11, NEW fs, Continue(u, i, fs)
    PROVE  \/ i \in {7, 11} /\ Goto(u, "return", 0)
           \/ \E k \in 1 .. 10 : Goto(u, "publish", k) /\ (k = i \/ (i = 7 /\ k = 9))
<1>1. CASE (i = Encrypt /\ job[u] = "pack") \/ i > Len(Steps)
  <2>1. i \in {7, 11}
    BY <1>1, StepValues DEF Encrypt
  <2> QED BY <1>1, <2>1 DEF Continue
<1>2. CASE /\ ~ ((i = Encrypt /\ job[u] = "pack") \/ i > Len(Steps))
           /\ i = Encrypt /\ Own(u) \o emwp \in fs
  BY <1>2 DEF Continue, Encrypt, EmwpInfo
<1>3. CASE /\ ~ ((i = Encrypt /\ job[u] = "pack") \/ i > Len(Steps))
           /\ ~ (i = Encrypt /\ Own(u) \o emwp \in fs)
  <2>1. i \in 1 .. 10
    BY <1>3, StepValues
  <2> QED BY <1>3, <2>1 DEF Continue
<1> QED BY <1>1, <1>2, <1>3

-----------------------------------------------------------------------------
(* The inductive invariant.                                                *)

PCs == {"idle", "download", "lock", "publish", "return", "delete"}

Types ==
    /\ request \in [Users -> Requests] /\ job \in [Users -> Jobs]
    /\ pc \in [Users -> PCs] /\ at \in [Users -> 0 .. 10]
    /\ staged \in [Users -> SUBSET [suffix : NameSuffixes, path : Strings]]
    /\ runs \in 0 .. MaxRuns

\* A run that goes on has a valid identity.
RunInv(u) ==
    /\ pc[u] # "idle" => Valid(Subject(u))
    /\ pc[u] \in {"download", "lock", "publish", "return"} => job[u] # "delete"
    /\ pc[u] = "delete" => job[u] = "delete"
    /\ at[u] \in IF pc[u] = "publish" THEN 1 .. 10 ELSE {0}

\* What it has staged is what it has yet to rename, in files of its own.
StagedInv(u) ==
    /\ \A f \in staged[u] :
          /\ pc[u] = "publish" /\ f.suffix \in Waiting(at[u])
          /\ \E rand \in Rands : f.path = StagedPath(Own(u), f.suffix, rand)
          /\ Exists(f.path) /\ files[f.path] = Own(u)
    /\ \A f, g \in staged[u] : f.suffix = g.suffix \/ f.path = g.path => f = g

LockInv == \A u, v \in Users : Locked(u) /\ Locked(v) /\ u # v => Own(u) # Own(v)

\* Every file is one of a valid identity that some run packs.
Maker(p, v) == Valid(Packed(v)) /\ files[p] = Base(Packed(v)) /\ PathOf(p, Packed(v))
FilesInv == \A p \in DOMAIN files : \E v \in Users : Maker(p, v)

Mine(u, s) == Exists(Own(u) \o s) /\ files[Own(u) \o s] = Own(u)

\* The image is in place from step 5 on, its commit record from step 7 on.
PublishedInv(u) ==
    Alone(u) =>
        /\ pc[u] = "return" \/ (pc[u] = "publish" /\ at[u] >= 5) => Mine(u, mpk)
        /\ pc[u] = "return" \/ (pc[u] = "publish" /\ at[u] >= 7) => Mine(u, info)

IInv ==
    /\ Types
    /\ \A u \in Users : RunInv(u) /\ StagedInv(u) /\ PublishedInv(u)
    /\ LockInv
    /\ FilesInv

LEMMA OwnFacts ==
    ASSUME NEW u \in Users, IInv
    PROVE  /\ Packed(u) \in Names /\ Deleted(u) \in Names /\ Subject(u) \in Names
           /\ Own(u) = Base(Subject(u)) /\ Own(u) \in Strings
           /\ pc[u] # "idle" => Valid(Subject(u))
           /\ pc[u] \in {"download", "lock", "publish", "return"} =>
                 Subject(u) = Packed(u) /\ Own(u) = Base(Packed(u)) /\ Valid(Packed(u))
           /\ pc[u] = "delete" => Subject(u) = Deleted(u)
<1>1. Packed(u) \in Names /\ Deleted(u) \in Names /\ Subject(u) \in Names
  BY SubjectFacts DEF IInv, Types
<1>2. RunInv(u)
  BY DEF IInv
<1>3. Own(u) = Base(Subject(u)) /\ Own(u) \in Strings
  BY <1>1, KeyFacts DEF Own
<1>4. job[u] # "delete" => Subject(u) = Packed(u)
  BY DEF Subject
<1>5. job[u] = "delete" => Subject(u) = Deleted(u)
  BY DEF Subject
<1> QED BY <1>1, <1>2, <1>3, <1>4, <1>5 DEF RunInv

LEMMA SameSubjects ==
    ASSUME request' = request, NEW u \in Users
    PROVE  /\ Packed(u)' = Packed(u) /\ Deleted(u)' = Deleted(u)
           /\ job'[u] = job[u] => Subject(u)' = Subject(u) /\ Own(u)' = Own(u)
<1>1. Packed(u)' = Packed(u)
  BY DEF Packed
<1>2. Deleted(u)' = Deleted(u)
  BY <1>1 DEF Deleted
<1>3. ASSUME job'[u] = job[u] PROVE Subject(u)' = Subject(u)
  BY <1>1, <1>2, <1>3 DEF Subject
<1>4. ASSUME job'[u] = job[u] PROVE Own(u)' = Own(u)
  BY <1>3, <1>4 DEF Own
<1> QED BY <1>1, <1>2, <1>3, <1>4

\* Whose a published path is.
LEMMA MakerOfPublished ==
    ASSUME IInv, NEW u \in Users, NEW s \in NameSuffixes, Exists(Own(u) \o s)
    PROVE  LET b == files[Own(u) \o s]
           IN  \/ b = Own(u)
               \/ s = info /\ Dotted(b, Own(u)) /\ \E v \in Users : b = Base(Packed(v))
               \/ s = emwpInfo /\ Dotted(Own(u), b) /\ Own(u) \o s = b \o info
<1>1. PICK v \in Users : Maker(Own(u) \o s, v)
  BY DEF IInv, FilesInv, Exists
<1>2. Subject(u) \in Names /\ Packed(v) \in Names /\ Own(u) = Base(Subject(u))
  BY OwnFacts
<1>3. files[Own(u) \o s] = Base(Packed(v)) /\ PathOf(Base(Subject(u)) \o s, Packed(v))
  BY <1>1, <1>2 DEF Maker
<1>4. \/ Base(Subject(u)) = Base(Packed(v))
      \/ s = info /\ Dotted(Base(Packed(v)), Base(Subject(u)))
      \/ /\ s = emwpInfo /\ Dotted(Base(Subject(u)), Base(Packed(v)))
         /\ Base(Subject(u)) \o s = Base(Packed(v)) \o info
  BY <1>2, <1>3, PublishedIsOwn
<1> QED BY <1>2, <1>3, <1>4

-----------------------------------------------------------------------------
(* What the steps do to the files.                                         *)

Kept(p) == p \in DOMAIN files' /\ files'[p] = files[p]
Made(p, v) == Valid(Packed(v)) /\ files'[p] = Base(Packed(v)) /\ PathOf(p, Packed(v))

LEMMA PutFacts ==
    ASSUME NEW path, NEW id, files' = Put(path, id)
    PROVE  /\ DOMAIN files' = DOMAIN files \cup {path} /\ files'[path] = id
           /\ \A p \in DOMAIN files : p # path => Kept(p)
BY DEF Put, Kept

LEMMA DownloadFiles ==
    ASSUME IInv, NEW u \in Users, Download(u)
    PROVE  /\ \A p \in DOMAIN files : Kept(p)
           /\ \A p \in DOMAIN files' : p \in DOMAIN files \/ Made(p, u)
<1>1. files' = Put(Cached(Packed(u)), Own(u)) /\ pc[u] = "download" /\ request' = request
  BY DEF Download, Cached, Weights
<1>2. Own(u) = Base(Packed(u)) /\ Packed(u) \in Names /\ Valid(Packed(u))
  BY <1>1, OwnFacts
<1>3. /\ DOMAIN files' = DOMAIN files \cup {Cached(Packed(u))}
      /\ files'[Cached(Packed(u))] = Own(u)
      /\ \A p \in DOMAIN files : p # Cached(Packed(u)) => Kept(p)
  BY <1>1, PutFacts
<1>4. ASSUME Cached(Packed(u)) \in DOMAIN files PROVE files[Cached(Packed(u))] = Own(u)
  <2>1. PICK v \in Users : Maker(Cached(Packed(u)), v)
    BY <1>4 DEF IInv, FilesInv
  <2>2. PathOf(Cached(Packed(u)), Packed(v)) /\ Packed(v) \in Names
        /\ files[Cached(Packed(u))] = Base(Packed(v))
    BY <2>1, OwnFacts DEF Maker
  <2>3. CASE \E s \in NameSuffixes : Cached(Packed(u)) = Base(Packed(v)) \o s
    BY <1>2, <2>2, <2>3, SuffixFacts, CacheNotOutput
  <2>4. CASE \E s \in NameSuffixes, rand \in Rands :
                Cached(Packed(u)) = StagedPath(Base(Packed(v)), s, rand)
    <3>1. PICK s \in NameSuffixes, rand \in Rands :
             Cached(Packed(u)) = StagedPath(Base(Packed(v)), s, rand)
      BY <2>4
    <3> DEFINE t == StagedTail(s, rand)
    <3>2. t \in Strings /\ \A b \in Strings : StagedPath(b, s, rand) = b \o t
      BY StagedFacts
    <3> HIDE DEF t
    <3>3. Cached(Packed(u)) = Base(Packed(v)) \o t
      BY <2>2, <3>1, <3>2, KeyFacts
    <3> QED BY <1>2, <2>2, <3>2, <3>3, CacheNotOutput
  <2>5. CASE Cached(Packed(u)) = Cached(Packed(v))
    BY <1>2, <2>2, <2>5, CachedTwice
  <2> QED BY <2>2, <2>3, <2>4, <2>5 DEF PathOf
<1>5. \A p \in DOMAIN files : Kept(p)
  BY <1>3, <1>4 DEF Kept
<1>6. Made(Cached(Packed(u)), u)
  <2>1. PathOf(Cached(Packed(u)), Packed(u))
    BY DEF PathOf
  <2> QED BY <1>2, <1>3, <2>1 DEF Made
<1> QED BY <1>3, <1>5, <1>6

LEMMA StageFiles ==
    ASSUME IInv, NEW u \in Users, Stage(u)
    PROVE  /\ \A p \in DOMAIN files : Kept(p)
           /\ \A p \in DOMAIN files' : p \in DOMAIN files \/ Made(p, u)
<1>1. PICK rand \in Rands :
         LET path == StagedPath(Own(u), Steps[at[u]].suffix, rand)
         IN  ~ Exists(path) /\ files' = Put(path, Own(u))
  BY DEF Stage
<1> DEFINE path == StagedPath(Own(u), Steps[at[u]].suffix, rand)
<1>2. path \notin DOMAIN files /\ files' = Put(path, Own(u)) /\ pc[u] = "publish"
      /\ request' = request
  BY <1>1 DEF Exists, Stage
<1>3. Own(u) = Base(Packed(u)) /\ Packed(u) \in Names /\ Valid(Packed(u))
  BY <1>2, OwnFacts
<1>4. PathOf(path, Packed(u))
  <2>1. at[u] \in 1 .. 10
    BY <1>2 DEF IInv, RunInv
  <2>2. Steps[at[u]].suffix \in NameSuffixes
    BY <2>1, StepFacts
  <2> QED BY <1>3, <2>2 DEF PathOf
<1> HIDE DEF path
<1>5. /\ DOMAIN files' = DOMAIN files \cup {path} /\ files'[path] = Own(u)
      /\ \A p \in DOMAIN files : p # path => Kept(p)
  BY <1>2, PutFacts
<1>6. Made(path, u)
  BY <1>3, <1>4, <1>5 DEF Made
<1> QED BY <1>2, <1>5, <1>6

\* The staged file goes, and takes the place of what was published.
Moves(u, f) ==
    /\ f.suffix = Steps[at[u]].suffix /\ f.suffix \in NameSuffixes
    /\ DOMAIN files' = (DOMAIN files \ {f.path}) \cup {Own(u) \o f.suffix}
    /\ files'[Own(u) \o f.suffix] = Own(u)
    /\ \A p \in DOMAIN files : p \notin {f.path, Own(u) \o f.suffix} => Kept(p)
    /\ staged' = [staged EXCEPT ![u] = @ \ {f}]
    /\ Continue(u, at[u] + 1, DOMAIN files')
    /\ Made(Own(u) \o f.suffix, u)

LEMMA RenameFiles ==
    ASSUME IInv, NEW u \in Users, Rename(u)
    PROVE  \E f \in staged[u] : Moves(u, f)
<1>1. PICK f \in staged[u] :
          /\ f.suffix = Steps[at[u]].suffix
          /\ IF Exists(f.path)
             THEN /\ files' = [p \in (DOMAIN files \ {f.path}) \cup {Own(u) \o f.suffix} |->
                                  IF p = Own(u) \o f.suffix THEN files[f.path] ELSE files[p]]
                  /\ staged' = [staged EXCEPT ![u] = @ \ {f}]
                  /\ Continue(u, at[u] + 1, DOMAIN files')
             ELSE Ends(u) /\ UNCHANGED files
  BY DEF Rename
<1>2. Exists(f.path) /\ files[f.path] = Own(u) /\ pc[u] = "publish" /\ request' = request
  BY DEF IInv, StagedInv, Rename
<1>3. at[u] \in 1 .. 10
  BY <1>2 DEF IInv, RunInv
<1>4. f.suffix \in NameSuffixes
  BY <1>1, <1>3, StepFacts
<1> DEFINE path == Own(u) \o f.suffix
<1>5. /\ files' = [p \in (DOMAIN files \ {f.path}) \cup {path} |->
                      IF p = path THEN files[f.path] ELSE files[p]]
      /\ staged' = [staged EXCEPT ![u] = @ \ {f}]
      /\ Continue(u, at[u] + 1, DOMAIN files')
  BY <1>1, <1>2
<1>6. Own(u) = Base(Packed(u)) /\ Packed(u) \in Names /\ Valid(Packed(u))
  BY <1>2, OwnFacts
<1>7. PathOf(path, Packed(u))
  BY <1>4, <1>6 DEF PathOf
<1> HIDE DEF path
<1>8. DOMAIN files' = (DOMAIN files \ {f.path}) \cup {path} /\ files'[path] = Own(u)
  BY <1>2, <1>5
<1>9. \A p \in DOMAIN files : p \notin {f.path, path} => Kept(p)
  BY <1>5 DEF Kept
<1>10. Made(path, u)
  BY <1>6, <1>7, <1>8 DEF Made
<1>11. Moves(u, f)
  BY <1>1, <1>4, <1>5, <1>8, <1>9, <1>10 DEF path, Moves
<1> QED BY <1>11

LEMMA DeleteFiles ==
    ASSUME IInv, NEW u \in Users, Delete(u)
    PROVE  /\ Deleted(u) = Subject(u)
           /\ DOMAIN files' = {p \in DOMAIN files : ~ Removes(Deleted(u), p)}
           /\ \A p \in DOMAIN files : ~ Removes(Deleted(u), p) => Kept(p)
<1>1. pc[u] = "delete"
  BY DEF Delete
<1>2. Deleted(u) = Subject(u) /\ Own(u) = Base(Deleted(u))
  BY <1>1, OwnFacts
<1> DEFINE gone == {Own(u) \o s : s \in Removed}
                   \cup {p \in DOMAIN files : IsStagedLeftover(p, Own(u))}
                   \cup {p \in DOMAIN files : Under(Cache(Deleted(u)), p)}
<1>3. files' = Without(gone)
  BY DEF Delete
<1>4. \A p \in DOMAIN files : p \in gone <=> Removes(Deleted(u), p)
  BY <1>2 DEF Removes
<1> HIDE DEF gone
<1>5. DOMAIN files' = DOMAIN files \ gone /\ \A p \in DOMAIN files \ gone : files'[p] = files[p]
  BY <1>3 DEF Without
<1> QED BY <1>2, <1>4, <1>5 DEF Kept

-----------------------------------------------------------------------------
(* A step keeps the invariant.                                             *)

\* A step of u leaves the other runs alone.
OthersKeep(u) ==
    /\ \A v \in Users \ {u} :
          /\ job'[v] = job[v] /\ pc'[v] = pc[v] /\ at'[v] = at[v] /\ staged'[v] = staged[v]
          /\ \A f \in staged[v] : Kept(f.path)
          /\ \A s \in {mpk, info} : Locked(v) /\ Alone(v) /\ Mine(v, s) => Kept(Own(v) \o s)
    /\ \A p \in DOMAIN files' : (p \in DOMAIN files /\ files'[p] = files[p])
                                \/ \E v \in Users : Made(p, v)

\* And u has its part of the invariant.
OwnPart(u) ==
    /\ RunInv(u)' /\ StagedInv(u)' /\ PublishedInv(u)'
    /\ Locked(u)' => job'[u] = job[u] /\ \A v \in Users \ {u} : Locked(v) => Own(v) # Own(u)

LEMMA AloneStays ==
    ASSUME request' = request, NEW u \in Users, job'[u] = job[u]
    PROVE  Alone(u)' <=> Alone(u)
<1>1. \A v \in Users : Packed(v)' = Packed(v) /\ Deleted(v)' = Deleted(v)
  BY SameSubjects
<1>2. Own(u)' = Own(u)
  BY SameSubjects
<1> QED BY <1>1, <1>2 DEF Alone, Dotted, Base, emwp, Slash

LEMMA FrameStep ==
    ASSUME IInv, NEW u \in Users, request' = request, Types', OthersKeep(u), OwnPart(u)
    PROVE  IInv'
<1>1. ASSUME NEW v \in Users \ {u} PROVE RunInv(v)' /\ StagedInv(v)' /\ PublishedInv(v)'
  <2>1. /\ job'[v] = job[v] /\ pc'[v] = pc[v] /\ at'[v] = at[v] /\ staged'[v] = staged[v]
        /\ \A f \in staged[v] : Kept(f.path)
        /\ \A s \in {mpk, info} : Locked(v) /\ Alone(v) /\ Mine(v, s) => Kept(Own(v) \o s)
    BY DEF OthersKeep
  <2>2. Subject(v)' = Subject(v) /\ Own(v)' = Own(v)
    BY <2>1, SameSubjects
  <2>3. RunInv(v) /\ StagedInv(v) /\ PublishedInv(v)
    BY DEF IInv
  <2>4. RunInv(v)'
    BY <2>1, <2>2, <2>3 DEF RunInv, Valid
  <2>5. StagedInv(v)'
    <3>1. ASSUME NEW f \in staged'[v]
          PROVE  /\ pc'[v] = "publish" /\ f.suffix \in Waiting(at'[v])
                 /\ \E rand \in Rands : f.path = StagedPath(Own(v)', f.suffix, rand)
                 /\ Exists(f.path)' /\ files'[f.path] = Own(v)'
      <4>1. /\ pc[v] = "publish" /\ f.suffix \in Waiting(at[v])
            /\ \E rand \in Rands : f.path = StagedPath(Own(v), f.suffix, rand)
            /\ Exists(f.path) /\ files[f.path] = Own(v)
        BY <2>1, <2>3 DEF StagedInv
      <4>2. Kept(f.path)
        BY <2>1
      <4> QED BY <2>1, <2>2, <4>1, <4>2 DEF Kept, Exists
    <3>2. \A f, g \in staged'[v] : f.suffix = g.suffix \/ f.path = g.path => f = g
      BY <2>1, <2>3 DEF StagedInv
    <3> QED BY <3>1, <3>2 DEF StagedInv, StagedPath, Waiting
  <2>6. PublishedInv(v)'
    <3>1. Alone(v)' => Alone(v)
      BY <2>1, AloneStays
    <3>2. Mine(v, mpk) /\ Alone(v) /\ Locked(v) => Mine(v, mpk)'
      <4>1. Mine(v, mpk) /\ Alone(v) /\ Locked(v) =>
               Kept(Own(v) \o mpk) /\ files[Own(v) \o mpk] = Own(v)
        BY <2>1 DEF Mine
      <4> QED BY <2>2, <4>1 DEF Kept, Mine, Exists, mpk
    <3>3. Mine(v, info) /\ Alone(v) /\ Locked(v) => Mine(v, info)'
      <4>1. Mine(v, info) /\ Alone(v) /\ Locked(v) =>
               Kept(Own(v) \o info) /\ files[Own(v) \o info] = Own(v)
        BY <2>1 DEF Mine
      <4> QED BY <2>2, <4>1 DEF Kept, Mine, Exists, info
    <3> QED BY <2>1, <2>3, <3>1, <3>2, <3>3 DEF PublishedInv, Locked
  <2> QED BY <2>4, <2>5, <2>6
<1>2. \A v \in Users : RunInv(v)' /\ StagedInv(v)' /\ PublishedInv(v)'
  BY <1>1 DEF OwnPart
<1>3. LockInv'
  <2>1. SUFFICES ASSUME NEW v \in Users, NEW w \in Users, v # w, Locked(v)', Locked(w)'
                 PROVE  Own(v)' # Own(w)'
    BY DEF LockInv
  <2>2. \A x \in Users \ {u} : Locked(x)' => Locked(x) /\ job'[x] = job[x]
    BY DEF OthersKeep, Locked
  <2>3. Own(v)' = Own(v) /\ Own(w)' = Own(w)
    BY <2>1, <2>2, SameSubjects DEF OwnPart
  <2>4. CASE u \notin {v, w}
    BY <2>1, <2>2, <2>3, <2>4 DEF IInv, LockInv
  <2>5. CASE u = v
    BY <2>1, <2>2, <2>3, <2>5 DEF OwnPart
  <2>6. CASE u = w
    BY <2>1, <2>2, <2>3, <2>6 DEF OwnPart
  <2> QED BY <2>4, <2>5, <2>6
<1>4. FilesInv'
  <2>1. SUFFICES ASSUME NEW p \in DOMAIN files'
                 PROVE  \E v \in Users : Maker(p, v)'
    BY DEF FilesInv
  <2>2. \A v \in Users : Packed(v)' = Packed(v)
    BY SameSubjects
  <2>3. PICK v \in Users : Made(p, v)
    <3>1. CASE p \in DOMAIN files /\ files'[p] = files[p]
      BY <3>1 DEF IInv, FilesInv, Maker, Made
    <3> QED BY <3>1 DEF OthersKeep
  <2> QED BY <2>2, <2>3 DEF Made, Maker, Valid, Base, PathOf
<1> QED BY <1>2, <1>3, <1>4 DEF IInv

\* What Removes spares.
LEMMA StagedStays ==
    ASSUME NEW m1 \in Names, NEW m2 \in Names, Valid(m1), Valid(m2),
           NEW s \in NameSuffixes, NEW rand \in Rands, Removes(m1, StagedPath(Base(m2), s, rand))
    PROVE  Base(m1) = Base(m2)
<1> DEFINE p == StagedPath(Base(m2), s, rand)
<1>1. PathOf(p, m2)
  BY DEF PathOf
<1>2. \/ Base(m1) = Base(m2)
      \/ p = Base(m2) \o info
      \/ p = Base(m1) \o info
      \/ Under(Cache(m1), p)
  <2>1. Removes(m1, p)
    OBVIOUS
  <2> HIDE DEF p
  <2> QED BY <1>1, <2>1, RemovesOthers
<1>3. info \in NameSuffixes /\ Base(m1) \in Strings /\ Base(m2) \in Strings
  BY KeyFacts DEF NameSuffixes
<1>4. p # Base(m2) \o info /\ p # Base(m1) \o info
  BY <1>3, PublishedNotStaged
<1>5. ~ Under(Cache(m1), p)
  <2> DEFINE t == StagedTail(s, rand)
  <2>1. t \in Strings /\ p = Base(m2) \o t
    BY <1>3, StagedFacts
  <2> HIDE DEF t, p
  <2> QED BY <2>1, CacheNotOutput
<1> QED BY <1>2, <1>4, <1>5

LEMMA PublishedStays ==
    ASSUME NEW m1 \in Names, NEW m2 \in Names, Valid(m1), Valid(m2),
           NEW s \in {mpk, info}, Removes(m1, Base(m2) \o s), ~ Dotted(Base(m1), Base(m2))
    PROVE  Base(m1) = Base(m2)
<1> DEFINE b1 == Base(m1)
           b2 == Base(m2)
           p  == b2 \o s
<1>1. s \in NameSuffixes /\ info \in NameSuffixes /\ b1 \in Strings /\ b2 \in Strings
  BY KeyFacts DEF NameSuffixes
<1>2. PathOf(p, m2)
  BY <1>1 DEF PathOf
<1>3. \/ b1 = b2
      \/ p = b1 \o info
      \/ Under(Cache(m1), p)
  <2>1. Removes(m1, p)
    OBVIOUS
  <2> HIDE DEF p
  <2> QED BY <1>2, <2>1, RemovesOthers
<1>4. ~ Under(Cache(m1), p)
  BY <1>1, SuffixFacts, CacheNotOutput
<1>5. p = b1 \o info => b1 = b2
  <2> SUFFICES ASSUME b1 \o info = b2 \o s PROVE b1 = b2
    OBVIOUS
  <2> HIDE DEF b1, b2
  <2>1. \/ info = s /\ b1 = b2
        \/ info = info /\ s = emwpInfo /\ Dotted(b2, b1)
        \/ info = emwpInfo /\ s = info /\ Dotted(b1, b2)
    BY <1>1, PublishedMeet
  <2> QED BY <2>1, SuffixesDiffer
<1> QED BY <1>3, <1>4, <1>5

LEMMA StagedPathOf ==
    ASSUME IInv, NEW v \in Users, NEW f \in staged[v]
    PROVE  /\ pc[v] = "publish" /\ Own(v) = Base(Packed(v)) /\ f.path \in DOMAIN files
           /\ files[f.path] = Own(v)
           /\ \E s \in NameSuffixes, rand \in Rands : f.path = StagedPath(Own(v), s, rand)
<1>1. /\ pc[v] = "publish" /\ f.suffix \in Waiting(at[v])
      /\ \E rand \in Rands : f.path = StagedPath(Own(v), f.suffix, rand)
      /\ Exists(f.path) /\ files[f.path] = Own(v)
  BY DEF IInv, StagedInv
<1>2. f.suffix \in NameSuffixes
  <2>1. at[v] \in 1 .. 10
    BY <1>1 DEF IInv, RunInv
  <2>2. PICK j \in 1 .. at[v] - 1 : Steps[j].suffix = f.suffix
    BY <1>1, <2>1, StepFacts
  <2> QED BY <2>1, <2>2, StepFacts
<1> QED BY <1>1, <1>2, OwnFacts DEF Exists

\* Steps that leave all files where they are, or put a new one of u's.
LEMMA OthersKeepFiles ==
    ASSUME IInv, NEW u \in Users,
           \A p \in DOMAIN files : Kept(p),
           \A p \in DOMAIN files' : p \in DOMAIN files \/ Made(p, u),
           \A v \in Users \ {u} :
              job'[v] = job[v] /\ pc'[v] = pc[v] /\ at'[v] = at[v] /\ staged'[v] = staged[v]
    PROVE  OthersKeep(u)
<1>1. \A v \in Users \ {u} : \A f \in staged[v] : Kept(f.path)
  BY StagedPathOf
<1>2. \A v \in Users \ {u} : \A s \in {mpk, info} : Mine(v, s) => Kept(Own(v) \o s)
  BY DEF Mine, Exists
<1>3. \A p \in DOMAIN files' : (p \in DOMAIN files /\ files'[p] = files[p])
                                \/ \E v \in Users : Made(p, v)
  BY DEF Kept
<1> QED BY <1>1, <1>2, <1>3 DEF OthersKeep

LEMMA Elsewhere ==
    ASSUME IInv, NEW u \in Users, NEW l, NEW i, Goto(u, l, i)
    PROVE  /\ pc'[u] = l /\ at'[u] = i
           /\ \A v \in Users \ {u} : pc'[v] = pc[v] /\ at'[v] = at[v]
           /\ l \in PCs /\ i \in 0 .. 10 => pc' \in [Users -> PCs] /\ at' \in [Users -> 0 .. 10]
BY DEF IInv, Types, Goto

LEMMA NoneStaged ==
    ASSUME IInv, NEW u \in Users, pc[u] # "publish"
    PROVE  staged[u] = {}
BY DEF IInv, StagedInv

\* A run that ends, its files where they are.
LEMMA EndStep ==
    ASSUME IInv, NEW u \in Users, Ends(u), UNCHANGED <<request, job, files, runs>>
    PROVE  IInv'
<1>1. Goto(u, "idle", 0) /\ staged' = [staged EXCEPT ![u] = {}]
  BY DEF Ends
<1>2. /\ pc'[u] = "idle" /\ at'[u] = 0
      /\ \A v \in Users \ {u} : pc'[v] = pc[v] /\ at'[v] = at[v]
      /\ pc' \in [Users -> PCs] /\ at' \in [Users -> 0 .. 10]
  BY <1>1, Elsewhere DEF PCs
<1>3. staged'[u] = {} /\ \A v \in Users \ {u} : staged'[v] = staged[v]
  BY <1>1 DEF IInv, Types
<1>4. Types'
  BY <1>1, <1>2 DEF IInv, Types
<1>5. OthersKeep(u)
  BY <1>2, <1>3, OthersKeepFiles DEF Kept
<1>6. OwnPart(u)
  BY <1>2, <1>3 DEF OwnPart, RunInv, StagedInv, PublishedInv, Locked
<1> QED BY <1>4, <1>5, <1>6, FrameStep

LEMMA StartStep ==
    ASSUME IInv, NEW u \in Users, NEW j \in Jobs, Start(u, j)
    PROVE  IInv'
<1> DEFINE m == IF j = "delete" THEN Deleted(u) ELSE Packed(u)
           l == IF ~ Valid(m) THEN "idle"
                ELSE IF j = "delete" THEN "delete"
                ELSE IF Verdict(Base(m)) = "partial" THEN "idle"
                ELSE IF request[u].dir = << >> THEN "download" ELSE "lock"
<1>1. /\ pc[u] = "idle" /\ runs < MaxRuns /\ runs' = runs + 1
      /\ job' = [job EXCEPT ![u] = j] /\ Goto(u, l, 0)
      /\ UNCHANGED <<request, staged, files>>
  BY DEF Start
<1>2. /\ l \in {"idle", "delete", "download", "lock"}
      /\ l # "idle" => Valid(m)
      /\ l = "delete" => j = "delete"
      /\ l \in {"download", "lock"} => j # "delete"
  OBVIOUS
<1> HIDE DEF l
<1>3. /\ pc'[u] = l /\ at'[u] = 0
      /\ \A v \in Users \ {u} : pc'[v] = pc[v] /\ at'[v] = at[v]
      /\ pc' \in [Users -> PCs] /\ at' \in [Users -> 0 .. 10]
  BY <1>1, <1>2, Elsewhere DEF PCs
<1>4. job'[u] = j /\ \A v \in Users \ {u} : job'[v] = job[v]
  BY <1>1 DEF IInv, Types
<1>5. Subject(u)' = m
  <2>1. Packed(u)' = Packed(u) /\ Deleted(u)' = Deleted(u)
    BY <1>1, SameSubjects
  <2> QED BY <1>4, <2>1 DEF Subject
<1>6. Types'
  <2>1. Types
    BY DEF IInv
  <2>2. job' \in [Users -> Jobs]
    BY <1>1, <2>1 DEF Types
  <2>3. runs' \in 0 .. MaxRuns
    BY <1>1, <2>1, RevisionsAssumption DEF Types
  <2> QED BY <1>1, <1>3, <2>1, <2>2, <2>3 DEF Types
<1>7. OthersKeep(u)
  BY <1>1, <1>3, <1>4, OthersKeepFiles DEF Kept
<1>8. OwnPart(u)
  <2>1. staged'[u] = {}
    BY <1>1, NoneStaged
  <2>2. RunInv(u)'
    <3>1. l # "idle" => Valid(Subject(u))'
      BY <1>2, <1>5 DEF Valid
    <3> QED BY <1>2, <1>3, <1>4, <3>1 DEF RunInv
  <2>3. StagedInv(u)'
    BY <2>1 DEF StagedInv
  <2>4. pc'[u] \notin {"publish", "return"}
    BY <1>2, <1>3
  <2> QED BY <2>2, <2>3, <2>4 DEF OwnPart, PublishedInv, Locked
<1> QED BY <1>1, <1>6, <1>7, <1>8, FrameStep

LEMMA DownloadStep ==
    ASSUME IInv, NEW u \in Users, Download(u)
    PROVE  IInv'
<1>1. pc[u] = "download" /\ Goto(u, "lock", 0) /\ UNCHANGED <<request, job, staged, runs>>
  BY DEF Download
<1>2. /\ pc'[u] = "lock" /\ at'[u] = 0
      /\ \A v \in Users \ {u} : pc'[v] = pc[v] /\ at'[v] = at[v]
      /\ pc' \in [Users -> PCs] /\ at' \in [Users -> 0 .. 10]
  BY <1>1, Elsewhere DEF PCs
<1>3. Types'
  BY <1>1, <1>2 DEF IInv, Types
<1>4. OthersKeep(u)
  BY <1>1, <1>2, DownloadFiles, OthersKeepFiles
<1>5. OwnPart(u)
  <2>1. staged'[u] = {}
    BY <1>1, NoneStaged
  <2>2. Subject(u)' = Subject(u) /\ RunInv(u)
    BY <1>1, SameSubjects DEF IInv
  <2> QED BY <1>1, <1>2, <2>1, <2>2 DEF OwnPart, RunInv, StagedInv, PublishedInv, Locked, Valid
<1> QED BY <1>1, <1>3, <1>4, <1>5, FrameStep

LEMMA DeleteStep ==
    ASSUME IInv, NEW u \in Users, Delete(u)
    PROVE  IInv'
<1>1. /\ pc[u] = "delete" /\ LockFree(u) /\ Goto(u, "idle", 0)
      /\ UNCHANGED <<request, job, staged, runs>>
  BY DEF Delete
<1>2. /\ pc'[u] = "idle" /\ at'[u] = 0
      /\ \A v \in Users \ {u} : pc'[v] = pc[v] /\ at'[v] = at[v]
      /\ pc' \in [Users -> PCs] /\ at' \in [Users -> 0 .. 10]
  BY <1>1, Elsewhere DEF PCs
<1>3. Types'
  BY <1>1, <1>2 DEF IInv, Types
<1> DEFINE m == Deleted(u)
<1>4. m \in Names /\ Valid(m) /\ Own(u) = Base(m)
  BY <1>1, OwnFacts
<1>5. /\ DOMAIN files' = {p \in DOMAIN files : ~ Removes(m, p)}
      /\ \A p \in DOMAIN files : ~ Removes(m, p) => Kept(p)
  BY DeleteFiles
<1> HIDE DEF m
<1>6. OthersKeep(u)
  <2>1. ASSUME NEW v \in Users \ {u}, Locked(v)
        PROVE  Own(v) = Base(Packed(v)) /\ Packed(v) \in Names /\ Valid(Packed(v))
               /\ Base(m) # Base(Packed(v))
    <3>1. Own(v) = Base(Packed(v)) /\ Packed(v) \in Names /\ Valid(Packed(v))
      BY <2>1, OwnFacts DEF Locked
    <3>2. Own(v) # Own(u)
      BY <1>1, <2>1 DEF LockFree
    <3> QED BY <1>4, <3>1, <3>2
  <2>2. ASSUME NEW v \in Users \ {u}, NEW f \in staged[v] PROVE Kept(f.path)
    <3>1. /\ pc[v] = "publish" /\ f.path \in DOMAIN files
          /\ \E s \in NameSuffixes, rand \in Rands : f.path = StagedPath(Own(v), s, rand)
      BY StagedPathOf
    <3>2. Own(v) = Base(Packed(v)) /\ Packed(v) \in Names /\ Valid(Packed(v))
          /\ Base(m) # Base(Packed(v))
      BY <2>1, <3>1 DEF Locked
    <3>3. ~ Removes(m, f.path)
      BY <1>4, <3>1, <3>2, StagedStays
    <3> QED BY <1>5, <3>1, <3>3
  <2>3. ASSUME NEW v \in Users \ {u}, NEW s \in {mpk, info}, Locked(v), Alone(v), Mine(v, s)
        PROVE  Kept(Own(v) \o s)
    <3>1. Own(v) = Base(Packed(v)) /\ Packed(v) \in Names /\ Valid(Packed(v))
          /\ Base(m) # Base(Packed(v))
      BY <2>1, <2>3
    <3>2. ~ Dotted(Base(m), Own(v))
      BY <2>3 DEF Alone, m
    <3>3. ~ Removes(m, Own(v) \o s)
      BY <1>4, <3>1, <3>2, PublishedStays
    <3> QED BY <1>5, <2>3, <3>3 DEF Mine, Exists
  <2>4. \A p \in DOMAIN files' : p \in DOMAIN files /\ files'[p] = files[p]
    BY <1>5 DEF Kept
  <2> QED BY <1>1, <1>2, <2>2, <2>3, <2>4 DEF OthersKeep
<1>7. OwnPart(u)
  <2>1. staged'[u] = {}
    BY <1>1, NoneStaged
  <2> QED BY <1>2, <2>1 DEF OwnPart, RunInv, StagedInv, PublishedInv, Locked
<1> QED BY <1>1, <1>3, <1>6, <1>7, FrameStep

\* An image and a record that are there are the run's own.
LEMMA OwnRecord ==
    ASSUME IInv, NEW u \in Users, Alone(u)
    PROVE  /\ Exists(Own(u) \o mpk) => Mine(u, mpk)
           /\ Exists(Own(u) \o info) => Mine(u, info)
<1>1. ASSUME NEW s \in {mpk, info}, Exists(Own(u) \o s) PROVE Mine(u, s)
  <2>1. s \in NameSuffixes /\ s # emwpInfo
    BY SuffixesDiffer DEF NameSuffixes
  <2>2. \/ files[Own(u) \o s] = Own(u)
        \/ \E v \in Users : files[Own(u) \o s] = Base(Packed(v))
                            /\ Dotted(Base(Packed(v)), Own(u))
    BY <1>1, <2>1, MakerOfPublished
  <2> QED BY <1>1, <2>2 DEF Alone, Mine
<1> QED BY <1>1

LEMMA LockStep ==
    ASSUME IInv, NEW u \in Users, Lock(u)
    PROVE  IInv'
<1>1. /\ pc[u] = "lock" /\ LockFree(u) /\ UNCHANGED <<request, job, staged, files, runs>>
      /\ Verdict(Own(u)) \in {"build", "reuse", "partial"}
  BY DEF Lock, Verdict
<1>2. \/ Goto(u, "publish", 1)
      \/ Verdict(Own(u)) = "reuse" /\ Continue(u, 7, DOMAIN files)
      \/ Goto(u, "idle", 0)
  BY <1>1 DEF Lock, Encrypt
<1>3. \/ Goto(u, "publish", 1)
      \/ Goto(u, "idle", 0)
      \/ Verdict(Own(u)) = "reuse" /\ Goto(u, "return", 0)
      \/ Verdict(Own(u)) = "reuse" /\ \E k \in {7, 9} : Goto(u, "publish", k)
  BY <1>2, ContinueFacts
<1>4. PICK l \in {"publish", "idle", "return"}, k \in 0 .. 10 :
         /\ Goto(u, l, k)
         /\ l = "publish" => k \in {1, 7, 9}
         /\ l # "publish" => k = 0
         /\ l = "return" \/ (l = "publish" /\ k # 1) => Verdict(Own(u)) = "reuse"
  <2>1. CASE Goto(u, "publish", 1)
    BY <2>1
  <2>2. CASE Goto(u, "idle", 0)
    BY <2>2
  <2>3. CASE Verdict(Own(u)) = "reuse" /\ Goto(u, "return", 0)
    BY <2>3
  <2>4. CASE Verdict(Own(u)) = "reuse" /\ \E i \in {7, 9} : Goto(u, "publish", i)
    BY <2>4
  <2> QED BY <1>3, <2>1, <2>2, <2>3, <2>4
<1>5. /\ pc'[u] = l /\ at'[u] = k
      /\ \A v \in Users \ {u} : pc'[v] = pc[v] /\ at'[v] = at[v]
      /\ pc' \in [Users -> PCs] /\ at' \in [Users -> 0 .. 10]
  BY <1>4, Elsewhere DEF PCs
<1>6. Types'
  BY <1>1, <1>5 DEF IInv, Types
<1>7. OthersKeep(u)
  BY <1>1, <1>5, OthersKeepFiles DEF Kept
<1>8. OwnPart(u)
  <2>1. staged'[u] = {}
    BY <1>1, NoneStaged
  <2>2. Subject(u)' = Subject(u) /\ Own(u)' = Own(u) /\ RunInv(u)
    BY <1>1, SameSubjects DEF IInv
  <2>3. RunInv(u)'
    BY <1>1, <1>4, <1>5, <2>2 DEF RunInv, Valid
  <2>4. StagedInv(u)'
    BY <2>1 DEF StagedInv
  <2>5. PublishedInv(u)'
    <3>1. SUFFICES ASSUME Alone(u)', Verdict(Own(u)) = "reuse"
                   PROVE  Mine(u, mpk)' /\ Mine(u, info)'
      BY <1>4, <1>5 DEF PublishedInv
    <3>2. Exists(Own(u) \o mpk) /\ Exists(Own(u) \o info)
      BY <3>1 DEF Verdict
    <3>3. Mine(u, mpk) /\ Mine(u, info)
      BY <1>1, <3>1, <3>2, AloneStays, OwnRecord
    <3> QED BY <1>1, <2>2, <3>3 DEF Mine, Exists, mpk, info
  <2>6. \A v \in Users \ {u} : Locked(v) => Own(v) # Own(u)
    BY <1>1 DEF LockFree
  <2> QED BY <1>1, <2>3, <2>4, <2>5, <2>6 DEF OwnPart
<1> QED BY <1>1, <1>6, <1>7, <1>8, FrameStep

\* Where publishing goes on after step i.
GoesTo(u, i) ==
    \/ i + 1 \in {7, 11} /\ pc'[u] = "return" /\ at'[u] = 0
    \/ pc'[u] = "publish" /\ at'[u] \in 1 .. 10
       /\ (at'[u] = i + 1 \/ (i + 1 = 7 /\ at'[u] = 9))

LEMMA GoesOn ==
    ASSUME IInv, NEW u \in Users, NEW fs, pc[u] = "publish", Continue(u, at[u] + 1, fs)
    PROVE  /\ at[u] \in 1 .. 10 /\ GoesTo(u, at[u])
           /\ \A v \in Users \ {u} : pc'[v] = pc[v] /\ at'[v] = at[v]
           /\ pc' \in [Users -> PCs] /\ at' \in [Users -> 0 .. 10]
           /\ \A w \in Waiting(at[u] + 1) : pc'[u] = "publish" /\ w \in Waiting(at'[u])
<1>1. at[u] \in 1 .. 10
  BY DEF IInv, RunInv
<1>2. \/ at[u] + 1 \in {7, 11} /\ Goto(u, "return", 0)
      \/ \E k \in 1 .. 10 : Goto(u, "publish", k)
                            /\ (k = at[u] + 1 \/ (at[u] + 1 = 7 /\ k = 9))
  <2> DEFINE i == at[u] + 1
  <2>1. i \in 1 .. 11 /\ Continue(u, i, fs)
    BY <1>1
  <2> HIDE DEF i
  <2>2. \/ i \in {7, 11} /\ Goto(u, "return", 0)
        \/ \E k \in 1 .. 10 : Goto(u, "publish", k) /\ (k = i \/ (i = 7 /\ k = 9))
    BY <2>1, ContinueFacts
  <2> QED BY <2>2 DEF i
<1>3. CASE at[u] + 1 \in {7, 11} /\ Goto(u, "return", 0)
  <2>1. /\ pc'[u] = "return" /\ at'[u] = 0
        /\ \A v \in Users \ {u} : pc'[v] = pc[v] /\ at'[v] = at[v]
        /\ pc' \in [Users -> PCs] /\ at' \in [Users -> 0 .. 10]
    BY <1>3, Elsewhere DEF PCs
  <2> QED BY <1>1, <1>3, <2>1, WaitingValues DEF GoesTo
<1>4. ASSUME NEW k \in 1 .. 10, Goto(u, "publish", k),
             k = at[u] + 1 \/ (at[u] + 1 = 7 /\ k = 9)
      PROVE  /\ GoesTo(u, at[u])
             /\ \A v \in Users \ {u} : pc'[v] = pc[v] /\ at'[v] = at[v]
             /\ pc' \in [Users -> PCs] /\ at' \in [Users -> 0 .. 10]
             /\ \A w \in Waiting(at[u] + 1) : pc'[u] = "publish" /\ w \in Waiting(at'[u])
  <2>1. /\ pc'[u] = "publish" /\ at'[u] = k
        /\ \A v \in Users \ {u} : pc'[v] = pc[v] /\ at'[v] = at[v]
        /\ pc' \in [Users -> PCs] /\ at' \in [Users -> 0 .. 10]
    BY <1>4, Elsewhere DEF PCs
  <2>2. GoesTo(u, at[u])
    BY <1>1, <1>4, <2>1 DEF GoesTo
  <2>3. \A w \in Waiting(at[u] + 1) : w \in Waiting(k)
    BY <1>4, WaitingValues
  <2> QED BY <2>1, <2>2, <2>3
<1> QED BY <1>1, <1>2, <1>3, <1>4

LEMMA StageStep ==
    ASSUME IInv, NEW u \in Users, Stage(u)
    PROVE  IInv'
<1> DEFINE i == at[u]
           s == Steps[i].suffix
<1>1. /\ pc[u] = "publish" /\ Steps[i].do = "stage" /\ Continue(u, i + 1, DOMAIN files)
      /\ UNCHANGED <<request, job, runs>>
  BY DEF Stage
<1>2. PICK rand \in Rands :
         /\ ~ Exists(StagedPath(Own(u), s, rand))
         /\ files' = Put(StagedPath(Own(u), s, rand), Own(u))
         /\ staged' = [staged EXCEPT ![u] = @ \cup
                          {[suffix |-> s, path |-> StagedPath(Own(u), s, rand)]}]
  BY DEF Stage
<1> DEFINE path == StagedPath(Own(u), s, rand)
           new  == [suffix |-> s, path |-> path]
<1>3. /\ i \in 1 .. 10 /\ GoesTo(u, i)
      /\ \A v \in Users \ {u} : pc'[v] = pc[v] /\ at'[v] = at[v]
      /\ pc' \in [Users -> PCs] /\ at' \in [Users -> 0 .. 10]
      /\ \A w \in Waiting(i + 1) : pc'[u] = "publish" /\ w \in Waiting(at'[u])
  BY <1>1, GoesOn
<1>4. /\ s \in NameSuffixes /\ s \notin Waiting(i)
      /\ Waiting(i) \cup {s} \subseteq Waiting(i + 1)
      /\ i \in {1, 2, 5, 7, 9}
  BY <1>1, <1>3, StepFacts
<1>5. path \in Strings
  <2>1. Own(u) \in Strings
    BY OwnFacts
  <2> DEFINE t == StagedTail(s, rand)
  <2>2. t \in Strings /\ \A b \in Strings : StagedPath(b, s, rand) = b \o t
    BY <1>4, StagedFacts
  <2> HIDE DEF t
  <2> QED BY <2>1, <2>2, Cat
<1>6. /\ staged'[u] = staged[u] \cup {new}
      /\ \A v \in Users \ {u} : staged'[v] = staged[v]
      /\ staged' \in [Users -> SUBSET [suffix : NameSuffixes, path : Strings]]
  <2>1. new \in [suffix : NameSuffixes, path : Strings]
    BY <1>4, <1>5
  <2> HIDE DEF path, s
  <2>2. staged' = [staged EXCEPT ![u] = @ \cup {new}]
    BY <1>2 DEF path
  <2> HIDE DEF new
  <2> QED BY <2>1, <2>2 DEF IInv, Types
<1>7. /\ \A p \in DOMAIN files : Kept(p)
      /\ \A p \in DOMAIN files' : p \in DOMAIN files \/ Made(p, u)
  BY StageFiles
<1>8. path \notin DOMAIN files /\ path \in DOMAIN files' /\ files'[path] = Own(u)
  <2>1. files' = Put(path, Own(u)) /\ path \notin DOMAIN files
    BY <1>2 DEF Exists
  <2> HIDE DEF path
  <2> QED BY <2>1, PutFacts
<1>9. Types'
  BY <1>1, <1>3, <1>6 DEF IInv, Types
<1>10. OthersKeep(u)
  BY <1>1, <1>3, <1>6, <1>7, OthersKeepFiles
<1>11. Subject(u)' = Subject(u) /\ Own(u)' = Own(u) /\ RunInv(u) /\ StagedInv(u) /\ PublishedInv(u)
  BY <1>1, SameSubjects DEF IInv
<1>12. RunInv(u)'
  BY <1>1, <1>3, <1>11 DEF RunInv, Valid, GoesTo
<1>13. StagedInv(u)'
  <2>1. ASSUME NEW f \in staged[u]
        PROVE  /\ f.suffix \in Waiting(i) /\ f.path \in DOMAIN files
               /\ \E r \in Rands : f.path = StagedPath(Own(u), f.suffix, r)
               /\ files[f.path] = Own(u)
    BY <1>11 DEF StagedInv, Exists
  <2>2. ASSUME NEW f \in staged'[u]
        PROVE  /\ pc'[u] = "publish" /\ f.suffix \in Waiting(at'[u])
               /\ \E r \in Rands : f.path = StagedPath(Own(u)', f.suffix, r)
               /\ Exists(f.path)' /\ files'[f.path] = Own(u)'
    <3>1. CASE f \in staged[u]
      <4>1. Kept(f.path)
        BY <1>7, <2>1, <3>1
      <4> QED BY <1>3, <1>4, <1>11, <2>1, <3>1, <4>1 DEF Kept, Exists
    <3>2. CASE f = new
      <4>1. f.suffix = s /\ f.path = path
        BY <3>2
      <4> QED BY <1>3, <1>4, <1>8, <1>11, <4>1 DEF Exists
    <3> QED BY <1>6, <3>1, <3>2
  <2>3. \A f, g \in staged'[u] : f.suffix = g.suffix \/ f.path = g.path => f = g
    <3>1. \A f, g \in staged[u] : f.suffix = g.suffix \/ f.path = g.path => f = g
      BY <1>11 DEF StagedInv
    <3>2. \A f \in staged[u] : f.suffix # new.suffix /\ f.path # new.path
      BY <1>4, <1>8, <2>1
    <3> HIDE DEF new
    <3> QED BY <1>6, <3>1, <3>2
  <2> QED BY <2>2, <2>3 DEF StagedInv, StagedPath, Waiting
<1>14. PublishedInv(u)'
  <2>1. Alone(u)' => Alone(u)
    BY <1>1, AloneStays
  <2>2. Mine(u, mpk) => Mine(u, mpk)'
    BY <1>7, <1>11 DEF Mine, Exists, Kept, mpk
  <2>3. Mine(u, info) => Mine(u, info)'
    BY <1>7, <1>11 DEF Mine, Exists, Kept, info
  <2>4. pc'[u] = "publish" /\ at'[u] = i + 1
    BY <1>3, <1>4 DEF GoesTo
  <2>5. (at'[u] >= 5 => i >= 5) /\ (at'[u] >= 7 => i >= 7)
    BY <1>4, <2>4
  <2> QED BY <1>1, <1>11, <2>1, <2>2, <2>3, <2>4, <2>5 DEF PublishedInv
<1>15. OwnPart(u)
  BY <1>1, <1>12, <1>13, <1>14 DEF OwnPart, IInv, LockInv, Locked
<1> QED BY <1>1, <1>9, <1>10, <1>15, FrameStep

LEMMA RenameStep ==
    ASSUME IInv, NEW u \in Users, Rename(u)
    PROVE  IInv'
<1> DEFINE i == at[u]
<1>1. /\ pc[u] = "publish" /\ Steps[i].do = "rename" /\ UNCHANGED <<request, job, runs>>
  BY DEF Rename
<1>2. PICK f \in staged[u] : Moves(u, f)
  BY RenameFiles
<1> DEFINE s == f.suffix
           path == Own(u) \o s
<1>3. /\ s = Steps[i].suffix /\ s \in NameSuffixes
      /\ DOMAIN files' = (DOMAIN files \ {f.path}) \cup {path}
      /\ files'[path] = Own(u)
      /\ \A p \in DOMAIN files : p \notin {f.path, path} => Kept(p)
      /\ staged' = [staged EXCEPT ![u] = @ \ {f}]
      /\ Continue(u, i + 1, DOMAIN files')
      /\ Made(path, u)
  BY <1>2 DEF Moves
<1>4. /\ i \in 1 .. 10 /\ GoesTo(u, i)
      /\ \A v \in Users \ {u} : pc'[v] = pc[v] /\ at'[v] = at[v]
      /\ pc' \in [Users -> PCs] /\ at' \in [Users -> 0 .. 10]
      /\ \A w \in Waiting(i + 1) : pc'[u] = "publish" /\ w \in Waiting(at'[u])
  BY <1>1, <1>3, GoesOn
<1>5. /\ Waiting(i) \ {s} \subseteq Waiting(i + 1)
      /\ i = 4 => s = mpk
      /\ i = 6 => s = info
  BY <1>1, <1>3, <1>4, StepFacts
<1>6. /\ staged'[u] = staged[u] \ {f}
      /\ \A v \in Users \ {u} : staged'[v] = staged[v]
      /\ staged' \in [Users -> SUBSET [suffix : NameSuffixes, path : Strings]]
  BY <1>3 DEF IInv, Types
<1>7. Types'
  BY <1>1, <1>4, <1>6 DEF IInv, Types
<1>8. /\ Subject(u)' = Subject(u) /\ Own(u)' = Own(u)
      /\ RunInv(u) /\ StagedInv(u) /\ PublishedInv(u)
      /\ Own(u) = Base(Packed(u)) /\ Packed(u) \in Names
  BY <1>1, SameSubjects, OwnFacts DEF IInv
<1>9. \A v \in Users \ {u} : Locked(v) => Own(v) # Own(u)
  BY <1>1 DEF IInv, LockInv, Locked
<1>10. \A v \in Users : Own(v) \in Strings
  BY OwnFacts
<1>11. PICK rand \in Rands, z \in NameSuffixes : f.path = StagedPath(Own(u), z, rand)
  BY StagedPathOf
<1> HIDE DEF i, s, path
<1>12. ASSUME NEW v \in Users, NEW g \in staged[v], v = u => g # f
       PROVE  Kept(g.path)
  <2>1. /\ pc[v] = "publish" /\ g.path \in DOMAIN files /\ files[g.path] = Own(v)
        /\ \E x \in NameSuffixes, r \in Rands : g.path = StagedPath(Own(v), x, r)
    BY StagedPathOf
  <2>2. g.path # path
    BY <1>3, <1>10, <2>1, PublishedNotStaged DEF path
  <2>3. g.path # f.path
    <3>1. CASE v = u
      BY <1>8, <1>12, <3>1 DEF StagedInv
    <3>2. CASE v # u
      <4>1. Own(v) # Own(u)
        BY <1>9, <2>1, <3>2 DEF Locked
      <4>2. files[f.path] = Own(u)
        BY StagedPathOf
      <4> QED BY <2>1, <4>1, <4>2
    <3> QED BY <3>1, <3>2
  <2> QED BY <1>3, <2>1, <2>2, <2>3
<1>13. OthersKeep(u)
  <2>1. ASSUME NEW v \in Users \ {u}, NEW x \in {mpk, info}, Locked(v), Alone(v), Mine(v, x)
        PROVE  Kept(Own(v) \o x)
    <3>1. x \in NameSuffixes /\ x # emwpInfo
      BY SuffixesDiffer DEF NameSuffixes
    <3>2. Own(v) \o x # f.path
      BY <1>10, <1>11, <3>1, PublishedNotStaged
    <3>3. Own(v) \o x # path
      <4>1. SUFFICES ASSUME Own(u) \o s = Own(v) \o x PROVE FALSE
        BY DEF path
      <4>2. \/ s = x /\ Own(u) = Own(v)
            \/ s = info /\ x = emwpInfo /\ Dotted(Own(v), Own(u))
            \/ s = emwpInfo /\ x = info /\ Dotted(Own(u), Own(v))
        <5> DEFINE a == Own(u)
                   b == Own(v)
        <5>1. /\ a \in Strings /\ b \in Strings /\ s \in NameSuffixes /\ x \in NameSuffixes
              /\ a \o s = b \o x
          BY <1>3, <1>10, <3>1, <4>1
        <5> HIDE DEF a, b
        <5>2. \/ s = x /\ a = b
              \/ s = info /\ x = emwpInfo /\ Dotted(b, a)
              \/ s = emwpInfo /\ x = info /\ Dotted(a, b)
          BY <5>1, PublishedMeet
        <5> QED BY <5>2 DEF a, b
      <4>3. Own(u) # Own(v) /\ ~ Dotted(Own(u), Own(v))
        BY <1>8, <1>9, <2>1 DEF Alone
      <4> QED BY <3>1, <4>2, <4>3
    <3> QED BY <1>3, <2>1, <3>2, <3>3 DEF Mine, Exists
  <2>2. ASSUME NEW p \in DOMAIN files'
        PROVE  (p \in DOMAIN files /\ files'[p] = files[p]) \/ \E v \in Users : Made(p, v)
    <3>1. CASE p = path
      BY <1>3, <3>1
    <3>2. CASE p # path
      BY <1>3, <2>2, <3>2 DEF Kept
    <3> QED BY <3>1, <3>2
  <2> QED BY <1>1, <1>4, <1>6, <1>12, <2>1, <2>2 DEF OthersKeep
<1>14. RunInv(u)'
  BY <1>1, <1>4, <1>8 DEF RunInv, Valid, GoesTo
<1>15. StagedInv(u)'
  <2>1. \A g, h \in staged[u] : g.suffix = h.suffix \/ g.path = h.path => g = h
    BY <1>8 DEF StagedInv
  <2>2. ASSUME NEW g \in staged'[u]
        PROVE  /\ pc'[u] = "publish" /\ g.suffix \in Waiting(at'[u])
               /\ \E r \in Rands : g.path = StagedPath(Own(u)', g.suffix, r)
               /\ Exists(g.path)' /\ files'[g.path] = Own(u)'
    <3>1. g \in staged[u] /\ g # f
      BY <1>6
    <3>2. /\ g.suffix \in Waiting(i) /\ files[g.path] = Own(u)
          /\ \E r \in Rands : g.path = StagedPath(Own(u), g.suffix, r)
      BY <1>8, <3>1 DEF StagedInv, i
    <3>3. g.suffix # s
      BY <2>1, <3>1 DEF s
    <3>4. Kept(g.path)
      BY <1>12, <3>1
    <3> QED BY <1>4, <1>5, <1>8, <3>2, <3>3, <3>4 DEF Kept, Exists
  <2> QED BY <1>6, <2>1, <2>2 DEF StagedInv, StagedPath, Waiting
<1>16. PublishedInv(u)'
  <2>1. Alone(u)' => Alone(u)
    BY <1>1, AloneStays
  <2>2. ASSUME NEW x \in {mpk, info}, Mine(u, x) \/ x = s
        PROVE  Own(u) \o x \in DOMAIN files' /\ files'[Own(u) \o x] = Own(u)
    <3>1. CASE Own(u) \o x = path
      BY <1>3, <3>1
    <3>2. CASE Own(u) \o x # path
      <4>1. x \in NameSuffixes /\ Mine(u, x)
        BY <2>2, <3>2 DEF NameSuffixes, path
      <4>2. Own(u) \o x # f.path
        BY <1>10, <1>11, <4>1, PublishedNotStaged
      <4> QED BY <1>3, <3>2, <4>1, <4>2 DEF Mine, Exists, Kept
    <3> QED BY <3>1, <3>2
  <2>3. Mine(u, mpk) \/ mpk = s => Mine(u, mpk)'
    <3>1. Mine(u, mpk) \/ mpk = s =>
             Own(u) \o mpk \in DOMAIN files' /\ files'[Own(u) \o mpk] = Own(u)
      BY <2>2
    <3> QED BY <1>8, <3>1 DEF Mine, Exists, mpk
  <2>4. Mine(u, info) \/ info = s => Mine(u, info)'
    <3>1. Mine(u, info) \/ info = s =>
             Own(u) \o info \in DOMAIN files' /\ files'[Own(u) \o info] = Own(u)
      BY <2>2
    <3> QED BY <1>8, <3>1 DEF Mine, Exists, info
  <2>5. pc'[u] = "return" \/ (pc'[u] = "publish" /\ at'[u] >= 5) => i >= 5 \/ i = 4
    BY <1>4 DEF GoesTo
  <2>6. pc'[u] = "return" \/ (pc'[u] = "publish" /\ at'[u] >= 7) => i >= 7 \/ i = 6
    BY <1>4 DEF GoesTo
  <2>7. Alone(u) => (i >= 5 => Mine(u, mpk)) /\ (i >= 7 => Mine(u, info))
    BY <1>1, <1>8 DEF PublishedInv, i
  <2> QED BY <1>5, <2>1, <2>3, <2>4, <2>5, <2>6, <2>7 DEF PublishedInv
<1>17. OwnPart(u)
  BY <1>1, <1>9, <1>14, <1>15, <1>16 DEF OwnPart
<1> QED BY <1>1, <1>7, <1>13, <1>17, FrameStep

-----------------------------------------------------------------------------
(* The invariant holds, and what it implies.                               *)

LEMMA InitInv == Init => IInv
<1> SUFFICES ASSUME Init PROVE IInv
  OBVIOUS
<1>1. Types
  <2>1. 0 \in 0 .. MaxRuns
    BY RevisionsAssumption
  <2> QED BY <2>1 DEF Init, Types, Jobs, PCs
<1>2. \A u \in Users : pc[u] = "idle" /\ at[u] = 0 /\ staged[u] = {}
  BY DEF Init
<1>3. \A u \in Users : RunInv(u) /\ StagedInv(u) /\ PublishedInv(u)
  BY <1>2 DEF RunInv, StagedInv, PublishedInv
<1>4. LockInv
  BY <1>2 DEF LockInv, Locked
<1>5. FilesInv
  BY DEF Init, FilesInv
<1> QED BY <1>1, <1>3, <1>4, <1>5 DEF IInv

LEMMA NextInv == IInv /\ [Next]_vars => IInv'
<1> SUFFICES ASSUME IInv, [Next]_vars PROVE IInv'
  OBVIOUS
<1>1. ASSUME NEW u \in Users, NEW j \in Jobs, Start(u, j) PROVE IInv'
  BY <1>1, StartStep
<1>2. ASSUME NEW u \in Users, Download(u) PROVE IInv'
  BY <1>2, DownloadStep
<1>3. ASSUME NEW u \in Users, Lock(u) PROVE IInv'
  BY <1>3, LockStep
<1>4. ASSUME NEW u \in Users, Stage(u) PROVE IInv'
  BY <1>4, StageStep
<1>5. ASSUME NEW u \in Users, Rename(u) PROVE IInv'
  BY <1>5, RenameStep
<1>6. ASSUME NEW u \in Users, Return(u) PROVE IInv'
  BY <1>6, EndStep DEF Return
<1>7. ASSUME NEW u \in Users, Stop(u) PROVE IInv'
  BY <1>7, EndStep DEF Stop
<1>8. ASSUME NEW u \in Users, Delete(u) PROVE IInv'
  BY <1>8, DeleteStep
<1>9. CASE UNCHANGED vars
  BY <1>9 DEF vars, IInv, Types, RunInv, StagedInv, PublishedInv, LockInv, FilesInv, Maker,
              Mine, Exists, Alone, Own, Subject, Packed, Deleted, Locked
<1> QED BY <1>1, <1>2, <1>3, <1>4, <1>5, <1>6, <1>7, <1>8, <1>9 DEF Next

LEMMA Invariance == Spec => []IInv
BY InitInv, NextInv, PTL DEF Spec

\* No run goes on with an invalid identity, and what it has staged is for
\* the steps before it.
THEOREM NamesTypeCorrect == Spec => []TypeOK
<1>1. IInv => TypeOK
  <2> SUFFICES ASSUME IInv PROVE TypeOK
    OBVIOUS
  <2>1. ASSUME NEW u \in Users, NEW f \in staged[u]
        PROVE  pc[u] = "publish" /\ \E i \in 1 .. at[u] - 1 : Steps[i].suffix = f.suffix
    <3>1. pc[u] = "publish" /\ f.suffix \in Waiting(at[u])
      BY DEF IInv, StagedInv
    <3>2. at[u] \in 1 .. 10
      BY <3>1 DEF IInv, RunInv
    <3> QED BY <3>1, <3>2, StepFacts
  <2> QED BY <2>1, StepValues DEF IInv, Types, RunInv, TypeOK
<1> QED BY <1>1, Invariance, PTL

\* What a live run has staged stays where it is, however the revisions
\* beside it are called (delete.go:78-80 and 110).
THEOREM LiveStagedSurvives == Spec => []StagedSurvives
<1>1. IInv => StagedSurvives
  BY DEF IInv, StagedInv, StagedSurvives
<1> QED BY <1>1, Invariance, PTL

\* A Pack builds its image from the files of its own revision, unless
\* another model's cache lies in its directory.
THEOREM ImagesFromOwnCache == Spec => []BuiltFromOwn
<1>1. IInv => BuiltFromOwn
  <2> SUFFICES ASSUME IInv, NEW u \in Users, pc[u] = "publish", NEW p \in DOMAIN files,
                      Under(Cache(Packed(u)), p)
               PROVE  files[p] = Own(u) \/ Nested(Own(u), files[p])
    BY DEF BuiltFromOwn
  <2>1. PICK v \in Users : Maker(p, v)
    BY DEF IInv, FilesInv
  <2>2. /\ Packed(u) \in Names /\ Valid(Packed(u)) /\ Own(u) = Base(Packed(u))
        /\ Packed(v) \in Names /\ Valid(Packed(v)) /\ files[p] = Base(Packed(v))
        /\ PathOf(p, Packed(v))
    BY <2>1, OwnFacts DEF Maker
  <2>3. CASE \E s \in NameSuffixes : p = Base(Packed(v)) \o s
    BY <2>2, <2>3, SuffixFacts, CacheNotOutput
  <2>4. CASE \E s \in NameSuffixes, rand \in Rands : p = StagedPath(Base(Packed(v)), s, rand)
    <3>1. PICK s \in NameSuffixes, rand \in Rands : p = StagedPath(Base(Packed(v)), s, rand)
      BY <2>4
    <3> DEFINE t == StagedTail(s, rand)
    <3>2. t \in Strings /\ \A b \in Strings : StagedPath(b, s, rand) = b \o t
      BY StagedFacts
    <3> HIDE DEF t
    <3>3. p = Base(Packed(v)) \o t
      BY <2>2, <3>1, <3>2, KeyFacts
    <3> QED BY <2>2, <3>2, <3>3, CacheNotOutput
  <2>5. CASE p = Cached(Packed(v))
    BY <2>2, <2>5, CacheMeet
  <2> QED BY <2>2, <2>3, <2>4, <2>5 DEF PathOf
<1> QED BY <1>1, Invariance, PTL

\* The commit record a Pack returns is there and its own, beside its own
\* image, unless a run packs or deletes the revision whose encrypted image
\* has that record.
THEOREM RecordsAreOwn == Spec => []ReturnsOwn
<1>1. IInv => ReturnsOwn
  BY DEF IInv, PublishedInv, ReturnsOwn, Mine
<1> QED BY <1>1, Invariance, PTL

\* A step of a run removes and overwrites nothing of another identity, but
\* for the two clashes of names (delete.go:100-101).
THEOREM OthersUntouched == Spec => OnlyOwnTouched
<1> DEFINE Touched(u, p) == p \notin DOMAIN files' \/ files'[p] # files[p]
           Fair(u, p) == \/ files[p] = Own(u)
                         \/ \E s, l \in {Own(u), files[p]} : Dotted(s, l) /\ p = l \o info
                         \/ Nested(Own(u), files[p]) /\ Under(Cache(Subject(u)), p)
<1>1. ASSUME IInv, [Next]_vars, NEW u \in Users, pc'[u] # pc[u] \/ at'[u] # at[u],
             NEW p \in DOMAIN files, Touched(u, p)
      PROVE  Fair(u, p)
  <2>1. PICK v \in Users : Maker(p, v)
    BY <1>1 DEF IInv, FilesInv
  <2>2. /\ Packed(v) \in Names /\ Valid(Packed(v)) /\ files[p] = Base(Packed(v))
        /\ PathOf(p, Packed(v)) /\ Subject(u) \in Names /\ Own(u) = Base(Subject(u))
    BY <1>1, <2>1, OwnFacts DEF Maker
  <2>3. \/ Rename(u)
        \/ Delete(u)
    <3>1. \A w \in Users : ~ Download(w) /\ ~ Stage(w)
      BY <1>1, DownloadFiles, StageFiles DEF Kept
    <3>2. files' # files
      BY <1>1
    <3>3. PICK w \in Users : Rename(w) \/ Delete(w)
      BY <1>1, <3>1, <3>2 DEF Next, vars, Start, Lock, Return, Stop
    <3>4. w = u
      <4>1. CASE Rename(w)
        <5>1. PICK f \in staged[w] : Moves(w, f)
          BY <1>1, <4>1, RenameFiles
        <5>2. pc[w] = "publish" /\ Continue(w, at[w] + 1, DOMAIN files')
          BY <4>1, <5>1 DEF Rename, Moves
        <5> QED BY <1>1, <5>2, GoesOn
      <4>2. CASE Delete(w)
        BY <1>1, <4>2, Elsewhere DEF Delete
      <4> QED BY <3>3, <4>1, <4>2
    <3> QED BY <3>3, <3>4
  <2>4. CASE Rename(u)
    <3>1. PICK f \in staged[u] : Moves(u, f)
      BY <1>1, <2>4, RenameFiles
    <3>2. CASE p = f.path
      BY <1>1, <3>2, StagedPathOf
    <3>3. CASE p = Own(u) \o f.suffix
      <4>1. f.suffix \in NameSuffixes /\ Exists(Own(u) \o f.suffix)
        BY <1>1, <3>1, <3>3 DEF Moves, Exists
      <4>2. \/ files[p] = Own(u)
            \/ f.suffix = info /\ Dotted(files[p], Own(u))
            \/ f.suffix = emwpInfo /\ Dotted(Own(u), files[p]) /\ p = files[p] \o info
        BY <1>1, <3>3, <4>1, MakerOfPublished
      <4> QED BY <3>3, <4>2
    <3> QED BY <1>1, <3>1, <3>2, <3>3 DEF Moves, Kept
  <2>5. CASE Delete(u)
    <3>1. Removes(Subject(u), p)
      BY <1>1, <2>5, DeleteFiles DEF Kept
    <3>2. Valid(Subject(u))
      BY <1>1, <2>5, OwnFacts DEF Delete
    <3>3. \/ Own(u) = files[p]
          \/ Dotted(Own(u), files[p]) /\ p = files[p] \o info
          \/ Dotted(files[p], Own(u)) /\ p = Own(u) \o info
          \/ Nested(Own(u), files[p]) /\ Under(Cache(Subject(u)), p)
      BY <2>2, <3>1, <3>2, RemovesOthers
    <3> QED BY <3>3
  <2> QED BY <2>3, <2>4, <2>5
<1> DEFINE Step == \A u \in Users : pc'[u] # pc[u] \/ at'[u] # at[u] =>
                      \A p \in DOMAIN files : Touched(u, p) => Fair(u, p)
<1>2. IInv /\ [Next]_vars => [Step]_vars
  BY <1>1
<1>3. Spec => [][Step]_vars
  <2> HIDE DEF Step
  <2> QED BY <1>2, Invariance, PTL DEF Spec
<1> QED BY <1>3 DEF OnlyOwnTouched

\* Deleting the model@revision that Pack has printed leaves nothing its runs
\* have written (delete.go:19-21), if no "@" is in the model's name.
THEOREM DeletedIsGone == Spec => DeleteCollects
<1>1. ASSUME IInv, [Next]_vars, NEW u \in Users, pc[u] = "delete", pc'[u] # pc[u],
             ~ Has(Packed(u).name, At), NEW p \in DOMAIN files'
      PROVE  files'[p] # Base(Packed(u))
  <2>1. Delete(u)
    <3>1. PICK w \in Users : \/ \E j \in Jobs : Start(w, j)
                             \/ Download(w) \/ Lock(w) \/ Stage(w) \/ Rename(w)
                             \/ Return(w) \/ Stop(w) \/ Delete(w)
      BY <1>1 DEF Next, vars
    <3>2. w = u
      <4>1. \E l, i : Goto(w, l, i)
        BY <3>1 DEF Start, Download, Lock, Stage, Rename, Return, Stop, Delete, Ends, Continue
      <4> QED BY <1>1, <4>1, Elsewhere
    <3> QED BY <1>1, <3>1, <3>2 DEF Start, Download, Lock, Stage, Rename, Return, Stop
  <2>2. Packed(u) \in Names /\ Deleted(u) \in Names
    BY <1>1, OwnFacts
  <2>3. Deleted(u) = Packed(u)
    <3> DEFINE n == Packed(u).name
               r == Packed(u).revision
               s == (n \o At) \o r
    <3>1. n \in Strings /\ r \in Strings /\ Packed(u) = [name |-> n, revision |-> r]
      BY <2>2 DEF Names
    <3>2. Lacks(n, "@")
      BY <1>1, <3>1, HasOne, Tokens DEF Lacks, At
    <3>3. Deleted(u) = Cut(s)
      BY DEF Deleted
    <3> HIDE DEF n, r
    <3>4. s \in Strings
      <4>1. n \o At \in Strings
        BY <3>1, Literals, Cat
      <4> QED BY <3>1, <4>1, Cat
    <3>5. Cut(s) = [name |-> n, revision |-> r]
      BY <3>1, <3>2, <3>4, CutFacts
    <3> QED BY <3>1, <3>3, <3>5
  <2>4. p \in DOMAIN files /\ ~ Removes(Deleted(u), p) /\ files'[p] = files[p]
    BY <1>1, <2>1, DeleteFiles DEF Kept
  <2>5. PICK v \in Users : Maker(p, v)
    BY <1>1, <2>4 DEF IInv, FilesInv
  <2>6. Packed(v) \in Names /\ files[p] = Base(Packed(v)) /\ PathOf(p, Packed(v))
    BY <1>1, <2>5, OwnFacts DEF Maker
  <2> QED BY <2>2, <2>3, <2>4, <2>6, RemovesOwn
<1> DEFINE Step == \A u \in Users :
                      pc[u] = "delete" /\ pc'[u] # pc[u] /\ ~ Has(Packed(u).name, At) =>
                         \A p \in DOMAIN files' : files'[p] # Base(Packed(u))
<1>2. IInv /\ [Next]_vars => [Step]_vars
  BY <1>1
<1>3. Spec => [][Step]_vars
  <2> HIDE DEF Step
  <2> QED BY <1>2, Invariance, PTL DEF Spec
<1> QED BY <1>3 DEF DeleteCollects
=============================================================================
