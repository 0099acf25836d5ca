---------------------------- MODULE ScrubberProofs ----------------------------
(***************************************************************************)
(* Proofs about Scrubber: what is replaced in a text is gone from it and    *)
(* does not come back, so a recorded copy keeps no secret and no identifier *)
(* that the rules themselves do not write.                                  *)
(***************************************************************************)
EXTENDS Scrubber, FiniteSetTheorems, SequenceTheorems, LeastNumber

-----------------------------------------------------------------------------
(* Substitution in a text                                                   *)

(* How a text is rewritten from each position on, to the end of it.         *)
Rewrites(rest, t, matches, new) ==
    /\ rest[Len(t) + 1] = <<>>
    /\ \A i \in 1 .. Len(t) :
          \/ \E m \in matches : StandsAt(t, i, m) /\ rest[i] = new \o rest[i + Len(m)]
          \/ (\A m \in matches : ~StandsAt(t, i, m)) /\ rest[i] = <<t[i]>> \o rest[i + 1]

(* Of several texts that stand at one position, the same is always taken.   *)
Taken(t, i, matches) == CHOOSE m \in matches : StandsAt(t, i, m)

Follows(rest, t, matches, new) ==
    \A i \in 1 .. Len(t) :
       rest[i] = IF \E m \in matches : StandsAt(t, i, m)
                 THEN new \o rest[i + Len(Taken(t, i, matches))]
                 ELSE <<t[i]>> \o rest[i + 1]

Rewritten(S, t, matches, new) ==
    \E rest \in [1 .. Len(t) + 1 -> Seq(S)] :
       /\ Rewrites(rest, t, matches, new) /\ Follows(rest, t, matches, new)
       /\ ReplaceMatches(t, matches, new) = rest[1]

(* ReplaceMatches takes such a rewriting.                                   *)
LEMMA Rewriting ==
    ASSUME NEW S, NEW t \in Seq(S), NEW new \in Seq(S),
           NEW matches, \A m \in matches : m \in Seq(S) /\ m # <<>>
    PROVE  Rewritten(S, t, matches, new)
<1> DEFINE N == Len(t)
           taken(i) == CHOOSE m \in matches : StandsAt(t, i, m)
           Step(i, g) == IF i > N THEN <<>>
                         ELSE IF \E m \in matches : StandsAt(t, i, m)
                              THEN new \o g[i + Len(taken(i))]
                         ELSE <<t[i]>> \o g[i + 1]
           Solves(g) == g = [i \in 1 .. N + 1 |-> Step(i, g)]
           rest == CHOOSE g : Solves(g)
           Solved(k) == \E g \in [k .. N + 1 -> Seq(S)] :
                           \A i \in k .. N + 1 : g[i] = Step(i, g)
           T == {k \in 1 .. N + 1 : Solved(k)}
<1>1. N \in Nat /\ \A i \in 1 .. N : t[i] \in S BY LenProperties, ElementOfSeq
<1>2. ASSUME NEW i \in 1 .. N, \E m \in matches : StandsAt(t, i, m)
      PROVE  /\ taken(i) \in matches /\ StandsAt(t, i, taken(i))
             /\ i + Len(taken(i)) \in i + 1 .. N + 1
  <2>1. taken(i) \in matches /\ StandsAt(t, i, taken(i)) BY <1>2
  <2> HIDE DEF taken
  <2>2. Len(taken(i)) \in Nat \ {0} BY <2>1, EmptySeq
  <2>3. i + Len(taken(i)) - 1 <= N BY <2>1 DEF StandsAt
  <2> QED BY <1>1, <2>1, <2>2, <2>3
<1> HIDE DEF taken, N
<1>3. ASSUME NEW i \in 1 .. N + 1, NEW g, \A k \in i + 1 .. N + 1 : g[k] \in Seq(S)
      PROVE  Step(i, g) \in Seq(S)
  <2>1. CASE i > N BY <2>1
  <2>2. CASE i <= N /\ \E m \in matches : StandsAt(t, i, m)
    <3>1. i \in 1 .. N BY <1>1, <2>2
    <3>2. i + Len(taken(i)) \in i + 1 .. N + 1 BY <1>2, <2>2, <3>1
    <3> QED BY <1>1, <1>3, <2>2, <3>1, <3>2, ConcatProperties
  <2>3. CASE i <= N /\ ~\E m \in matches : StandsAt(t, i, m)
    <3>1. i \in 1 .. N /\ i + 1 \in i + 1 .. N + 1 BY <1>1, <2>3
    <3>2. <<t[i]>> \in Seq(S) BY <1>1, <3>1
    <3> QED BY <1>1, <1>3, <2>3, <3>1, <3>2, ConcatProperties
  <2> QED BY <1>1, <2>1, <2>2, <2>3
<1>4. ASSUME NEW i \in 1 .. N + 1, NEW g, NEW h, \A k \in i + 1 .. N + 1 : g[k] = h[k]
      PROVE  Step(i, g) = Step(i, h)
  <2>1. CASE i > N BY <2>1
  <2>2. CASE i <= N /\ \E m \in matches : StandsAt(t, i, m)
    <3>1. i \in 1 .. N BY <1>1, <2>2
    <3>2. i + Len(taken(i)) \in i + 1 .. N + 1 BY <1>2, <2>2, <3>1
    <3> QED BY <1>1, <1>4, <2>2, <3>2
  <2>3. CASE i <= N /\ ~\E m \in matches : StandsAt(t, i, m)
    <3>1. i + 1 \in i + 1 .. N + 1 BY <1>1, <2>3
    <3> QED BY <1>1, <1>4, <2>3, <3>1
  <2> QED BY <1>1, <2>1, <2>2, <2>3
<1> HIDE DEF Step
<1>5. Solved(N + 1)
  <2> DEFINE g == [i \in N + 1 .. N + 1 |-> <<>>]
  <2>1. \A h : Step(N + 1, h) = <<>> BY <1>1 DEF Step
  <2>2. g \in [N + 1 .. N + 1 -> Seq(S)] OBVIOUS
  <2>3. \A i \in N + 1 .. N + 1 : i = N + 1 BY <1>1
  <2>4. \A i \in N + 1 .. N + 1 : g[i] = Step(i, g) BY <2>1, <2>3
  <2> QED BY <2>2, <2>4
<1>6. ASSUME NEW k \in 1 .. N, Solved(k + 1) PROVE Solved(k)
  <2>1. PICK g \in [k + 1 .. N + 1 -> Seq(S)] : \A i \in k + 1 .. N + 1 : g[i] = Step(i, g)
    BY <1>6
  <2> DEFINE h == [i \in k .. N + 1 |-> IF i = k THEN Step(k, g) ELSE g[i]]
  <2>2. Step(k, g) \in Seq(S) BY <1>1, <1>3, <2>1
  <2>3. \A i \in k .. N + 1 : i # k => i \in k + 1 .. N + 1 BY <1>1
  <2>4. h \in [k .. N + 1 -> Seq(S)]
    <3> SUFFICES ASSUME NEW i \in k .. N + 1
                 PROVE  (IF i = k THEN Step(k, g) ELSE g[i]) \in Seq(S)
      OBVIOUS
    <3> QED BY <2>1, <2>2, <2>3
  <2>5. \A i \in k + 1 .. N + 1 : h[i] = g[i] BY <1>1
  <2>6. ASSUME NEW i \in k .. N + 1 PROVE h[i] = Step(i, h)
    <3>1. i \in 1 .. N + 1 /\ \A j \in i + 1 .. N + 1 : j \in k + 1 .. N + 1 BY <1>1
    <3>2. \A j \in i + 1 .. N + 1 : h[j] = g[j] BY <2>5, <3>1
    <3> HIDE DEF h
    <3>3. Step(i, h) = Step(i, g) BY <1>4, <3>1, <3>2
    <3>4. h[i] = Step(i, g)
      <4>1. CASE i = k BY <4>1 DEF h
      <4>2. CASE i # k BY <2>1, <2>3, <2>5, <4>2
      <4> QED BY <4>1, <4>2
    <3> QED BY <3>3, <3>4
  <2> HIDE DEF h
  <2> QED BY <2>4, <2>6
<1> HIDE DEF Solved
<1>7. \A i \in 1 .. N + 1 : i \in T
  <2>1. N + 1 \in T BY <1>1, <1>5
  <2>2. ASSUME NEW i \in 1 .. N, \A k \in i + 1 .. N + 1 : k \in T PROVE i \in T
    <3>1. i + 1 \in i + 1 .. N + 1 BY <1>1
    <3>2. Solved(i + 1) BY <2>2, <3>1
    <3> QED BY <1>1, <1>6, <3>2
  <2> HIDE DEF T
  <2> QED BY <1>1, <2>1, <2>2, Downward
<1>8. PICK g \in [1 .. N + 1 -> Seq(S)] : \A i \in 1 .. N + 1 : g[i] = Step(i, g)
  <2>1. 1 \in 1 .. N + 1 BY <1>1
  <2>2. Solved(1) BY <1>7, <2>1
  <2> QED BY <2>2 DEF Solved
<1>9. Solves(rest)
  <2>1. Solves(g) BY <1>8
  <2> HIDE DEF Solves
  <2> QED BY <2>1
<1>10. ReplaceMatches(t, matches, new) = rest[1]
  BY Zenon DEF ReplaceMatches, rest, Step, taken, N
<1> HIDE DEF rest
<1>11. \A i \in 1 .. N + 1 : rest[i] = Step(i, rest) /\ DOMAIN rest = 1 .. N + 1 BY <1>9
<1>12. \A i \in 1 .. N + 1 : rest[i] \in Seq(S)
  <2> DEFINE R == {i \in 1 .. N + 1 : rest[i] \in Seq(S)}
  <2>1. N + 1 \in R BY <1>1, <1>3, <1>11
  <2>2. ASSUME NEW i \in 1 .. N, \A k \in i + 1 .. N + 1 : k \in R PROVE i \in R
    <3>1. i \in 1 .. N + 1 BY <1>1
    <3> QED BY <1>3, <1>11, <2>2, <3>1
  <2>3. \A i \in 1 .. N + 1 : i \in R
    <3> HIDE DEF R
    <3> QED BY <1>1, <2>1, <2>2, Downward
  <2> QED BY <2>3
<1>13. rest \in [1 .. N + 1 -> Seq(S)]
  <2>1. rest = [i \in 1 .. N + 1 |-> rest[i]] BY <1>9
  <2> QED BY <1>12, <2>1
<1>14. rest[N + 1] = <<>>
  <2>1. N + 1 \in 1 .. N + 1 /\ N + 1 > N BY <1>1
  <2>2. rest[N + 1] = Step(N + 1, rest) BY <1>11, <2>1
  <2>3. \A i, g1 : i > N => Step(i, g1) = <<>> BY DEF Step
  <2> QED BY <2>1, <2>2, <2>3
<1>15. ASSUME NEW i \in 1 .. N
       PROVE  \/ \E m \in matches : StandsAt(t, i, m) /\ rest[i] = new \o rest[i + Len(m)]
              \/ (\A m \in matches : ~StandsAt(t, i, m)) /\ rest[i] = <<t[i]>> \o rest[i + 1]
  <2>1. i \in 1 .. N + 1 /\ ~(i > N) BY <1>1
  <2>2. rest[i] = Step(i, rest) BY <1>11, <2>1
  <2>3. CASE \E m \in matches : StandsAt(t, i, m)
    <3>1. rest[i] = new \o rest[i + Len(taken(i))] BY <2>1, <2>2, <2>3 DEF Step
    <3> QED BY <1>2, <2>3, <3>1
  <2>4. CASE ~\E m \in matches : StandsAt(t, i, m) BY <2>1, <2>2, <2>4 DEF Step
  <2> QED BY <2>3, <2>4
<1>16. ASSUME NEW i \in 1 .. N
       PROVE  rest[i] = IF \E m \in matches : StandsAt(t, i, m)
                        THEN new \o rest[i + Len(Taken(t, i, matches))]
                        ELSE <<t[i]>> \o rest[i + 1]
  <2>1. i \in 1 .. N + 1 /\ ~(i > N) BY <1>1
  <2>2. rest[i] = Step(i, rest) BY <1>11, <2>1
  <2>3. taken(i) = Taken(t, i, matches) BY DEF taken, Taken
  <2> QED BY <2>1, <2>2, <2>3 DEF Step
<1> QED BY <1>10, <1>13, <1>14, <1>15, <1>16 DEF Rewritten, Rewrites, Follows, N

(* It is a text like those it is made of.                                   *)
LEMMA ReplaceTyped ==
    ASSUME NEW S, NEW t \in Seq(S), NEW new \in Seq(S),
           NEW matches, \A m \in matches : m \in Seq(S) /\ m # <<>>
    PROVE  ReplaceMatches(t, matches, new) \in Seq(S)
<1>1. PICK rest \in [1 .. Len(t) + 1 -> Seq(S)] : ReplaceMatches(t, matches, new) = rest[1]
  BY Rewriting DEF Rewritten
<1>2. 1 \in 1 .. Len(t) + 1 BY LenProperties
<1> QED BY <1>1, <1>2

(* A text in which nothing matches stays what it is.                        *)
LEMMA Untouched ==
    ASSUME NEW S, NEW t \in Seq(S), NEW new \in Seq(S),
           NEW matches, \A m \in matches : m \in Seq(S) /\ m # <<>> /\ ~Occurs(t, m)
    PROVE  ReplaceMatches(t, matches, new) = t
<1>1. PICK rest \in [1 .. Len(t) + 1 -> Seq(S)] :
         Rewrites(rest, t, matches, new) /\ ReplaceMatches(t, matches, new) = rest[1]
  BY Rewriting DEF Rewritten
<1> DEFINE T == {i \in 1 .. Len(t) + 1 : rest[i] = SubSeq(t, i, Len(t))}
<1>2. Len(t) \in Nat /\ DOMAIN t = 1 .. Len(t) BY LenProperties
<1>3. Len(t) + 1 \in T
  <2>1. Len(t) + 1 \in 1 .. Len(t) + 1 /\ Len(t) < Len(t) + 1 BY <1>2
  <2>2. SubSeq(t, Len(t) + 1, Len(t)) = <<>> BY <1>2, <2>1, SubSeqEmpty
  <2> QED BY <1>1, <2>1, <2>2 DEF Rewrites
<1>4. ASSUME NEW i \in 1 .. Len(t), \A k \in i + 1 .. Len(t) + 1 : k \in T PROVE i \in T
  <2>1. \A m \in matches : ~StandsAt(t, i, m) BY <1>2 DEF Occurs
  <2>2. rest[i] = <<t[i]>> \o rest[i + 1] BY <1>1, <2>1 DEF Rewrites
  <2>3. i + 1 \in i + 1 .. Len(t) + 1 /\ Len(t) \in i .. Len(t) /\ i \in 1 .. Len(t) + 1 BY <1>2
  <2>4. rest[i + 1] = SubSeq(t, i + 1, Len(t)) BY <1>4, <2>3
  <2>5. SubSeq(t, i, Len(t)) = <<t[i]>> \o SubSeq(t, i + 1, Len(t))
    BY <2>3, SubSeqRecursiveFirst
  <2> QED BY <2>2, <2>3, <2>4, <2>5
<1>5. \A i \in 1 .. Len(t) + 1 : i \in T
  <2> HIDE DEF T
  <2> QED BY <1>2, <1>3, <1>4, Downward
<1>6. 1 \in T BY <1>2, <1>5
<1>7. SubSeq(t, 1, Len(t)) = t BY SubSeqFull
<1> QED BY <1>1, <1>6, <1>7

(* A text that is itself what is looked for is replaced whole.              *)
LEMMA ReplacedWhole ==
    ASSUME NEW S, NEW t \in Seq(S), t # <<>>, NEW new \in Seq(S)
    PROVE  ReplaceText(t, t, new) = new
<1> DEFINE matches == {t}
<1>a. t \in matches /\ \A m \in matches : m \in Seq(S) /\ m # <<>> OBVIOUS
<1>b. ReplaceText(t, t, new) = ReplaceMatches(t, matches, new) BY DEF ReplaceText
<1>c. \A m \in matches : m = t OBVIOUS
<1> HIDE DEF matches
<1>1. PICK rest \in [1 .. Len(t) + 1 -> Seq(S)] :
         Rewrites(rest, t, matches, new) /\ ReplaceMatches(t, matches, new) = rest[1]
  <2>1. Rewritten(S, t, matches, new) BY <1>a, Rewriting
  <2> QED BY <2>1 DEF Rewritten
<1>2. Len(t) \in Nat \ {0} /\ DOMAIN t = 1 .. Len(t) BY EmptySeq, LenProperties
<1>3. StandsAt(t, 1, t) BY <1>2 DEF StandsAt
<1>4. rest[1] = new \o rest[1 + Len(t)]
  <2>1. 1 \in 1 .. Len(t) BY <1>2
  <2> QED BY <1>1, <1>3, <1>a, <1>c, <2>1 DEF Rewrites
<1>5. rest[1 + Len(t)] = <<>>
  <2>1. 1 + Len(t) = Len(t) + 1 BY <1>2
  <2> QED BY <1>1, <2>1 DEF Rewrites
<1> QED BY <1>1, <1>4, <1>5, <1>b, ConcatEmptySeq

(* Nowhere laid over each other do two texts agree.                         *)
Apart(s, w) ==
    \A d \in Int :
       (\E k \in DOMAIN s : d + k \in DOMAIN w)
       => \E k \in DOMAIN s : d + k \in DOMAIN w /\ s[k] # w[d + k]

(* A text from its symbol d + 1 on stands in another at i.                  *)
ContinuesAt(u, i, s, d) ==
    /\ i + (Len(s) - d) - 1 <= Len(u)
    /\ \A k \in 1 .. Len(s) - d : u[i + k - 1] = s[d + k]

(* What is written in place of a match is not in the middle of a text that  *)
(* is apart from it: where the end of that text begins what is left of the  *)
(* rewriting, it stands in the text rewritten.                              *)
LEMMA Ending ==
    ASSUME NEW S, NEW t \in Seq(S), NEW new \in Seq(S), new # <<>>,
           NEW matches, \A m \in matches : m \in Seq(S) /\ m # <<>>,
           NEW rest \in [1 .. Len(t) + 1 -> Seq(S)], Rewrites(rest, t, matches, new),
           NEW s \in Seq(S), Apart(s, new),
           NEW i \in 1 .. Len(t) + 1, NEW d \in 0 .. Len(s) - 1,
           ContinuesAt(rest[i], 1, s, d)
    PROVE  ContinuesAt(t, i, s, d)
<1> DEFINE N == Len(t)
           L == Len(s)
           Begins(j, e) == \A k \in 1 .. L - e : k <= Len(rest[j]) /\ rest[j][k] = s[e + k]
           Stands(j, e) == /\ j + (L - e) - 1 <= N
                           /\ \A k \in 1 .. L - e : t[j + k - 1] = s[e + k]
           T == {j \in 1 .. N + 1 : \A e \in 0 .. L - 1 : Begins(j, e) => Stands(j, e)}
<1>1. /\ N \in Nat /\ L \in Nat /\ Len(new) \in Nat \ {0}
      /\ DOMAIN s = 1 .. L /\ DOMAIN new = 1 .. Len(new)
      /\ \A j \in 1 .. N : t[j] \in S
  BY LenProperties, EmptySeq, ElementOfSeq
<1>2. /\ rest[N + 1] = <<>> /\ \A j \in 1 .. N + 1 : rest[j] \in Seq(S)
      /\ \A j \in 1 .. N :
            \/ \E m \in matches : StandsAt(t, j, m) /\ rest[j] = new \o rest[j + Len(m)]
            \/ rest[j] = <<t[j]>> \o rest[j + 1]
  BY DEF Rewrites
<1> HIDE DEF N, L
<1>3. N + 1 \in T
  <2>1. Len(rest[N + 1]) = 0 /\ N + 1 \in 1 .. N + 1 BY <1>1, <1>2
  <2>2. \A e \in 0 .. L - 1 : 1 \in 1 .. L - e /\ ~(1 <= Len(rest[N + 1])) BY <1>1, <2>1
  <2> QED BY <2>1, <2>2
<1>4. ASSUME NEW j \in 1 .. N, \A k \in j + 1 .. N + 1 : k \in T PROVE j \in T
  <2> SUFFICES \A e \in 0 .. L - 1 : Begins(j, e) => Stands(j, e)
    <3>1. j \in 1 .. N + 1 BY <1>1
    <3> HIDE DEF Begins, Stands
    <3> QED BY <3>1
  <2> SUFFICES ASSUME NEW e \in 0 .. L - 1, Begins(j, e) PROVE Stands(j, e) OBVIOUS
  <2>1. 1 \in 1 .. L - e /\ rest[j][1] = s[e + 1] /\ 1 <= Len(rest[j]) BY <1>1
  <2>2. CASE \E m \in matches : StandsAt(t, j, m) /\ rest[j] = new \o rest[j + Len(m)]
    <3>1. PICK m \in matches : StandsAt(t, j, m) /\ rest[j] = new \o rest[j + Len(m)] BY <2>2
    <3>2. Len(m) \in Nat \ {0} /\ j + Len(m) - 1 <= N BY <3>1, EmptySeq DEF StandsAt, N
    <3>3. rest[j + Len(m)] \in Seq(S)
      <4>1. j + Len(m) \in 1 .. N + 1 BY <1>1, <3>2
      <4> QED BY <1>2, <4>1
    <3>4. /\ Len(rest[j]) = Len(new) + Len(rest[j + Len(m)])
          /\ Len(rest[j + Len(m)]) \in Nat
          /\ \A k \in 1 .. Len(new) : rest[j][k] = new[k]
      <4>1. Len(rest[j + Len(m)]) \in Nat BY <3>3, LenProperties
      <4>2. \A k \in 1 .. Len(new) : k \in 1 .. Len(new) + Len(rest[j + Len(m)]) BY <1>1, <4>1
      <4> QED BY <3>1, <3>3, <4>1, <4>2, ConcatProperties
    <3>5. PICK k \in 1 .. L : (0 - e) + k \in 1 .. Len(new) /\ s[k] # new[(0 - e) + k]
      <4>1. 0 - e \in Int /\ e + 1 \in 1 .. L /\ (0 - e) + (e + 1) \in 1 .. Len(new) BY <1>1
      <4> QED BY <1>1, <4>1 DEF Apart
    <3>6. (0 - e) + k \in 1 .. L - e /\ e + ((0 - e) + k) = k BY <1>1, <3>5
    <3>7. rest[j][(0 - e) + k] = s[k] BY <3>6
    <3> QED BY <3>4, <3>5, <3>7
  <2>3. CASE rest[j] = <<t[j]>> \o rest[j + 1]
    <3>1. j + 1 \in j + 1 .. N + 1 /\ j + 1 \in 1 .. N + 1 /\ <<t[j]>> \in Seq(S) BY <1>1
    <3>2. rest[j + 1] \in Seq(S) /\ Len(rest[j + 1]) \in Nat BY <1>2, <3>1, LenProperties
    <3>3. Len(rest[j]) = 1 + Len(rest[j + 1]) BY <2>3, <3>1, <3>2, ConcatProperties
    <3>4. \A k \in 1 .. 1 + Len(rest[j + 1]) :
             rest[j][k] = IF k <= 1 THEN t[j] ELSE rest[j + 1][k - 1]
      BY <2>3, <3>1, <3>2, ConcatProperties
    <3>5. t[j] = s[e + 1] BY <2>1, <3>2, <3>4
    <3>6. CASE e + 1 = L
      <4>1. L - e = 1 /\ j + 1 - 1 <= N BY <1>1, <3>6
      <4>2. \A k \in 1 .. 1 : k = 1 /\ j + 1 - 1 = j OBVIOUS
      <4> QED BY <3>5, <4>1, <4>2
    <3>7. CASE e + 1 # L
      <4>1. e + 1 \in 0 .. L - 1 BY <1>1, <3>7
      <4>2. Begins(j + 1, e + 1)
        <5> SUFFICES ASSUME NEW k \in 1 .. L - (e + 1)
                     PROVE  k <= Len(rest[j + 1]) /\ rest[j + 1][k] = s[(e + 1) + k]
          OBVIOUS
        <5>1. k + 1 \in 1 .. L - e /\ e + (k + 1) = (e + 1) + k BY <1>1
        <5>2. k + 1 <= Len(rest[j]) /\ rest[j][k + 1] = s[(e + 1) + k] BY <5>1
        <5>3. k + 1 \in 1 .. 1 + Len(rest[j + 1]) /\ ~(k + 1 <= 1) /\ (k + 1) - 1 = k
          <6>1. k \in Nat \ {0} BY <1>1
          <6>2. k + 1 <= 1 + Len(rest[j + 1]) BY <3>3, <5>2
          <6> QED BY <3>2, <6>1, <6>2
        <5> QED BY <3>2, <3>3, <3>4, <5>2, <5>3
      <4>3. Stands(j + 1, e + 1) BY <1>4, <3>1, <4>1, <4>2
      <4>4. j + (L - e) - 1 <= N BY <1>1, <4>3
      <4>5. ASSUME NEW k \in 1 .. L - e PROVE t[j + k - 1] = s[e + k]
        <5>1. CASE k = 1
          <6>1. j + k - 1 = j BY <5>1
          <6> QED BY <3>5, <5>1, <6>1
        <5>2. CASE k # 1
          <6>1. /\ k - 1 \in 1 .. L - (e + 1)
                /\ (j + 1) + (k - 1) - 1 = j + k - 1 /\ (e + 1) + (k - 1) = e + k
            BY <1>1, <5>2
          <6> QED BY <4>3, <6>1
        <5> QED BY <5>1, <5>2
      <4> QED BY <4>4, <4>5
    <3> QED BY <3>6, <3>7
  <2> QED BY <1>2, <2>2, <2>3
<1>5. \A j \in 1 .. N + 1 : j \in T
  <2> HIDE DEF T
  <2> QED BY <1>1, <1>3, <1>4, Downward
<1>6. Begins(i, d)
  <2>1. Len(rest[i]) \in Nat /\ \A k \in 1 .. L - d : 1 + k - 1 = k
    BY <1>1, <1>2, LenProperties DEF N
  <2>2. 1 + (L - d) - 1 = L - d BY <1>1 DEF L
  <2> QED BY <1>1, <2>1, <2>2 DEF ContinuesAt, L
<1>7. i \in T BY <1>5 DEF N
<1> QED BY <1>6, <1>7 DEF N, L, ContinuesAt

(* A text apart from what is written is found after the rewriting only      *)
(* where it stood before it, and no match was taken.                        *)
LEMMA Origin ==
    ASSUME NEW S, NEW t \in Seq(S), NEW new \in Seq(S), new # <<>>,
           NEW matches, \A m \in matches : m \in Seq(S) /\ m # <<>>,
           NEW s \in Seq(S), s # <<>>, Apart(s, new),
           Occurs(ReplaceMatches(t, matches, new), s)
    PROVE  \E i \in DOMAIN t : StandsAt(t, i, s) /\ \A m \in matches : ~StandsAt(t, i, m)
<1> DEFINE N == Len(t)
           L == Len(s)
           Found == \E i \in 1 .. N : StandsAt(t, i, s) /\ \A m \in matches : ~StandsAt(t, i, m)
<1>1. PICK rest \in [1 .. N + 1 -> Seq(S)] :
         Rewrites(rest, t, matches, new) /\ ReplaceMatches(t, matches, new) = rest[1]
  BY Rewriting DEF Rewritten
<1> DEFINE Shown(j) == \E p \in 1 .. Len(rest[j]) : StandsAt(rest[j], p, s)
           T == {j \in 1 .. N + 1 : Shown(j) => Found}
<1>2. /\ N \in Nat /\ L \in Nat \ {0} /\ Len(new) \in Nat \ {0}
      /\ DOMAIN s = 1 .. L /\ DOMAIN new = 1 .. Len(new) /\ DOMAIN t = 1 .. N
      /\ \A j \in 1 .. N : t[j] \in S
  BY LenProperties, EmptySeq, ElementOfSeq
<1>3. /\ rest[N + 1] = <<>> /\ \A j \in 1 .. N + 1 : rest[j] \in Seq(S)
      /\ \A j \in 1 .. N :
            \/ \E m \in matches : StandsAt(t, j, m) /\ rest[j] = new \o rest[j + Len(m)]
            \/ (\A m \in matches : ~StandsAt(t, j, m)) /\ rest[j] = <<t[j]>> \o rest[j + 1]
  BY <1>1 DEF Rewrites
<1>4. ASSUME NEW j \in 1 .. N + 1, StandsAt(rest[j], 1, s) PROVE StandsAt(t, j, s)
  <2>1. 0 \in 0 .. L - 1 /\ L - 0 = L /\ \A k \in 1 .. L : 0 + k = k BY <1>2
  <2>2. ASSUME NEW u, NEW i PROVE ContinuesAt(u, i, s, 0) <=> StandsAt(u, i, s)
    <3>1. i + (Len(s) - 0) - 1 = i + Len(s) - 1 BY <2>1 DEF L
    <3>2. \A k \in 1 .. Len(s) : s[0 + k] = s[k] BY <2>1 DEF L
    <3>3. 1 .. Len(s) - 0 = DOMAIN s BY <1>2, <2>1 DEF L
    <3> QED BY <3>1, <3>2, <3>3, <1>2 DEF ContinuesAt, StandsAt, L
  <2>3. ContinuesAt(rest[j], 1, s, 0) BY <1>4, <2>2
  <2>4. ContinuesAt(t, j, s, 0) BY <1>1, <2>1, <2>3, Ending
  <2> QED BY <2>2, <2>4
<1> HIDE DEF N, L, Found
<1>5. N + 1 \in T
  <2>1. Len(rest[N + 1]) = 0 /\ N + 1 \in 1 .. N + 1 BY <1>2, <1>3
  <2>2. 1 .. Len(rest[N + 1]) = {} BY <2>1
  <2> QED BY <2>1, <2>2
<1>6. ASSUME NEW j \in 1 .. N, \A k \in j + 1 .. N + 1 : k \in T PROVE j \in T
  <2>0. j \in 1 .. N + 1 BY <1>2
  <2> SUFFICES ASSUME NEW p \in 1 .. Len(rest[j]), StandsAt(rest[j], p, s) PROVE Found
    BY <2>0
  <2>1. p + L - 1 <= Len(rest[j]) /\ \A k \in 1 .. L : rest[j][p + k - 1] = s[k]
    BY <1>2 DEF StandsAt, L
  <2>2. CASE \E m \in matches : StandsAt(t, j, m) /\ rest[j] = new \o rest[j + Len(m)]
    <3>1. PICK m \in matches : StandsAt(t, j, m) /\ rest[j] = new \o rest[j + Len(m)] BY <2>2
    <3>2. Len(m) \in Nat \ {0} /\ j + Len(m) - 1 <= N BY <3>1, EmptySeq DEF StandsAt, N
    <3>3. j + Len(m) \in j + 1 .. N + 1 /\ j + Len(m) \in 1 .. N + 1 BY <1>2, <3>2
    <3> DEFINE next == rest[j + Len(m)]
    <3>4. next \in Seq(S) /\ Len(next) \in Nat BY <1>3, <3>3, LenProperties
    <3>5. /\ Len(rest[j]) = Len(new) + Len(next)
          /\ \A k \in 1 .. Len(new) + Len(next) :
                rest[j][k] = IF k <= Len(new) THEN new[k] ELSE next[k - Len(new)]
      BY <3>1, <3>4, ConcatProperties
    <3> HIDE DEF next
    <3>6. CASE p <= Len(new)
      <4>1. PICK k \in 1 .. L : (p - 1) + k \in 1 .. Len(new) /\ s[k] # new[(p - 1) + k]
        <5>1. p - 1 \in Int /\ 1 \in 1 .. L /\ (p - 1) + 1 \in 1 .. Len(new)
          BY <1>2, <3>4, <3>5, <3>6
        <5> QED BY <1>2, <5>1 DEF Apart
      <4>2. /\ p + k - 1 = (p - 1) + k /\ p + k - 1 <= Len(new)
            /\ p + k - 1 \in 1 .. Len(new) + Len(next)
        BY <1>2, <3>4, <3>5, <4>1
      <4>3. rest[j][p + k - 1] = new[p + k - 1] BY <3>5, <4>2
      <4> QED BY <2>1, <4>1, <4>2, <4>3
    <3>7. CASE p > Len(new)
      <4> DEFINE q == p - Len(new)
      <4>1. q \in 1 .. Len(next) /\ q + L - 1 <= Len(next) BY <1>2, <2>1, <3>4, <3>5, <3>7
      <4>2. ASSUME NEW k \in 1 .. L PROVE next[q + k - 1] = s[k]
        <5>1. /\ p + k - 1 \in 1 .. Len(new) + Len(next) /\ ~(p + k - 1 <= Len(new))
              /\ p + k - 1 - Len(new) = q + k - 1
          BY <1>2, <2>1, <3>4, <3>5, <3>7
        <5>2. rest[j][p + k - 1] = next[p + k - 1 - Len(new)]
          <6> DEFINE x == p + k - 1
          <6>1. x \in 1 .. Len(new) + Len(next) /\ ~(x <= Len(new)) BY <5>1
          <6> HIDE DEF x
          <6>2. rest[j][x] = next[x - Len(new)] BY <3>5, <6>1
          <6> QED BY <6>2 DEF x
        <5>3. rest[j][p + k - 1] = s[k] BY <2>1
        <5> HIDE DEF q
        <5> QED BY <5>1, <5>2, <5>3
      <4> HIDE DEF q
      <4>3. StandsAt(next, q, s) BY <1>2, <4>1, <4>2 DEF StandsAt, L
      <4>4. Shown(j + Len(m)) BY <4>1, <4>3 DEF next
      <4> QED BY <1>6, <3>3, <4>4
    <3>8. p \in Nat /\ Len(new) \in Nat BY <1>2, <3>4, <3>5
    <3> QED BY <3>6, <3>7, <3>8
  <2>3. CASE (\A m \in matches : ~StandsAt(t, j, m)) /\ rest[j] = <<t[j]>> \o rest[j + 1]
    <3>1. j + 1 \in j + 1 .. N + 1 /\ j + 1 \in 1 .. N + 1 /\ <<t[j]>> \in Seq(S) BY <1>2
    <3> DEFINE next == rest[j + 1]
    <3>2. next \in Seq(S) /\ Len(next) \in Nat BY <1>3, <3>1, LenProperties
    <3>3. /\ Len(rest[j]) = 1 + Len(next)
          /\ \A k \in 1 .. 1 + Len(next) :
                rest[j][k] = IF k <= 1 THEN t[j] ELSE next[k - 1]
      <4>1. Len(<<t[j]>>) = 1 /\ \A k \in Int : k <= 1 /\ k >= 1 => <<t[j]>>[k] = t[j] OBVIOUS
      <4> QED BY <2>3, <3>1, <3>2, <4>1, ConcatProperties
    <3> HIDE DEF next
    <3>4. CASE p = 1
      <4>1. StandsAt(t, j, s) BY <1>4, <2>0, <3>4
      <4> QED BY <2>3, <4>1 DEF Found
    <3>5. CASE p # 1
      <4> DEFINE q == p - 1
      <4>1. q \in 1 .. Len(next) /\ q + L - 1 <= Len(next) BY <1>2, <2>1, <3>2, <3>3, <3>5
      <4>2. ASSUME NEW k \in 1 .. L PROVE next[q + k - 1] = s[k]
        <5>1. /\ p + k - 1 \in 1 .. 1 + Len(next) /\ ~(p + k - 1 <= 1)
              /\ p + k - 1 - 1 = q + k - 1
          BY <1>2, <2>1, <3>2, <3>3, <3>5
        <5>2. rest[j][p + k - 1] = next[p + k - 1 - 1]
          <6> DEFINE x == p + k - 1
          <6>1. x \in 1 .. 1 + Len(next) /\ ~(x <= 1) BY <5>1
          <6> HIDE DEF x
          <6>2. rest[j][x] = next[x - 1] BY <3>3, <6>1
          <6> QED BY <6>2 DEF x
        <5>3. rest[j][p + k - 1] = s[k] BY <2>1
        <5> HIDE DEF q
        <5> QED BY <5>1, <5>2, <5>3
      <4> HIDE DEF q
      <4>3. StandsAt(next, q, s) BY <1>2, <4>1, <4>2 DEF StandsAt, L
      <4>4. Shown(j + 1) BY <4>1, <4>3 DEF next
      <4> QED BY <1>6, <3>1, <4>4
    <3> QED BY <3>4, <3>5
  <2> QED BY <1>3, <2>2, <2>3
<1>7. \A j \in 1 .. N + 1 : j \in T
  <2> HIDE DEF T
  <2> QED BY <1>2, <1>5, <1>6, Downward
<1>8. 1 \in T /\ Shown(1)
  <2>1. 1 \in 1 .. N + 1 BY <1>2
  <2>2. rest[1] \in Seq(S) /\ DOMAIN rest[1] = 1 .. Len(rest[1]) BY <1>3, <2>1, LenProperties
  <2> QED BY <1>1, <1>7, <2>1, <2>2 DEF Occurs
<1> QED BY <1>2, <1>8 DEF Found

(* So what is nowhere in a text is not put together in it, and what is      *)
(* looked for is gone from it.                                              *)
LEMMA NotCreated ==
    ASSUME NEW S, NEW t \in Seq(S), NEW new \in Seq(S), new # <<>>,
           NEW matches, \A m \in matches : m \in Seq(S) /\ m # <<>>,
           NEW s \in Seq(S), s # <<>>, Apart(s, new), ~Occurs(t, s) \/ s \in matches
    PROVE  ~Occurs(ReplaceMatches(t, matches, new), s)
<1> SUFFICES ASSUME Occurs(ReplaceMatches(t, matches, new), s) PROVE FALSE OBVIOUS
<1>1. \E i \in DOMAIN t : StandsAt(t, i, s) /\ \A m \in matches : ~StandsAt(t, i, m)
  BY Origin
<1> QED BY <1>1 DEF Occurs

(* A text is apart from one symbol that it does not have.                   *)
LEMMA MarkApart ==
    ASSUME NEW S, NEW s \in Seq(S), NEW c, c \notin S
    PROVE  Apart(s, <<c>>)
<1>1. DOMAIN s = 1 .. Len(s) /\ Len(s) \in Nat /\ \A k \in 1 .. Len(s) : s[k] # c
  BY LenProperties, ElementOfSeq
<1>2. DOMAIN <<c>> = 1 .. 1 /\ <<c>>[1] = c OBVIOUS
<1> SUFFICES ASSUME NEW d \in Int, NEW k \in DOMAIN s, d + k \in DOMAIN <<c>>
             PROVE  s[k] # <<c>>[d + k]
  BY DEF Apart
<1>3. d + k = 1 BY <1>1, <1>2
<1> QED BY <1>1, <1>2, <1>3

-----------------------------------------------------------------------------
(* The texts of a recording                                                 *)

Marks == {Redacted, TraceRedacted} \cup {TraceMarker(n) : n \in Nat \ {0}}

Written == Symbols \cup Marks

(* What may be looked for: a text of an exchange that is not empty.         *)
Sought == Plain \ {<<>>}

(* A marker is no symbol of an exchange.                                    *)
LEMMA MarksDiffer == \A m \in Marks : m \notin Symbols
<1>1. Redacted \notin Symbols BY TextsAssumption DEF Redacted, Symbols, Char
<1>2. TraceRedacted \notin Symbols BY TextsAssumption DEF TraceRedacted, Symbols, Char
<1>3. ASSUME NEW n \in Nat \ {0} PROVE TraceMarker(n) \notin Symbols
  BY <1>3 DEF TraceMarker, Symbols, Char
<1> QED BY <1>1, <1>2, <1>3 DEF Marks

(* A text of an exchange may stand in a recording.                          *)
LEMMA PlainWritten == Plain \subseteq Seq(Written)
<1>1. Symbols \subseteq Written BY DEF Written
<1> SUFFICES ASSUME NEW t \in Plain PROVE t \in Seq(Written) OBVIOUS
<1> QED BY <1>1, SeqMonotonic DEF Plain

(* Its escaped spelling is a text of as many symbols.                       *)
LEMMA Escaped ==
    ASSUME NEW t \in Plain
    PROVE  QueryEscape(t) \in Plain /\ (t # <<>> => QueryEscape(t) # <<>>)
<1>1. Len(t) \in Nat /\ DOMAIN t = 1 .. Len(t) /\ \A i \in 1 .. Len(t) : t[i] \in Symbols
  BY LenProperties, ElementOfSeq DEF Plain
<1>2. ASSUME NEW i \in 1 .. Len(t) PROVE Char(EscapeOf[t[i].char]) \in Symbols
  <2>1. PICK c \in DOMAIN WidthOf : t[i] = Char(c) BY <1>1 DEF Symbols
  <2>2. t[i].char = c BY <2>1 DEF Char
  <2> QED BY <2>1, <2>2, TextsAssumption DEF Symbols
<1>3. QueryEscape(t) = [i \in 1 .. Len(t) |-> Char(EscapeOf[t[i].char])] BY <1>1 DEF QueryEscape
<1>4. QueryEscape(t) \in Seq(Symbols) /\ Len(QueryEscape(t)) = Len(t) BY <1>1, <1>2, <1>3
<1>5. t # <<>> => Len(t) # 0 BY EmptySeq DEF Plain
<1> QED BY <1>4, <1>5, EmptySeq DEF Plain

(* A marker is put in place of a text, and where that is asked of its       *)
(* escaped spelling: both are gone then, nothing else has come, and a text  *)
(* that has neither is kept.                                                *)
LEMMA Substituted ==
    ASSUME NEW t \in Seq(Written), NEW old \in Sought, NEW c \in Marks, NEW escaped \in BOOLEAN
    PROVE  /\ Substitute(t, old, <<c>>, escaped) \in Seq(Written)
           /\ ~Occurs(Substitute(t, old, <<c>>, escaped), old)
           /\ escaped => ~Occurs(Substitute(t, old, <<c>>, escaped), QueryEscape(old))
           /\ \A s \in Sought :
                 ~Occurs(t, s) => ~Occurs(Substitute(t, old, <<c>>, escaped), s)
           /\ ~Occurs(t, old) /\ (escaped => ~Occurs(t, QueryEscape(old)))
              => Substitute(t, old, <<c>>, escaped) = t
<1> DEFINE new == <<c>>
           other == QueryEscape(old)
           first == ReplaceText(t, old, new)
           second == ReplaceText(first, other, new)
<1>1. /\ new \in Seq(Written) /\ new # <<>>
      /\ other \in Sought /\ Sought \subseteq Seq(Written) /\ <<>> \notin Sought
      /\ \A s \in Sought : Apart(s, new)
  <2>1. c \in Written /\ c \notin Symbols BY MarksDiffer DEF Written
  <2>2. new \in Seq(Written) /\ new # <<>> BY <2>1
  <2>3. other \in Sought BY Escaped DEF Sought
  <2>4. Sought \subseteq Seq(Written) BY PlainWritten DEF Sought
  <2>5. \A s \in Sought : Apart(s, new) BY <2>1, MarkApart DEF Sought, Plain
  <2> QED BY <2>2, <2>3, <2>4, <2>5 DEF Sought
<1>2. ASSUME NEW u \in Seq(Written), NEW m \in Sought
      PROVE  /\ ReplaceText(u, m, new) \in Seq(Written)
             /\ ~Occurs(ReplaceText(u, m, new), m)
             /\ \A s \in Sought : ~Occurs(u, s) => ~Occurs(ReplaceText(u, m, new), s)
             /\ ~Occurs(u, m) => ReplaceText(u, m, new) = u
  <2> DEFINE matches == {m}
  <2>1. m \in matches /\ \A x \in matches : x \in Seq(Written) /\ x # <<>> /\ x = m BY <1>1
  <2>2. ReplaceText(u, m, new) = ReplaceMatches(u, matches, new) BY DEF ReplaceText
  <2> HIDE DEF matches, new
  <2>3. ReplaceMatches(u, matches, new) \in Seq(Written) BY <1>1, <2>1, ReplaceTyped
  <2>4. ASSUME NEW s \in Sought, ~Occurs(u, s) \/ s \in matches
        PROVE  ~Occurs(ReplaceMatches(u, matches, new), s)
    <3>1. s \in Seq(Written) /\ s # <<>> /\ Apart(s, new) BY <1>1
    <3> QED BY <1>1, <2>1, <2>4, <3>1, NotCreated
  <2>5. ~Occurs(u, m) => ReplaceMatches(u, matches, new) = u BY <1>1, <2>1, Untouched
  <2> QED BY <2>1, <2>2, <2>3, <2>4, <2>5
<1> HIDE DEF new
<1>3. /\ first \in Seq(Written) /\ ~Occurs(first, old)
      /\ \A s \in Sought : ~Occurs(t, s) => ~Occurs(first, s)
      /\ ~Occurs(t, old) => first = t
  BY <1>2
<1> HIDE DEF first, other
<1>4. /\ second \in Seq(Written) /\ ~Occurs(second, other)
      /\ \A s \in Sought : ~Occurs(first, s) => ~Occurs(second, s)
      /\ ~Occurs(first, other) => second = first
  BY <1>1, <1>2, <1>3
<1>5. Substitute(t, old, <<c>>, escaped) = IF escaped THEN second ELSE first
  BY DEF Substitute, second, first, other, new
<1> HIDE DEF second
<1>6. CASE escaped BY <1>1, <1>3, <1>4, <1>5, <1>6 DEF other
<1>7. CASE ~escaped BY <1>3, <1>5, <1>7
<1> QED BY <1>6, <1>7

TracedBy(t, order, repl, escaped) ==
    \E upTo \in [0 .. Len(order) -> Seq(Written)] :
       /\ upTo[0] = t
       /\ \A k \in 1 .. Len(order) :
             upTo[k] = Substitute(upTo[k - 1], order[k],
                                  <<TraceMarker(repl[order[k]])>>, escaped)
       /\ Traced(t, order, repl, escaped) = upTo[Len(order)]

(* The identifiers of an exchange are replaced one after another.          *)
LEMMA TracedSteps ==
    ASSUME NEW t \in Seq(Written), NEW order \in Seq(Sought), NEW repl, NEW escaped \in BOOLEAN,
           \A k \in 1 .. Len(order) : repl[order[k]] \in Nat \ {0}
    PROVE  TracedBy(t, order, repl, escaped)
<1> DEFINE m == Len(order)
           F(k, v) == Substitute(v, order[k], <<TraceMarker(repl[order[k]])>>, escaped)
           Solves(g) == g = [n \in 0 .. m |-> IF n = 0 THEN t ELSE F(n, g[n - 1])]
           upTo == CHOOSE g : Solves(g)
           step == [k \in Nat |-> [v \in Seq(Written) |-> IF k \in 1 .. m THEN F(k, v) ELSE v]]
<1>1. /\ m \in Nat /\ t \in Seq(Written)
      /\ \A k \in 1 .. m, v \in Seq(Written) : F(k, v) \in Seq(Written)
  <2>1. ASSUME NEW k \in 1 .. m, NEW v \in Seq(Written) PROVE F(k, v) \in Seq(Written)
    <3>1. TraceMarker(repl[order[k]]) \in Marks BY DEF Marks
    <3>2. order[k] \in Sought BY ElementOfSeq
    <3> QED BY <3>1, <3>2, Substituted
  <2> QED BY <2>1, LenProperties
<1>2. Traced(t, order, repl, escaped) = upTo[m]
  BY Zenon DEF Traced, upTo, F, m
<1> HIDE DEF m, F
<1>3. step \in [Nat -> [Seq(Written) -> Seq(Written)]] BY <1>1
<1>4. \A k \in 1 .. m, v \in Seq(Written) : step[k][v] = F(k, v) BY <1>1
<1> HIDE DEF step
<1>5. PICK f \in [0 .. m -> Seq(Written)] :
         f[0] = t /\ \A k \in 1 .. m : f[k] = step[k][f[k - 1]]
  <2>1. Solvable(Seq(Written), t, step, m) BY <1>1, <1>3, Recursion
  <2> QED BY <2>1 DEF Solvable, Unrolls
<1>6. Solves(f)
  <2>1. ASSUME NEW n \in 0 .. m PROVE f[n] = IF n = 0 THEN t ELSE F(n, f[n - 1])
    <3>1. CASE n = 0 BY <1>5, <3>1
    <3>2. CASE n # 0
      <4>1. n \in 1 .. m /\ n - 1 \in 0 .. m BY <1>1, <3>2
      <4>2. f[n - 1] \in Seq(Written) BY <1>5, <4>1
      <4> QED BY <1>4, <1>5, <3>2, <4>1, <4>2
    <3> QED BY <3>1, <3>2
  <2>2. f = [n \in 0 .. m |-> f[n]] BY <1>5
  <2> QED BY <2>1, <2>2
<1>7. Solves(upTo)
  <2> HIDE DEF Solves
  <2> QED BY <1>6
<1> HIDE DEF upTo
<1>8. \A n \in 0 .. m : upTo[n] = IF n = 0 THEN t ELSE F(n, upTo[n - 1]) BY <1>7
<1>9. upTo[0] = t BY <1>1, <1>8
<1>10. \A k \in 1 .. m : upTo[k] = F(k, upTo[k - 1])
  <2>1. \A k \in 1 .. m : k \in 0 .. m /\ k # 0 BY <1>1
  <2> QED BY <1>8, <2>1
<1>11. \A n \in 0 .. m : upTo[n] \in Seq(Written)
  <2> DEFINE T == {n \in 0 .. m : upTo[n] \in Seq(Written)}
  <2>1. 0 \in T BY <1>1, <1>9
  <2>2. \A n \in 1 .. m : n - 1 \in T => n \in T
    <3>1. \A n \in 1 .. m : n \in 0 .. m BY <1>1
    <3> QED BY <1>1, <1>10, <3>1
  <2>3. \A n \in 0 .. m : n \in T
    <3> HIDE DEF T
    <3> QED BY <1>1, <2>1, <2>2, Upward
  <2> QED BY <2>3
<1>12. upTo \in [0 .. m -> Seq(Written)]
  <2>1. upTo = [n \in 0 .. m |-> upTo[n]] BY <1>7
  <2> QED BY <1>11, <2>1
<1> QED BY <1>2, <1>9, <1>10, <1>12 DEF m, F, TracedBy

SecretsTakenBy(r, t, escaped) ==
    \E upTo \in [0 .. Len(r.secrets) -> Seq(Written)] :
       /\ upTo[0] = t
       /\ \A k \in 1 .. Len(r.secrets) :
             upTo[k] = Substitute(upTo[k - 1], r.secrets[k], <<Redacted>>, escaped)
       /\ WithoutSecrets(r, t, escaped) = upTo[Len(r.secrets)]

(* And then the secrets.                                                    *)
LEMMA SecretSteps ==
    ASSUME NEW r \in RuleSets, NEW t \in Seq(Written), NEW escaped \in BOOLEAN
    PROVE  SecretsTakenBy(r, t, escaped)
<1> DEFINE m == Len(r.secrets)
           F(k, v) == Substitute(v, r.secrets[k], <<Redacted>>, escaped)
           Solves(g) == g = [n \in 0 .. m |-> IF n = 0 THEN t ELSE F(n, g[n - 1])]
           upTo == CHOOSE g : Solves(g)
           step == [k \in Nat |-> [v \in Seq(Written) |-> IF k \in 1 .. m THEN F(k, v) ELSE v]]
<1>1. /\ m \in Nat /\ t \in Seq(Written)
      /\ \A k \in 1 .. m, v \in Seq(Written) : F(k, v) \in Seq(Written)
  <2>1. r.secrets \in Seq(Sought) BY RulesAssumption DEF Sought
  <2>2. ASSUME NEW k \in 1 .. m, NEW v \in Seq(Written) PROVE F(k, v) \in Seq(Written)
    <3>1. Redacted \in Marks BY DEF Marks
    <3>2. r.secrets[k] \in Sought BY <2>1, ElementOfSeq
    <3> QED BY <3>1, <3>2, Substituted
  <2> QED BY <2>1, <2>2, LenProperties
<1>2. WithoutSecrets(r, t, escaped) = upTo[m]
  BY Zenon DEF WithoutSecrets, upTo, F, m
<1> HIDE DEF m, F
<1>3. step \in [Nat -> [Seq(Written) -> Seq(Written)]] BY <1>1
<1>4. \A k \in 1 .. m, v \in Seq(Written) : step[k][v] = F(k, v) BY <1>1
<1> HIDE DEF step
<1>5. PICK f \in [0 .. m -> Seq(Written)] :
         f[0] = t /\ \A k \in 1 .. m : f[k] = step[k][f[k - 1]]
  <2>1. Solvable(Seq(Written), t, step, m) BY <1>1, <1>3, Recursion
  <2> QED BY <2>1 DEF Solvable, Unrolls
<1>6. Solves(f)
  <2>1. ASSUME NEW n \in 0 .. m PROVE f[n] = IF n = 0 THEN t ELSE F(n, f[n - 1])
    <3>1. CASE n = 0 BY <1>5, <3>1
    <3>2. CASE n # 0
      <4>1. n \in 1 .. m /\ n - 1 \in 0 .. m BY <1>1, <3>2
      <4>2. f[n - 1] \in Seq(Written) BY <1>5, <4>1
      <4> QED BY <1>4, <1>5, <3>2, <4>1, <4>2
    <3> QED BY <3>1, <3>2
  <2>2. f = [n \in 0 .. m |-> f[n]] BY <1>5
  <2> QED BY <2>1, <2>2
<1>7. Solves(upTo)
  <2> HIDE DEF Solves
  <2> QED BY <1>6
<1> HIDE DEF upTo
<1>8. \A n \in 0 .. m : upTo[n] = IF n = 0 THEN t ELSE F(n, upTo[n - 1]) BY <1>7
<1>9. upTo[0] = t BY <1>1, <1>8
<1>10. \A k \in 1 .. m : upTo[k] = F(k, upTo[k - 1])
  <2>1. \A k \in 1 .. m : k \in 0 .. m /\ k # 0 BY <1>1
  <2> QED BY <1>8, <2>1
<1>11. \A n \in 0 .. m : upTo[n] \in Seq(Written)
  <2> DEFINE T == {n \in 0 .. m : upTo[n] \in Seq(Written)}
  <2>1. 0 \in T BY <1>1, <1>9
  <2>2. \A n \in 1 .. m : n - 1 \in T => n \in T
    <3>1. \A n \in 1 .. m : n \in 0 .. m BY <1>1
    <3> QED BY <1>1, <1>10, <3>1
  <2>3. \A n \in 0 .. m : n \in T
    <3> HIDE DEF T
    <3> QED BY <1>1, <2>1, <2>2, Upward
  <2> QED BY <2>3
<1>12. upTo \in [0 .. m -> Seq(Written)]
  <2>1. upTo = [n \in 0 .. m |-> upTo[n]] BY <1>7
  <2> QED BY <1>11, <2>1
<1> QED BY <1>2, <1>9, <1>10, <1>12 DEF m, F, SecretsTakenBy

(* What a replacement finds and writes are texts that are not empty.        *)
LEMMA ReplacementsPlain ==
    ASSUME NEW r \in RuleSets
    PROVE  /\ Len(r.replacements) \in Nat
           /\ \A k \in 1 .. Len(r.replacements) :
                 /\ r.replacements[k].with \in Seq(Written) /\ r.replacements[k].with # <<>>
                 /\ \A m \in r.replacements[k].matches : m \in Seq(Written) /\ m # <<>>
<1>1. Len(r.replacements) \in Nat BY RulesAssumption
<1>2. ASSUME NEW k \in 1 .. Len(r.replacements)
      PROVE  /\ r.replacements[k].with \in Plain /\ r.replacements[k].with # <<>>
             /\ \A m \in r.replacements[k].matches : m \in Plain /\ m # <<>>
  BY RulesAssumption
<1> QED BY <1>1, <1>2, PlainWritten

ReplacedBy(r, t, scope) ==
    \E upTo \in [0 .. Len(r.replacements) -> Seq(Written)] :
       /\ upTo[0] = t
       /\ \A k \in 1 .. Len(r.replacements) :
             upTo[k] = Replaced(upTo[k - 1], r.replacements[k], scope)
       /\ ApplyReplacements(r, t, scope) = upTo[Len(r.replacements)]

(* The replacements of the rules apply in order.                            *)
LEMMA ReplacementSteps ==
    ASSUME NEW r \in RuleSets, NEW t \in Seq(Written), NEW scope
    PROVE  ReplacedBy(r, t, scope)
<1> DEFINE m == Len(r.replacements)
           F(k, v) == Replaced(v, r.replacements[k], scope)
           Solves(g) == g = [n \in 0 .. m |-> IF n = 0 THEN t ELSE F(n, g[n - 1])]
           upTo == CHOOSE g : Solves(g)
           step == [k \in Nat |-> [v \in Seq(Written) |-> IF k \in 1 .. m THEN F(k, v) ELSE v]]
<1>1. /\ m \in Nat /\ t \in Seq(Written)
      /\ \A k \in 1 .. m, v \in Seq(Written) : F(k, v) \in Seq(Written)
  <2>1. ASSUME NEW k \in 1 .. m, NEW v \in Seq(Written) PROVE F(k, v) \in Seq(Written)
    <3> DEFINE rp == r.replacements[k]
    <3>1. /\ rp.with \in Seq(Written)
          /\ \A x \in rp.matches : x \in Seq(Written) /\ x # <<>>
      BY ReplacementsPlain
    <3> HIDE DEF rp
    <3>2. ReplaceMatches(v, rp.matches, rp.with) \in Seq(Written) BY <3>1, ReplaceTyped
    <3>3. Replaced(v, rp, scope) \in Seq(Written) BY <3>2 DEF Replaced
    <3> QED BY <3>3 DEF rp
  <2> QED BY <2>1, ReplacementsPlain
<1>2. ApplyReplacements(r, t, scope) = upTo[m]
  BY Zenon DEF ApplyReplacements, upTo, F, m
<1> HIDE DEF m, F
<1>3. step \in [Nat -> [Seq(Written) -> Seq(Written)]] BY <1>1
<1>4. \A k \in 1 .. m, v \in Seq(Written) : step[k][v] = F(k, v) BY <1>1
<1> HIDE DEF step
<1>5. PICK f \in [0 .. m -> Seq(Written)] :
         f[0] = t /\ \A k \in 1 .. m : f[k] = step[k][f[k - 1]]
  <2>1. Solvable(Seq(Written), t, step, m) BY <1>1, <1>3, Recursion
  <2> QED BY <2>1 DEF Solvable, Unrolls
<1>6. Solves(f)
  <2>1. ASSUME NEW n \in 0 .. m PROVE f[n] = IF n = 0 THEN t ELSE F(n, f[n - 1])
    <3>1. CASE n = 0 BY <1>5, <3>1
    <3>2. CASE n # 0
      <4>1. n \in 1 .. m /\ n - 1 \in 0 .. m BY <1>1, <3>2
      <4>2. f[n - 1] \in Seq(Written) BY <1>5, <4>1
      <4> QED BY <1>4, <1>5, <3>2, <4>1, <4>2
    <3> QED BY <3>1, <3>2
  <2>2. f = [n \in 0 .. m |-> f[n]] BY <1>5
  <2> QED BY <2>1, <2>2
<1>7. Solves(upTo)
  <2> HIDE DEF Solves
  <2> QED BY <1>6
<1> HIDE DEF upTo
<1>8. \A n \in 0 .. m : upTo[n] = IF n = 0 THEN t ELSE F(n, upTo[n - 1]) BY <1>7
<1>9. upTo[0] = t BY <1>1, <1>8
<1>10. \A k \in 1 .. m : upTo[k] = F(k, upTo[k - 1])
  <2>1. \A k \in 1 .. m : k \in 0 .. m /\ k # 0 BY <1>1
  <2> QED BY <1>8, <2>1
<1>11. \A n \in 0 .. m : upTo[n] \in Seq(Written)
  <2> DEFINE T == {n \in 0 .. m : upTo[n] \in Seq(Written)}
  <2>1. 0 \in T BY <1>1, <1>9
  <2>2. \A n \in 1 .. m : n - 1 \in T => n \in T
    <3>1. \A n \in 1 .. m : n \in 0 .. m BY <1>1
    <3> QED BY <1>1, <1>10, <3>1
  <2>3. \A n \in 0 .. m : n \in T
    <3> HIDE DEF T
    <3> QED BY <1>1, <2>1, <2>2, Upward
  <2> QED BY <2>3
<1>12. upTo \in [0 .. m -> Seq(Written)]
  <2>1. upTo = [n \in 0 .. m |-> upTo[n]] BY <1>7
  <2> QED BY <1>11, <2>1
<1> QED BY <1>2, <1>9, <1>10, <1>12 DEF m, F, ReplacedBy

(* What becomes of a text, u, when some are replaced by markers: they are   *)
(* gone, in the other spelling too where that is asked, nothing else has    *)
(* come, and a text that has none of them is kept.                          *)
Cleared(t, u, what, escaped) ==
    /\ u \in Seq(Written)
    /\ \A s \in Sought : ~Occurs(t, s) => ~Occurs(u, s)
    /\ \A s \in ToSet(what) : ~Occurs(u, s) /\ (escaped => ~Occurs(u, QueryEscape(s)))
    /\ (\A s \in ToSet(what) : ~Occurs(t, s) /\ (escaped => ~Occurs(t, QueryEscape(s))))
       => u = t

(* One marker after another does so.                                        *)
LEMMA Clearing ==
    ASSUME NEW what \in Seq(Sought), NEW upTo \in [0 .. Len(what) -> Seq(Written)],
           NEW marks \in [1 .. Len(what) -> Marks], NEW escaped \in BOOLEAN,
           \A k \in 1 .. Len(what) :
              upTo[k] = Substitute(upTo[k - 1], what[k], <<marks[k]>>, escaped)
    PROVE  Cleared(upTo[0], upTo[Len(what)], what, escaped)
<1> DEFINE m == Len(what)
<1>1. m \in Nat /\ DOMAIN what = 1 .. m /\ \A k \in 1 .. m : what[k] \in Sought
  BY LenProperties, ElementOfSeq
<1>2. ASSUME NEW k \in 1 .. m
      PROVE  /\ ~Occurs(upTo[k], what[k])
             /\ escaped => ~Occurs(upTo[k], QueryEscape(what[k]))
             /\ \A s \in Sought : ~Occurs(upTo[k - 1], s) => ~Occurs(upTo[k], s)
             /\ ~Occurs(upTo[k - 1], what[k])
                /\ (escaped => ~Occurs(upTo[k - 1], QueryEscape(what[k])))
                => upTo[k] = upTo[k - 1]
  <2>1. upTo[k - 1] \in Seq(Written)
    <3>1. k - 1 \in 0 .. m BY <1>1
    <3> QED BY <3>1
  <2>2. upTo[k] = Substitute(upTo[k - 1], what[k], <<marks[k]>>, escaped) OBVIOUS
  <2>3. what[k] \in Sought /\ marks[k] \in Marks BY <1>1
  <2> QED BY <2>1, <2>2, <2>3, Substituted
<1> HIDE DEF m
<1>3. ASSUME NEW s \in Sought, NEW k \in 0 .. m, ~Occurs(upTo[k], s)
      PROVE  \A n \in 0 .. m : k <= n => ~Occurs(upTo[n], s)
  <2> DEFINE T == {n \in 0 .. m : k <= n => ~Occurs(upTo[n], s)}
  <2>1. 0 \in T
    <3>1. k <= 0 => k = 0 BY <1>1
    <3> QED BY <1>1, <1>3, <3>1
  <2>2. ASSUME NEW n \in 1 .. m, n - 1 \in T PROVE n \in T
    <3>1. n \in 0 .. m /\ (k <= n => k <= n - 1 \/ k = n) BY <1>1
    <3> QED BY <1>2, <1>3, <2>2, <3>1
  <2>3. \A n \in 0 .. m : n \in T
    <3> HIDE DEF T
    <3> QED BY <1>1, <2>1, <2>2, Upward
  <2> QED BY <2>3
<1>4. 0 \in 0 .. m /\ m \in 0 .. m /\ 0 <= m BY <1>1
<1>5. \A s \in Sought : ~Occurs(upTo[0], s) => ~Occurs(upTo[m], s) BY <1>3, <1>4
<1>6. ASSUME NEW k \in 1 .. m
      PROVE  ~Occurs(upTo[m], what[k]) /\ (escaped => ~Occurs(upTo[m], QueryEscape(what[k])))
  <2>1. k \in 0 .. m /\ k <= m BY <1>1
  <2>2. what[k] \in Sought /\ QueryEscape(what[k]) \in Sought
    BY <1>1, Escaped DEF Sought
  <2> QED BY <1>2, <1>3, <1>4, <2>1, <2>2
<1>7. ASSUME \A k \in 1 .. m :
                /\ ~Occurs(upTo[0], what[k])
                /\ escaped => ~Occurs(upTo[0], QueryEscape(what[k]))
      PROVE  upTo[m] = upTo[0]
  <2> DEFINE T == {n \in 0 .. m : upTo[n] = upTo[0]}
  <2>1. 0 \in T BY <1>4
  <2>2. ASSUME NEW n \in 1 .. m, n - 1 \in T PROVE n \in T
    <3>1. n \in 0 .. m /\ upTo[n - 1] = upTo[0] BY <1>1, <2>2
    <3>2. /\ ~Occurs(upTo[n - 1], what[n])
          /\ escaped => ~Occurs(upTo[n - 1], QueryEscape(what[n]))
      BY <1>7, <3>1
    <3>3. upTo[n] = upTo[n - 1] BY <1>2, <3>2
    <3> QED BY <3>1, <3>3
  <2>3. \A n \in 0 .. m : n \in T
    <3> HIDE DEF T
    <3> QED BY <1>1, <2>1, <2>2, Upward
  <2> QED BY <1>4, <2>3
<1>8. upTo[m] \in Seq(Written) BY <1>4 DEF m
<1>9. ToSet(what) = {what[k] : k \in 1 .. m} BY <1>1 DEF ToSet
<1> QED BY <1>5, <1>6, <1>7, <1>8, <1>9 DEF Cleared, m

(* So the identifiers are cleared from a text.                              *)
LEMMA TracedClears ==
    ASSUME NEW t \in Seq(Written), NEW order \in Seq(Sought), NEW repl, NEW escaped \in BOOLEAN,
           \A k \in 1 .. Len(order) : repl[order[k]] \in Nat \ {0}
    PROVE  Cleared(t, Traced(t, order, repl, escaped), order, escaped)
<1>1. PICK upTo \in [0 .. Len(order) -> Seq(Written)] :
         /\ upTo[0] = t
         /\ \A k \in 1 .. Len(order) :
               upTo[k] = Substitute(upTo[k - 1], order[k], <<TraceMarker(repl[order[k]])>>, escaped)
         /\ Traced(t, order, repl, escaped) = upTo[Len(order)]
  <2>1. TracedBy(t, order, repl, escaped) BY TracedSteps
  <2> QED BY <2>1 DEF TracedBy
<1> DEFINE marks == [k \in 1 .. Len(order) |-> TraceMarker(repl[order[k]])]
<1>2. marks \in [1 .. Len(order) -> Marks] BY DEF Marks
<1>3. \A k \in 1 .. Len(order) :
         upTo[k] = Substitute(upTo[k - 1], order[k], <<marks[k]>>, escaped)
  BY <1>1
<1> HIDE DEF marks
<1> QED BY <1>1, <1>2, <1>3, Clearing

(* And the secrets.                                                         *)
LEMMA SecretsClear ==
    ASSUME NEW r \in RuleSets, NEW t \in Seq(Written), NEW escaped \in BOOLEAN
    PROVE  Cleared(t, WithoutSecrets(r, t, escaped), r.secrets, escaped)
<1>1. PICK upTo \in [0 .. Len(r.secrets) -> Seq(Written)] :
         /\ upTo[0] = t
         /\ \A k \in 1 .. Len(r.secrets) :
               upTo[k] = Substitute(upTo[k - 1], r.secrets[k], <<Redacted>>, escaped)
         /\ WithoutSecrets(r, t, escaped) = upTo[Len(r.secrets)]
  <2>1. SecretsTakenBy(r, t, escaped) BY SecretSteps
  <2> QED BY <2>1 DEF SecretsTakenBy
<1> DEFINE marks == [k \in 1 .. Len(r.secrets) |-> Redacted]
<1>2. marks \in [1 .. Len(r.secrets) -> Marks] BY DEF Marks
<1>3. \A k \in 1 .. Len(r.secrets) :
         upTo[k] = Substitute(upTo[k - 1], r.secrets[k], <<marks[k]>>, escaped)
  BY <1>1
<1>4. r.secrets \in Seq(Sought) BY RulesAssumption DEF Sought
<1> HIDE DEF marks
<1> QED BY <1>1, <1>2, <1>3, <1>4, Clearing

(* What the rules themselves do not write: no override has it, and nothing  *)
(* that a replacement writes agrees with it anywhere, so that it cannot     *)
(* come to be part of it.                                                   *)
Unwritten(r, s) ==
    /\ \A name \in DOMAIN r.overrides : ~Occurs(r.overrides[name], s)
    /\ \A k \in 1 .. Len(r.replacements) : Apart(s, r.replacements[k].with)

(* The replacements do not put it together.                                 *)
LEMMA ReplacementsKeep ==
    ASSUME NEW r \in RuleSets, NEW t \in Seq(Written), NEW scope
    PROVE  /\ ApplyReplacements(r, t, scope) \in Seq(Written)
           /\ \A s \in Sought : Unwritten(r, s) /\ ~Occurs(t, s)
                                => ~Occurs(ApplyReplacements(r, t, scope), s)
<1> DEFINE m == Len(r.replacements)
<1>1. PICK upTo \in [0 .. m -> Seq(Written)] :
         /\ upTo[0] = t
         /\ \A k \in 1 .. m : upTo[k] = Replaced(upTo[k - 1], r.replacements[k], scope)
         /\ ApplyReplacements(r, t, scope) = upTo[m]
  <2>1. ReplacedBy(r, t, scope) BY ReplacementSteps
  <2> QED BY <2>1 DEF ReplacedBy
<1>2. m \in Nat /\ m \in 0 .. m BY ReplacementsPlain
<1>3. ASSUME NEW s \in Sought, Unwritten(r, s), ~Occurs(t, s)
      PROVE  ~Occurs(upTo[m], s)
  <2> DEFINE T == {n \in 0 .. m : ~Occurs(upTo[n], s)}
  <2>1. 0 \in T BY <1>1, <1>2, <1>3
  <2>2. ASSUME NEW n \in 1 .. m, n - 1 \in T PROVE n \in T
    <3> DEFINE rp == r.replacements[n]
    <3>1. /\ rp.with \in Seq(Written) /\ rp.with # <<>> /\ Apart(s, rp.with)
          /\ \A x \in rp.matches : x \in Seq(Written) /\ x # <<>>
      BY <1>3, ReplacementsPlain DEF Unwritten
    <3>2. upTo[n] = Replaced(upTo[n - 1], rp, scope) BY <1>1
    <3> HIDE DEF rp
    <3>3. upTo[n - 1] \in Seq(Written) /\ ~Occurs(upTo[n - 1], s) BY <1>1, <2>2
    <3>4. s \in Seq(Written) /\ s # <<>> BY PlainWritten DEF Sought
    <3>5. ~Occurs(ReplaceMatches(upTo[n - 1], rp.matches, rp.with), s)
      BY <3>1, <3>3, <3>4, NotCreated
    <3>6. n \in 0 .. m BY <1>2
    <3> QED BY <3>2, <3>3, <3>5, <3>6 DEF Replaced
  <2>3. \A n \in 0 .. m : n \in T
    <3> HIDE DEF T, m
    <3> QED BY <1>2, <2>1, <2>2, Upward
  <2> QED BY <1>2, <2>3
<1> QED BY <1>1, <1>2, <1>3

-----------------------------------------------------------------------------
(* Widths                                                                   *)

(* Each symbol has a width.                                                 *)
LEMMA SymbolWidths ==
    ASSUME NEW t \in Plain, NEW k \in 1 .. Len(t)
    PROVE  WidthOf[t[k].char] \in Nat \ {0}
<1>1. t[k] \in Symbols BY ElementOfSeq DEF Plain
<1>2. PICK c \in DOMAIN WidthOf : t[k] = Char(c) BY <1>1 DEF Symbols
<1>3. t[k].char = c BY <1>2 DEF Char
<1> QED BY <1>3, TextsAssumption

WidthBy(t) ==
    \E upTo \in [0 .. Len(t) -> Nat] :
       /\ upTo[0] = 0
       /\ \A k \in 1 .. Len(t) :
             upTo[k] = upTo[k - 1] + WidthOf[t[k].char]
       /\ Width(t) = upTo[Len(t)]

(* The width of a text is that of its symbols, one after another.           *)
LEMMA WidthSteps ==
    ASSUME NEW t \in Plain
    PROVE  WidthBy(t)
<1> DEFINE m == Len(t)
           F(k, v) == v + WidthOf[t[k].char]
           Solves(g) == g = [n \in 0 .. m |-> IF n = 0 THEN 0 ELSE F(n, g[n - 1])]
           upTo == CHOOSE g : Solves(g)
           step == [k \in Nat |-> [v \in Nat |-> IF k \in 1 .. m THEN F(k, v) ELSE v]]
<1>1. /\ m \in Nat /\ 0 \in Nat
      /\ \A k \in 1 .. m, v \in Nat : F(k, v) \in Nat
  <2>1. ASSUME NEW k \in 1 .. m PROVE WidthOf[t[k].char] \in Nat BY SymbolWidths
  <2> QED BY <2>1, LenProperties DEF Plain
<1>2. Width(t) = upTo[m]
  BY Zenon DEF Width, upTo, F, m
<1> HIDE DEF m, F, WidthBy
<1>3. step \in [Nat -> [Nat -> Nat]] BY <1>1
<1>4. \A k \in 1 .. m, v \in Nat : step[k][v] = F(k, v) BY <1>1
<1> HIDE DEF step
<1>5. PICK f \in [0 .. m -> Nat] :
         f[0] = 0 /\ \A k \in 1 .. m : f[k] = step[k][f[k - 1]]
  <2>1. Solvable(Nat, 0, step, m) BY <1>1, <1>3, Recursion
  <2> QED BY <2>1 DEF Solvable, Unrolls
<1>6. Solves(f)
  <2>1. ASSUME NEW n \in 0 .. m PROVE f[n] = IF n = 0 THEN 0 ELSE F(n, f[n - 1])
    <3>1. CASE n = 0 BY <1>5, <3>1
    <3>2. CASE n # 0
      <4>1. n \in 1 .. m /\ n - 1 \in 0 .. m BY <1>1, <3>2
      <4>2. f[n - 1] \in Nat BY <1>5, <4>1
      <4> QED BY <1>4, <1>5, <3>2, <4>1, <4>2
    <3> QED BY <3>1, <3>2
  <2>2. f = [n \in 0 .. m |-> f[n]] BY <1>5
  <2> QED BY <2>1, <2>2
<1>7. Solves(upTo)
  <2> HIDE DEF Solves
  <2> QED BY <1>6
<1> HIDE DEF upTo
<1>8. \A n \in 0 .. m : upTo[n] = IF n = 0 THEN 0 ELSE F(n, upTo[n - 1]) BY <1>7
<1>9. upTo[0] = 0 BY <1>1, <1>8
<1>10. \A k \in 1 .. m : upTo[k] = F(k, upTo[k - 1])
  <2>1. \A k \in 1 .. m : k \in 0 .. m /\ k # 0 BY <1>1
  <2> QED BY <1>8, <2>1
<1>11. \A n \in 0 .. m : upTo[n] \in Nat
  <2> DEFINE T == {n \in 0 .. m : upTo[n] \in Nat}
  <2>1. 0 \in T BY <1>1, <1>9
  <2>2. \A n \in 1 .. m : n - 1 \in T => n \in T
    <3>1. \A n \in 1 .. m : n \in 0 .. m BY <1>1
    <3> QED BY <1>1, <1>10, <3>1
  <2>3. \A n \in 0 .. m : n \in T
    <3> HIDE DEF T
    <3> QED BY <1>1, <2>1, <2>2, Upward
  <2> QED BY <2>3
<1>12. upTo \in [0 .. m -> Nat]
  <2>1. upTo = [n \in 0 .. m |-> upTo[n]] BY <1>7
  <2> QED BY <1>11, <2>1
<1> QED BY <1>2, <1>9, <1>10, <1>12 DEF m, F, WidthBy

(* No text is wide that is empty.                                           *)
LEMMA Widths ==
    ASSUME NEW t \in Plain
    PROVE  Width(t) \in Nat /\ (t = <<>> => Width(t) = 0)
<1>1. PICK upTo \in [0 .. Len(t) -> Nat] :
         /\ upTo[0] = 0
         /\ Width(t) = upTo[Len(t)]
  <2>1. WidthBy(t) BY WidthSteps
  <2> QED BY <2>1 DEF WidthBy
<1>2. Len(t) \in Nat BY LenProperties DEF Plain
<1>3. t = <<>> => Len(t) = 0 BY EmptySeq
<1> QED BY <1>1, <1>2, <1>3

(* What stands in a text is not wider, and as wide only when it is all of   *)
(* it.                                                                      *)
LEMMA Stretch ==
    ASSUME NEW t \in Plain, NEW w \in Plain, NEW i \in 1 .. Len(t), StandsAt(t, i, w)
    PROVE  Width(w) <= Width(t) /\ (Width(w) >= Width(t) => w = t)
<1> DEFINE N == Len(t)
           L == Len(w)
<1>1. PICK a \in [0 .. N -> Nat] :
         /\ a[0] = 0
         /\ \A k \in 1 .. N : a[k] = a[k - 1] + WidthOf[t[k].char]
         /\ Width(t) = a[N]
  <2>1. WidthBy(t) BY WidthSteps
  <2> QED BY <2>1 DEF WidthBy
<1>2. PICK b \in [0 .. L -> Nat] :
         /\ b[0] = 0
         /\ \A k \in 1 .. L : b[k] = b[k - 1] + WidthOf[w[k].char]
         /\ Width(w) = b[L]
  <2>1. WidthBy(w) BY WidthSteps
  <2> QED BY <2>1 DEF WidthBy
<1>3. /\ N \in Nat /\ L \in Nat /\ DOMAIN w = 1 .. L /\ i + L - 1 <= N
      /\ \A k \in 1 .. L : t[i + k - 1] = w[k]
  BY LenProperties DEF Plain, StandsAt
<1>4. \A k \in 1 .. N : WidthOf[t[k].char] \in Nat \ {0} BY SymbolWidths
<1> HIDE DEF N, L
<1>5. \A k \in 1 .. N : k \in 0 .. N /\ k - 1 \in 0 .. N /\ a[k] >= a[k - 1] + 1
  <2> TAKE k \in 1 .. N
  <2>1. k \in 0 .. N /\ k - 1 \in 0 .. N BY <1>3
  <2>2. a[k] \in Nat /\ a[k - 1] \in Nat BY <2>1
  <2> QED BY <1>1, <1>4, <2>1, <2>2
<1>6. ASSUME NEW k \in 0 .. N PROVE a[N] >= a[k] + (N - k)
  <2> DEFINE T == {n \in 0 .. N : k <= n => a[n] >= a[k] + (n - k)}
  <2>1. 0 \in T
    <3>1. 0 \in 0 .. N /\ (k <= 0 => k = 0) /\ a[k] \in Nat BY <1>3
    <3> QED BY <3>1
  <2>2. ASSUME NEW n \in 1 .. N, n - 1 \in T PROVE n \in T
    <3>1. /\ n \in 0 .. N /\ n - 1 \in 0 .. N /\ (k <= n => k <= n - 1 \/ k = n)
          /\ a[k] \in Nat
      BY <1>3
    <3>2. a[n] \in Nat /\ a[n - 1] \in Nat BY <3>1
    <3>3. k <= n - 1 => a[n - 1] >= a[k] + (n - 1 - k) BY <2>2
    <3>4. CASE k <= n - 1
      <4>1. a[n] >= a[k] + (n - k) BY <1>5, <3>1, <3>2, <3>3, <3>4
      <4> QED BY <3>1, <4>1
    <3>5. CASE k = n BY <3>1, <3>2, <3>5
    <3>6. CASE ~(k <= n) BY <3>1, <3>6
    <3> QED BY <3>1, <3>4, <3>5, <3>6
  <2>3. \A n \in 0 .. N : n \in T
    <3> HIDE DEF T
    <3> QED BY <1>3, <2>1, <2>2, Upward
  <2>4. N \in T /\ k <= N BY <1>3, <2>3
  <2> QED BY <2>4
<1>7. \A k \in 0 .. L : a[i - 1 + k] = a[i - 1] + b[k]
  <2> DEFINE T == {k \in 0 .. L : a[i - 1 + k] = a[i - 1] + b[k]}
  <2>0. i \in 1 .. N /\ i - 1 \in 0 .. N /\ a[i - 1] \in Nat
    <3>1. i \in 1 .. N /\ i - 1 \in 0 .. N BY <1>3 DEF N
    <3> QED BY <3>1
  <2>1. 0 \in T BY <1>2, <1>3, <2>0
  <2>2. ASSUME NEW k \in 1 .. L, k - 1 \in T PROVE k \in T
    <3>1. /\ k \in 0 .. L /\ k - 1 \in 0 .. L /\ i - 1 + k \in 1 .. N
          /\ i - 1 + k - 1 = i - 1 + (k - 1) /\ i - 1 + k = i + k - 1
      BY <1>3, <2>0
    <3>2. a[i - 1 + (k - 1)] = a[i - 1] + b[k - 1] BY <2>2
    <3>3. a[i - 1 + k] = a[i - 1 + k - 1] + WidthOf[t[i - 1 + k].char] BY <1>1, <3>1
    <3>4. t[i - 1 + k] = w[k] BY <1>3, <3>1
    <3>5. b[k] = b[k - 1] + WidthOf[w[k].char] BY <1>2
    <3>6. WidthOf[t[i - 1 + k].char] \in Nat BY <1>4, <3>1
    <3>7. b[k - 1] \in Nat BY <3>1
    <3>8. a[i - 1 + k] = a[i - 1] + b[k] BY <2>0, <3>1, <3>2, <3>3, <3>4, <3>5, <3>6, <3>7
    <3> QED BY <3>1, <3>8
  <2>3. \A k \in 0 .. L : k \in T
    <3> HIDE DEF T
    <3> QED BY <1>3, <2>1, <2>2, Upward
  <2> QED BY <2>3
<1>8. a[N] >= b[L] + (i - 1) + (N - (i - 1 + L))
  <2>1. L \in 0 .. L /\ i - 1 + L \in 0 .. N /\ i - 1 \in 0 .. N /\ 0 \in 0 .. N
    BY <1>3 DEF N
  <2>2. a[i - 1] \in Nat /\ b[L] \in Nat /\ a[N] \in Nat /\ N \in 0 .. N BY <1>3, <2>1
  <2>3. a[i - 1] >= i - 1
    <3> DEFINE T == {n \in 0 .. N : a[n] >= n}
    <3>1. 0 \in T BY <1>1, <2>1
    <3>2. ASSUME NEW n \in 1 .. N, n - 1 \in T PROVE n \in T
      <4>1. a[n - 1] >= n - 1 /\ a[n] >= a[n - 1] + 1 /\ n \in 0 .. N BY <1>5, <3>2
      <4>2. a[n] \in Nat /\ a[n - 1] \in Nat BY <1>5
      <4>3. a[n] >= n BY <4>1, <4>2
      <4> QED BY <4>1, <4>3
    <3>3. \A n \in 0 .. N : n \in T
      <4> HIDE DEF T
      <4> QED BY <1>3, <3>1, <3>2, Upward
    <3>4. i - 1 \in T BY <2>1, <3>3
    <3> QED BY <3>4
  <2>4. a[i - 1 + L] = a[i - 1] + b[L] BY <1>7, <2>1
  <2>5. a[N] >= a[i - 1 + L] + (N - (i - 1 + L)) BY <1>6, <2>1
  <2> DEFINE x == a[i - 1 + L]
             y == a[i - 1]
             z == a[N]
  <2>6. x = y + b[L] /\ z >= x + (N - (i - 1 + L)) /\ y >= i - 1 BY <2>3, <2>4, <2>5
  <2>7. y \in Nat /\ z \in Nat /\ b[L] \in Nat BY <2>2
  <2>8. i \in Nat /\ N \in Nat /\ L \in Nat BY <1>3
  <2> HIDE DEF x, y, z
  <2>9. z >= b[L] + (i - 1) + (N - (i - 1 + L)) BY <2>6, <2>7, <2>8
  <2> QED BY <2>9 DEF z
<1>9. Width(w) <= Width(t) /\ (Width(w) >= Width(t) => i = 1 /\ L = N)
  <2>1. a[N] \in Nat /\ b[L] \in Nat
    <3>1. N \in 0 .. N /\ L \in 0 .. L BY <1>3
    <3> QED BY <3>1
  <2>2. i \in 1 .. N BY DEF N
  <2>3. Width(t) = a[N] /\ Width(w) = b[L] BY <1>1, <1>2
  <2>4. N \in Nat /\ L \in Nat BY <1>3
  <2>5. i + L - 1 <= N BY <1>3
  <2>6. b[L] <= a[N] /\ (b[L] >= a[N] => i = 1 /\ L = N)
    <3>1. i \in Nat \ {0} BY <2>2, <2>4
    <3> DEFINE y == b[L]
               z == a[N]
    <3>2. z >= y + (i - 1) + (N - (i - 1 + L)) /\ y \in Nat /\ z \in Nat BY <1>8, <2>1
    <3> HIDE DEF y, z
    <3>3. y <= z /\ (y >= z => i = 1 /\ L = N) BY <2>4, <2>5, <3>1, <3>2
    <3> QED BY <3>3 DEF y, z
  <2> QED BY <2>3, <2>6
<1>10. ASSUME i = 1, L = N PROVE w = t
  <2>1. \A k \in 1 .. N : t[k] = w[k]
    <3>1. \A k \in 1 .. N : 1 + k - 1 = k BY <1>3
    <3> QED BY <1>3, <1>10, <3>1
  <2> QED BY <1>10, <2>1, SeqEqual DEF Plain, N, L
<1> QED BY <1>9, <1>10

-----------------------------------------------------------------------------
(* What is found in the headers of an exchange                              *)

(* A part of a text: what can be cut out of it is one.                      *)
PartOf(w, t) == w \in Plain /\ Width(w) <= Width(t)

(* Cutting out of a text leaves a part of it.                               *)
LEMMA CutOut ==
    ASSUME NEW t \in Plain, NEW m \in Nat \ {0}, NEW n \in Int, n <= Len(t)
    PROVE  PartOf(SubSeq(t, m, n), t)
<1> DEFINE w == SubSeq(t, m, n)
<1>1. Len(t) \in Nat /\ \A k \in 1 .. Len(t) : t[k] \in Symbols
  BY LenProperties, ElementOfSeq DEF Plain
<1>2. \A k \in m .. n : t[k] \in Symbols BY <1>1
<1>3. /\ w \in Plain /\ Len(w) = IF m <= n THEN n - m + 1 ELSE 0
      /\ \A k \in 1 .. n - m + 1 : w[k] = t[m + k - 1]
  BY <1>2, SubSeqProperties DEF Plain
<1> HIDE DEF w
<1>4. CASE m <= n
  <2>1. m \in 1 .. Len(t) BY <1>1, <1>4
  <2>2. DOMAIN w = 1 .. n - m + 1 /\ m + Len(w) - 1 <= Len(t)
    BY <1>3, <1>4, LenProperties DEF Plain
  <2>3. StandsAt(t, m, w) BY <1>3, <2>2 DEF StandsAt
  <2> QED BY <1>3, <2>1, <2>3, Stretch DEF PartOf, w
<1>5. CASE ~(m <= n)
  <2>1. w = <<>> BY <1>3, <1>5, EmptySeq DEF Plain
  <2> QED BY <1>3, <2>1, Widths DEF PartOf, w
<1> QED BY <1>4, <1>5

(* A part of a part is a part, and a text is part of itself.                *)
LEMMA PartsOfParts ==
    /\ \A t \in Plain : PartOf(t, t)
    /\ \A t \in Plain : \A w, x : PartOf(w, t) /\ PartOf(x, w) => PartOf(x, t)
<1>1. \A t \in Plain : Width(t) \in Nat BY Widths
<1>2. ASSUME NEW t \in Plain, NEW w, NEW x, PartOf(w, t), PartOf(x, w) PROVE PartOf(x, t)
  BY <1>1, <1>2 DEF PartOf
<1> QED BY <1>1, <1>2 DEF PartOf

(* Among finitely many numbers there is one that has any given number of    *)
(* them before it, if there are more.                                       *)
LEMMA Ranked ==
    ASSUME NEW C, C \subseteq Nat, IsFiniteSet(C), NEW k \in 0 .. Cardinality(C) - 1
    PROVE  \E i \in C : Cardinality({j \in C : j < i}) = k
<1> DEFINE below(i) == {j \in C : j < i}
           n == Cardinality(C) - 1
           T == {l \in 0 .. n : \E i \in C : Cardinality(below(i)) = l}
<1>1. n \in Nat /\ C # {}
  <2>1. Cardinality(C) \in Nat BY FS_CardinalityType
  <2>2. C = {} => Cardinality(C) = 0 BY FS_EmptySet
  <2> QED BY <2>1, <2>2
<1>2. 0 \in T
  <2>1. PICK i \in C : \A j \in C : i <= j BY <1>1, LeastNat
  <2>2. \A j \in C : ~(j < i) BY <2>1
  <2>3. below(i) = {} BY <2>2
  <2>4. Cardinality(below(i)) = 0 BY <2>3, FS_EmptySet
  <2>5. 0 \in 0 .. n BY <1>1
  <2> HIDE DEF below, n
  <2> QED BY <2>4, <2>5
<1>3. ASSUME NEW l \in 1 .. n, l - 1 \in T PROVE l \in T
  <2>1. PICK i \in C : Cardinality(below(i)) = l - 1 BY <1>3
  <2> DEFINE upTo == below(i) \cup {i}
             D == {j \in C : i < j}
  <2>2. IsFiniteSet(below(i)) /\ i \notin below(i) /\ below(i) \in SUBSET C
    <3>1. below(i) \in SUBSET C /\ i \notin below(i) OBVIOUS
    <3> QED BY <3>1, FS_Subset
  <2>3. IsFiniteSet(upTo) /\ Cardinality(upTo) = l
    <3> HIDE DEF below
    <3>1. Cardinality(upTo) = Cardinality(below(i)) + 1 /\ IsFiniteSet(upTo)
      BY <2>2, FS_AddElement
    <3> QED BY <2>1, <3>1
  <2>4. C = upTo \cup D
    <3>1. \A j \in C : j < i \/ j = i \/ i < j OBVIOUS
    <3> QED BY <3>1
  <2>5. D # {}
    <3>1. Cardinality(C) # l
      <4>1. Cardinality(C) \in Nat BY FS_CardinalityType
      <4> QED BY <1>1, <4>1
    <3> HIDE DEF D, upTo
    <3> QED BY <2>3, <2>4, <3>1
  <2>6. PICK x \in D : \A j \in D : x <= j
    <3>1. D \subseteq Nat OBVIOUS
    <3> HIDE DEF D
    <3> QED BY <2>5, <3>1, LeastNat
  <2>7. below(x) = upTo
    <3>1. x \in C /\ i < x OBVIOUS
    <3>2. ASSUME NEW j \in C PROVE j < x <=> j < i \/ j = i
      <4>1. i < j => x <= j BY <2>6
      <4> QED BY <3>1, <4>1
    <3> QED BY <3>1, <3>2
  <2>8. x \in C /\ l \in 0 .. n BY <1>1
  <2> HIDE DEF below, upTo, D, n
  <2> QED BY <2>3, <2>7, <2>8
<1>4. \A l \in 0 .. n : l \in T
  <2> HIDE DEF T, n
  <2> QED BY <1>1, <1>2, <1>3, Upward
<1> QED BY <1>4

(* Splitting a text gives parts of it, one at least.                        *)
LEMMA SplitParts ==
    ASSUME NEW t \in Plain, NEW sep
    PROVE  /\ Split(t, sep) \in Seq(Plain) /\ Len(Split(t, sep)) \in Nat \ {0}
           /\ \A k \in 1 .. Len(Split(t, sep)) : PartOf(Split(t, sep)[k], t)
<1> DEFINE cuts == {0, Len(t) + 1} \cup {i \in DOMAIN t : t[i] = Char(sep)}
           cut(k) == CHOOSE i \in cuts : Cardinality({j \in cuts : j < i}) = k
           n == Cardinality(cuts) - 1
<1>1. Len(t) \in Nat /\ DOMAIN t = 1 .. Len(t) BY LenProperties DEF Plain
<1>2. cuts \subseteq 0 .. Len(t) + 1 /\ cuts \subseteq Nat BY <1>1
<1>3. IsFiniteSet(cuts) /\ {0, Len(t) + 1} \in SUBSET cuts
  <2>1. cuts \in SUBSET (0 .. Len(t) + 1) /\ {0, Len(t) + 1} \in SUBSET cuts BY <1>2
  <2>2. IsFiniteSet(0 .. Len(t) + 1) BY <1>1, FS_Interval
  <2> HIDE DEF cuts
  <2> QED BY <2>1, <2>2, FS_Subset
<1>4. n \in Nat \ {0} /\ Cardinality(cuts) = n + 1
  <2>1. Cardinality({0, Len(t) + 1}) = 2
    <3>1. IsFiniteSet({0}) /\ Cardinality({0}) = 1 BY FS_Singleton
    <3>2. {0, Len(t) + 1} = {0} \cup {Len(t) + 1} /\ Len(t) + 1 \notin {0} BY <1>1
    <3> HIDE DEF cuts, n
    <3>3. Cardinality({0} \cup {Len(t) + 1}) = Cardinality({0}) + 1
      <4> DEFINE one == {0}
      <4> HIDE DEF one
      <4>1. IsFiniteSet(one) /\ Len(t) + 1 \notin one BY <3>1, <3>2 DEF one
      <4>2. Cardinality(one \cup {Len(t) + 1}) = Cardinality(one) + 1 BY <4>1, FS_AddElement
      <4> QED BY <4>2 DEF one
    <3>4. Cardinality({0} \cup {Len(t) + 1}) = 1 + 1 BY <3>1, <3>3, Zenon
    <3>5. 1 + 1 = 2 OBVIOUS
    <3> QED BY <3>2, <3>4, <3>5, Zenon
  <2> HIDE DEF cuts
  <2>2. Cardinality(cuts) \in Nat BY <1>3, FS_CardinalityType
  <2>3. Cardinality({0, Len(t) + 1}) <= Cardinality(cuts) BY <1>3, FS_Subset
  <2> QED BY <2>1, <2>2, <2>3
<1>5. Split(t, sep) = [k \in 1 .. n |-> SubSeq(t, cut(k - 1) + 1, cut(k) - 1)] BY DEF Split
<1>6. ASSUME NEW k \in 0 .. n PROVE cut(k) \in 0 .. Len(t) + 1
  <2> HIDE DEF cuts, n
  <2>1. k \in 0 .. Cardinality(cuts) - 1 BY <1>4
  <2>2. \E i \in cuts : Cardinality({j \in cuts : j < i}) = k BY <1>2, <1>3, <2>1, Ranked
  <2>3. cut(k) \in cuts BY <2>2
  <2> QED BY <1>2, <2>3
<1> HIDE DEF cut, n
<1>7. ASSUME NEW k \in 1 .. n PROVE PartOf(SubSeq(t, cut(k - 1) + 1, cut(k) - 1), t)
  <2>1. cut(k - 1) \in 0 .. Len(t) + 1 /\ cut(k) \in 0 .. Len(t) + 1
    <3>1. k - 1 \in 0 .. n /\ k \in 0 .. n BY <1>4
    <3> QED BY <1>6, <3>1
  <2>2. cut(k - 1) + 1 \in Nat \ {0} /\ cut(k) - 1 \in Int /\ cut(k) - 1 <= Len(t)
    BY <1>1, <2>1
  <2> QED BY <2>2, CutOut
<1>8. \A k \in 1 .. n : Split(t, sep)[k] = SubSeq(t, cut(k - 1) + 1, cut(k) - 1) BY <1>5
<1>9. Split(t, sep) \in Seq(Plain) /\ Len(Split(t, sep)) = n
  <2>1. \A k \in 1 .. n : SubSeq(t, cut(k - 1) + 1, cut(k) - 1) \in Plain BY <1>7 DEF PartOf
  <2>2. Split(t, sep) \in [1 .. n -> Plain] BY <1>5, <2>1
  <2> QED BY <1>4, <2>2
<1> QED BY <1>4, <1>7, <1>8, <1>9

(* So does cutting it in two.                                               *)
LEMMA CutInTwo ==
    ASSUME NEW t \in Plain, NEW sep
    PROVE  PartOf(Before(t, sep), t) /\ PartOf(After(t, sep), t)
<1>1. PartOf(Before(t, sep), t)
  <2>1. 1 \in 1 .. Len(Split(t, sep)) BY SplitParts
  <2> QED BY <2>1, SplitParts DEF Before
<1>2. Len(t) \in Nat /\ Len(Before(t, sep)) \in Nat BY <1>1, LenProperties DEF PartOf, Plain
<1>3. Len(Before(t, sep)) + 2 \in Nat \ {0} /\ Len(t) \in Int /\ Len(t) <= Len(t) BY <1>2
<1> QED BY <1>1, <1>3, CutOut DEF After

(* The image of a finite set is finite, in particular that of a sequence.   *)
LEMMA FiniteImage ==
    ASSUME NEW S, IsFiniteSet(S), NEW f, DOMAIN f = S
    PROVE  IsFiniteSet({f[x] : x \in S})
<1> DEFINE T == {f[x] : x \in S}
           g == [x \in S |-> f[x]]
<1>1. g \in Surjection(S, T) BY DEF Surjection
<1> HIDE DEF g, T
<1>2. IsFiniteSet(T) BY <1>1, FS_Surjection
<1> QED BY <1>2 DEF T

(* The components of a composite carrier are finitely many parts of it.     *)
LEMMA ComponentParts ==
    ASSUME NEW v \in Plain, NEW name
    PROVE  /\ IsFiniteSet(Components(name, v))
           /\ \A w \in Components(name, v) : PartOf(w, v)
<1>1. ASSUME NEW sep, NEW n \in Nat, NEW wanted, wanted \subseteq 1 .. n, IsFiniteSet(wanted)
      PROVE  /\ IsFiniteSet(Fields(v, sep, n, wanted))
             /\ \A w \in Fields(v, sep, n, wanted) : PartOf(w, v)
  <2> DEFINE f == Split(v, sep)
  <2>1. /\ Len(f) \in Nat \ {0} /\ DOMAIN f = 1 .. Len(f)
        /\ \A k \in 1 .. Len(f) : PartOf(f[k], v)
    BY SplitParts, LenProperties
  <2>2. Fields(v, sep, n, wanted) = IF Len(f) < n THEN {} ELSE {f[i] : i \in wanted}
    BY DEF Fields
  <2> HIDE DEF f
  <2>3. CASE Len(f) < n BY <2>2, <2>3, FS_EmptySet
  <2>4. CASE ~(Len(f) < n)
    <3>1. wanted \subseteq 1 .. Len(f) BY <1>1, <2>1, <2>4
    <3> DEFINE g == [i \in wanted |-> f[i]]
    <3>2. {g[i] : i \in wanted} = {f[i] : i \in wanted} OBVIOUS
    <3>3. IsFiniteSet({g[i] : i \in wanted})
      <4>1. DOMAIN g = wanted OBVIOUS
      <4> HIDE DEF g
      <4> QED BY <1>1, <4>1, FiniteImage
    <3> HIDE DEF g
    <3>4. Fields(v, sep, n, wanted) = {f[i] : i \in wanted} BY <2>2, <2>4
    <3>5. \A i \in wanted : PartOf(f[i], v) BY <2>1, <3>1
    <3> QED BY <3>2, <3>3, <3>4, <3>5
  <2> QED BY <2>3, <2>4
<1>2. ASSUME NEW a, NEW b PROVE IsFiniteSet({a, b})
  <2>1. IsFiniteSet({a}) BY FS_Singleton
  <2>2. {a, b} = {a} \cup {b} OBVIOUS
  <2> QED BY <2>1, <2>2, FS_AddElement
<1>3. CASE name = "b3"
  <2>1. {1, 2} \subseteq 1 .. 2 /\ 2 \in Nat OBVIOUS
  <2>2. Components(name, v) = Fields(v, "-", 2, {1, 2}) BY <1>3 DEF Components
  <2> QED BY <1>1, <1>2, <2>1, <2>2
<1>4. CASE name = "traceparent"
  <2>1. {2, 3} \subseteq 1 .. 4 /\ 4 \in Nat OBVIOUS
  <2>2. Components(name, v) = Fields(v, "-", 4, {2, 3}) BY <1>4 DEF Components
  <2> QED BY <1>1, <1>2, <2>1, <2>2
<1>5. CASE name = "uber-trace-id"
  <2>1. {1, 2} \subseteq 1 .. 2 /\ 2 \in Nat OBVIOUS
  <2>2. Components(name, v) = Fields(v, ":", 2, {1, 2}) BY <1>5 DEF Components
  <2> QED BY <1>1, <1>2, <2>1, <2>2
<1>6. CASE name = "x-cloud-trace-context" /\ Has(v, "/")
  <2> DEFINE a == Before(v, "/")
             c == After(v, "/")
             b == Before(c, ";")
  <2>1. Components(name, v) = {a, b} BY <1>6 DEF Components
  <2>2. PartOf(a, v) /\ PartOf(c, v) BY CutInTwo
  <2>3. PartOf(b, c) BY <2>2, CutInTwo DEF PartOf
  <2> HIDE DEF a, b, c
  <2>4. PartOf(b, v) BY <2>2, <2>3, PartsOfParts
  <2> QED BY <1>2, <2>1, <2>2, <2>4
<1>7. CASE name = "x-amzn-trace-id"
  <2> DEFINE kept == {f \in ToSet(Split(v, ";")) :
                       Has(f, "=") /\ Before(f, "=") \in {Text(<<"root">>), Text(<<"parent">>)}}
             g == [f \in kept |-> After(f, "=")]
             s == Split(v, ";")
  <2>1. Components(name, v) = {After(f, "=") : f \in kept} BY <1>7 DEF Components
  <2>2. /\ s \in Seq(Plain) /\ DOMAIN s = 1 .. Len(s) /\ Len(s) \in Nat
        /\ \A k \in 1 .. Len(s) : PartOf(s[k], v)
    BY SplitParts, LenProperties
  <2>3. IsFiniteSet(kept)
    <3>1. 1 \in Int /\ Len(s) \in Int
      <4> HIDE DEF kept, s
      <4> QED BY <2>2
    <3>4. IsFiniteSet(1 .. Len(s)) BY <3>1, FS_Interval
    <3>2. IsFiniteSet({s[k] : k \in 1 .. Len(s)}) BY <2>2, <3>4, FiniteImage
    <3>3. kept \in SUBSET {s[k] : k \in 1 .. Len(s)} BY <2>2 DEF ToSet
    <3> HIDE DEF kept, s
    <3> QED BY <3>2, <3>3, FS_Subset
  <2>4. \A f \in kept : PartOf(f, v) BY <2>2 DEF ToSet
  <2> HIDE DEF kept
  <2>5. \A f \in kept : PartOf(After(f, "="), v)
    <3> TAKE f \in kept
    <3>1. PartOf(f, v) BY <2>4
    <3>2. PartOf(After(f, "="), f) BY <3>1, CutInTwo DEF PartOf
    <3> QED BY <3>1, <3>2, PartsOfParts
  <2>6. {g[f] : f \in kept} = {After(f, "=") : f \in kept} /\ DOMAIN g = kept OBVIOUS
  <2> HIDE DEF g
  <2>7. IsFiniteSet({g[f] : f \in kept}) BY <2>3, <2>6, FiniteImage
  <2> QED BY <2>1, <2>5, <2>6, <2>7
<1>8. CASE /\ name \notin {"b3", "traceparent", "uber-trace-id", "x-amzn-trace-id"}
           /\ ~(name = "x-cloud-trace-context" /\ Has(v, "/"))
  <2>1. Components(name, v) = {} BY <1>8 DEF Components
  <2> QED BY <2>1, FS_EmptySet
<1> QED BY <1>3, <1>4, <1>5, <1>6, <1>7, <1>8

(* What a value of a trace header gives is finitely many parts of it, wide  *)
(* enough, itself among them if it is.                                      *)
LEMMA ValueParts ==
    ASSUME NEW v \in Plain, NEW name
    PROVE  /\ IsFiniteSet(TraceParts(name, v))
           /\ \A w \in TraceParts(name, v) : PartOf(w, v) /\ WideEnough(w)
           /\ WideEnough(v) => v \in TraceParts(name, v)
<1> DEFINE all == {v} \cup Components(name, v)
<1>1. IsFiniteSet(all) /\ \A w \in all : PartOf(w, v)
  <2>1. IsFiniteSet(Components(name, v)) /\ \A w \in Components(name, v) : PartOf(w, v)
    BY ComponentParts
  <2>2. IsFiniteSet(Components(name, v) \cup {v}) BY <2>1, FS_AddElement
  <2>3. all = Components(name, v) \cup {v} OBVIOUS
  <2> QED BY <2>1, <2>2, <2>3, PartsOfParts
<1>2. TraceParts(name, v) = {t \in all : WideEnough(t)} BY DEF TraceParts
<1>3. TraceParts(name, v) \in SUBSET all BY <1>2
<1>4. IsFiniteSet(TraceParts(name, v))
  <2> HIDE DEF all
  <2> QED BY <1>1, <1>3, FS_Subset
<1> QED BY <1>1, <1>2, <1>4

(* What headers carry.                                                      *)
LEMMA CarriedParts ==
    ASSUME NEW r, NEW h, IsFiniteSet(DOMAIN h), \A name \in DOMAIN h : h[name] \in Seq(Plain)
    PROVE  /\ IsFiniteSet(Carried(r, h))
           /\ \A w \in Carried(r, h) :
                 /\ w \in Plain /\ WideEnough(w)
                 /\ \E name \in DOMAIN h \cap r.trace : \E v \in ToSet(h[name]) : PartOf(w, v)
           /\ \A name \in DOMAIN h \cap r.trace : \A v \in ToSet(h[name]) :
                 WideEnough(v) => v \in Carried(r, h)
<1> DEFINE names == DOMAIN h \cap r.trace
           Of(name) == {TraceParts(name, v) : v \in ToSet(h[name])}
           All == {UNION Of(name) : name \in names}
<1>1. Carried(r, h) = UNION All BY DEF Carried
<1>2. IsFiniteSet(names) BY FS_Intersection
<1>3. ASSUME NEW name \in names
      PROVE  /\ IsFiniteSet(UNION Of(name))
             /\ \A v \in ToSet(h[name]) : v \in Plain
  <2> DEFINE V == ToSet(h[name])
             g == [v \in V |-> TraceParts(name, v)]
  <2>1. h[name] \in Seq(Plain) OBVIOUS
  <2>2. /\ Len(h[name]) \in Int /\ 1 \in Int /\ DOMAIN h[name] = 1 .. Len(h[name])
        /\ \A k \in 1 .. Len(h[name]) : h[name][k] \in Plain
    BY <2>1, LenProperties, ElementOfSeq
  <2>3. V = {h[name][k] : k \in 1 .. Len(h[name])} BY <2>2 DEF ToSet
  <2>4. IsFiniteSet(1 .. Len(h[name])) BY <2>2, FS_Interval
  <2>5. IsFiniteSet(V) BY <2>2, <2>3, <2>4, FiniteImage
  <2>6. \A v \in V : v \in Plain BY <2>2, <2>3
  <2> HIDE DEF V
  <2>7. Of(name) = {g[v] : v \in V} /\ DOMAIN g = V BY DEF V
  <2>8. \A T \in Of(name) : IsFiniteSet(T) BY <2>6, ValueParts DEF V
  <2> HIDE DEF g, Of
  <2>9. IsFiniteSet(Of(name)) BY <2>5, <2>7, FiniteImage
  <2> QED BY <2>6, <2>8, <2>9, FS_UNION DEF V
<1>4. IsFiniteSet(UNION All)
  <2> DEFINE g == [name \in names |-> UNION Of(name)]
  <2> HIDE DEF Of, names
  <2>1. All = {g[name] : name \in names} /\ DOMAIN g = names OBVIOUS
  <2>2. \A T \in All : IsFiniteSet(T) BY <1>3
  <2> HIDE DEF g, All
  <2>3. IsFiniteSet(All) BY <1>2, <2>1, FiniteImage
  <2> QED BY <2>2, <2>3, FS_UNION
<1>5. ASSUME NEW w \in UNION All
      PROVE  /\ w \in Plain /\ WideEnough(w)
             /\ \E name \in names : \E v \in ToSet(h[name]) : PartOf(w, v)
  <2>1. PICK name \in names : w \in UNION Of(name) OBVIOUS
  <2>2. PICK v \in ToSet(h[name]) : w \in TraceParts(name, v) BY <2>1
  <2>3. v \in Plain BY <1>3
  <2>4. PartOf(w, v) /\ WideEnough(w) BY <2>2, <2>3, ValueParts
  <2> QED BY <2>4 DEF PartOf
<1>6. ASSUME NEW name \in names, NEW v \in ToSet(h[name]), WideEnough(v) PROVE v \in UNION All
  <2>1. v \in TraceParts(name, v) BY <1>3, <1>6, ValueParts
  <2> QED BY <2>1
<1> HIDE DEF All
<1> QED BY <1>1, <1>4, <1>5, <1>6

FlatBy(X, seqs) ==
    \E flat \in [0 .. Len(seqs) -> Seq(X)] :
       /\ flat[0] = <<>>
       /\ \A k \in 1 .. Len(seqs) : flat[k] = flat[k - 1] \o seqs[k]
       /\ FlattenSeq(seqs) = flat[Len(seqs)]

(* FlattenSeq joins the sequences one after another.                        *)
LEMMA FlatSteps ==
    ASSUME NEW X, NEW seqs \in Seq(Seq(X))
    PROVE  FlatBy(X, seqs)
<1> DEFINE m == Len(seqs)
           Solves(g) == g = [i \in 1 .. m |-> IF i = 1 THEN seqs[i] ELSE g[i - 1] \o seqs[i]]
           flatten == CHOOSE g : Solves(g)
           step == [k \in Nat |-> [v \in Seq(X) |-> IF k \in 1 .. m THEN v \o seqs[k] ELSE v]]
<1>1. m \in Nat /\ <<>> \in Seq(X) /\ \A k \in 1 .. m : seqs[k] \in Seq(X)
  BY LenProperties, EmptySeq, ElementOfSeq
<1>2. FlattenSeq(seqs) = IF m = 0 THEN seqs ELSE flatten[m]
  BY Zenon DEF FlattenSeq, flatten, m
<1> HIDE DEF m
<1>3. \A k \in 1 .. m, v \in Seq(X) : v \o seqs[k] \in Seq(X) BY <1>1, ConcatProperties
<1>4. step \in [Nat -> [Seq(X) -> Seq(X)]] BY <1>3
<1>5. \A k \in 1 .. m, v \in Seq(X) : step[k][v] = v \o seqs[k] BY <1>1
<1> HIDE DEF step
<1>6. PICK f \in [0 .. m -> Seq(X)] :
         f[0] = <<>> /\ \A k \in 1 .. m : f[k] = step[k][f[k - 1]]
  <2>1. Solvable(Seq(X), <<>>, step, m) BY <1>1, <1>4, Recursion
  <2> QED BY <2>1 DEF Solvable, Unrolls
<1>7. \A k \in 1 .. m : f[k] = f[k - 1] \o seqs[k]
  <2>1. \A k \in 1 .. m : k - 1 \in 0 .. m BY <1>1
  <2> QED BY <1>5, <1>6, <2>1
<1>8. CASE m = 0
  <2>1. seqs = <<>> BY <1>8, EmptySeq DEF m
  <2>2. FlattenSeq(seqs) = f[m] BY <1>2, <1>6, <1>8, <2>1
  <2> QED BY <1>6, <1>7, <2>2 DEF FlatBy, m
<1>9. CASE m # 0
  <2> DEFINE h == [i \in 1 .. m |-> f[i]]
  <2>1. ASSUME NEW i \in 1 .. m
        PROVE  h[i] = IF i = 1 THEN seqs[i] ELSE h[i - 1] \o seqs[i]
    <3>1. h[i] = f[i - 1] \o seqs[i] BY <1>7
    <3>2. CASE i = 1
      <4>1. i - 1 = 0 BY <3>2
      <4>2. <<>> \o seqs[i] = seqs[i] BY <1>1, ConcatEmptySeq
      <4> QED BY <1>6, <3>1, <3>2, <4>1, <4>2
    <3>3. CASE i # 1
      <4>1. i - 1 \in 1 .. m BY <1>1, <3>3
      <4> QED BY <3>1, <3>3, <4>1
    <3> QED BY <3>2, <3>3
  <2>2. Solves(h)
    <3>1. h = [i \in 1 .. m |-> h[i]] OBVIOUS
    <3> HIDE DEF h
    <3> QED BY <2>1, <3>1
  <2>3. Solves(flatten)
    <3> HIDE DEF Solves
    <3> QED BY <2>2
  <2> HIDE DEF flatten
  <2>4. \A i \in 1 .. m : flatten[i] = IF i = 1 THEN seqs[i] ELSE flatten[i - 1] \o seqs[i]
    BY <2>3
  <2> DEFINE T == {n \in 0 .. m : n = 0 \/ flatten[n] = f[n]}
  <2>5. 0 \in T BY <1>1
  <2>6. ASSUME NEW n \in 1 .. m, n - 1 \in T PROVE n \in T
    <3>1. n \in 0 .. m BY <1>1
    <3>2. f[n] = h[n] OBVIOUS
    <3>3. CASE n = 1 BY <2>1, <2>4, <3>1, <3>2, <3>3
    <3>4. CASE n # 1
      <4>1. n - 1 \in 1 .. m /\ n - 1 # 0 BY <1>1, <3>4
      <4>2. flatten[n - 1] = f[n - 1] BY <2>6, <4>1
      <4>3. flatten[n] = flatten[n - 1] \o seqs[n] BY <2>4, <3>4
      <4> QED BY <1>7, <3>1, <4>2, <4>3
    <3> QED BY <3>3, <3>4
  <2>7. \A n \in 0 .. m : n \in T
    <3> HIDE DEF T
    <3> QED BY <1>1, <2>5, <2>6, Upward
  <2>8. flatten[m] = f[m]
    <3>1. m \in T BY <1>1, <2>7
    <3> QED BY <1>9, <3>1
  <2>9. FlattenSeq(seqs) = f[m] BY <1>2, <1>9, <2>8
  <2> QED BY <1>6, <1>7, <2>9 DEF FlatBy, m
<1> QED BY <1>8, <1>9

(* Joining is piecewise.                                                    *)
LEMMA FlatJoins ==
    ASSUME NEW X, NEW a \in Seq(Seq(X)), NEW b \in Seq(Seq(X))
    PROVE  /\ FlattenSeq(a) \in Seq(X)
           /\ FlattenSeq(a \o b) = FlattenSeq(a) \o FlattenSeq(b)
<1> DEFINE A == Len(a)
           B == Len(b)
           ab == a \o b
<1>1. PICK f \in [0 .. A -> Seq(X)] :
         /\ f[0] = <<>> /\ \A k \in 1 .. A : f[k] = f[k - 1] \o a[k]
         /\ FlattenSeq(a) = f[A]
  BY FlatSteps DEF FlatBy
<1>2. PICK g \in [0 .. B -> Seq(X)] :
         /\ g[0] = <<>> /\ \A k \in 1 .. B : g[k] = g[k - 1] \o b[k]
         /\ FlattenSeq(b) = g[B]
  BY FlatSteps DEF FlatBy
<1>3. /\ ab \in Seq(Seq(X)) /\ Len(ab) = A + B /\ A \in Nat /\ B \in Nat
      /\ \A i \in 1 .. A + B : ab[i] = IF i <= A THEN a[i] ELSE b[i - A]
      /\ \A k \in 1 .. B : b[k] \in Seq(X)
  BY ConcatProperties, LenProperties, ElementOfSeq
<1> HIDE DEF ab
<1>4. PICK h \in [0 .. A + B -> Seq(X)] :
         /\ h[0] = <<>> /\ \A k \in 1 .. A + B : h[k] = h[k - 1] \o ab[k]
         /\ FlattenSeq(ab) = h[A + B]
  <2>1. FlatBy(X, ab) BY <1>3, FlatSteps
  <2> QED BY <1>3, <2>1 DEF FlatBy
<1> HIDE DEF A, B
<1>5. h[A] = f[A]
  <2> DEFINE T == {n \in 0 .. A : h[n] = f[n]}
  <2>1. 0 \in T BY <1>1, <1>3, <1>4
  <2>2. ASSUME NEW n \in 1 .. A, n - 1 \in T PROVE n \in T
    <3>1. n \in 0 .. A /\ n \in 1 .. A + B /\ n <= A BY <1>3
    <3>2. ab[n] = a[n] BY <1>3, <3>1
    <3>3. h[n] = h[n - 1] \o ab[n] /\ f[n] = f[n - 1] \o a[n] BY <1>1, <1>4, <3>1
    <3>4. h[n - 1] = f[n - 1] BY <2>2
    <3> QED BY <3>1, <3>2, <3>3, <3>4
  <2>3. \A n \in 0 .. A : n \in T
    <3> HIDE DEF T
    <3> QED BY <1>3, <2>1, <2>2, Upward
  <2>4. A \in T BY <1>3, <2>3
  <2> QED BY <2>4
<1>6. f[A] \in Seq(X) BY <1>1, <1>3
<1>7. h[A + B] = f[A] \o g[B]
  <2> DEFINE T == {n \in 0 .. B : h[A + n] = f[A] \o g[n]}
  <2>1. 0 \in T
    <3>1. A + 0 = A /\ 0 \in 0 .. B BY <1>3
    <3>2. f[A] \o <<>> = f[A] BY <1>6, ConcatEmptySeq
    <3> QED BY <1>2, <1>5, <3>1, <3>2
  <2>2. ASSUME NEW n \in 1 .. B, n - 1 \in T PROVE n \in T
    <3> DEFINE x == A + n
    <3>1. /\ n \in 0 .. B /\ n - 1 \in 0 .. B /\ x \in 1 .. A + B
          /\ ~(x <= A) /\ x - A = n /\ x - 1 = A + (n - 1)
      BY <1>3
    <3> HIDE DEF x
    <3>2. ab[x] = b[n] /\ h[x] = h[x - 1] \o ab[x] BY <1>3, <1>4, <3>1
    <3>3. h[x - 1] = f[A] \o g[n - 1] BY <2>2, <3>1
    <3>4. g[n] = g[n - 1] \o b[n] /\ g[n - 1] \in Seq(X) BY <1>2, <3>1
    <3>5. (f[A] \o g[n - 1]) \o b[n] = f[A] \o (g[n - 1] \o b[n])
      <4> DEFINE p == f[A]
                 q == g[n - 1]
                 w == b[n]
      <4>1. p \in Seq(X) /\ q \in Seq(X) /\ w \in Seq(X) BY <1>3, <1>6, <3>4
      <4> HIDE DEF p, q, w
      <4>2. (p \o q) \o w = p \o (q \o w) BY <4>1, ConcatAssociative
      <4> QED BY <4>2 DEF p, q, w
    <3>6. h[x] = f[A] \o g[n] BY <3>2, <3>3, <3>4, <3>5
    <3> QED BY <3>1, <3>6 DEF x
  <2>3. \A n \in 0 .. B : n \in T
    <3> HIDE DEF T
    <3> QED BY <1>3, <2>1, <2>2, Upward
  <2>4. B \in T
    <3> HIDE DEF T
    <3>1. B \in 0 .. B BY <1>3
    <3> QED BY <2>3, <3>1
  <2> QED BY <2>4
<1> QED BY <1>1, <1>2, <1>4, <1>6, <1>7 DEF ab

(* The exchanges a recording may see.                                       *)
Seen(x) == \E i \in DOMAIN Exchanges : x \in Exchanges[i]

(* Their headers and other texts.                                           *)
LEMMA SeenTexts ==
    ASSUME NEW x, Seen(x)
    PROVE  /\ \A h \in {x.request, x.response} :
                 IsFiniteSet(DOMAIN h) /\ \A name \in DOMAIN h : h[name] \in Seq(Plain)
           /\ x.body \in Plain /\ x.answer \in Plain
           /\ x.uri.host \in Plain /\ x.uri.path \in Plain
           /\ x.uri.path = <<>> \/ x.uri.path[1] = Char("/")
           /\ x.uri.query \in Seq([name : DOMAIN WidthOf, value : Plain])
<1>1. PICK i \in DOMAIN Exchanges : x \in Exchanges[i] BY DEF Seen
<1>2. {x.body, x.answer, x.uri.host, x.uri.path} \subseteq Plain BY <1>1, ExchangesAssumption
<1> QED BY <1>1, <1>2, ExchangesAssumption

(* Finitely many texts are discovered in one, each wide enough to be        *)
(* looked for, and a value of a trace header is among them if it is.        *)
LEMMA DiscoveredTexts ==
    ASSUME NEW r, NEW x, Seen(x)
    PROVE  /\ IsFiniteSet(Discovered(r, x))
           /\ Discovered(r, x) \subseteq Sought
           /\ \A v \in Discovered(r, x) : WideEnough(v)
           /\ \A h \in {x.request, x.response} : \A name \in DOMAIN h \cap r.trace :
                 \A v \in ToSet(h[name]) : WideEnough(v) => v \in Discovered(r, x)
<1> DEFINE R == {x.request, x.response}
<1>1. \A h \in R : IsFiniteSet(DOMAIN h) /\ \A name \in DOMAIN h : h[name] \in Seq(Plain)
  BY SeenTexts
<1>2. \A h \in R : Carried(r, h) \subseteq Discovered(r, x) BY DEF Discovered
<1>3. \A v \in Discovered(r, x) : \E h \in R : v \in Carried(r, h) BY DEF Discovered
<1>4. IsFiniteSet(Discovered(r, x))
  <2>1. IsFiniteSet(Carried(r, x.request)) /\ IsFiniteSet(Carried(r, x.response))
    BY <1>1, CarriedParts
  <2> QED BY <2>1, FS_Union DEF Discovered
<1> HIDE DEF R
<1>5. \A v \in Discovered(r, x) : v \in Plain /\ WideEnough(v) BY <1>1, <1>3, CarriedParts
<1>6. Discovered(r, x) \subseteq Sought
  <2> SUFFICES ASSUME NEW v \in Discovered(r, x) PROVE v \in Sought OBVIOUS
  <2>1. v \in Plain /\ Width(v) \in Nat /\ Width(v) >= 8 /\ (v = <<>> => Width(v) = 0)
    BY <1>5, Widths DEF WideEnough
  <2> QED BY <2>1 DEF Sought
<1>7. \A h \in R : \A name \in DOMAIN h \cap r.trace :
         \A v \in ToSet(h[name]) : WideEnough(v) => v \in Discovered(r, x)
  BY <1>1, <1>2, CarriedParts
<1> QED BY <1>4, <1>5, <1>6, <1>7 DEF R

-----------------------------------------------------------------------------
(* What is recorded of a text                                               *)

(* What is looked for in it: the identifiers in their order, the secrets.   *)
Looked(r, order) == ToSet(order) \cup ToSet(r.secrets)

(* The marker of each identifier of an order has a number.                  *)
Numbering(order, repl) ==
    /\ order \in Seq(Sought)
    /\ \A k \in 1 .. Len(order) : repl[order[k]] \in Nat \ {0}

(* RedactString leaves no identifier and no secret in a text, and adds      *)
(* nothing but markers to it.                                               *)
RedactedAs(r, t, u, order, escaped) ==
    /\ u \in Seq(Written)
    /\ \A s \in Sought : ~Occurs(t, s) => ~Occurs(u, s)
    /\ \A s \in Looked(r, order) : ~Occurs(u, s) /\ (escaped => ~Occurs(u, QueryEscape(s)))
    /\ (\A s \in Looked(r, order) : ~Occurs(t, s) /\ (escaped => ~Occurs(t, QueryEscape(s))))
       => u = t

(* A text of a secret or an identifier, in either spelling, is one to look  *)
(* for.                                                                     *)
LEMMA LookedSought ==
    ASSUME NEW r \in RuleSets, NEW order \in Seq(Sought), NEW s \in Looked(r, order)
    PROVE  s \in Sought /\ QueryEscape(s) \in Sought
<1>1. r.secrets \in Seq(Sought) BY RulesAssumption DEF Sought
<1>2. \A f \in Seq(Sought) : \A x \in ToSet(f) : x \in Sought
  <2> SUFFICES ASSUME NEW f \in Seq(Sought), NEW x \in ToSet(f) PROVE x \in Sought
    OBVIOUS
  <2>1. DOMAIN f = 1 .. Len(f) /\ \A k \in 1 .. Len(f) : f[k] \in Sought
    BY LenProperties, ElementOfSeq
  <2> QED BY <2>1 DEF ToSet
<1>3. s \in Sought BY <1>1, <1>2 DEF Looked
<1> QED BY <1>3, Escaped DEF Sought

(* It is what the two passes over the text leave of it.                     *)
LEMMA RedactedTexts ==
    ASSUME NEW r \in RuleSets, NEW t \in Seq(Written), NEW order, NEW repl,
           Numbering(order, repl), NEW escaped \in BOOLEAN
    PROVE  RedactedAs(r, t, RedactString(r, t, order, repl, escaped), order, escaped)
<1> DEFINE w == Traced(t, order, repl, escaped)
           u == WithoutSecrets(r, w, escaped)
<1>1. order \in Seq(Sought) BY DEF Numbering
<1>2. Cleared(t, w, order, escaped) BY <1>1, TracedClears DEF Numbering
<1> HIDE DEF w
<1>3. w \in Seq(Written) BY <1>2 DEF Cleared
<1>4. Cleared(w, u, r.secrets, escaped) BY <1>3, SecretsClear
<1> HIDE DEF u
<1>5. \A s \in ToSet(order) : s \in Sought /\ QueryEscape(s) \in Sought
  BY <1>1, LookedSought DEF Looked
<1>6. /\ u \in Seq(Written)
      /\ \A s \in Sought : ~Occurs(t, s) => ~Occurs(u, s)
      /\ \A s \in Looked(r, order) : ~Occurs(u, s) /\ (escaped => ~Occurs(u, QueryEscape(s)))
  BY <1>2, <1>4, <1>5 DEF Cleared, Looked
<1>7. ASSUME \A s \in Looked(r, order) :
                ~Occurs(t, s) /\ (escaped => ~Occurs(t, QueryEscape(s)))
      PROVE  u = t
  <2>1. w = t BY <1>2, <1>7 DEF Cleared, Looked
  <2> QED BY <1>4, <1>7, <2>1 DEF Cleared, Looked
<1>8. u = RedactString(r, t, order, repl, escaped) BY DEF RedactString, u, w
<1> QED BY <1>6, <1>7, <1>8 DEF RedactedAs

(* With the replacements that follow, what the rules do not write is gone.  *)
LEMMA RewrittenTexts ==
    ASSUME NEW r \in RuleSets, NEW t \in Seq(Written), NEW order, NEW repl,
           Numbering(order, repl), NEW escaped \in BOOLEAN, NEW scope,
           NEW s \in Looked(r, order)
    PROVE  LET u == ApplyReplacements(r, RedactString(r, t, order, repl, escaped), scope)
           IN /\ Unwritten(r, s) => ~Occurs(u, s)
              /\ escaped /\ Unwritten(r, QueryEscape(s)) => ~Occurs(u, QueryEscape(s))
<1> DEFINE w == RedactString(r, t, order, repl, escaped)
<1>1. RedactedAs(r, t, w, order, escaped) BY RedactedTexts
<1> HIDE DEF w
<1>2. s \in Sought /\ QueryEscape(s) \in Sought BY LookedSought DEF Numbering
<1>3. w \in Seq(Written) BY <1>1 DEF RedactedAs
<1>4. ~Occurs(w, s) /\ (escaped => ~Occurs(w, QueryEscape(s))) BY <1>1 DEF RedactedAs
<1>5. Unwritten(r, s) => ~Occurs(ApplyReplacements(r, w, scope), s)
  BY <1>2, <1>3, <1>4, ReplacementsKeep
<1>6. escaped /\ Unwritten(r, QueryEscape(s))
      => ~Occurs(ApplyReplacements(r, w, scope), QueryEscape(s))
  BY <1>2, <1>3, <1>4, ReplacementsKeep
<1> QED BY <1>5, <1>6 DEF w

(* A marker holds nothing of what is looked for.                            *)
LEMMA MarkerHolds ==
    ASSUME NEW c \in Marks, NEW s \in Sought
    PROVE  ~Occurs(<<c>>, s)
<1>1. c \notin Symbols /\ s \in Seq(Symbols) /\ s # <<>> BY MarksDiffer DEF Sought, Plain
<1>2. 1 \in 1 .. Len(s) /\ s[1] \in Symbols /\ DOMAIN s = 1 .. Len(s)
  BY <1>1, EmptySeq, LenProperties, ElementOfSeq
<1>3. \A i \in 1 .. 1 : i + 1 - 1 = 1 OBVIOUS
<1>4. <<c>>[1] = c /\ DOMAIN <<c>> = 1 .. 1 OBVIOUS
<1>5. ASSUME NEW i \in 1 .. 1, StandsAt(<<c>>, i, s) PROVE FALSE
  <2>1. <<c>>[i + 1 - 1] = s[1] BY <1>2, <1>5 DEF StandsAt
  <2> QED BY <1>1, <1>2, <1>3, <1>4, <2>1
<1> QED BY <1>4, <1>5 DEF Occurs

-----------------------------------------------------------------------------
(* What is recorded of an exchange                                          *)

(* The values of a header hold nothing of what is looked for afterwards.    *)
LEMMA HeaderTexts ==
    ASSUME NEW r \in RuleSets, NEW name, NEW values \in Seq(Plain), NEW order, NEW repl,
           Numbering(order, repl), NEW s \in Looked(r, order), Unwritten(r, s),
           NEW t \in ToSet(ScrubHeader(r, name, values, order, repl))
    PROVE  ~Occurs(t, s)
<1> DEFINE redacted == [i \in DOMAIN values |-> RedactString(r, values[i], order, repl, FALSE)]
           h == ScrubHeader(r, name, values, order, repl)
<1>1. s \in Sought BY LookedSought DEF Numbering
<1>2. \A i \in DOMAIN values : values[i] \in Plain /\ values[i] \in Seq(Written)
  BY ElementOfSeq, LenProperties, PlainWritten
<1>3. PICK i \in DOMAIN h : t = h[i] BY DEF ToSet
<1>4. CASE IsCredential(r, name)
  <2>1. h = <<<<Redacted>>>> BY <1>4 DEF ScrubHeader
  <2>2. t = <<Redacted>> BY <1>3, <2>1
  <2> QED BY <1>1, <2>2, MarkerHolds DEF Marks
<1>5. CASE ~IsCredential(r, name) /\ name \in DOMAIN r.overrides
  <2>1. h = <<r.overrides[name]>> BY <1>5 DEF ScrubHeader
  <2>2. t = r.overrides[name] BY <1>3, <2>1
  <2> QED BY <1>5, <2>2 DEF Unwritten
<1>6. CASE ~IsCredential(r, name) /\ name \notin DOMAIN r.overrides /\ name \in r.trace
  <2>1. h = [k \in DOMAIN values |->
               IF redacted[k] = values[k] THEN <<TraceRedacted>> ELSE redacted[k]]
    BY <1>6 DEF ScrubHeader
  <2> HIDE DEF h
  <2>2. i \in DOMAIN values BY <1>3, <2>1
  <2>3. redacted[i] = RedactString(r, values[i], order, repl, FALSE) BY <2>2
  <2>4. RedactedAs(r, values[i], redacted[i], order, FALSE) BY <1>2, <2>2, <2>3, RedactedTexts
  <2>5. ~Occurs(redacted[i], s) BY <2>4 DEF RedactedAs
  <2>6. ~Occurs(<<TraceRedacted>>, s) BY <1>1, MarkerHolds DEF Marks
  <2> HIDE DEF redacted
  <2>7. t = <<TraceRedacted>> \/ t = redacted[i] BY <1>3, <2>1, <2>2
  <2> QED BY <2>5, <2>6, <2>7
<1>7. CASE ~IsCredential(r, name) /\ name \notin DOMAIN r.overrides /\ name \notin r.trace
  <2>1. h = [k \in DOMAIN values |-> ApplyReplacements(r, redacted[k], "header")]
    BY <1>7 DEF ScrubHeader
  <2> HIDE DEF h
  <2>2. i \in DOMAIN values BY <1>3, <2>1
  <2>3. t = ApplyReplacements(r, RedactString(r, values[i], order, repl, FALSE), "header")
    BY <1>3, <2>1, <2>2
  <2> QED BY <1>2, <2>2, <2>3, RewrittenTexts
<1> QED BY <1>4, <1>5, <1>6, <1>7

(* What is in no text of a copy, of the URI not escaped either.             *)
GoneFrom(r, c, s) ==
    /\ Unwritten(r, s) => \A t \in Texts(c) : ~Occurs(t, s)
    /\ Unwritten(r, QueryEscape(s)) => ~Occurs(c.uri, QueryEscape(s))

(* The host of a URI is followed by nothing or by an edge.                  *)
LEMMA Following ==
    ASSUME NEW r, NEW x, Seen(x)
    PROVE  LET rest == PathAndQuery(r, x.uri)
           IN /\ rest \in Seq(Written)
              /\ rest = <<>> \/ rest[1] \in Edges
<1> DEFINE q == x.uri.query
           path == x.uri.path
           blanked == {k \in DOMAIN q : q[k].name \in r.params}
           value(k) == IF k \in blanked THEN <<Redacted>>
                       ELSE IF blanked # {} THEN QueryEscape(q[k].value)
                       ELSE q[k].value
           name(k) == Text(<<IF k = 1 THEN "?" ELSE "&", q[k].name, "=">>)
           seqs == [k \in DOMAIN q |-> name(k) \o value(k)]
           rest == PathAndQuery(r, x.uri)
           m == Len(seqs)
<1>1. /\ q \in Seq([name : DOMAIN WidthOf, value : Plain]) /\ path \in Plain
      /\ path = <<>> \/ path[1] = Char("/")
  BY SeenTexts
<1>2. rest = path \o FlattenSeq(seqs) BY DEF PathAndQuery
<1> HIDE DEF rest, path
<1> HIDE DEF q
<1>3. /\ DOMAIN q = 1 .. Len(q) /\ Len(q) \in Nat
      /\ \A k \in 1 .. Len(q) : q[k].name \in DOMAIN WidthOf /\ q[k].value \in Plain
  <2>1. DOMAIN q = 1 .. Len(q) /\ Len(q) \in Nat BY <1>1, LenProperties
  <2>2. \A k \in 1 .. Len(q) : q[k] \in [name : DOMAIN WidthOf, value : Plain]
    BY <1>1, ElementOfSeq
  <2> QED BY <2>1, <2>2
<1>4. ASSUME NEW k \in DOMAIN q PROVE value(k) \in Seq(Written)
  <2>1. q[k].value \in Seq(Written) /\ QueryEscape(q[k].value) \in Seq(Written)
    BY <1>3, PlainWritten, Escaped
  <2>2. <<Redacted>> \in Seq(Written) BY DEF Written, Marks
  <2> QED BY <2>1, <2>2
<1> HIDE DEF value
<1>5. ASSUME NEW k \in DOMAIN q
      PROVE  /\ name(k) \in Seq(Written) /\ Len(name(k)) = 3
             /\ name(k)[1] = Char(IF k = 1 THEN "?" ELSE "&")
  <2> DEFINE first == IF k = 1 THEN "?" ELSE "&"
             t == <<first, q[k].name, "=">>
  <2>1. first \in DOMAIN WidthOf /\ q[k].name \in DOMAIN WidthOf /\ "=" \in DOMAIN WidthOf
    BY <1>3, TextsAssumption
  <2>2. t[1] = first /\ Len(t) = 3 /\ DOMAIN t = 1 .. 3 /\ \A i \in 1 .. 3 : t[i] \in DOMAIN WidthOf
    BY <2>1
  <2>3. name(k) = Text(t) OBVIOUS
  <2> HIDE DEF t, first
  <2>4. name(k) = [i \in 1 .. 3 |-> Char(t[i])] BY <2>2, <2>3 DEF Text
  <2>5. \A i \in 1 .. 3 : Char(t[i]) \in Written BY <2>2 DEF Written, Symbols
  <2> HIDE DEF name
  <2> QED BY <2>2, <2>4, <2>5 DEF first
<1> HIDE DEF name
<1>6. \A k \in DOMAIN q : seqs[k] \in Seq(Written) /\ Len(seqs[k]) \in Nat \ {0}
                          /\ seqs[k][1] = name(k)[1]
  <2> SUFFICES ASSUME NEW k \in DOMAIN q
               PROVE  LET u == name(k) \o value(k)
                      IN u \in Seq(Written) /\ Len(u) \in Nat \ {0} /\ u[1] = name(k)[1]
    OBVIOUS
  <2>1. Len(value(k)) \in Nat BY <1>4, LenProperties
  <2>2. 1 \in 1 .. 3 + Len(value(k)) BY <2>1
  <2> QED BY <1>4, <1>5, <2>1, <2>2, ConcatProperties
<1>7. seqs \in Seq(Seq(Written)) /\ m = Len(q) BY <1>3, <1>6
<1> HIDE DEF seqs
<1>8. PICK f \in [0 .. m -> Seq(Written)] :
         /\ f[0] = <<>> /\ \A k \in 1 .. m : f[k] = f[k - 1] \o seqs[k]
         /\ FlattenSeq(seqs) = f[m]
  BY <1>7, FlatSteps DEF FlatBy
<1>0. m \in Nat /\ DOMAIN q = 1 .. m BY <1>3, <1>7
<1> HIDE DEF m
<1>a. ASSUME NEW k \in 1 .. m
      PROVE  /\ Len(seqs[k]) \in Nat \ {0} /\ seqs[k] \in Seq(Written)
             /\ k = 1 => seqs[k][1] = Char("?")
  BY <1>0, <1>5, <1>6
<1> DEFINE Led(t) == Len(t) \in Nat \ {0} /\ t[1] = Char("?")
           T == {n \in 0 .. m : n = 0 \/ Led(f[n])}
<1>9. f[m] \in Seq(Written) /\ (f[m] = <<>> \/ f[m][1] = Char("?"))
  <2>1. 0 \in T BY <1>0
  <2>2. ASSUME NEW n \in 1 .. m, n - 1 \in T PROVE n \in T
    <3> DEFINE u == f[n - 1]
               v == seqs[n]
    <3>0. n \in 0 .. m /\ n - 1 \in 0 .. m BY <1>0
    <3>1. f[n] = u \o v BY <1>8
    <3>2. n = 1 => u = <<>>
      <4>1. n = 1 => n - 1 = 0 OBVIOUS
      <4> QED BY <1>8, <4>1
    <3>3. u \in Seq(Written) /\ v \in Seq(Written) /\ Len(v) \in Nat \ {0} BY <1>8, <1>a, <3>0
    <3>4. n = 1 => v[1] = Char("?") BY <1>a
    <3>5. n # 1 => Led(u) BY <2>2
    <3> HIDE DEF u, v, Led
    <3>6. Led(u \o v)
      <4>1. Len(u) \in Nat BY <3>3, LenProperties
      <4>2. Len(u \o v) = Len(u) + Len(v) BY <3>3, ConcatProperties
      <4>3. \A j \in 1 .. Len(u) + Len(v) :
               (u \o v)[j] = IF j <= Len(u) THEN u[j] ELSE v[j - Len(u)]
        BY <3>3, ConcatProperties
      <4>4. 1 \in 1 .. Len(u) + Len(v) BY <3>3, <4>1
      <4>5. CASE n = 1
        <5>1. Len(u) = 0 BY <3>2, <4>5
        <5> QED BY <3>3, <3>4, <4>2, <4>3, <4>4, <4>5, <5>1 DEF Led
      <4>6. CASE n # 1
        <5>1. Len(u) \in Nat \ {0} /\ u[1] = Char("?") BY <3>5, <4>6 DEF Led
        <5> QED BY <3>3, <4>2, <4>3, <4>4, <5>1 DEF Led
      <4> QED BY <4>5, <4>6
    <3> QED BY <3>0, <3>1, <3>6
  <2>3. \A n \in 0 .. m : n \in T
    <3> HIDE DEF T
    <3> QED BY <1>0, <2>1, <2>2, Upward
  <2>4. m \in T /\ m \in 0 .. m BY <1>0, <2>3
  <2> QED BY <1>0, <1>8, <2>4
<1> DEFINE w == FlattenSeq(seqs)
<1>10. path \in Seq(Written) /\ w \in Seq(Written) BY <1>1, <1>8, <1>9, PlainWritten
<1>11. w = <<>> \/ w[1] = Char("?") BY <1>8, <1>9
<1>12. rest = path \o w BY <1>2
<1> HIDE DEF w
<1>13. rest \in Seq(Written) BY <1>10, <1>12, ConcatProperties
<1>14. CASE path = <<>> BY <1>10, <1>11, <1>12, <1>13, <1>14, ConcatEmptySeq DEF Edges, rest
<1>15. CASE path # <<>>
  <2>1. Len(path) \in Nat \ {0} /\ Len(w) \in Nat BY <1>10, <1>15, LenProperties, EmptySeq
  <2>2. 1 \in 1 .. Len(path) + Len(w) /\ 1 <= Len(path) BY <2>1
  <2>3. rest[1] = path[1] BY <1>10, <1>12, <2>2, ConcatProperties
  <2> QED BY <1>1, <1>13, <1>15, <2>3 DEF Edges, rest
<1> QED BY <1>14, <1>15

(* The whole text of a URI.                                                 *)
Whole(r, u) == Text(<<"https://">>) \o u.host \o PathAndQuery(r, u)

(* It is the scheme, the host and what follows it.                          *)
LEMMA WholeText ==
    ASSUME NEW r, NEW x, Seen(x)
    PROVE  /\ Whole(r, x.uri) \in Seq(Written)
           /\ Char("https://") \in Written /\ x.uri.host \in Seq(Written)
           /\ PathAndQuery(r, x.uri) \in Seq(Written)
           /\ Whole(r, x.uri) = <<Char("https://")>> \o (x.uri.host \o PathAndQuery(r, x.uri))
           /\ Text(<<"https://">>) = <<Char("https://")>>
<1> DEFINE c == Char("https://")
           host == x.uri.host
           rest == PathAndQuery(r, x.uri)
<1>1. host \in Seq(Written) /\ rest \in Seq(Written) BY SeenTexts, PlainWritten, Following
<1>2. c \in Written BY TextsAssumption DEF Written, Symbols
<1>3. Text(<<"https://">>) = <<c>>
  <2>1. DOMAIN <<"https://">> = 1 .. 1 /\ \A i \in 1 .. 1 : <<"https://">>[i] = "https://" OBVIOUS
  <2>2. Text(<<"https://">>) = [i \in 1 .. 1 |-> c] BY <2>1 DEF Text
  <2>3. <<c>> = [i \in 1 .. 1 |-> c] OBVIOUS
  <2> QED BY <2>2, <2>3
<1>4. Whole(r, x.uri) = (<<c>> \o host) \o rest BY <1>3 DEF Whole
<1> HIDE DEF c, host, rest
<1>5. <<c>> \in Seq(Written) BY <1>2
<1>6. (<<c>> \o host) \o rest = <<c>> \o (host \o rest) BY <1>1, <1>5, ConcatAssociative
<1>7. (<<c>> \o host) \o rest \in Seq(Written) BY <1>1, <1>5, ConcatProperties
<1> QED BY <1>1, <1>2, <1>3, <1>4, <1>6, <1>7 DEF c, host, rest

(* The URI of a copy holds nothing of it in either spelling.                *)
LEMMA UriGone ==
    ASSUME NEW r \in RuleSets, NEW x, Seen(x), NEW order, NEW repl, Numbering(order, repl),
           NEW s \in Looked(r, order)
    PROVE  LET t == URI(r, x.uri, order, repl)
           IN /\ Unwritten(r, s) => ~Occurs(t, s)
              /\ Unwritten(r, QueryEscape(s)) => ~Occurs(t, QueryEscape(s))
<1>1. Whole(r, x.uri) \in Seq(Written) BY WholeText
<1>2. URI(r, x.uri, order, repl)
      = ApplyReplacements(r, RedactString(r, Whole(r, x.uri), order, repl, TRUE), "uri")
  BY DEF URI, Whole
<1> QED BY <1>1, <1>2, RewrittenTexts

(* So does no text of a copy.                                               *)
LEMMA CopyGone ==
    ASSUME NEW r \in RuleSets, NEW x, Seen(x), NEW order, NEW repl, Numbering(order, repl),
           NEW s \in Looked(r, order), NEW c, c = Scrub(r, x, order, repl)
    PROVE  GoneFrom(r, c, s)
<1>1. /\ c.request = Headers(r, x.request, order, repl)
      /\ c.response = Headers(r, x.response, order, repl)
      /\ c.uri = URI(r, x.uri, order, repl)
      /\ c.body = Bytes(r, x.body, order, repl) /\ c.answer = Bytes(r, x.answer, order, repl)
  BY DEF Scrub
<1>2. ASSUME NEW h \in {x.request, x.response}, NEW t \in Values(Headers(r, h, order, repl)),
             Unwritten(r, s)
      PROVE  ~Occurs(t, s)
  <2>1. PICK name \in DOMAIN h : t \in ToSet(ScrubHeader(r, name, h[name], order, repl))
    BY <1>2 DEF Values, Headers
  <2>2. h[name] \in Seq(Plain) BY SeenTexts
  <2> QED BY <1>2, <2>1, <2>2, HeaderTexts
<1>3. ASSUME NEW b \in {x.body, x.answer}, Unwritten(r, s)
      PROVE  ~Occurs(Bytes(r, b, order, repl), s)
  <2>1. b \in Seq(Written) BY SeenTexts, PlainWritten
  <2> QED BY <1>3, <2>1, RewrittenTexts DEF Bytes
<1>4. ASSUME NEW t \in Texts(c), Unwritten(r, s) PROVE ~Occurs(t, s)
  <2>1. CASE t \in Values(c.request) BY <1>1, <1>2, <1>4, <2>1
  <2>2. CASE t \in Values(c.response) BY <1>1, <1>2, <1>4, <2>2
  <2>3. CASE t = c.uri BY <1>1, <1>4, <2>3, UriGone
  <2>4. CASE t \in {c.body, c.answer} BY <1>1, <1>3, <1>4, <2>4
  <2> QED BY <2>1, <2>2, <2>3, <2>4 DEF Texts
<1>5. Unwritten(r, QueryEscape(s)) => ~Occurs(c.uri, QueryEscape(s)) BY <1>1, UriGone
<1> QED BY <1>4, <1>5 DEF GoneFrom

-----------------------------------------------------------------------------
(* The invariant                                                            *)

(* A finite set is listed without leaving out or repeating an element.      *)
LEMMA Listing ==
    ASSUME NEW D, IsFiniteSet(D)
    PROVE  /\ Cardinality(D) \in Nat /\ Len(SetToSeq(D)) = Cardinality(D)
           /\ SetToSeq(D) \in [1 .. Cardinality(D) -> D]
           /\ \A k, l \in 1 .. Cardinality(D) : SetToSeq(D)[k] = SetToSeq(D)[l] => k = l
           /\ \A v \in D : \E k \in 1 .. Cardinality(D) : SetToSeq(D)[k] = v
<1> DEFINE n == Cardinality(D)
           f == SetToSeq(D)
<1>1. n \in Nat /\ ExistsBijection(1 .. n, D) BY FS_CardinalityType
<1>2. \E g \in [1 .. n -> D] : IsInjective(g)
  BY <1>1 DEF ExistsBijection, Bijection, Injection
<1>3. f \in [1 .. n -> D] /\ IsInjective(f) BY <1>2 DEF SetToSeq
<1>4. IsFiniteSet(1 .. n) /\ Cardinality(1 .. n) = n BY <1>1, FS_Interval
<1>5. f \in Surjection(1 .. n, D) BY <1>3, <1>4, FS_Injection DEF Injection
<1>6. Len(f) = n BY <1>1, <1>3
<1>7. \A k, l \in 1 .. n : f[k] = f[l] => k = l BY <1>3 DEF IsInjective
<1>8. \A v \in D : \E k \in 1 .. n : f[k] = v BY <1>5 DEF Surjection
<1> QED BY <1>1, <1>3, <1>6, <1>7, <1>8

(* The order of an exchange has each of its values once.                    *)
LEMMA OrderLists ==
    ASSUME NEW D, IsFiniteSet(D), D \subseteq Sought, NEW order \in LongestFirst(D)
    PROVE  /\ order \in Seq(Sought) /\ DOMAIN order = 1 .. Len(order) /\ Len(order) \in Nat
           /\ ToSet(order) = D
           /\ \A k, l \in 1 .. Len(order) : order[k] = order[l] => k = l
           /\ \A k, l \in 1 .. Len(order) : k < l => Width(order[k]) >= Width(order[l])
<1> DEFINE n == Cardinality(D)
<1>1. /\ order \in [1 .. n -> D] /\ \A k, l \in 1 .. n : k # l => order[k] # order[l]
      /\ \A k, l \in DOMAIN order : k < l => Width(order[k]) >= Width(order[l])
  BY DEF LongestFirst, SetToSeqs
<1>2. n \in Nat /\ IsFiniteSet(1 .. n) /\ Cardinality(1 .. n) = n
  BY FS_CardinalityType, FS_Interval
<1>3. order \in Injection(1 .. n, D) BY <1>1 DEF Injection, IsInjective
<1>4. order \in Surjection(1 .. n, D) BY <1>2, <1>3, FS_Injection
<1>5. Len(order) = n /\ DOMAIN order = 1 .. n BY <1>1, <1>2
<1>6. ToSet(order) = D BY <1>1, <1>4, <1>5 DEF ToSet, Surjection
<1>7. order \in Seq(Sought) BY <1>1, <1>2
<1> QED BY <1>1, <1>2, <1>5, <1>6, <1>7

(* What is kept of an exchange is its scrubbed copy, by an order of the     *)
(* identifiers discovered in it, each of which has a number.                *)
Kept(r, table, e) ==
    /\ Discovered(r, e.of) \subseteq DOMAIN table
    /\ \E order \in LongestFirst(Discovered(r, e.of)) :
          e.copy = Scrub(r, e.of, order, [v \in Discovered(r, e.of) |-> table[v]])

(* Each number up to nextTrace is that of one text.                         *)
Numbers(table, n) == IsInjective(table) /\ ToSet(table) = 1 .. n

IInv ==
    /\ rules \in RuleSets
    /\ nextTrace \in Nat
    /\ Numbers(traceValues, nextTrace)
    /\ log \in Seq(ToSet(log)) /\ Len(log) <= Len(Exchanges)
    /\ \A i \in 1 .. Len(log) : log[i].of \in Exchanges[i] /\ Kept(rules, traceValues, log[i])

(* What is written in place of texts that have no number yet.               *)
NextTokens(news, n) ==
    [v \in news |-> n + CHOOSE k \in 1 .. Len(SetToSeq(news)) : SetToSeq(news)[k] = v]

Numbered(table, n, news, both) ==
    /\ Len(SetToSeq(news)) \in Nat
    /\ DOMAIN both = news \cup DOMAIN table
    /\ \A v \in DOMAIN table : both[v] = table[v]
    /\ Numbers(both, n + Len(SetToSeq(news)))

(* The texts that have no number yet are given the next ones, one each.     *)
LEMMA NextNumbers ==
    ASSUME NEW table, NEW n \in Nat, Numbers(table, n), NEW news, IsFiniteSet(news),
           news \cap DOMAIN table = {},
           NEW tokens, tokens = NextTokens(news, n),
           NEW both, both = [v \in news \cup DOMAIN table |->
                                IF v \in news THEN tokens[v] ELSE table[v]]
    PROVE  Numbered(table, n, news, both)
<1> DEFINE m == Len(SetToSeq(news))
           rank(v) == CHOOSE k \in 1 .. m : SetToSeq(news)[k] = v
<1>1. /\ m \in Nat /\ \A k \in 1 .. m : SetToSeq(news)[k] \in news
      /\ \A k, l \in 1 .. m : SetToSeq(news)[k] = SetToSeq(news)[l] => k = l
      /\ \A v \in news : \E k \in 1 .. m : SetToSeq(news)[k] = v
  BY Listing
<1>2. \A v \in news : rank(v) \in 1 .. m /\ SetToSeq(news)[rank(v)] = v BY <1>1
<1>3. \A k \in 1 .. m : \E v \in news : rank(v) = k BY <1>1, <1>2
<1>4. tokens = [v \in news |-> n + rank(v)] BY DEF NextTokens
<1> HIDE DEF rank, m
<1>5. /\ DOMAIN both = news \cup DOMAIN table
      /\ \A v \in news : both[v] = n + rank(v)
      /\ \A v \in DOMAIN table : both[v] = table[v]
  BY <1>4
<1>6. \A v \in DOMAIN table : table[v] \in 1 .. n BY DEF Numbers, ToSet
<1>7. IsInjective(both)
  <2> SUFFICES ASSUME NEW v \in DOMAIN both, NEW w \in DOMAIN both, both[v] = both[w]
               PROVE  v = w
    BY DEF IsInjective
  <2>1. CASE v \in news /\ w \in news
    <3>1. rank(v) = rank(w) BY <1>1, <1>2, <1>5, <2>1
    <3> QED BY <1>2, <2>1, <3>1
  <2>2. CASE v \in DOMAIN table /\ w \in DOMAIN table
    BY <1>5, <2>2 DEF Numbers, IsInjective
  <2>3. ASSUME NEW x \in news, NEW y \in DOMAIN table PROVE both[x] # both[y]
    <3>1. both[x] = n + rank(x) /\ rank(x) \in 1 .. m /\ both[y] \in 1 .. n
      BY <1>2, <1>5, <1>6
    <3> QED BY <1>1, <3>1
  <2> QED BY <1>5, <2>1, <2>2, <2>3
<1>8. ToSet(both) = 1 .. n + m
  <2>1. ASSUME NEW v \in DOMAIN both PROVE both[v] \in 1 .. n + m
    <3>1. CASE v \in news
      <4>1. both[v] = n + rank(v) /\ rank(v) \in 1 .. m BY <1>2, <1>5, <3>1
      <4> QED BY <1>1, <4>1
    <3>2. CASE v \in DOMAIN table
      <4>1. both[v] \in 1 .. n BY <1>5, <1>6, <3>2
      <4> QED BY <1>1, <4>1
    <3> QED BY <1>5, <3>1, <3>2
  <2>2. ASSUME NEW k \in 1 .. n + m PROVE \E v \in DOMAIN both : both[v] = k
    <3>1. CASE k \in 1 .. n
      <4>1. PICK v \in DOMAIN table : table[v] = k BY <3>1 DEF Numbers, ToSet
      <4> QED BY <1>5, <4>1
    <3>2. CASE k \notin 1 .. n
      <4>1. k - n \in 1 .. m BY <1>1, <3>2
      <4>2. PICK v \in news : rank(v) = k - n BY <1>3, <4>1
      <4>3. both[v] = k BY <1>5, <4>2
      <4> QED BY <1>5, <4>3
    <3> QED BY <3>1, <3>2
  <2>3. ToSet(both) = {both[v] : v \in DOMAIN both} BY Zenon DEF ToSet
  <2> DEFINE B == 1 .. n + m
  <2>4. \A v \in DOMAIN both : both[v] \in B BY <2>1
  <2>5. \A k \in B : \E v \in DOMAIN both : both[v] = k BY <2>2
  <2> HIDE DEF B
  <2>6. {both[v] : v \in DOMAIN both} = B
    <3> DEFINE A == {both[v] : v \in DOMAIN both}
    <3>1. \A k \in A : k \in B BY <2>4
    <3>2. \A k \in B : k \in A BY <2>5
    <3> HIDE DEF A
    <3>3. A = B BY <3>1, <3>2
    <3> QED BY <3>3 DEF A
  <2> QED BY <2>3, <2>6 DEF B
<1> QED BY <1>1, <1>5, <1>7, <1>8 DEF Numbered, Numbers, m

(* The invariant holds.                                                     *)
THEOREM Invariance == Spec => []IInv
<1>1. Init => IInv
  <2> SUFFICES ASSUME Init PROVE IInv OBVIOUS
  <2> USE DEF Init
  <2>1. 0 \in Nat /\ rules \in RuleSets /\ nextTrace \in Nat OBVIOUS
  <2>2. Numbers(traceValues, nextTrace)
    <3>1. IsInjective(traceValues) BY DEF IsInjective
    <3>2. ToSet(traceValues) = {} BY DEF ToSet
    <3> QED BY <3>1, <3>2 DEF Numbers
  <2>3. log \in Seq(ToSet(log)) /\ Len(log) = 0 BY EmptySeq
  <2>4. Len(log) <= Len(Exchanges) BY <2>3, ExchangesAssumption
  <2> QED BY <2>1, <2>2, <2>3, <2>4 DEF IInv
<1>2. ASSUME IInv, Next PROVE IInv'
  <2> USE <1>2
  <2>1. PICK x \in Exchanges[Len(log) + 1] : Record(x) /\ Len(log) < Len(Exchanges) BY DEF Next
  <2> DEFINE D == Discovered(rules, x)
             news == D \ DOMAIN traceValues
             tokens == NewTokens(news)
             table == [v \in news \cup DOMAIN traceValues |->
                          IF v \in news THEN tokens[v] ELSE traceValues[v]]
  <2>2. PICK order \in LongestFirst(D) :
           /\ traceValues' = table /\ nextTrace' = nextTrace + Len(SetToSeq(news))
           /\ rules' = rules
           /\ log' = Append(log, [of |-> x,
                                  copy |-> Scrub(rules, x, order, [v \in D |-> table[v]])])
    BY <2>1 DEF Record
  <2>3. /\ Len(log) \in Nat /\ Len(log) + 1 \in DOMAIN Exchanges /\ Seen(x)
        /\ Len(log) + 1 <= Len(Exchanges)
    <3>1. Len(log) \in Nat BY LenProperties DEF IInv
    <3>2. Len(Exchanges) \in Nat /\ DOMAIN Exchanges = 1 .. Len(Exchanges)
      BY ExchangesAssumption
    <3>3. Len(log) + 1 \in DOMAIN Exchanges BY <2>1, <3>1, <3>2
    <3> QED BY <2>1, <3>1, <3>2, <3>3 DEF Seen
  <2>4. IsFiniteSet(news)
    <3>1. IsFiniteSet(D) /\ news \in SUBSET D BY <2>3, DiscoveredTexts
    <3> HIDE DEF news, D
    <3> QED BY <3>1, FS_Subset
  <2>5. tokens = NextTokens(news, nextTrace) BY DEF NewTokens, NextTokens
  <2>6. news \cap DOMAIN traceValues = {} OBVIOUS
  <2>7. D \subseteq news \cup DOMAIN traceValues OBVIOUS
  <2> HIDE DEF news, tokens, D
  <2>b. table = [v \in news \cup DOMAIN traceValues |->
                    IF v \in news THEN tokens[v] ELSE traceValues[v]]
    OBVIOUS
  <2> HIDE DEF table
  <2>8. /\ Len(SetToSeq(news)) \in Nat
        /\ DOMAIN table = news \cup DOMAIN traceValues
        /\ \A v \in DOMAIN traceValues : table[v] = traceValues[v]
        /\ Numbers(table, nextTrace + Len(SetToSeq(news)))
    <3>1. Numbers(traceValues, nextTrace) /\ nextTrace \in Nat BY DEF IInv
    <3>2. Numbered(traceValues, nextTrace, news, table)
      BY <2>4, <2>5, <2>6, <2>b, <3>1, NextNumbers
    <3> QED BY <3>2 DEF Numbered
  <2> DEFINE e == [of |-> x, copy |-> Scrub(rules, x, order, [v \in D |-> table[v]])]
  <2>9. Kept(rules, table, e) BY <2>2, <2>7, <2>8 DEF Kept, D
  <2>10. ASSUME NEW i \in 1 .. Len(log) PROVE Kept(rules, table, log[i])
    <3> DEFINE Di == Discovered(rules, log[i].of)
    <3>1. Di \subseteq DOMAIN traceValues BY DEF IInv, Kept
    <3>2. PICK o \in LongestFirst(Di) :
             log[i].copy = Scrub(rules, log[i].of, o, [v \in Di |-> traceValues[v]])
      BY DEF IInv, Kept
    <3>3. [v \in Di |-> traceValues[v]] = [v \in Di |-> table[v]]
      <4> HIDE DEF Di
      <4> QED BY <2>8, <3>1
    <3> QED BY <2>8, <3>1, <3>2, <3>3 DEF Kept
  <2>11. e.of = x OBVIOUS
  <2>12. log' = Append(log, e) BY <2>2
  <2> HIDE DEF e
  <2>13. /\ log' \in Seq(ToSet(log')) /\ Len(log') = Len(log) + 1
         /\ \A i \in 1 .. Len(log') : log'[i] = IF i <= Len(log) THEN log[i] ELSE e
    <3> DEFINE V == ToSet(log) \cup {e}
    <3>1. log \in Seq(V) /\ e \in V
      <4>1. log \in Seq(ToSet(log)) /\ ToSet(log) \subseteq V BY DEF IInv
      <4> QED BY <4>1, SeqMonotonic
    <3> HIDE DEF V
    <3>2. /\ log' \in Seq(V) /\ Len(log') = Len(log) + 1
          /\ \A i \in 1 .. Len(log') : log'[i] = IF i <= Len(log) THEN log[i] ELSE e
      BY <2>3, <2>12, <3>1
    <3>3. DOMAIN log' = 1 .. Len(log') /\ Len(log') \in Nat BY <3>2, LenProperties
    <3>4. log' = [i \in 1 .. Len(log') |-> log'[i]] BY <3>2, <3>3
    <3>5. log' \in Seq(ToSet(log'))
      <4>1. \A i \in 1 .. Len(log') : log'[i] \in ToSet(log') BY <3>3 DEF ToSet
      <4> QED BY <3>3, <3>4, <4>1
    <3> QED BY <3>2, <3>5
  <2>14. ASSUME NEW i \in 1 .. Len(log')
         PROVE  log'[i].of \in Exchanges[i] /\ Kept(rules, table, log'[i])
    <3>1. CASE i <= Len(log)
      <4>1. i \in 1 .. Len(log) /\ log'[i] = log[i] BY <2>3, <2>13, <3>1
      <4> QED BY <2>10, <4>1 DEF IInv
    <3>2. CASE ~(i <= Len(log))
      <4>1. i = Len(log) + 1 /\ log'[i] = e BY <2>3, <2>13, <3>2
      <4> QED BY <2>1, <2>9, <2>11, <4>1
    <3> QED BY <3>1, <3>2
  <2>15. nextTrace' \in Nat /\ Len(log') <= Len(Exchanges) /\ rules' \in RuleSets
    BY <2>2, <2>3, <2>8, <2>13 DEF IInv
  <2>16. Numbers(traceValues', nextTrace') BY <2>2, <2>8
  <2>17. \A i \in 1 .. Len(log') :
            log'[i].of \in Exchanges[i] /\ Kept(rules', traceValues', log'[i])
    BY <2>2, <2>14
  <2> QED BY <2>13, <2>15, <2>16, <2>17 DEF IInv
<1>3. ASSUME IInv, UNCHANGED vars PROVE IInv' BY <1>3 DEF IInv, vars
<1> QED BY <1>1, <1>2, <1>3, PTL DEF Spec

(* The trace identifiers of a recording are numbered from one on without a  *)
(* gap, no number stands for two of them, and each exchange kept is one     *)
(* that was seen in its turn.                                               *)
THEOREM TypeCorrect == Spec => []TypeOK
<1>1. IInv => TypeOK
  <2> SUFFICES ASSUME IInv PROVE TypeOK OBVIOUS
  <2>1. DOMAIN log = 1 .. Len(log) BY LenProperties DEF IInv
  <2> QED BY <2>1 DEF IInv, TypeOK, Numbers
<1> QED BY <1>1, Invariance, PTL

-----------------------------------------------------------------------------
(* What a recording keeps                                                   *)

(* A copy is scrubbed by an order of the identifiers of its exchange, the   *)
(* wider ones first, each with its number in the table.                     *)
Widest(order) ==
    \A k, l \in 1 .. Len(order) : k < l => Width(order[k]) >= Width(order[l])

Ordered(r, x, order) == ToSet(order) = Discovered(r, x) /\ Widest(order)

Copied(r, table, x, c) ==
    \E order, repl :
       /\ Numbering(order, repl) /\ Ordered(r, x, order)
       /\ \A v \in ToSet(order) : v \in DOMAIN table /\ repl[v] = table[v]
       /\ c = Scrub(r, x, order, repl)

(* So is every copy of the log.                                             *)
LEMMA CopiesKept ==
    ASSUME IInv, NEW i \in DOMAIN log
    PROVE  /\ rules \in RuleSets /\ Seen(log[i].of)
           /\ Copied(rules, traceValues, log[i].of, log[i].copy)
<1> DEFINE x == log[i].of
           D == Discovered(rules, x)
<1>1. i \in 1 .. Len(log) /\ Len(log) <= Len(Exchanges) /\ Len(log) \in Nat
  BY LenProperties DEF IInv
<1>2. rules \in RuleSets /\ x \in Exchanges[i] /\ Kept(rules, traceValues, log[i])
  BY <1>1 DEF IInv
<1>3. Seen(x)
  <2>1. i \in DOMAIN Exchanges BY <1>1, ExchangesAssumption
  <2> QED BY <1>2, <2>1 DEF Seen
<1>4. PICK order \in LongestFirst(D) :
         log[i].copy = Scrub(rules, x, order, [v \in D |-> traceValues[v]])
  BY <1>2 DEF Kept
<1>5. D \subseteq DOMAIN traceValues BY <1>2 DEF Kept
<1>6. IsFiniteSet(D) /\ D \subseteq Sought BY <1>3, DiscoveredTexts
<1> DEFINE repl == [v \in D |-> traceValues[v]]
<1> HIDE DEF D, x
<1>7. /\ order \in Seq(Sought) /\ DOMAIN order = 1 .. Len(order) /\ ToSet(order) = D
      /\ \A k, l \in 1 .. Len(order) : k < l => Width(order[k]) >= Width(order[l])
  BY <1>6, OrderLists
<1>8. \A v \in D : repl[v] = traceValues[v] /\ traceValues[v] \in Nat \ {0}
  <2>1. \A v \in DOMAIN traceValues : traceValues[v] \in 1 .. nextTrace
    BY DEF IInv, Numbers, ToSet
  <2>2. nextTrace \in Nat BY DEF IInv
  <2> QED BY <1>5, <2>1, <2>2
<1> HIDE DEF repl
<1>9. Numbering(order, repl)
  <2>1. \A k \in 1 .. Len(order) : order[k] \in D BY <1>7 DEF ToSet
  <2> QED BY <1>7, <1>8, <2>1 DEF Numbering
<1>10. Copied(rules, traceValues, x, log[i].copy)
  <2>1. log[i].copy = Scrub(rules, x, order, repl) BY <1>4 DEF repl
  <2>2. Ordered(rules, x, order) BY <1>7 DEF Ordered, Widest, D
  <2> QED BY <1>5, <1>7, <1>8, <1>9, <2>1, <2>2 DEF Copied
<1> QED BY <1>2, <1>3, <1>10 DEF x

(* The rules do not write a secret, nor a part of one at the end of a text  *)
(* that the rest could stand beside, in either spelling.                    *)
SecretsUnwritten ==
    \A s \in ToSet(rules.secrets) : Unwritten(rules, s) /\ Unwritten(rules, QueryEscape(s))

(* Then a recording has no secret, nor has its provenance: neither in the   *)
(* spelling it was registered with nor, in a URI, escaped.                  *)
THEOREM Secrets == Spec => [](SecretsUnwritten => SecretsGone)
<1>1. IInv => (SecretsUnwritten => SecretsGone)
  <2> SUFFICES ASSUME IInv, SecretsUnwritten, NEW i \in DOMAIN log, NEW s \in ToSet(rules.secrets)
               PROVE  /\ ~Occurs(ScrubEndpoint(rules, log[i].of.uri.host), s)
                      /\ \A t \in Texts(log[i].copy) : ~Occurs(t, s)
                      /\ ~Occurs(log[i].copy.uri, QueryEscape(s))
    BY DEF SecretsGone
  <2>1. /\ rules \in RuleSets /\ Seen(log[i].of)
        /\ Copied(rules, traceValues, log[i].of, log[i].copy)
    BY CopiesKept
  <2>2. PICK order, repl : /\ Numbering(order, repl)
                           /\ log[i].copy = Scrub(rules, log[i].of, order, repl)
    BY <2>1 DEF Copied
  <2>3. s \in Looked(rules, order) /\ s \in Looked(rules, <<>>) BY DEF Looked
  <2>4. Unwritten(rules, s) /\ Unwritten(rules, QueryEscape(s)) BY DEF SecretsUnwritten
  <2>5. GoneFrom(rules, log[i].copy, s) BY <2>1, <2>2, <2>3, CopyGone
  <2>6. ~Occurs(ScrubEndpoint(rules, log[i].of.uri.host), s)
    <3>1. log[i].of.uri.host \in Seq(Written) BY <2>1, SeenTexts, PlainWritten
    <3> DEFINE none == [v \in {} |-> 0]
    <3>2. Numbering(<<>>, none) BY EmptySeq DEF Numbering
    <3> HIDE DEF none
    <3>3. ~Occurs(ApplyReplacements(rules,
                     RedactString(rules, log[i].of.uri.host, <<>>, none, FALSE), "uri"), s)
      BY <2>1, <2>3, <2>4, <3>1, <3>2, RewrittenTexts
    <3> QED BY <3>3 DEF ScrubEndpoint, none
  <2> QED BY <2>4, <2>5, <2>6 DEF GoneFrom
<1> QED BY <1>1, Invariance, PTL

(* The rules do not write an identifier of an exchange kept.                *)
IdentifiersUnwritten ==
    \A i \in DOMAIN log : \A v \in Discovered(rules, log[i].of) :
       Unwritten(rules, v) /\ Unwritten(rules, QueryEscape(v))

(* Then no copy has an identifier that the headers of its exchange carried, *)
(* nor a component of one.                                                  *)
THEOREM Identifiers == Spec => [](IdentifiersUnwritten => DiscoveredGone)
<1>1. IInv => (IdentifiersUnwritten => DiscoveredGone)
  <2> SUFFICES ASSUME IInv, IdentifiersUnwritten, NEW i \in DOMAIN log,
                      NEW v \in Discovered(rules, log[i].of)
               PROVE  /\ \A t \in Texts(log[i].copy) : ~Occurs(t, v)
                      /\ ~Occurs(log[i].copy.uri, QueryEscape(v))
    BY DEF DiscoveredGone
  <2>1. /\ rules \in RuleSets /\ Seen(log[i].of)
        /\ Copied(rules, traceValues, log[i].of, log[i].copy)
    BY CopiesKept
  <2>2. PICK order, repl : /\ Numbering(order, repl) /\ Ordered(rules, log[i].of, order)
                           /\ log[i].copy = Scrub(rules, log[i].of, order, repl)
    BY <2>1 DEF Copied
  <2>3. v \in Looked(rules, order) BY <2>2 DEF Looked, Ordered
  <2>4. Unwritten(rules, v) /\ Unwritten(rules, QueryEscape(v)) BY DEF IdentifiersUnwritten
  <2>5. GoneFrom(rules, log[i].copy, v) BY <2>1, <2>2, <2>3, CopyGone
  <2> QED BY <2>4, <2>5 DEF GoneFrom
<1> QED BY <1>1, Invariance, PTL

(* Short identifiers corrupt nothing: a body without a secret is recorded   *)
(* as it was when no identifier of its exchange has eight bytes.            *)
THEOREM ShortIds == Spec => []ShortIdsStay
<1>1. IInv => ShortIdsStay
  <2> SUFFICES ASSUME IInv, NEW i \in DOMAIN log, NEW x, x = log[i].of,
                      NEW ids, ids = UNION {Values([n \in DOMAIN h \cap rules.trace |-> h[n]]) :
                                               h \in {x.request, x.response}},
                      \A t \in ids : Width(t) < 8,
                      \A s \in ToSet(rules.secrets) : ~Occurs(x.answer, s),
                      rules.replacements = <<>>
               PROVE  log[i].copy.answer = x.answer
    BY DEF ShortIdsStay
  <2>1. rules \in RuleSets /\ Seen(x) /\ Copied(rules, traceValues, x, log[i].copy)
    BY CopiesKept
  <2>2. PICK order, repl : /\ Numbering(order, repl) /\ Ordered(rules, x, order)
                           /\ log[i].copy = Scrub(rules, x, order, repl)
    BY <2>1 DEF Copied
  <2>3. Discovered(rules, x) = {}
    <3> SUFFICES ASSUME NEW w \in Discovered(rules, x) PROVE FALSE OBVIOUS
    <3>1. PICK h \in {x.request, x.response} : w \in Carried(rules, h) BY DEF Discovered
    <3>2. IsFiniteSet(DOMAIN h) /\ \A name \in DOMAIN h : h[name] \in Seq(Plain)
      BY <2>1, SeenTexts
    <3>3. /\ WideEnough(w)
          /\ \E name \in DOMAIN h \cap rules.trace : \E v \in ToSet(h[name]) : PartOf(w, v)
      BY <3>1, <3>2, CarriedParts
    <3>a. PICK name \in DOMAIN h \cap rules.trace : \E v \in ToSet(h[name]) : PartOf(w, v)
      BY <3>3
    <3>4. PICK v \in ToSet(h[name]) : PartOf(w, v) BY <3>a
    <3> DEFINE g == [n \in DOMAIN h \cap rules.trace |-> h[n]]
    <3>5. v \in Values(g)
      <4>1. name \in DOMAIN g /\ v \in ToSet(g[name]) BY <3>4
      <4> QED BY <4>1 DEF Values
    <3>6. v \in ids BY <3>5
    <3>7. v \in Plain
      <4>1. h[name] \in Seq(Plain) BY <3>2, <3>4
      <4> QED BY <4>1, <3>4, LenProperties, ElementOfSeq DEF ToSet
    <3>8. w \in Plain /\ Width(w) <= Width(v) /\ Width(v) < 8 /\ Width(w) >= 8
      BY <3>3, <3>4, <3>6 DEF PartOf, WideEnough
    <3>9. Width(v) \in Nat /\ Width(w) \in Nat BY <3>7, <3>8, Widths
    <3> QED BY <3>8, <3>9
  <2> DEFINE u == RedactString(rules, x.answer, order, repl, FALSE)
  <2>4. u = x.answer
    <3>1. x.answer \in Seq(Written) BY <2>1, SeenTexts, PlainWritten
    <3>2. RedactedAs(rules, x.answer, u, order, FALSE) BY <2>1, <2>2, <3>1, RedactedTexts
    <3>3. Looked(rules, order) = ToSet(rules.secrets) BY <2>2, <2>3 DEF Looked, Ordered
    <3> HIDE DEF u
    <3> QED BY <3>2, <3>3 DEF RedactedAs
  <2>5. u \in Seq(Written) BY <2>1, <2>4, SeenTexts, PlainWritten
  <2>6. log[i].copy.answer = ApplyReplacements(rules, u, "body") BY <2>2 DEF Scrub, Bytes
  <2> HIDE DEF u
  <2>7. ApplyReplacements(rules, u, "body") = u
    <3>1. ReplacedBy(rules, u, "body") BY <2>1, <2>5, ReplacementSteps
    <3>2. Len(rules.replacements) = 0 OBVIOUS
    <3> QED BY <3>1, <3>2 DEF ReplacedBy
  <2> QED BY <2>4, <2>6, <2>7
<1> QED BY <1>1, Invariance, PTL

-----------------------------------------------------------------------------
(* What verify finds in the headers                                         *)

(* A text does not hold another as wide as itself or wider.                 *)
LEMMA NoneWider ==
    ASSUME NEW t \in Plain, NEW w \in Sought, Width(w) >= Width(t), w # t
    PROVE  ~Occurs(t, w)
<1>1. DOMAIN t = 1 .. Len(t) /\ w \in Plain BY LenProperties DEF Sought, Plain
<1> QED BY <1>1, Stretch DEF Occurs

(* An identifier is replaced whole by its marker: the wider ones, which     *)
(* come before, are not in it, and nothing is found in a marker.            *)
LEMMA IdentifierMarked ==
    ASSUME NEW order, NEW repl, Numbering(order, repl), NEW v \in ToSet(order),
           Widest(order)
    PROVE  Traced(v, order, repl, FALSE) = <<TraceMarker(repl[v])>>
<1> DEFINE m == Len(order)
           mark == TraceMarker(repl[v])
<1>1. /\ order \in Seq(Sought) /\ m \in Nat /\ DOMAIN order = 1 .. m
      /\ \A k \in 1 .. m : order[k] \in Sought /\ TraceMarker(repl[order[k]]) \in Marks
  BY LenProperties, ElementOfSeq DEF Numbering, Marks
<1>2. PICK p \in 1 .. m : order[p] = v BY <1>1 DEF ToSet
<1>3. v \in Sought /\ v \in Plain /\ v \in Seq(Written) /\ mark \in Marks
  BY <1>1, <1>2, PlainWritten DEF Sought
<1>4. <<mark>> \in Seq(Written) BY <1>3 DEF Written
<1>5. PICK upTo \in [0 .. m -> Seq(Written)] :
         /\ upTo[0] = v
         /\ \A k \in 1 .. m :
               upTo[k] = Substitute(upTo[k - 1], order[k], <<TraceMarker(repl[order[k]])>>, FALSE)
         /\ Traced(v, order, repl, FALSE) = upTo[m]
  <2>1. TracedBy(v, order, repl, FALSE) BY <1>1, <1>3, TracedSteps DEF Numbering
  <2> QED BY <2>1 DEF TracedBy
<1> HIDE DEF mark, m
<1>6. \A k \in 1 .. m : Substitute(<<mark>>, order[k], <<TraceMarker(repl[order[k]])>>, FALSE)
                        = <<mark>>
  <2> SUFFICES ASSUME NEW k \in 1 .. m
               PROVE  Substitute(<<mark>>, order[k], <<TraceMarker(repl[order[k]])>>, FALSE)
                      = <<mark>>
    OBVIOUS
  <2>1. order[k] \in Sought /\ TraceMarker(repl[order[k]]) \in Marks BY <1>1
  <2>2. ~Occurs(<<mark>>, order[k]) BY <1>3, <2>1, MarkerHolds
  <2> QED BY <1>4, <2>1, <2>2, Substituted
<1>7. Substitute(v, v, <<mark>>, FALSE) = <<mark>>
  <2>1. ReplaceText(v, v, <<mark>>) = <<mark>> BY <1>3, <1>4, ReplacedWhole DEF Sought
  <2> QED BY <2>1 DEF Substitute
<1> DEFINE Come(n) == \E k \in 1 .. n : order[k] = v
           T == {n \in 0 .. m : upTo[n] = IF Come(n) THEN <<mark>> ELSE v}
<1>8. 0 \in T
  <2>1. ~Come(0) /\ 0 \in 0 .. m BY <1>1 DEF m
  <2> QED BY <1>5, <2>1
<1>9. ASSUME NEW n \in 1 .. m, n - 1 \in T PROVE n \in T
  <2>1. /\ upTo[n - 1] = IF Come(n - 1) THEN <<mark>> ELSE v
        /\ n \in 0 .. m
    <3>1. n \in 0 .. m BY <1>1 DEF m
    <3> HIDE DEF Come
    <3>2. upTo[n - 1] = IF Come(n - 1) THEN <<mark>> ELSE v BY <1>9
    <3> QED BY <3>1, <3>2
  <2>2. Come(n) <=> Come(n - 1) \/ order[n] = v
    <3>1. \A k \in 1 .. n : k \in 1 .. n - 1 \/ k = n BY <1>1 DEF m
    <3>2. \A k \in 1 .. n - 1 : k \in 1 .. n BY <1>1 DEF m
    <3>3. n \in 1 .. n BY <1>1 DEF m
    <3> QED BY <3>1, <3>2, <3>3
  <2>3. upTo[n] = Substitute(upTo[n - 1], order[n], <<TraceMarker(repl[order[n]])>>, FALSE)
    BY <1>5
  <2>4. CASE Come(n - 1) BY <1>6, <2>1, <2>2, <2>3, <2>4
  <2>5. CASE ~Come(n - 1) /\ order[n] = v
    <3>1. TraceMarker(repl[order[n]]) = mark BY <2>5 DEF mark
    <3> QED BY <1>7, <2>1, <2>2, <2>3, <2>5, <3>1
  <2>6. CASE ~Come(n - 1) /\ order[n] # v
    <3>1. n < p
      <4>1. ~(p \in 1 .. n) BY <1>2, <2>2, <2>6
      <4> QED BY <1>1, <4>1 DEF m
    <3>2. Width(order[n]) >= Width(v) /\ order[n] \in Sought
      BY <1>1, <1>2, <3>1 DEF Widest, m
    <3>3. ~Occurs(v, order[n]) BY <1>3, <2>6, <3>2, NoneWider
    <3>4. TraceMarker(repl[order[n]]) \in Marks BY <1>1 DEF m
    <3>5. Substitute(v, order[n], <<TraceMarker(repl[order[n]])>>, FALSE) = v
      BY <1>3, <3>2, <3>3, <3>4, Substituted
    <3> QED BY <2>1, <2>2, <2>3, <2>6, <3>5
  <2> QED BY <2>4, <2>5, <2>6
<1>10. \A n \in 0 .. m : n \in T
  <2> HIDE DEF T
  <2>1. m \in Nat BY <1>1 DEF m
  <2> QED BY <1>8, <1>9, <2>1, Upward
<1>11. Come(m) /\ m \in 0 .. m BY <1>1, <1>2 DEF m
<1>12. upTo[m] = <<mark>> BY <1>10, <1>11
<1> QED BY <1>5, <1>12 DEF mark

KeptAs(r, v, order, repl) ==
    RedactString(r, v, order, repl, FALSE) = <<TraceMarker(repl[v])>>

(* So what is recorded of an identifier is its marker.                      *)
LEMMA IdentifierKept ==
    ASSUME NEW r \in RuleSets, NEW order, NEW repl, Numbering(order, repl),
           NEW v \in ToSet(order), Widest(order)
    PROVE  KeptAs(r, v, order, repl)
<1> DEFINE mark == TraceMarker(repl[v])
<1>1. Traced(v, order, repl, FALSE) = <<mark>> BY IdentifierMarked
<1>2. mark \in Marks
  <2>1. PICK k \in DOMAIN order : v = order[k] BY DEF ToSet
  <2>2. k \in 1 .. Len(order) BY <2>1, LenProperties DEF Numbering
  <2> QED BY <2>1, <2>2 DEF Numbering, Marks
<1>3. r.secrets \in Seq(Sought) BY RulesAssumption DEF Sought
<1>4. \A s \in ToSet(r.secrets) : s \in Sought BY <1>3, LookedSought DEF Looked
<1> HIDE DEF mark
<1>5. <<mark>> \in Seq(Written) BY <1>2 DEF Written
<1>6. Cleared(<<mark>>, WithoutSecrets(r, <<mark>>, FALSE), r.secrets, FALSE)
  BY <1>5, SecretsClear
<1>7. WithoutSecrets(r, <<mark>>, FALSE) = <<mark>>
  BY <1>2, <1>4, <1>6, MarkerHolds DEF Cleared
<1> QED BY <1>1, <1>7 DEF KeptAs, RedactString, mark

(* A text that is not wide enough is kept where all that is looked for is.  *)
LEMMA ShortKept ==
    ASSUME NEW r \in RuleSets, NEW order, NEW repl, Numbering(order, repl),
           \A s \in Looked(r, order) : WideEnough(s),
           NEW t \in Plain, ~WideEnough(t)
    PROVE  RedactString(r, t, order, repl, FALSE) = t
<1> DEFINE u == RedactString(r, t, order, repl, FALSE)
<1>1. t \in Seq(Written) BY PlainWritten
<1>2. RedactedAs(r, t, u, order, FALSE) BY <1>1, RedactedTexts
<1> HIDE DEF u
<1>3. ASSUME NEW s \in Looked(r, order) PROVE ~Occurs(t, s)
  <2>1. s \in Sought BY LookedSought DEF Numbering
  <2>2. Width(s) \in Nat /\ Width(t) \in Nat BY <2>1, Widths DEF Sought
  <2>3. Width(s) >= 8 /\ ~(Width(t) >= 8) BY DEF WideEnough
  <2>4. Width(s) >= Width(t) /\ s # t BY <2>2, <2>3
  <2> QED BY <2>1, <2>4, NoneWider
<1>4. u = t BY <1>2, <1>3 DEF RedactedAs
<1> QED BY <1>4 DEF u

(* The secrets are as long as an identifier has to be: a shorter one could  *)
(* be part of the short value of a trace header, and what is around it      *)
(* would stay.                                                              *)
SecretsWide == \A s \in ToSet(rules.secrets) : WideEnough(s)

(* Then verify accepts the headers of a recording.                          *)
THEOREM Accepted == Spec => [](SecretsWide => VerifierAccepts)
<1>1. IInv => (SecretsWide => VerifierAccepts)
  <2> SUFFICES ASSUME IInv, SecretsWide, NEW i \in DOMAIN log,
                      NEW h \in {log[i].copy.request, log[i].copy.response}
               PROVE  /\ \A name \in DOMAIN h \cap rules.credential :
                            ToSet(h[name]) = {<<Redacted>>}
                      /\ \A name \in (DOMAIN h \cap rules.trace) \ DOMAIN rules.overrides :
                            \A t \in ToSet(h[name]) : IsMarker(t)
    BY DEF VerifierAccepts
  <2> DEFINE x == log[i].of
             r == rules
  <2>1. r \in RuleSets /\ Seen(x) /\ Copied(r, traceValues, x, log[i].copy)
    BY CopiesKept
  <2>2. PICK order, repl : /\ Numbering(order, repl) /\ Ordered(r, x, order)
                           /\ log[i].copy = Scrub(r, x, order, repl)
    BY <2>1 DEF Copied
  <2>3. PICK g \in {x.request, x.response} : h = Headers(r, g, order, repl)
    BY <2>2 DEF Scrub
  <2> HIDE DEF x, r
  <2>4. DOMAIN h = DOMAIN g /\ \A name \in DOMAIN g :
           g[name] \in Seq(Plain) /\ h[name] = ScrubHeader(r, name, g[name], order, repl)
    BY <2>1, <2>3, SeenTexts DEF Headers
  <2>5. ASSUME NEW name \in DOMAIN h \cap r.credential PROVE h[name] = <<<<Redacted>>>>
    BY <2>4 DEF ScrubHeader, IsCredential
  <2>6. ASSUME NEW c \in {Redacted, TraceRedacted} \cup {TraceMarker(n) : n \in Nat \ {0}}
        PROVE  IsMarker(<<c>>)
    <3>1. Len(<<c>>) = 1 /\ <<c>>[1] = c OBVIOUS
    <3>2. c.char \in {"**TRACE_ID_n**", "**TRACE_ID**", "**REDACTED**"}
      BY DEF Redacted, TraceRedacted, TraceMarker
    <3> QED BY <3>1, <3>2 DEF IsMarker
  <2>7. ASSUME NEW name \in (DOMAIN h \cap r.trace) \ DOMAIN r.overrides, NEW t \in ToSet(h[name])
        PROVE  IsMarker(t)
    <3> DEFINE values == g[name]
               redacted == [k \in DOMAIN values |->
                               RedactString(r, values[k], order, repl, FALSE)]
    <3>1. values \in Seq(Plain) /\ h[name] = ScrubHeader(r, name, values, order, repl)
      BY <2>4
    <3>2. CASE IsCredential(r, name)
      <4>1. name \in DOMAIN h \cap r.credential BY <3>2 DEF IsCredential
      <4>2. t = <<Redacted>> BY <2>5, <4>1 DEF ToSet
      <4> QED BY <2>6, <4>2
    <3>3. CASE ~IsCredential(r, name)
      <4>1. h[name] = [k \in DOMAIN values |->
                         IF redacted[k] = values[k] THEN <<TraceRedacted>> ELSE redacted[k]]
        BY <3>1, <3>3 DEF ScrubHeader
      <4> HIDE DEF redacted
      <4>2. PICK k \in DOMAIN values :
               t = IF redacted[k] = values[k] THEN <<TraceRedacted>> ELSE redacted[k]
        BY <4>1 DEF ToSet
      <4>3. values[k] \in Plain /\ values[k] \in ToSet(values)
        BY <3>1, ElementOfSeq, LenProperties DEF ToSet
      <4>4. redacted[k] = RedactString(r, values[k], order, repl, FALSE) BY DEF redacted
      <4>5. CASE WideEnough(values[k])
        <5>1. values[k] \in Discovered(r, x)
          <6>1. name \in DOMAIN g \cap r.trace BY <2>4
          <6> QED BY <2>1, <4>3, <4>5, <6>1, DiscoveredTexts
        <5>2. values[k] \in ToSet(order) BY <2>2, <5>1 DEF Ordered
        <5>3. redacted[k] = <<TraceMarker(repl[values[k]])>>
          <6> DEFINE v == values[k]
          <6>1. Widest(order) BY <2>2 DEF Ordered
          <6>2. v \in ToSet(order) BY <5>2
          <6> HIDE DEF v
          <6>3. RedactString(r, v, order, repl, FALSE) = <<TraceMarker(repl[v])>>
            <7>1. r \in RuleSets /\ Numbering(order, repl) BY <2>1, <2>2
            <7>2. KeptAs(r, v, order, repl) BY <6>1, <6>2, <7>1, IdentifierKept
            <7> QED BY <7>2 DEF KeptAs
          <6> QED BY <4>4, <6>3 DEF v
        <5>4. repl[values[k]] \in Nat \ {0}
          <6>1. PICK l \in DOMAIN order : values[k] = order[l] BY <5>2 DEF ToSet
          <6>2. l \in 1 .. Len(order) BY <2>2, <6>1, LenProperties DEF Numbering
          <6> QED BY <2>2, <6>1, <6>2 DEF Numbering
        <5> QED BY <2>6, <4>2, <5>3, <5>4
      <4>6. CASE ~WideEnough(values[k])
        <5>1. \A s \in Looked(r, order) : WideEnough(s)
          BY <2>1, <2>2, DiscoveredTexts DEF Looked, Ordered, SecretsWide, r
        <5>2. redacted[k] = values[k] BY <2>1, <2>2, <4>3, <4>4, <4>6, <5>1, ShortKept
        <5> QED BY <2>6, <4>2, <5>2
      <4> QED BY <4>5, <4>6
    <3> QED BY <3>2, <3>3
  <2>8. \A name \in DOMAIN h \cap r.credential : ToSet(h[name]) = {<<Redacted>>}
    <3>1. ToSet(<<<<Redacted>>>>) = {<<Redacted>>} BY DEF ToSet
    <3> QED BY <2>5, <3>1
  <2> QED BY <2>7, <2>8 DEF r
<1> QED BY <1>1, Invariance, PTL

-----------------------------------------------------------------------------
(* The provenance                                                           *)

(* A host name holds no escaped spelling that is not the text itself.       *)
LEMMA HostEscapes ==
    ASSUME NEW x, Seen(x), NEW s \in Sought, Occurs(x.uri.host, QueryEscape(s))
    PROVE  QueryEscape(s) = s
<1> DEFINE host == x.uri.host
           q == QueryEscape(s)
<1>1. \A k \in DOMAIN host : \A c \in DOMAIN WidthOf :
         host[k] = Char(EscapeOf[c]) => EscapeOf[c] = c
  <2>1. PICK i \in DOMAIN Exchanges : x \in Exchanges[i] BY DEF Seen
  <2> QED BY <2>1, ExchangesAssumption
<1>2. s \in Seq(Symbols) /\ DOMAIN s = 1 .. Len(s) BY LenProperties DEF Sought, Plain
<1>3. q = [k \in DOMAIN s |-> Char(EscapeOf[s[k].char])] BY DEF QueryEscape
<1>4. host \in Plain /\ DOMAIN host = 1 .. Len(host) /\ Len(host) \in Nat
  BY SeenTexts, LenProperties DEF Plain
<1>5. Len(q) = Len(s) /\ Len(s) \in Nat BY <1>2, <1>3, LenProperties
<1>6. PICK i \in 1 .. Len(host) : StandsAt(host, i, q) BY <1>4 DEF Occurs
<1>7. ASSUME NEW k \in DOMAIN s PROVE q[k] = s[k]
  <2>1. s[k] \in Symbols BY <1>2, ElementOfSeq
  <2>2. PICK c \in DOMAIN WidthOf : s[k] = Char(c) BY <2>1 DEF Symbols
  <2>3. s[k].char = c BY <2>2 DEF Char
  <2>4. q[k] = Char(EscapeOf[c]) /\ k \in DOMAIN q BY <1>3, <2>3
  <2>5. host[i + k - 1] = q[k] /\ i + Len(q) - 1 <= Len(host) BY <1>6, <2>4 DEF StandsAt
  <2>6. i + k - 1 \in DOMAIN host BY <1>2, <1>4, <1>5, <2>5
  <2>7. EscapeOf[c] = c BY <1>1, <2>4, <2>5, <2>6
  <2> QED BY <2>2, <2>4, <2>7
<1>8. q = s
  <2>1. s = [k \in DOMAIN s |-> s[k]] BY <1>2
  <2>2. q = [k \in DOMAIN s |-> q[k]] BY <1>3
  <2> HIDE DEF q
  <2> QED BY <1>7, <2>1, <2>2
<1> QED BY <1>8

(* So the secrets are taken from it alike, whether the other spelling is    *)
(* looked for or not.                                                       *)
LEMMA HostSecrets ==
    ASSUME NEW r \in RuleSets, NEW x, Seen(x)
    PROVE  WithoutSecrets(r, x.uri.host, TRUE) = WithoutSecrets(r, x.uri.host, FALSE)
<1> DEFINE host == x.uri.host
           m == Len(r.secrets)
           new == <<Redacted>>
<1>1. host \in Seq(Written) BY SeenTexts, PlainWritten
<1>2. PICK a \in [0 .. m -> Seq(Written)] :
         /\ a[0] = host /\ WithoutSecrets(r, host, TRUE) = a[m]
         /\ \A k \in 1 .. m : a[k] = Substitute(a[k - 1], r.secrets[k], new, TRUE)
  <2>1. SecretsTakenBy(r, host, TRUE) BY <1>1, SecretSteps
  <2> QED BY <2>1 DEF SecretsTakenBy
<1>3. PICK b \in [0 .. m -> Seq(Written)] :
         /\ b[0] = host /\ WithoutSecrets(r, host, FALSE) = b[m]
         /\ \A k \in 1 .. m : b[k] = Substitute(b[k - 1], r.secrets[k], new, FALSE)
  <2>1. SecretsTakenBy(r, host, FALSE) BY <1>1, SecretSteps
  <2> QED BY <2>1 DEF SecretsTakenBy
<1>4. m \in Nat /\ \A k \in 1 .. m : r.secrets[k] \in Sought
  <2>1. r.secrets \in Seq(Sought) BY RulesAssumption DEF Sought
  <2> QED BY <2>1, LenProperties, ElementOfSeq
<1>5. \A s \in Sought : QueryEscape(s) \in Sought BY Escaped DEF Sought
<1>6. \A s \in Sought : QueryEscape(s) = s \/ ~Occurs(host, QueryEscape(s)) BY HostEscapes
<1> HIDE DEF host, m, new
<1> DEFINE T == {n \in 0 .. m : /\ a[n] = b[n]
                                /\ \A s \in Sought : ~Occurs(host, s) => ~Occurs(b[n], s)}
<1>7. 0 \in T BY <1>2, <1>3, <1>4
<1>8. ASSUME NEW n \in 1 .. m, n - 1 \in T PROVE n \in T
  <2> DEFINE s == r.secrets[n]
             u == b[n - 1]
             w == Substitute(u, s, new, FALSE)
  <2>1. /\ n \in 0 .. m /\ n - 1 \in 0 .. m
        /\ a[n - 1] = u /\ \A v \in Sought : ~Occurs(host, v) => ~Occurs(u, v)
    BY <1>4, <1>8
  <2>2. s \in Sought /\ u \in Seq(Written) /\ Redacted \in Marks BY <1>4, <2>1 DEF Marks
  <2>3. b[n] = w /\ a[n] = Substitute(u, s, new, TRUE) BY <1>2, <1>3, <2>1
  <2> HIDE DEF s, u
  <2>4. /\ w \in Seq(Written) /\ ~Occurs(w, s)
        /\ \A v \in Sought : ~Occurs(u, v) => ~Occurs(w, v)
    BY <2>2, Substituted DEF new
  <2>5. Substitute(u, s, new, TRUE) = Substitute(w, QueryEscape(s), new, FALSE)
    BY DEF Substitute
  <2> HIDE DEF w
  <2>6. ~Occurs(w, QueryEscape(s)) BY <1>5, <1>6, <2>1, <2>2, <2>4
  <2>7. Substitute(w, QueryEscape(s), new, FALSE) = w
    BY <1>5, <2>2, <2>4, <2>6, Substituted DEF new
  <2> QED BY <2>1, <2>3, <2>4, <2>5, <2>7
<1>9. \A n \in 0 .. m : n \in T
  <2> HIDE DEF T
  <2> QED BY <1>4, <1>7, <1>8, Upward
<1>10. m \in T BY <1>4, <1>9
<1> QED BY <1>2, <1>3, <1>10 DEF host

(* Three texts in a row, two of them joined first.                          *)
LEMMA Regrouped ==
    ASSUME NEW S, NEW p \in Seq(S), NEW q \in Seq(S), NEW w \in Seq(S)
    PROVE  p \o (q \o w) = (p \o q) \o w
BY ConcatAssociative

(* Where a symbol is in none of the texts looked for, what stands before it *)
(* and what stands behind are rewritten each by itself.                     *)
LEMMA Distributes ==
    ASSUME NEW S, NEW a \in Seq(S), NEW b \in Seq(S), NEW c \in S, NEW new \in Seq(S),
           NEW matches, \A m \in matches : m \in Seq(S) /\ m # <<>> /\ c \notin ToSet(m)
    PROVE  ReplaceMatches(a \o Cons(c, b), matches, new)
           = ReplaceMatches(a, matches, new) \o Cons(c, ReplaceMatches(b, matches, new))
<1> DEFINE t == a \o (<<c>> \o b)
           A == Len(a)
           B == Len(b)
<1>1. /\ A \in Nat /\ B \in Nat /\ t \in Seq(S) /\ Len(t) = A + 1 + B
      /\ \A i \in 1 .. A : t[i] = a[i] /\ a[i] \in S
      /\ t[A + 1] = c
      /\ \A j \in 1 .. B : t[A + 1 + j] = b[j] /\ b[j] \in S
  <2> DEFINE cb == <<c>> \o b
  <2>1. A \in Nat /\ B \in Nat /\ <<c>> \in Seq(S) /\ Len(<<c>>) = 1 /\ <<c>>[1] = c
    BY LenProperties
  <2>2. /\ cb \in Seq(S) /\ Len(cb) = 1 + B
        /\ \A k \in 1 .. 1 + B : cb[k] = IF k <= 1 THEN <<c>>[k] ELSE b[k - 1]
    BY <2>1, ConcatProperties
  <2>3. t = a \o cb OBVIOUS
  <2> HIDE DEF cb, t
  <2>4. /\ t \in Seq(S) /\ Len(t) = A + (1 + B)
        /\ \A i \in 1 .. A + (1 + B) : t[i] = IF i <= A THEN a[i] ELSE cb[i - A]
    <3>1. a \in Seq(S) /\ cb \in Seq(S) BY <2>2
    <3>2. /\ a \o cb \in Seq(S) /\ Len(a \o cb) = A + Len(cb)
          /\ \A i \in 1 .. A + Len(cb) : (a \o cb)[i] = IF i <= A THEN a[i] ELSE cb[i - A]
      BY <3>1, ConcatProperties
    <3> HIDE DEF A, B
    <3> QED BY <2>2, <2>3, <3>2
  <2> HIDE DEF A, B
  <2>5. \A i \in 1 .. A : i \in 1 .. A + (1 + B) /\ i <= A BY <2>1
  <2>6. t[A + 1] = c
    <3>1. A + 1 \in 1 .. A + (1 + B) /\ ~(A + 1 <= A) /\ (A + 1) - A = 1 /\ 1 \in 1 .. 1 + B
      BY <2>1
    <3> QED BY <2>1, <2>2, <2>4, <3>1
  <2>7. ASSUME NEW j \in 1 .. B PROVE t[A + 1 + j] = b[j]
    <3>1. /\ A + 1 + j \in 1 .. A + (1 + B) /\ ~(A + 1 + j <= A)
          /\ (A + 1 + j) - A = 1 + j /\ 1 + j \in 1 .. 1 + B /\ ~(1 + j <= 1)
          /\ (1 + j) - 1 = j
      BY <2>1
    <3>2. t[A + 1 + j] = cb[1 + j] BY <2>4, <3>1
    <3>3. cb[1 + j] = b[j] BY <2>2, <3>1
    <3> QED BY <3>2, <3>3
  <2>8. \A i \in 1 .. A : a[i] \in S BY ElementOfSeq DEF A
  <2>9. \A j \in 1 .. B : b[j] \in S BY ElementOfSeq DEF B
  <2>10. t \in Seq(S) /\ Len(t) = A + 1 + B BY <2>1, <2>4
  <2>11. \A i \in 1 .. A : t[i] = a[i] BY <2>4, <2>5
  <2> QED BY <2>1, <2>6, <2>7, <2>8, <2>9, <2>10, <2>11
<1> HIDE DEF t
<1>2. ASSUME NEW m \in matches PROVE Len(m) \in Nat \ {0} /\ \A k \in 1 .. Len(m) : m[k] # c
  <2>1. m \in Seq(S) /\ m # <<>> /\ c \notin ToSet(m) OBVIOUS
  <2>2. Len(m) \in Nat \ {0} /\ DOMAIN m = 1 .. Len(m) BY <2>1, LenProperties, EmptySeq
  <2> QED BY <2>1, <2>2 DEF ToSet
<1>3. ASSUME NEW i \in 1 .. A, NEW m \in matches PROVE StandsAt(t, i, m) <=> StandsAt(a, i, m)
  <2>1. DOMAIN m = 1 .. Len(m) /\ Len(m) \in Nat \ {0}
    <3>1. m \in Seq(S) OBVIOUS
    <3> QED BY <1>2, <3>1, LenProperties
  <2>2. ASSUME StandsAt(t, i, m), i + Len(m) - 1 > A PROVE FALSE
    <3> DEFINE k == A + 2 - i
    <3>1. k \in 1 .. Len(m) /\ i + k - 1 = A + 1 BY <1>1, <2>1, <2>2
    <3>2. t[i + k - 1] = m[k] BY <2>1, <2>2, <3>1 DEF StandsAt
    <3> QED BY <1>1, <1>2, <3>1, <3>2
  <2>3. ASSUME i + Len(m) - 1 <= A, NEW k \in 1 .. Len(m) PROVE t[i + k - 1] = a[i + k - 1]
    <3>1. i + k - 1 \in 1 .. A BY <1>1, <2>1, <2>3
    <3> QED BY <1>1, <3>1
  <2>4. i + Len(m) - 1 <= A => i + Len(m) - 1 <= Len(t) BY <1>1, <2>1
  <2>5. ASSUME StandsAt(t, i, m) PROVE StandsAt(a, i, m)
    <3>1. i + Len(m) - 1 <= A BY <1>1, <2>1, <2>2, <2>5
    <3> QED BY <2>1, <2>3, <2>5, <3>1 DEF StandsAt, A
  <2>6. ASSUME StandsAt(a, i, m) PROVE StandsAt(t, i, m)
    <3>1. i + Len(m) - 1 <= A BY <2>6 DEF StandsAt, A
    <3> QED BY <2>1, <2>3, <2>4, <2>6, <3>1 DEF StandsAt
  <2> QED BY <2>5, <2>6
<1>4. ASSUME NEW m \in matches PROVE ~StandsAt(t, A + 1, m)
  <2>1. 1 \in DOMAIN m /\ m[1] # c
    <3>1. m \in Seq(S) /\ 1 \in 1 .. Len(m) BY <1>2
    <3> QED BY <1>2, <3>1, LenProperties
  <2>2. A + 1 + 1 - 1 = A + 1 BY <1>1
  <2> QED BY <1>1, <2>1, <2>2 DEF StandsAt
<1>5. ASSUME NEW j \in 1 .. B, NEW m \in matches
      PROVE  StandsAt(t, A + 1 + j, m) <=> StandsAt(b, j, m)
  <2>1. DOMAIN m = 1 .. Len(m) /\ Len(m) \in Nat \ {0}
    <3>1. m \in Seq(S) OBVIOUS
    <3> QED BY <1>2, <3>1, LenProperties
  <2>2. A + 1 + j + Len(m) - 1 <= Len(t) <=> j + Len(m) - 1 <= B BY <1>1, <2>1
  <2>3. ASSUME j + Len(m) - 1 <= B, NEW k \in 1 .. Len(m)
        PROVE  t[A + 1 + j + k - 1] = b[j + k - 1]
    <3>1. j + k - 1 \in 1 .. B /\ A + 1 + j + k - 1 = A + 1 + (j + k - 1) BY <1>1, <2>1, <2>3
    <3> QED BY <1>1, <3>1
  <2> QED BY <2>1, <2>2, <2>3 DEF StandsAt, B
<1> DEFINE M == matches
<1>6. \A m \in M : m \in Seq(S) /\ m # <<>> OBVIOUS
<1>7. ASSUME NEW u \in Seq(S)
      PROVE  \E rest \in [1 .. Len(u) + 1 -> Seq(S)] :
                /\ rest[Len(u) + 1] = <<>> /\ Follows(rest, u, matches, new)
                /\ ReplaceMatches(u, matches, new) = rest[1]
  <2>1. Rewritten(S, u, matches, new) BY <1>6, Rewriting
  <2> QED BY <2>1 DEF Rewritten, Rewrites
<1>8. PICK f \in [1 .. A + 1 -> Seq(S)] :
         /\ f[A + 1] = <<>> /\ Follows(f, a, matches, new)
         /\ ReplaceMatches(a, matches, new) = f[1]
  BY <1>7 DEF A
<1>9. PICK g \in [1 .. B + 1 -> Seq(S)] :
         /\ g[B + 1] = <<>> /\ Follows(g, b, matches, new)
         /\ ReplaceMatches(b, matches, new) = g[1]
  BY <1>7 DEF B
<1>10. PICK h \in [1 .. Len(t) + 1 -> Seq(S)] :
         /\ h[Len(t) + 1] = <<>> /\ Follows(h, t, matches, new)
         /\ ReplaceMatches(t, matches, new) = h[1]
  BY <1>1, <1>7
<1>11. ASSUME NEW u, NEW i, NEW m \in matches, StandsAt(u, i, m)
       PROVE  /\ Taken(u, i, matches) \in matches /\ StandsAt(u, i, Taken(u, i, matches))
  BY <1>11 DEF Taken
<1>12. \A j \in 1 .. B + 1 : h[A + 1 + j] = g[j]
  <2> DEFINE T == {j \in 1 .. B + 1 : h[A + 1 + j] = g[j]}
  <2>1. B + 1 \in T
    <3>1. A + 1 + (B + 1) = Len(t) + 1 /\ B + 1 \in 1 .. B + 1 BY <1>1
    <3> QED BY <1>9, <1>10, <3>1
  <2>2. ASSUME NEW j \in 1 .. B, \A k \in j + 1 .. B + 1 : k \in T PROVE j \in T
    <3> DEFINE i == A + 1 + j
    <3>1. i \in 1 .. Len(t) /\ j \in 1 .. Len(b) /\ j \in 1 .. B + 1 BY <1>1 DEF B
    <3>2. h[i] = IF \E m \in matches : StandsAt(t, i, m)
                 THEN new \o h[i + Len(Taken(t, i, matches))] ELSE <<t[i]>> \o h[i + 1]
      BY <1>10, <3>1 DEF Follows
    <3>3. g[j] = IF \E m \in matches : StandsAt(b, j, m)
                 THEN new \o g[j + Len(Taken(b, j, matches))] ELSE <<b[j]>> \o g[j + 1]
      BY <1>9, <3>1 DEF Follows
    <3>4. \A m \in matches : StandsAt(t, i, m) <=> StandsAt(b, j, m) BY <1>5
    <3>5. Taken(t, i, matches) = Taken(b, j, matches) BY <3>4, Zenon DEF Taken
    <3>6. CASE \E m \in matches : StandsAt(b, j, m)
      <4> DEFINE m == Taken(b, j, matches)
                 k == j + Len(m)
      <4>1. m \in matches /\ StandsAt(b, j, m) BY <1>11, <3>6
      <4> HIDE DEF m
      <4>2. Len(m) \in Nat \ {0} /\ j + Len(m) - 1 <= B BY <1>2, <4>1 DEF StandsAt, B
      <4>3. k \in j + 1 .. B + 1 /\ i + Len(m) = A + 1 + k BY <1>1, <4>2
      <4>4. h[i + Len(m)] = g[k] BY <2>2, <4>3
      <4>5. h[i] = new \o h[i + Len(m)] BY <3>2, <3>4, <3>5, <3>6 DEF m
      <4>6. g[j] = new \o g[k] BY <3>3, <3>6 DEF m
      <4> QED BY <3>1, <4>4, <4>5, <4>6
    <3>7. CASE ~\E m \in matches : StandsAt(b, j, m)
      <4>1. j + 1 \in j + 1 .. B + 1 /\ i + 1 = A + 1 + (j + 1) BY <1>1
      <4>2. h[i + 1] = g[j + 1] BY <2>2, <4>1
      <4>3. t[i] = b[j] BY <1>1
      <4>4. h[i] = <<t[i]>> \o h[i + 1] BY <3>2, <3>4, <3>7
      <4>5. g[j] = <<b[j]>> \o g[j + 1] BY <3>3, <3>7
      <4> QED BY <3>1, <4>2, <4>3, <4>4, <4>5
    <3> QED BY <3>6, <3>7
  <2>3. \A j \in 1 .. B + 1 : j \in T
    <3> HIDE DEF T
    <3> QED BY <1>1, <2>1, <2>2, Downward
  <2> QED BY <2>3
<1> DEFINE w == <<c>> \o g[1]
<1>13. h[A + 1] = w
  <2>1. A + 1 \in 1 .. Len(t) /\ (A + 1) + 1 = A + 1 + 1 /\ 1 \in 1 .. B + 1 BY <1>1
  <2>2. h[A + 1] = <<t[A + 1]>> \o h[(A + 1) + 1] BY <1>4, <1>10, <2>1 DEF Follows
  <2> QED BY <1>1, <1>12, <2>1, <2>2
<1>14. w \in Seq(S)
  <2>1. 1 \in 1 .. B + 1 BY <1>1
  <2>2. g[1] \in Seq(S) BY <1>9, <2>1
  <2>3. <<c>> \in Seq(S) OBVIOUS
  <2> QED BY <2>2, <2>3, ConcatProperties
<1> HIDE DEF w
<1>b. ASSUME NEW p \in Seq(S), NEW q \in Seq(S) PROVE p \o (q \o w) = (p \o q) \o w
  <2>1. ASSUME NEW r \in Seq(S) PROVE p \o (q \o r) = (p \o q) \o r
    BY Regrouped, SMTT(20)
  <2> QED BY <1>14, <2>1
<1>15. \A i \in 1 .. A + 1 : h[i] = f[i] \o w
  <2> DEFINE T == {i \in 1 .. A + 1 : h[i] = f[i] \o w}
  <2>1. A + 1 \in T
    <3>1. A + 1 \in 1 .. A + 1 BY <1>1
    <3>2. <<>> \o w = w BY <1>14, ConcatEmptySeq
    <3> QED BY <1>8, <1>13, <3>1, <3>2
  <2>2. ASSUME NEW i \in 1 .. A, \A k \in i + 1 .. A + 1 : k \in T PROVE i \in T
    <3>1. i \in 1 .. Len(t) /\ i \in 1 .. Len(a) /\ i \in 1 .. A + 1 BY <1>1 DEF A
    <3>2. h[i] = IF \E m \in matches : StandsAt(t, i, m)
                 THEN new \o h[i + Len(Taken(t, i, matches))] ELSE <<t[i]>> \o h[i + 1]
      BY <1>10, <3>1 DEF Follows
    <3>3. f[i] = IF \E m \in matches : StandsAt(a, i, m)
                 THEN new \o f[i + Len(Taken(a, i, matches))] ELSE <<a[i]>> \o f[i + 1]
      BY <1>8, <3>1 DEF Follows
    <3>4. \A m \in matches : StandsAt(t, i, m) <=> StandsAt(a, i, m) BY <1>3
    <3>5. Taken(t, i, matches) = Taken(a, i, matches) BY <3>4, Zenon DEF Taken
    <3>6. ASSUME NEW p \in Seq(S), NEW k \in i + 1 .. A + 1, h[i] = p \o h[k], f[i] = p \o f[k]
          PROVE  i \in T
      <4>1. k \in 1 .. A + 1 /\ h[k] = f[k] \o w BY <2>2, <3>6
      <4>2. f[k] \in Seq(S) BY <1>8, <4>1
      <4>3. p \o (f[k] \o w) = (p \o f[k]) \o w BY <1>b, <4>2
      <4> QED BY <3>1, <3>6, <4>1, <4>3
    <3>7. CASE \E m \in matches : StandsAt(a, i, m)
      <4> DEFINE m == Taken(a, i, matches)
                 k == i + Len(m)
      <4>1. m \in matches /\ StandsAt(a, i, m) BY <1>11, <3>7
      <4>2. h[i] = new \o h[k] BY <3>2, <3>4, <3>5, <3>7
      <4>3. f[i] = new \o f[k] BY <3>3, <3>7
      <4> HIDE DEF m
      <4>4. Len(m) \in Nat \ {0} /\ i + Len(m) - 1 <= A BY <1>2, <4>1 DEF StandsAt, A
      <4>5. k \in i + 1 .. A + 1 BY <1>1, <4>4
      <4> HIDE DEF k
      <4> QED BY <3>6, <4>2, <4>3, <4>5
    <3>8. CASE ~\E m \in matches : StandsAt(a, i, m)
      <4>1. i + 1 \in i + 1 .. A + 1 /\ <<a[i]>> \in Seq(S) /\ t[i] = a[i] BY <1>1
      <4>2. h[i] = <<a[i]>> \o h[i + 1] BY <3>2, <3>4, <3>8, <4>1
      <4>3. f[i] = <<a[i]>> \o f[i + 1] BY <3>3, <3>8
      <4> HIDE DEF T
      <4> QED BY <3>6, <4>1, <4>2, <4>3
    <3> QED BY <3>7, <3>8
  <2>3. \A i \in 1 .. A + 1 : i \in T
    <3> HIDE DEF T
    <3> QED BY <1>1, <2>1, <2>2, Downward
  <2> QED BY <2>3
<1>16. h[1] = f[1] \o w
  <2>1. 1 \in 1 .. A + 1 BY <1>1
  <2> QED BY <1>15, <2>1
<1>17. ReplaceMatches(a \o (<<c>> \o b), matches, new) = f[1] \o (<<c>> \o g[1])
  BY <1>10, <1>16 DEF t, w
<1> QED BY <1>8, <1>9, <1>17 DEF Cons

(* A URI is a host, with what has become of it, between the scheme and an   *)
(* edge, or the end of the URI.                                             *)
Around(u, host, edge) ==
    \E w \in Seq(Written) :
       /\ edge = <<>> => w = <<>>
       /\ u = <<Char("https://")>> \o (host \o (edge \o w))

Edge == {<<>>} \cup {<<c>> : c \in Edges}

(* The edges are symbols of an exchange.                                    *)
LEMMA EdgesWritten == Edges \subseteq Written
BY TextsAssumption DEF Edges, Written, Symbols

(* What may stand between the host and the rest is a text.                  *)
LEMMA EdgeTyped == \A edge \in Edge : edge \in Seq(Written)
<1>1. TAKE edge \in Edge
<1>2. edge = <<>> \/ \E d \in Edges : edge = <<d>> BY DEF Edge
<1>3. CASE edge = <<>>
  <2>1. <<>> \in Seq(Written) BY EmptySeq
  <2> QED BY <1>3, <2>1
<1>4. ASSUME NEW d \in Edges, edge = <<d>> PROVE edge \in Seq(Written)
  <2>1. d \in Written BY EdgesWritten
  <2>2. <<d>> \in Seq(Written) BY <2>1
  <2> QED BY <1>4, <2>2
<1> QED BY <1>2, <1>3, <1>4

(* It is a text, as the host is.                                            *)
LEMMA AroundTyped ==
    ASSUME NEW host \in Seq(Written), NEW edge \in Edge, NEW u, Around(u, host, edge)
    PROVE  u \in Seq(Written)
<1> DEFINE c == Char("https://")
<1>1. PICK w \in Seq(Written) : u = <<c>> \o (host \o (edge \o w)) BY DEF Around
<1>2. c \in Written BY EdgesWritten DEF Edges
<1> HIDE DEF c
<1>3. <<c>> \in Seq(Written) BY <1>2
<1>4. edge \in Seq(Written) BY EdgeTyped
<1>5. edge \o w \in Seq(Written) BY <1>4, ConcatProperties
<1>6. host \o (edge \o w) \in Seq(Written) BY <1>5, ConcatProperties
<1> QED BY <1>1, <1>3, <1>6, ConcatProperties

(* It stays so while nothing is looked for that has an edge in it.          *)
LEMMA KeptAround ==
    ASSUME NEW host \in Seq(Written), NEW edge \in Edge, NEW u, Around(u, host, edge),
           NEW new \in Seq(Written),
           NEW matches, \A m \in matches : m \in Seq(Written) /\ m # <<>> /\ ToSet(m) \cap Edges = {}
    PROVE  Around(ReplaceMatches(u, matches, new), ReplaceMatches(host, matches, new), edge)
<1> DEFINE c == Char("https://")
           R(t) == ReplaceMatches(t, matches, new)
<1>1. PICK w \in Seq(Written) :
         (edge = <<>> => w = <<>>) /\ u = <<c>> \o (host \o (edge \o w))
  BY DEF Around
<1>2. c \in Edges /\ \A d \in Edges : d \in Written /\ <<d>> \in Seq(Written)
  BY EdgesWritten DEF Edges
<1> HIDE DEF c
<1>3. ASSUME NEW d \in Edges
      PROVE  \A m \in matches : m \in Seq(Written) /\ m # <<>> /\ d \notin ToSet(m)
  OBVIOUS
<1>4. ASSUME NEW d \in Edges, NEW a \in Seq(Written), NEW b \in Seq(Written)
      PROVE  R(a \o (<<d>> \o b)) = R(a) \o (<<d>> \o R(b))
  <2>1. d \in Written BY <1>2, <1>4
  <2>2. \A m \in matches : m \in Seq(Written) /\ m # <<>> /\ d \notin ToSet(m) BY <1>3, <1>4
  <2> DEFINE S == Written
  <2>3. a \in Seq(S) /\ b \in Seq(S) /\ d \in S /\ new \in Seq(S) BY <2>1
  <2>4. \A m \in matches : m \in Seq(S) /\ m # <<>> /\ d \notin ToSet(m) BY <2>2
  <2> HIDE DEF S
  <2>5. ReplaceMatches(a \o Cons(d, b), matches, new)
        = ReplaceMatches(a, matches, new) \o Cons(d, ReplaceMatches(b, matches, new))
    BY <2>3, <2>4, Distributes
  <2> QED BY <2>5 DEF Cons
<1>5. \A t \in Seq(Written) : R(t) \in Seq(Written) BY ReplaceTyped
<1>6. R(<<>>) = <<>>
  <2>1. \A m \in matches : ~Occurs(<<>>, m) BY DEF Occurs
  <2>2. <<>> \in Seq(Written) BY EmptySeq
  <2> QED BY <2>1, <2>2, Untouched
<1> HIDE DEF R
<1>7. ASSUME NEW b \in Seq(Written) PROVE R(<<c>> \o b) = <<c>> \o R(b)
  <2>1. <<c>> \o b \in Seq(Written) /\ <<c>> \o R(b) \in Seq(Written) /\ <<>> \in Seq(Written)
    BY <1>2, <1>5, EmptySeq, ConcatProperties
  <2>2. R(<<>> \o (<<c>> \o b)) = R(<<>>) \o (<<c>> \o R(b)) BY <1>2, <1>4, <1>7, <2>1
  <2>3. <<>> \o (<<c>> \o b) = <<c>> \o b /\ <<>> \o (<<c>> \o R(b)) = <<c>> \o R(b)
    BY <2>1, ConcatEmptySeq
  <2> QED BY <1>6, <2>2, <2>3
<1>8. CASE edge = <<>>
  <2>1. w = <<>> /\ <<>> \o <<>> = <<>> /\ host \o <<>> = host /\ <<>> \in Seq(Written)
    BY <1>1, <1>8, EmptySeq, ConcatEmptySeq
  <2>2. u = <<c>> \o host BY <1>1, <1>8, <2>1
  <2>3. R(host) \o <<>> = R(host) BY <1>5, ConcatEmptySeq
  <2>4. R(u) = <<c>> \o R(host) BY <1>7, <2>2
  <2>5. R(u) = <<c>> \o (R(host) \o (edge \o <<>>)) BY <1>8, <2>1, <2>3, <2>4
  <2> QED BY <2>1, <2>5 DEF Around, R, c
<1>9. CASE edge # <<>>
  <2>1. PICK d \in Edges : edge = <<d>> BY <1>9 DEF Edge
  <2>2. u = <<c>> \o (host \o (<<d>> \o w)) BY <1>1, <2>1
  <2>3. host \o (<<d>> \o w) \in Seq(Written) BY <1>2, ConcatProperties
  <2>4. R(u) = <<c>> \o R(host \o (<<d>> \o w)) BY <1>7, <2>2, <2>3
  <2>5. R(u) = <<c>> \o (R(host) \o (edge \o R(w))) BY <1>4, <2>1, <2>4
  <2> QED BY <1>5, <1>9, <2>5 DEF Around, R, c
<1> QED BY <1>8, <1>9

(* So it does when a text, and its escaped spelling, are replaced in both.  *)
LEMMA SubstitutedAround ==
    ASSUME NEW host \in Seq(Written), NEW edge \in Edge, NEW u, Around(u, host, edge),
           NEW old \in Sought, NEW c \in Marks,
           ToSet(old) \cap Edges = {}, ToSet(QueryEscape(old)) \cap Edges = {}
    PROVE  Around(Substitute(u, old, <<c>>, TRUE), Substitute(host, old, <<c>>, TRUE), edge)
<1> DEFINE new == <<c>>
           other == QueryEscape(old)
<1>1. /\ new \in Seq(Written) /\ other \in Sought
      /\ \A t \in Sought : t \in Seq(Written) /\ t # <<>>
  BY Escaped, PlainWritten DEF Sought, Written
<1>2. ToSet(other) \cap Edges = {} OBVIOUS
<1> HIDE DEF new, other
<1>3. ASSUME NEW g \in Seq(Written), NEW v, Around(v, g, edge),
             NEW m \in Sought, ToSet(m) \cap Edges = {}
      PROVE  Around(ReplaceText(v, m, new), ReplaceText(g, m, new), edge)
             /\ ReplaceText(g, m, new) \in Seq(Written)
  <2> DEFINE matches == {m}
  <2>1. \A x \in matches : x \in Seq(Written) /\ x # <<>> /\ ToSet(x) \cap Edges = {}
    BY <1>1, <1>3
  <2> HIDE DEF matches
  <2>2. Around(ReplaceMatches(v, matches, new), ReplaceMatches(g, matches, new), edge)
    BY <1>1, <1>3, <2>1, KeptAround
  <2>3. ReplaceMatches(g, matches, new) \in Seq(Written) BY <1>1, <2>1, ReplaceTyped
  <2> QED BY <2>2, <2>3 DEF ReplaceText, matches
<1> DEFINE v == ReplaceText(u, old, new)
           g == ReplaceText(host, old, new)
<1>4. Around(v, g, edge) /\ g \in Seq(Written) BY <1>3
<1> HIDE DEF v, g
<1>5. Around(ReplaceText(v, other, new), ReplaceText(g, other, new), edge) BY <1>1, <1>2, <1>3, <1>4
<1> QED BY <1>5 DEF Substitute, v, g, new, other

(* Nothing looked for in the URI of an exchange has an edge in it.          *)
Within(r, x) == \A t \in LookedForInUri(r, x) : ToSet(t) \cap Edges = {}

(* Then its identifiers and the secrets are replaced in the host as in the  *)
(* whole URI.                                                               *)
LEMMA RedactedAround ==
    ASSUME NEW r \in RuleSets, NEW x, Seen(x), Within(r, x),
           NEW order, NEW repl, Numbering(order, repl), Ordered(r, x, order),
           NEW host \in Seq(Written), NEW edge \in Edge, NEW u, Around(u, host, edge)
    PROVE  Around(RedactString(r, u, order, repl, TRUE),
                  RedactString(r, host, order, repl, TRUE), edge)
<1> DEFINE m == Len(order)
           n == Len(r.secrets)
           v == Traced(u, order, repl, TRUE)
           g == Traced(host, order, repl, TRUE)
<1>1. /\ order \in Seq(Sought) /\ m \in Nat
      /\ \A k \in 1 .. m : order[k] \in Sought /\ repl[order[k]] \in Nat \ {0}
                           /\ order[k] \in Discovered(r, x)
  <2>1. order \in Seq(Sought) /\ \A k \in 1 .. m : repl[order[k]] \in Nat \ {0} BY DEF Numbering
  <2>2. m \in Nat /\ DOMAIN order = 1 .. m /\ \A k \in 1 .. m : order[k] \in Sought
    BY <2>1, LenProperties, ElementOfSeq
  <2>3. \A k \in 1 .. m : order[k] \in ToSet(order) BY <2>2 DEF ToSet
  <2> QED BY <2>1, <2>2, <2>3 DEF Ordered
<1>2. n \in Nat /\ \A k \in 1 .. n : r.secrets[k] \in Sought /\ r.secrets[k] \in ToSet(r.secrets)
  <2>1. r.secrets \in Seq(Sought) BY RulesAssumption DEF Sought
  <2>2. n \in Nat /\ DOMAIN r.secrets = 1 .. n /\ \A k \in 1 .. n : r.secrets[k] \in Sought
    BY <2>1, LenProperties, ElementOfSeq
  <2> QED BY <2>2 DEF ToSet
<1>3. \A t \in Discovered(r, x) \cup ToSet(r.secrets) :
         ToSet(t) \cap Edges = {} /\ ToSet(QueryEscape(t)) \cap Edges = {}
  <2> DEFINE texts == Discovered(r, x) \cup ToSet(r.secrets)
  <2>1. \A t \in texts : t \in LookedForInUri(r, x) /\ QueryEscape(t) \in LookedForInUri(r, x)
    BY DEF LookedForInUri
  <2> QED BY <2>1 DEF Within
<1>4. u \in Seq(Written) BY AroundTyped
<1>5. PICK a \in [0 .. m -> Seq(Written)] :
         /\ a[0] = u /\ v = a[m]
         /\ \A k \in 1 .. m :
               a[k] = Substitute(a[k - 1], order[k], <<TraceMarker(repl[order[k]])>>, TRUE)
  <2>1. TracedBy(u, order, repl, TRUE) BY <1>1, <1>4, TracedSteps
  <2> QED BY <2>1 DEF TracedBy
<1>6. PICK b \in [0 .. m -> Seq(Written)] :
         /\ b[0] = host /\ g = b[m]
         /\ \A k \in 1 .. m :
               b[k] = Substitute(b[k - 1], order[k], <<TraceMarker(repl[order[k]])>>, TRUE)
  <2>1. TracedBy(host, order, repl, TRUE) BY <1>1, TracedSteps
  <2> QED BY <2>1 DEF TracedBy
<1> HIDE DEF v, g, m, n
<1>7. Around(v, g, edge) /\ g \in Seq(Written)
  <2> DEFINE T == {k \in 0 .. m : Around(a[k], b[k], edge)}
  <2>1. 0 \in T BY <1>1, <1>5, <1>6
  <2>2. ASSUME NEW k \in 1 .. m, k - 1 \in T PROVE k \in T
    <3>1. k \in 0 .. m /\ k - 1 \in 0 .. m /\ Around(a[k - 1], b[k - 1], edge) BY <1>1, <2>2
    <3>2. b[k - 1] \in Seq(Written) BY <1>6, <3>1
    <3>3. order[k] \in Sought /\ TraceMarker(repl[order[k]]) \in Marks BY <1>1 DEF Marks
    <3>4. ToSet(order[k]) \cap Edges = {} /\ ToSet(QueryEscape(order[k])) \cap Edges = {}
      BY <1>1, <1>3
    <3> DEFINE old == order[k]
               mark == TraceMarker(repl[order[k]])
               t == a[k - 1]
               s == b[k - 1]
    <3>5. a[k] = Substitute(t, old, <<mark>>, TRUE) BY <1>5
    <3>6. b[k] = Substitute(s, old, <<mark>>, TRUE) BY <1>6
    <3> HIDE DEF old, mark, t, s
    <3>7. /\ Around(t, s, edge) /\ s \in Seq(Written) /\ old \in Sought /\ mark \in Marks
          /\ ToSet(old) \cap Edges = {} /\ ToSet(QueryEscape(old)) \cap Edges = {}
      BY <3>1, <3>2, <3>3, <3>4 DEF old, mark, t, s
    <3>8. Around(Substitute(t, old, <<mark>>, TRUE), Substitute(s, old, <<mark>>, TRUE), edge)
      BY <3>7, SubstitutedAround
    <3>9. Around(a[k], b[k], edge) BY <3>5, <3>6, <3>8
    <3> QED BY <3>1, <3>9
  <2>3. \A k \in 0 .. m : k \in T
    <3> HIDE DEF T
    <3> QED BY <1>1, <2>1, <2>2, Upward
  <2>4. m \in T /\ m \in 0 .. m BY <1>1, <2>3
  <2> QED BY <1>5, <1>6, <2>4
<1>8. v \in Seq(Written) BY <1>7, AroundTyped
<1>9. PICK p \in [0 .. n -> Seq(Written)] :
         /\ p[0] = v /\ WithoutSecrets(r, v, TRUE) = p[n]
         /\ \A k \in 1 .. n : p[k] = Substitute(p[k - 1], r.secrets[k], <<Redacted>>, TRUE)
  <2>1. SecretsTakenBy(r, v, TRUE) BY <1>8, SecretSteps
  <2> QED BY <2>1 DEF SecretsTakenBy, n
<1>10. PICK q \in [0 .. n -> Seq(Written)] :
         /\ q[0] = g /\ WithoutSecrets(r, g, TRUE) = q[n]
         /\ \A k \in 1 .. n : q[k] = Substitute(q[k - 1], r.secrets[k], <<Redacted>>, TRUE)
  <2>1. SecretsTakenBy(r, g, TRUE) BY <1>7, SecretSteps
  <2> QED BY <2>1 DEF SecretsTakenBy, n
<1>11. Around(p[n], q[n], edge)
  <2> DEFINE T == {k \in 0 .. n : Around(p[k], q[k], edge)}
  <2>1. 0 \in T BY <1>2, <1>7, <1>9, <1>10
  <2>2. ASSUME NEW k \in 1 .. n, k - 1 \in T PROVE k \in T
    <3>1. k \in 0 .. n /\ k - 1 \in 0 .. n /\ Around(p[k - 1], q[k - 1], edge) BY <1>2, <2>2
    <3>2. q[k - 1] \in Seq(Written) BY <1>10, <3>1
    <3>3. r.secrets[k] \in Sought /\ Redacted \in Marks BY <1>2 DEF Marks
    <3>4. ToSet(r.secrets[k]) \cap Edges = {} /\ ToSet(QueryEscape(r.secrets[k])) \cap Edges = {}
      BY <1>2, <1>3
    <3> DEFINE old == r.secrets[k]
               mark == Redacted
               t == p[k - 1]
               s == q[k - 1]
    <3>5. p[k] = Substitute(t, old, <<mark>>, TRUE) BY <1>9
    <3>6. q[k] = Substitute(s, old, <<mark>>, TRUE) BY <1>10
    <3> HIDE DEF old, mark, t, s
    <3>7. /\ Around(t, s, edge) /\ s \in Seq(Written) /\ old \in Sought /\ mark \in Marks
          /\ ToSet(old) \cap Edges = {} /\ ToSet(QueryEscape(old)) \cap Edges = {}
      BY <3>1, <3>2, <3>3, <3>4 DEF old, mark, t, s
    <3>8. Around(Substitute(t, old, <<mark>>, TRUE), Substitute(s, old, <<mark>>, TRUE), edge)
      BY <3>7, SubstitutedAround
    <3>9. Around(p[k], q[k], edge) BY <3>5, <3>6, <3>8
    <3> QED BY <3>1, <3>9
  <2>3. \A k \in 0 .. n : k \in T
    <3> HIDE DEF T
    <3> QED BY <1>2, <2>1, <2>2, Upward
  <2>4. n \in T BY <1>2, <2>3
  <2> QED BY <2>4
<1>12. /\ p[n] = RedactString(r, u, order, repl, TRUE)
       /\ q[n] = RedactString(r, host, order, repl, TRUE)
  BY <1>9, <1>10 DEF RedactString, v, g
<1> QED BY <1>11, <1>12

(* And what the replacements write is written in the host as in the URI.    *)
LEMMA ReplacedAround ==
    ASSUME NEW r \in RuleSets, NEW x, Within(r, x),
           NEW host \in Seq(Written), NEW edge \in Edge, NEW u, Around(u, host, edge)
    PROVE  /\ Around(ApplyReplacements(r, u, "uri"), ApplyReplacements(r, host, "uri"), edge)
           /\ ApplyReplacements(r, host, "uri") \in Seq(Written)
<1> DEFINE m == Len(r.replacements)
<1>1. u \in Seq(Written) BY AroundTyped
<1>2. /\ m \in Nat /\ DOMAIN r.replacements = 1 .. m
      /\ \A k \in 1 .. m :
            /\ r.replacements[k].with \in Seq(Written)
            /\ \A t \in r.replacements[k].matches : t \in Seq(Written) /\ t # <<>>
  BY ReplacementsPlain, RulesAssumption
<1>3. PICK a \in [0 .. m -> Seq(Written)] :
         /\ a[0] = u /\ ApplyReplacements(r, u, "uri") = a[m]
         /\ \A k \in 1 .. m : a[k] = Replaced(a[k - 1], r.replacements[k], "uri")
  <2>1. ReplacedBy(r, u, "uri") BY <1>1, ReplacementSteps
  <2> QED BY <2>1 DEF ReplacedBy
<1>4. PICK b \in [0 .. m -> Seq(Written)] :
         /\ b[0] = host /\ ApplyReplacements(r, host, "uri") = b[m]
         /\ \A k \in 1 .. m : b[k] = Replaced(b[k - 1], r.replacements[k], "uri")
  <2>1. ReplacedBy(r, host, "uri") BY ReplacementSteps
  <2> QED BY <2>1 DEF ReplacedBy
<1>5. ASSUME NEW k \in 1 .. m, "uri" \in r.replacements[k].scopes
      PROVE  \A t \in r.replacements[k].matches : ToSet(t) \cap Edges = {}
  <2> DEFINE rp == r.replacements[k]
  <2>1. rp \in {y \in ToSet(r.replacements) : "uri" \in y.scopes} BY <1>2, <1>5 DEF ToSet
  <2> HIDE DEF rp
  <2>2. \A t \in rp.matches : t \in LookedForInUri(r, x) BY <2>1 DEF LookedForInUri
  <2> QED BY <2>2 DEF Within, rp
<1> HIDE DEF m
<1> DEFINE T == {k \in 0 .. m : Around(a[k], b[k], edge)}
<1>6. 0 \in T BY <1>2, <1>3, <1>4
<1>7. ASSUME NEW k \in 1 .. m, k - 1 \in T PROVE k \in T
  <2> DEFINE rp == r.replacements[k]
             v == a[k - 1]
             g == b[k - 1]
  <2>1. k \in 0 .. m /\ k - 1 \in 0 .. m BY <1>2
  <2>2. Around(v, g, edge) /\ g \in Seq(Written) BY <1>4, <1>7, <2>1
  <2>3. a[k] = Replaced(v, rp, "uri") /\ b[k] = Replaced(g, rp, "uri") BY <1>3, <1>4
  <2>4. rp.with \in Seq(Written) /\ \A t \in rp.matches : t \in Seq(Written) /\ t # <<>> BY <1>2
  <2>5. "uri" \in rp.scopes => \A t \in rp.matches : ToSet(t) \cap Edges = {} BY <1>5
  <2> HIDE DEF rp, v, g
  <2>6. Around(Replaced(v, rp, "uri"), Replaced(g, rp, "uri"), edge)
    <3>1. CASE "uri" \in rp.scopes
      <4>1. Around(ReplaceMatches(v, rp.matches, rp.with), ReplaceMatches(g, rp.matches, rp.with), edge)
        BY <2>2, <2>4, <2>5, <3>1, KeptAround
      <4> QED BY <3>1, <4>1 DEF Replaced
    <3>2. CASE "uri" \notin rp.scopes BY <2>2, <3>2 DEF Replaced
    <3> QED BY <3>1, <3>2
  <2> QED BY <2>1, <2>3, <2>6
<1>8. \A k \in 0 .. m : k \in T
  <2> HIDE DEF T
  <2> QED BY <1>2, <1>6, <1>7, Upward
<1>9. m \in T /\ m \in 0 .. m BY <1>2, <1>8
<1> QED BY <1>3, <1>4, <1>9

(* The host is taken from the URI as it is put in the provenance, where it  *)
(* has no identifier.                                                       *)
LEMMA HostAlone ==
    ASSUME NEW r \in RuleSets, NEW x, Seen(x),
           NEW order, NEW repl, Numbering(order, repl), Ordered(r, x, order),
           \A v \in Discovered(r, x) : ~Occurs(x.uri.host, v)
    PROVE  ApplyReplacements(r, RedactString(r, x.uri.host, order, repl, TRUE), "uri")
           = ScrubEndpoint(r, x.uri.host)
<1> DEFINE host == x.uri.host
           none == [v \in {} |-> 0]
<1>1. \A v \in ToSet(order) : ~Occurs(host, v) BY DEF Ordered
<1>2. host \in Seq(Written) BY SeenTexts, PlainWritten
<1>3. Traced(host, order, repl, TRUE) = host
  <2>1. order \in Seq(Sought) /\ \A k \in 1 .. Len(order) : repl[order[k]] \in Nat \ {0}
    BY DEF Numbering
  <2>2. Cleared(host, Traced(host, order, repl, TRUE), order, TRUE) BY <1>2, <2>1, TracedClears
  <2>3. \A v \in ToSet(order) : v \in Sought BY <2>1, LookedSought DEF Looked
  <2>4. \A v \in ToSet(order) : ~Occurs(host, QueryEscape(v)) BY <1>1, <2>3, HostEscapes
  <2> QED BY <1>1, <2>2, <2>4 DEF Cleared
<1>4. Traced(host, <<>>, none, FALSE) = host
  <2> HIDE DEF none
  <2>1. <<>> \in Seq(Sought) /\ Len(<<>>) = 0 /\ ToSet(<<>>) = {} BY EmptySeq DEF ToSet
  <2>2. \A k \in 1 .. Len(<<>>) : none[<<>>[k]] \in Nat \ {0} BY <2>1
  <2>3. Cleared(host, Traced(host, <<>>, none, FALSE), <<>>, FALSE)
    BY <1>2, <2>1, <2>2, TracedClears
  <2> QED BY <2>1, <2>3 DEF Cleared
<1>5. RedactString(r, host, order, repl, TRUE) = RedactString(r, host, <<>>, none, FALSE)
  BY <1>3, <1>4, HostSecrets DEF RedactString
<1> QED BY <1>5 DEF ScrubEndpoint

(* What begins a text is a prefix of it.                                    *)
LEMMA Begins ==
    ASSUME NEW S, NEW t \in Seq(S), NEW w \in Seq(S)
    PROVE  IsPrefix(t, t \o w)
<1> DEFINE u == t \o w
<1>1. /\ u \in Seq(S) /\ Len(u) = Len(t) + Len(w) /\ Len(t) \in Nat /\ Len(w) \in Nat
      /\ \A i \in 1 .. Len(t) + Len(w) : u[i] = IF i <= Len(t) THEN t[i] ELSE w[i - Len(t)]
  BY LenProperties, ConcatProperties
<1> HIDE DEF u
<1>2. SubSeq(t, 1, Len(t)) = t BY SubSeqFull
<1>3. \A i \in 1 .. Len(t) : u[i] = t[i] BY <1>1
<1>4. SubSeq(u, 1, Len(t)) = t
  <2>1. SubSeq(u, 1, Len(t)) = [i \in 1 .. Len(t) |-> u[i]] BY <1>1
  <2>2. t = [i \in 1 .. Len(t) |-> t[i]] BY LenProperties
  <2> QED BY <1>3, <2>1, <2>2
<1> QED BY <1>1, <1>2, <1>4 DEF IsPrefix, u

(* The provenance names the host as the URI of an exchange does, if nothing *)
(* looked for reaches beyond it and it holds no identifier.                 *)
THEOREM Provenance == Spec => []EndpointReadsAsUri
<1>1. IInv => EndpointReadsAsUri
  <2> DEFINE c == Char("https://")
  <2> SUFFICES ASSUME IInv, NEW i \in DOMAIN log, NEW x, x = log[i].of, Within(rules, x),
                      \A v \in Discovered(rules, x) : ~Occurs(x.uri.host, v)
               PROVE  IsPrefix(Text(<<"https://">>) \o ScrubEndpoint(rules, x.uri.host)
                                  \o SubSeq(PathAndQuery(rules, x.uri), 1, 1),
                               log[i].copy.uri)
    BY DEF EndpointReadsAsUri, Within
  <2> DEFINE host == x.uri.host
             rest == PathAndQuery(rules, x.uri)
             edge == SubSeq(rest, 1, 1)
             endpoint == ScrubEndpoint(rules, host)
  <2>1. rules \in RuleSets /\ Seen(x) /\ Copied(rules, traceValues, x, log[i].copy)
    BY CopiesKept
  <2>2. PICK order, repl : /\ Numbering(order, repl) /\ Ordered(rules, x, order)
                           /\ log[i].copy = Scrub(rules, x, order, repl)
    BY <2>1 DEF Copied
  <2>3. /\ Whole(rules, x.uri) = <<c>> \o (host \o rest) /\ Text(<<"https://">>) = <<c>>
        /\ host \in Seq(Written) /\ rest \in Seq(Written) /\ c \in Written
    BY <2>1, WholeText
  <2>4. edge \in Edge /\ Around(Whole(rules, x.uri), host, edge)
    <3>1. rest = <<>> \/ rest[1] \in Edges BY <2>1, Following
    <3> HIDE DEF rest
    <3>2. CASE rest = <<>>
      <4>1. edge = <<>> BY <3>2
      <4>2. <<>> \o <<>> = <<>> /\ <<>> \in Seq(Written) BY EmptySeq, ConcatEmptySeq
      <4> QED BY <2>3, <3>2, <4>1, <4>2 DEF Around, Edge
    <3>3. CASE rest # <<>>
      <4>1. Len(rest) \in Nat \ {0} BY <2>3, <3>3, LenProperties, EmptySeq
      <4> DEFINE w == SubSeq(rest, 2, Len(rest))
      <4>2. edge = <<rest[1]>>
        <5>1. SubSeq(rest, 1, 1) = [k \in 1 .. 1 |-> rest[k]] BY <2>3, <4>1
        <5>2. <<rest[1]>> = [k \in 1 .. 1 |-> rest[k]] OBVIOUS
        <5> QED BY <5>1, <5>2
      <4>3. rest = <<rest[1]>> \o w
        <5>1. SubSeq(rest, 1, Len(rest)) = rest BY <2>3, SubSeqFull
        <5>2. 1 \in 1 .. Len(rest) /\ Len(rest) \in 1 .. Len(rest) BY <4>1
        <5>3. SubSeq(rest, 1, Len(rest)) = <<rest[1]>> \o SubSeq(rest, 1 + 1, Len(rest))
          BY <2>3, <5>2, SubSeqRecursiveFirst
        <5> QED BY <5>1, <5>3
      <4>4. w \in Seq(Written)
        <5>1. \A k \in 2 .. Len(rest) : rest[k] \in Written BY <2>3, ElementOfSeq
        <5> QED BY <4>1, <5>1, SubSeqProperties
      <4> HIDE DEF w
      <4>5. edge # <<>> /\ edge \in Edge BY <3>1, <3>3, <4>2 DEF Edge
      <4>6. Whole(rules, x.uri) = <<c>> \o (host \o (edge \o w)) BY <2>3, <4>2, <4>3
      <4> HIDE DEF edge
      <4> QED BY <4>4, <4>5, <4>6 DEF Around
    <3> QED BY <3>2, <3>3
  <2> HIDE DEF edge, rest
  <2> DEFINE u == RedactString(rules, Whole(rules, x.uri), order, repl, TRUE)
             h == RedactString(rules, host, order, repl, TRUE)
  <2>5. Around(u, h, edge) BY <2>1, <2>2, <2>3, <2>4, RedactedAround
  <2>6. h \in Seq(Written)
    <3>1. RedactedAs(rules, host, h, order, TRUE) BY <2>1, <2>2, <2>3, RedactedTexts
    <3> QED BY <3>1 DEF RedactedAs
  <2>7. ApplyReplacements(rules, h, "uri") = endpoint BY <2>1, <2>2, HostAlone
  <2>8. log[i].copy.uri = ApplyReplacements(rules, u, "uri")
    BY <2>2 DEF Scrub, URI, Whole
  <2> HIDE DEF u, h, endpoint
  <2>9. Around(log[i].copy.uri, endpoint, edge) /\ endpoint \in Seq(Written)
    BY <2>1, <2>4, <2>5, <2>6, <2>7, <2>8, ReplacedAround
  <2>10. PICK w \in Seq(Written) : log[i].copy.uri = <<c>> \o (endpoint \o (edge \o w))
    BY <2>9 DEF Around
  <2>11. edge \in Seq(Written) /\ <<c>> \in Seq(Written)
    <3>1. edge \in Seq(Written) BY <2>4, EdgeTyped
    <3>2. <<c>> \in Seq(Written) BY <2>3
    <3> QED BY <3>1, <3>2
  <2> HIDE DEF c
  <2>12. log[i].copy.uri = ((<<c>> \o endpoint) \o edge) \o w
    <3>1. /\ edge \o w \in Seq(Written) /\ <<c>> \o endpoint \in Seq(Written)
      BY <2>9, <2>11, ConcatProperties
    <3> DEFINE first == <<c>>
    <3>2. first \in Seq(Written) /\ log[i].copy.uri = first \o (endpoint \o (edge \o w))
      BY <2>10, <2>11
    <3> HIDE DEF first
    <3>a. ASSUME NEW p \in Seq(Written), NEW q \in Seq(Written), NEW r \in Seq(Written)
          PROVE  p \o (q \o r) = (p \o q) \o r
      BY Regrouped, SMTT(20)
    <3>3. first \o (endpoint \o (edge \o w)) = (first \o endpoint) \o (edge \o w)
      <4> DEFINE tail == edge \o w
      <4>1. tail \in Seq(Written) BY <3>1
      <4>2. endpoint \in Seq(Written) /\ first \in Seq(Written) BY <2>9, <3>2
      <4> HIDE DEF tail
      <4>3. first \o (endpoint \o tail) = (first \o endpoint) \o tail
        BY <4>1, <4>2, <3>a
      <4> QED BY <4>3 DEF tail
    <3>4. first \o endpoint \in Seq(Written) BY <3>1 DEF first
    <3>5. (first \o endpoint) \o (edge \o w) = ((first \o endpoint) \o edge) \o w
      BY <2>11, <3>4, <3>a, <2>9, Zenon
    <3>6. log[i].copy.uri = ((first \o endpoint) \o edge) \o w BY <3>2, <3>3, <3>5
    <3> QED BY <3>6 DEF first
  <2>13. (<<c>> \o endpoint) \o edge \in Seq(Written)
    <3>1. <<c>> \o endpoint \in Seq(Written) BY <2>9, <2>11, ConcatProperties
    <3> QED BY <2>11, <3>1, ConcatProperties
  <2>14. IsPrefix((<<c>> \o endpoint) \o edge, log[i].copy.uri) BY <2>12, <2>13, Begins
  <2> QED BY <2>3, <2>14 DEF c, endpoint, edge, rest
<1> QED BY <1>1, Invariance, PTL

-----------------------------------------------------------------------------
(* Restoring a body                                                         *)

(* A text with each symbol spelled out.                                     *)
Expanded(g, t) == FlattenSeq([i \in DOMAIN t |-> g[t[i]]])

(* A symbol is spelled out by itself, and texts side by side.               *)
Spells(S, g) ==
    /\ \A a, b \in Seq(S) : Expanded(g, a \o b) = Expanded(g, a) \o Expanded(g, b)
    /\ \A c \in S : Expanded(g, <<c>>) = g[c]

(* So it is where each symbol stands for a text.                            *)
LEMMA Expanding ==
    ASSUME NEW S, NEW X, NEW g \in [S -> Seq(X)]
    PROVE  Spells(S, g)
<1> DEFINE Out(t) == [i \in DOMAIN t |-> g[t[i]]]
<1>1. \A t \in Seq(S) : /\ Out(t) \in Seq(Seq(X)) /\ Len(Out(t)) = Len(t)
                        /\ \A i \in 1 .. Len(t) : Out(t)[i] = g[t[i]]
  <2> SUFFICES ASSUME NEW t \in Seq(S)
               PROVE  /\ Out(t) \in Seq(Seq(X)) /\ Len(Out(t)) = Len(t)
                      /\ \A i \in 1 .. Len(t) : Out(t)[i] = g[t[i]]
    OBVIOUS
  <2>1. DOMAIN t = 1 .. Len(t) /\ Len(t) \in Nat /\ \A i \in 1 .. Len(t) : t[i] \in S
    BY LenProperties, ElementOfSeq
  <2>2. Out(t) \in [1 .. Len(t) -> Seq(X)] BY <2>1
  <2> QED BY <2>1, <2>2
<1>2. ASSUME NEW u \in Seq(S), NEW v \in Seq(S)
      PROVE  Expanded(g, u \o v) = Expanded(g, u) \o Expanded(g, v)
  <2>1. Out(u) \in Seq(Seq(X)) /\ Out(v) \in Seq(Seq(X)) BY <1>1
  <2>2. u \o v \in Seq(S) /\ Len(u \o v) = Len(u) + Len(v)
        /\ \A i \in 1 .. Len(u) + Len(v) :
              (u \o v)[i] = IF i <= Len(u) THEN u[i] ELSE v[i - Len(u)]
    BY ConcatProperties
  <2>3. Len(u) \in Nat /\ Len(v) \in Nat BY LenProperties
  <2>4. /\ Len(Out(u)) = Len(u) /\ Len(Out(v)) = Len(v)
        /\ Len(Out(u \o v)) = Len(u) + Len(v) /\ Out(u \o v) \in Seq(Seq(X))
        /\ \A i \in 1 .. Len(u) : Out(u)[i] = g[u[i]]
        /\ \A i \in 1 .. Len(v) : Out(v)[i] = g[v[i]]
        /\ \A i \in 1 .. Len(u) + Len(v) : Out(u \o v)[i] = g[(u \o v)[i]]
    BY <1>1, <2>2
  <2> HIDE DEF Out
  <2>5. /\ Out(u) \o Out(v) \in Seq(Seq(X)) /\ Len(Out(u) \o Out(v)) = Len(u) + Len(v)
        /\ \A i \in 1 .. Len(u) + Len(v) :
              (Out(u) \o Out(v))[i] = IF i <= Len(u) THEN Out(u)[i] ELSE Out(v)[i - Len(u)]
    <3> DEFINE p == Out(u)
               q == Out(v)
    <3>1. p \in Seq(Seq(X)) /\ q \in Seq(Seq(X)) /\ Len(p) = Len(u) /\ Len(q) = Len(v)
      BY <2>1, <2>4
    <3> HIDE DEF p, q
    <3>2. /\ p \o q \in Seq(Seq(X)) /\ Len(p \o q) = Len(p) + Len(q)
          /\ \A i \in 1 .. Len(p) + Len(q) :
                (p \o q)[i] = IF i <= Len(p) THEN p[i] ELSE q[i - Len(p)]
      BY <3>1, ConcatProperties
    <3> QED BY <3>1, <3>2 DEF p, q
  <2>6. ASSUME NEW i \in 1 .. Len(u) + Len(v) PROVE Out(u \o v)[i] = (Out(u) \o Out(v))[i]
    <3>1. CASE i <= Len(u)
      <4>1. i \in 1 .. Len(u) BY <2>3, <3>1
      <4> QED BY <2>2, <2>4, <2>5, <3>1, <4>1
    <3>2. CASE ~(i <= Len(u))
      <4> DEFINE k == i - Len(u)
      <4>1. k \in 1 .. Len(v) BY <2>3, <3>2
      <4>2. (u \o v)[i] = v[k] /\ (Out(u) \o Out(v))[i] = Out(v)[k] BY <2>2, <2>5, <3>2
      <4> HIDE DEF k
      <4> QED BY <2>4, <4>1, <4>2
    <3> QED BY <3>1, <3>2
  <2>7. Out(u \o v) = Out(u) \o Out(v) BY <2>4, <2>5, <2>6, SeqEqual
  <2>8. FlattenSeq(Out(u) \o Out(v)) = FlattenSeq(Out(u)) \o FlattenSeq(Out(v))
    BY <2>1, FlatJoins
  <2> QED BY <2>7, <2>8 DEF Expanded, Out
<1>4. ASSUME NEW c \in S PROVE Expanded(g, <<c>>) = g[c]
  <2>0. <<c>> \in Seq(S) /\ Len(<<c>>) = 1 /\ <<c>>[1] = c OBVIOUS
  <2>1. /\ Out(<<c>>) \in Seq(Seq(X)) /\ Len(Out(<<c>>)) = 1
        /\ \A i \in 1 .. 1 : Out(<<c>>)[i] = g[<<c>>[i]]
    BY <1>1, <2>0
  <2>2. Out(<<c>>)[1] = g[c] BY <2>0, <2>1
  <2> DEFINE o == Out(<<c>>)
  <2>3. Expanded(g, <<c>>) = FlattenSeq(o) BY DEF Expanded
  <2>4. o \in Seq(Seq(X)) /\ Len(o) = 1 /\ o[1] = g[c] BY <2>1, <2>2
  <2> HIDE DEF o, Out
  <2>5. FlatBy(X, o) BY <2>4, FlatSteps
  <2>6. PICK f \in [0 .. 1 -> Seq(X)] :
           f[0] = <<>> /\ (\A k \in 1 .. 1 : f[k] = f[k - 1] \o o[k]) /\ FlattenSeq(o) = f[1]
    BY <2>4, <2>5 DEF FlatBy
  <2>7. f[1] = <<>> \o g[c]
    <3>1. 1 \in 1 .. 1 /\ 1 - 1 = 0 OBVIOUS
    <3> QED BY <2>4, <2>6, <3>1
  <2>8. <<>> \o g[c] = g[c] BY ConcatEmptySeq
  <2> QED BY <2>3, <2>6, <2>7, <2>8
<1> HIDE DEF Out
<1> QED BY <1>2, <1>4 DEF Spells

(* Texts that stand for themselves are spelled out as they are.             *)
LEMMA ExpandedPlain ==
    ASSUME NEW S, NEW g, Spells(S, g), Symbols \subseteq S,
           \A c \in Symbols : g[c] = <<c>>, NEW t \in Plain
    PROVE  Expanded(g, t) = t
<1>1. DOMAIN t = 1 .. Len(t) /\ Len(t) \in Nat /\ \A i \in 1 .. Len(t) : t[i] \in Symbols
  BY LenProperties, ElementOfSeq DEF Plain
<1>2. t \in Seq(S) BY SeqMonotonic DEF Plain
<1> DEFINE T == {n \in 0 .. Len(t) : Expanded(g, SubSeq(t, 1, n)) = SubSeq(t, 1, n)}
<1>3. 0 \in T
  <2>1. SubSeq(t, 1, 0) = <<>> BY SubSeqEmpty
  <2> DEFINE none == [i \in DOMAIN <<>> |-> g[<<>>[i]]]
  <2>2. Len(none) = 0 /\ none = <<>> OBVIOUS
  <2>3. FlattenSeq(none) = none BY <2>2 DEF FlattenSeq
  <2>4. Expanded(g, <<>>) = <<>> BY <2>2, <2>3 DEF Expanded
  <2>5. Expanded(g, SubSeq(t, 1, 0)) = SubSeq(t, 1, 0) BY <2>1, <2>4, Zenon
  <2>6. 0 \in 0 .. Len(t) BY <1>1
  <2> QED BY <2>5, <2>6
<1>4. ASSUME NEW n \in 1 .. Len(t), n - 1 \in T PROVE n \in T
  <2> DEFINE p == SubSeq(t, 1, n - 1)
             c == t[n]
  <2>1. n \in 0 .. Len(t) /\ 1 \in 1 .. Len(t) /\ n \in 1 .. Len(t) BY <1>1
  <2>2. SubSeq(t, 1, n) = p \o <<c>> BY <1>2, <2>1, SubSeqRecursiveSecond
  <2>3. p \in Seq(S) /\ c \in S /\ c \in Symbols /\ <<c>> \in Seq(S)
    <3>1. \A i \in 1 .. n - 1 : t[i] \in S BY <1>1
    <3>2. p \in Seq(S) BY <3>1, SubSeqProperties
    <3> QED BY <1>1, <3>2
  <2>4. Expanded(g, p) = p BY <1>4
  <2> HIDE DEF p, c
  <2>5. Expanded(g, p \o <<c>>) = Expanded(g, p) \o Expanded(g, <<c>>)
    BY <2>3 DEF Spells
  <2>6. Expanded(g, <<c>>) = g[c] BY <2>3 DEF Spells
  <2>7. Expanded(g, p \o <<c>>) = p \o <<c>> BY <2>3, <2>4, <2>5, <2>6
  <2> QED BY <2>1, <2>2, <2>7
<1>5. \A n \in 0 .. Len(t) : n \in T
  <2> HIDE DEF T
  <2> QED BY <1>1, <1>3, <1>4, Upward
<1>6. Len(t) \in T BY <1>1, <1>5
<1>7. SubSeq(t, 1, Len(t)) = t BY <1>2, SubSeqFull
<1> QED BY <1>6, <1>7

PutsBack(S, g, t, u) == u \in Seq(S) /\ Expanded(g, u) = Expanded(g, t)

(* A text that a marker stands for can be put back for it.                  *)
LEMMA PutBack ==
    ASSUME NEW S, NEW g, Spells(S, g), NEW t \in Seq(S),
           NEW old \in Seq(S), old # <<>>, NEW c \in S, Expanded(g, old) = g[c]
    PROVE  PutsBack(S, g, t, ReplaceText(t, old, <<c>>))
<1> DEFINE matches == {old}
           new == <<c>>
           N == Len(t)
<1>1. /\ \A m \in matches : m \in Seq(S) /\ m # <<>> /\ m = old
      /\ ReplaceText(t, old, <<c>>) = ReplaceMatches(t, matches, new) /\ new \in Seq(S)
  BY DEF ReplaceText
<1> HIDE DEF matches, new
<1>2. PICK rest \in [1 .. Len(t) + 1 -> Seq(S)] :
         Rewrites(rest, t, matches, new) /\ ReplaceMatches(t, matches, new) = rest[1]
  <2>1. Rewritten(S, t, matches, new) BY <1>1, Rewriting
  <2> QED BY <2>1 DEF Rewritten
<1>3. /\ N \in Nat /\ DOMAIN t = 1 .. N /\ Len(old) \in Nat \ {0} /\ DOMAIN old = 1 .. Len(old)
      /\ \A i \in 1 .. N : t[i] \in S
  BY LenProperties, ElementOfSeq, EmptySeq
<1>4. \A i \in 1 .. N + 1 : SubSeq(t, i, N) \in Seq(S)
  <2> SUFFICES ASSUME NEW i \in 1 .. N + 1 PROVE SubSeq(t, i, N) \in Seq(S) OBVIOUS
  <2>1. i \in Int /\ N \in Int /\ \A k \in i .. N : t[k] \in S BY <1>3
  <2> QED BY <2>1, SubSeqProperties
<1> DEFINE T == {i \in 1 .. N + 1 : Expanded(g, rest[i]) = Expanded(g, SubSeq(t, i, N))}
<1>5. N + 1 \in T
  <2>1. SubSeq(t, N + 1, N) = <<>> /\ N + 1 \in 1 .. N + 1 BY <1>3, SubSeqEmpty
  <2>2. rest[N + 1] = <<>> BY <1>2 DEF Rewrites
  <2> QED BY <2>1, <2>2
<1>6. ASSUME NEW i \in 1 .. N, \A k \in i + 1 .. N + 1 : k \in T PROVE i \in T
  <2>0. i \in 1 .. N + 1 BY <1>3
  <2>1. CASE \E m \in matches : StandsAt(t, i, m) /\ rest[i] = new \o rest[i + Len(m)]
    <3> DEFINE L == Len(old)
               j == i + L
               tail == SubSeq(t, j, N)
    <3>1. StandsAt(t, i, old) /\ rest[i] = <<c>> \o rest[j] BY <1>1, <2>1 DEF new
    <3>2. i + L - 1 <= N /\ \A k \in 1 .. L : t[i + k - 1] = old[k]
      BY <1>3, <3>1 DEF StandsAt
    <3>3. j \in i + 1 .. N + 1 /\ j \in 1 .. N + 1 /\ L \in Nat \ {0} BY <1>3, <3>2
    <3>4. rest[j] \in Seq(S) /\ tail \in Seq(S) BY <1>2, <1>4, <3>3
    <3>5. Expanded(g, rest[j]) = Expanded(g, tail) BY <1>6, <3>3
    <3>6. SubSeq(t, i, j - 1) = old
      <4> DEFINE u == SubSeq(t, i, j - 1)
      <4>1. i \in Int /\ j - 1 \in Int /\ \A k \in i .. j - 1 : t[k] \in S BY <1>3, <3>2, <3>3
      <4>2. /\ u \in Seq(S) /\ Len(u) = (j - 1) - i + 1
            /\ \A k \in 1 .. (j - 1) - i + 1 : u[k] = t[i + k - 1]
        <5>1. i <= j - 1 BY <1>3, <3>3
        <5> QED BY <4>1, <5>1, SubSeqProperties
      <4> HIDE DEF u
      <4>3. (j - 1) - i + 1 = L BY <1>3, <3>3
      <4>4. Len(u) = L /\ \A k \in 1 .. L : u[k] = old[k] BY <3>2, <4>2, <4>3
      <4>5. u = old BY <4>2, <4>4, SeqEqual
      <4> QED BY <4>5 DEF u
    <3>7. SubSeq(t, i, N) = old \o tail
      <4>1. /\ j - 1 \in i - 1 .. N /\ i \in 1 .. N + 1 /\ N \in j - 1 .. N
            /\ (j - 1) + 1 = j
        BY <1>3, <3>2, <3>3
      <4>2. SubSeq(t, i, j - 1) \o SubSeq(t, (j - 1) + 1, N) = SubSeq(t, i, N)
        BY <4>1, ConcatAdjacentSubSeq
      <4> QED BY <3>6, <4>1, <4>2
    <3> HIDE DEF tail, j
    <3>8. Expanded(g, old \o tail) = Expanded(g, old) \o Expanded(g, tail)
      BY <3>4 DEF Spells
    <3>9. Expanded(g, <<c>> \o rest[j]) = g[c] \o Expanded(g, rest[j])
      <4>1. Expanded(g, <<c>> \o rest[j]) = Expanded(g, <<c>>) \o Expanded(g, rest[j])
        BY <1>1, <3>4 DEF Spells, new
      <4> QED BY <4>1 DEF Spells
    <3> QED BY <2>0, <3>1, <3>5, <3>7, <3>8, <3>9
  <2>2. CASE rest[i] = <<t[i]>> \o rest[i + 1]
    <3> DEFINE s == t[i]
               tail == SubSeq(t, i + 1, N)
    <3>1. i + 1 \in i + 1 .. N + 1 /\ i + 1 \in 1 .. N + 1 /\ s \in S /\ N \in i .. N BY <1>3
    <3>2. rest[i + 1] \in Seq(S) /\ tail \in Seq(S) BY <1>2, <1>4, <3>1
    <3>3. Expanded(g, rest[i + 1]) = Expanded(g, tail) BY <1>6, <3>1
    <3>4. SubSeq(t, i, N) = <<s>> \o tail BY <3>1, SubSeqRecursiveFirst
    <3>5. rest[i] = <<s>> \o rest[i + 1] BY <2>2
    <3> HIDE DEF s, tail
    <3>6. /\ Expanded(g, <<s>> \o rest[i + 1]) = g[s] \o Expanded(g, rest[i + 1])
          /\ Expanded(g, <<s>> \o tail) = g[s] \o Expanded(g, tail)
      <4>0. <<s>> \in Seq(S) BY <3>1
      <4>1. /\ Expanded(g, <<s>> \o rest[i + 1]) = Expanded(g, <<s>>) \o Expanded(g, rest[i + 1])
            /\ Expanded(g, <<s>> \o tail) = Expanded(g, <<s>>) \o Expanded(g, tail)
        BY <3>2, <4>0 DEF Spells
      <4>2. Expanded(g, <<s>>) = g[s] BY <3>1 DEF Spells
      <4> QED BY <4>1, <4>2
    <3> QED BY <2>0, <3>3, <3>4, <3>5, <3>6
  <2> QED BY <1>2, <2>1, <2>2 DEF Rewrites
<1>7. \A i \in 1 .. N + 1 : i \in T
  <2> HIDE DEF T
  <2> QED BY <1>3, <1>5, <1>6, Downward
<1>8. 1 \in T /\ 1 \in 1 .. N + 1 BY <1>3, <1>7
<1>9. SubSeq(t, 1, N) = t BY SubSeqFull
<1>10. rest[1] \in Seq(S) BY <1>2, <1>8
<1> QED BY <1>1, <1>2, <1>8, <1>9, <1>10 DEF PutsBack

(* Texts are replaced one after another, each by a marker that stands for   *)
(* it.                                                                      *)
Marked(S, g, m, what, marks, upTo) ==
    /\ upTo[0] \in Seq(S)
    /\ \A k \in 1 .. m :
          /\ upTo[k] = Substitute(upTo[k - 1], what[k], <<marks[k]>>, FALSE)
          /\ what[k] \in Seq(S) /\ what[k] # <<>> /\ marks[k] \in S
          /\ Expanded(g, what[k]) = g[marks[k]]

(* Then they can all be put back.                                           *)
LEMMA PuttingBack ==
    ASSUME NEW S, NEW g, Spells(S, g), NEW m \in Nat,
           NEW what, NEW marks, NEW upTo, Marked(S, g, m, what, marks, upTo)
    PROVE  PutsBack(S, g, upTo[0], upTo[m])
<1> DEFINE T == {n \in 0 .. m : PutsBack(S, g, upTo[0], upTo[n])}
<1>1. 0 \in T BY DEF PutsBack, Marked
<1>2. ASSUME NEW n \in 1 .. m, n - 1 \in T PROVE n \in T
  <2> DEFINE u == upTo[n - 1]
             old == what[n]
             c == marks[n]
  <2>1. u \in Seq(S) /\ Expanded(g, u) = Expanded(g, upTo[0]) /\ n \in 0 .. m
    BY <1>2 DEF PutsBack
  <2>2. old \in Seq(S) /\ old # <<>> /\ c \in S /\ Expanded(g, old) = g[c] BY DEF Marked
  <2>3. upTo[n] = ReplaceText(u, old, <<c>>) BY DEF Marked, Substitute
  <2> HIDE DEF u, old, c
  <2>4. PutsBack(S, g, u, ReplaceText(u, old, <<c>>)) BY <2>1, <2>2, PutBack
  <2> QED BY <2>1, <2>3, <2>4 DEF PutsBack
<1>3. \A n \in 0 .. m : n \in T
  <2> HIDE DEF T
  <2> QED BY <1>1, <1>2, Upward
<1>4. m \in T BY <1>3
<1> QED BY <1>4

(* With the table, and the secret if there is one, a body is restored from  *)
(* what was recorded of it.                                                 *)
LEMMA BodyRestored ==
    ASSUME IInv, NEW b \in Plain, NEW order, NEW repl, Numbering(order, repl),
           \A v \in ToSet(order) : v \in DOMAIN traceValues /\ repl[v] = traceValues[v],
           Len(rules.secrets) <= 1, rules.replacements = <<>>
    PROVE  Restored(Bytes(rules, b, order, repl)) = b
<1> DEFINE numbered == {TraceMarker(repl[v]) : v \in ToSet(order)}
           S == (Symbols \cup numbered) \cup {c \in {Redacted} : Len(rules.secrets) = 1}
           g == [c \in S |-> Unmasked(c)]
           m == Len(order)
           n == Len(rules.secrets)
           what == rules.secrets
<1>1. /\ order \in Seq(Sought) /\ m \in Nat /\ DOMAIN order = 1 .. m
      /\ \A k \in 1 .. m : order[k] \in Sought /\ repl[order[k]] \in Nat \ {0}
                           /\ order[k] \in ToSet(order)
  BY LenProperties, ElementOfSeq DEF Numbering, ToSet
<1>2. /\ rules \in RuleSets /\ n \in Nat
      /\ what \in Seq(Sought) /\ \A k \in 1 .. n : what[k] \in Sought
  <2>1. rules \in RuleSets BY DEF IInv
  <2>2. what \in Seq(Sought) BY <2>1, RulesAssumption DEF Sought
  <2> HIDE DEF what
  <2>3. Len(what) \in Nat /\ \A k \in 1 .. Len(what) : what[k] \in Sought
    BY <2>2, LenProperties, ElementOfSeq
  <2> QED BY <2>1, <2>2, <2>3 DEF what
<1>3. \A v \in ToSet(order) : v \in Sought /\ v \in Plain /\ repl[v] \in Nat \ {0}
  BY <1>1 DEF ToSet, Sought
<1>4. ASSUME NEW v \in ToSet(order) PROVE Unmasked(TraceMarker(repl[v])) = v
  <2>1. TraceMarker(repl[v]).mark = repl[v] /\ repl[v] # 0 BY <1>3 DEF TraceMarker
  <2>2. /\ IsInjective(traceValues) /\ v \in DOMAIN traceValues /\ repl[v] = traceValues[v]
    BY DEF IInv, Numbers
  <2> DEFINE w == CHOOSE w \in DOMAIN traceValues : traceValues[w] = repl[v]
  <2>3. w \in DOMAIN traceValues /\ traceValues[w] = repl[v] BY <2>2
  <2>4. Unmasked(TraceMarker(repl[v])) = w BY <2>1 DEF Unmasked
  <2> HIDE DEF w
  <2>5. w = v BY <2>2, <2>3 DEF IsInjective
  <2> QED BY <2>4, <2>5
<1>5. ASSUME NEW c \in Symbols PROVE Unmasked(c) = <<c>>
  <2>1. PICK x \in DOMAIN WidthOf : c = Char(x) BY DEF Symbols
  <2>2. c.mark = 0 BY <2>1 DEF Char
  <2>3. c # Redacted BY <1>5, MarksDiffer DEF Marks
  <2> QED BY <2>2, <2>3 DEF Unmasked
<1>6. Len(rules.secrets) = 1 => Unmasked(Redacted) = what[1]
  BY DEF Unmasked, Redacted
<1>7. /\ g \in [S -> Plain] /\ Symbols \subseteq S
      /\ \A c \in Symbols : g[c] = <<c>>
      /\ \A v \in ToSet(order) : TraceMarker(repl[v]) \in S /\ g[TraceMarker(repl[v])] = v
      /\ n = 1 => Redacted \in S /\ g[Redacted] = what[1]
  <2>1. \A c \in Symbols : <<c>> \in Plain BY DEF Plain
  <2>2. n = 1 => what[1] \in Plain BY <1>2 DEF Sought
  <2>3. ASSUME NEW c \in S PROVE Unmasked(c) \in Plain
    <3>1. CASE c \in Symbols BY <1>5, <2>1, <3>1
    <3>2. CASE c \in numbered BY <1>3, <1>4, <3>2
    <3>3. CASE c \in {x \in {Redacted} : Len(rules.secrets) = 1} BY <1>6, <2>2, <3>3
    <3> QED BY <3>1, <3>2, <3>3
  <2>4. \A c \in Symbols : c \in S OBVIOUS
  <2>5. \A v \in ToSet(order) : TraceMarker(repl[v]) \in S OBVIOUS
  <2>6. n = 1 => Redacted \in S OBVIOUS
  <2> HIDE DEF S
  <2> QED BY <1>4, <1>5, <1>6, <2>3, <2>4, <2>5, <2>6
<1> HIDE DEF S, what
<1>8. \A c \in S : g[c] = Unmasked(c) OBVIOUS
<1> HIDE DEF g, m, n
<1>9. Spells(S, g) BY <1>7, Expanding DEF Plain
<1>10. \A t \in Plain : t \in Seq(S) /\ Expanded(g, t) = t
  <2>1. \A t \in Plain : t \in Seq(S) BY <1>7, SeqMonotonic DEF Plain
  <2>2. \A t \in Plain : Expanded(g, t) = t BY <1>7, <1>9, ExpandedPlain
  <2> QED BY <2>1, <2>2
<1>11. b \in Seq(Written) BY PlainWritten
<1> DEFINE w == Traced(b, order, repl, FALSE)
           u == WithoutSecrets(rules, w, FALSE)
<1>12. PutsBack(S, g, b, w) /\ w \in Seq(Written)
  <2>1. TracedBy(b, order, repl, FALSE) BY <1>1, <1>11, TracedSteps DEF m
  <2>2. PICK f \in [0 .. m -> Seq(Written)] :
           /\ f[0] = b
           /\ \A k \in 1 .. m :
                 f[k] = Substitute(f[k - 1], order[k], <<TraceMarker(repl[order[k]])>>, FALSE)
           /\ w = f[m]
    BY <2>1 DEF TracedBy, m
  <2> HIDE DEF w
  <2> DEFINE marks == [k \in 1 .. m |-> TraceMarker(repl[order[k]])]
  <2>3. \A k \in 1 .. m : marks[k] = TraceMarker(repl[order[k]]) OBVIOUS
  <2> HIDE DEF marks
  <2>4. ASSUME NEW k \in 1 .. m
        PROVE  /\ f[k] = Substitute(f[k - 1], order[k], <<marks[k]>>, FALSE)
               /\ order[k] \in Seq(S) /\ order[k] # <<>> /\ marks[k] \in S
               /\ Expanded(g, order[k]) = g[marks[k]]
    <3>1. order[k] \in Plain /\ order[k] # <<>> /\ order[k] \in ToSet(order)
      BY <1>1 DEF Sought
    <3> QED BY <1>7, <1>10, <2>2, <2>3, <3>1
  <2>5. f[0] \in Seq(S) BY <1>10, <2>2
  <2>a. Marked(S, g, m, order, marks, f) BY <2>4, <2>5 DEF Marked
  <2>6. PutsBack(S, g, f[0], f[m]) BY <1>1, <1>9, <2>a, PuttingBack
  <2>7. f[m] \in Seq(Written) BY <1>1, <2>2
  <2> QED BY <2>2, <2>6, <2>7
<1> HIDE DEF w
<1>13. PutsBack(S, g, w, u) /\ u \in Seq(Written)
  <2>1. SecretsTakenBy(rules, w, FALSE) BY <1>2, <1>12, SecretSteps
  <2>2. PICK f \in [0 .. n -> Seq(Written)] :
           /\ f[0] = w
           /\ \A k \in 1 .. n : f[k] = Substitute(f[k - 1], what[k], <<Redacted>>, FALSE)
           /\ u = f[n]
    BY <2>1 DEF SecretsTakenBy, n, what
  <2> HIDE DEF u
  <2> DEFINE marks == [k \in 1 .. n |-> Redacted]
  <2>3. \A k \in 1 .. n : marks[k] = Redacted OBVIOUS
  <2> HIDE DEF marks
  <2>4. ASSUME NEW k \in 1 .. n
        PROVE  /\ f[k] = Substitute(f[k - 1], what[k], <<marks[k]>>, FALSE)
               /\ what[k] \in Seq(S) /\ what[k] # <<>> /\ marks[k] \in S
               /\ Expanded(g, what[k]) = g[marks[k]]
    <3>1. n = 1 /\ k = 1
      <4>1. n <= 1 /\ n \in Nat BY <1>2 DEF n
      <4> HIDE DEF n
      <4> QED BY <4>1
    <3>2. what[k] \in Plain /\ what[k] # <<>> BY <1>2 DEF Sought
    <3> QED BY <1>7, <1>10, <2>2, <2>3, <3>1, <3>2
  <2>5. f[0] \in Seq(S) BY <1>12, <2>2 DEF PutsBack
  <2>a. Marked(S, g, n, what, marks, f) BY <2>4, <2>5 DEF Marked
  <2>6. PutsBack(S, g, f[0], f[n]) BY <1>2, <1>9, <2>a, PuttingBack
  <2>7. f[n] \in Seq(Written) BY <1>2, <2>2
  <2> QED BY <2>2, <2>6, <2>7
<1>14. u = RedactString(rules, b, order, repl, FALSE) BY DEF RedactString, u, w
<1> HIDE DEF u
<1>15. Bytes(rules, b, order, repl) = u
  <2>1. ReplacedBy(rules, u, "body") BY <1>2, <1>13, ReplacementSteps
  <2>2. Len(rules.replacements) = 0 OBVIOUS
  <2>3. ApplyReplacements(rules, u, "body") = u BY <2>1, <2>2 DEF ReplacedBy
  <2> QED BY <1>14, <2>3 DEF Bytes
<1>16. Restored(u) = Expanded(g, u)
  <2>1. u \in Seq(S) BY <1>13 DEF PutsBack
  <2>2. \A i \in DOMAIN u : u[i] \in S BY <2>1, LenProperties, ElementOfSeq
  <2>3. [i \in DOMAIN u |-> Unmasked(u[i])] = [i \in DOMAIN u |-> g[u[i]]] BY <1>8, <2>2
  <2> QED BY <2>3 DEF Restored, Expanded
<1>17. Expanded(g, u) = b BY <1>10, <1>12, <1>13 DEF PutsBack
<1> QED BY <1>15, <1>16, <1>17

(* Nothing but the identifiers and the secret is lost from the bodies of a  *)
(* recording: they can be restored from it symbol by symbol.                *)
THEOREM Restorable == Spec => []BodiesRestorable
<1>1. IInv => BodiesRestorable
  <2> SUFFICES ASSUME IInv, Len(rules.secrets) <= 1, rules.replacements = <<>>,
                      NEW i \in DOMAIN log
               PROVE  /\ Restored(log[i].copy.body) = log[i].of.body
                      /\ Restored(log[i].copy.answer) = log[i].of.answer
    BY DEF BodiesRestorable
  <2> DEFINE x == log[i].of
  <2>1. rules \in RuleSets /\ Seen(x) /\ Copied(rules, traceValues, x, log[i].copy)
    BY CopiesKept
  <2>2. PICK order, repl :
           /\ Numbering(order, repl)
           /\ \A v \in ToSet(order) : v \in DOMAIN traceValues /\ repl[v] = traceValues[v]
           /\ log[i].copy = Scrub(rules, x, order, repl)
    BY <2>1 DEF Copied
  <2> HIDE DEF x
  <2>3. x.body \in Plain /\ x.answer \in Plain BY <2>1, SeenTexts
  <2>4. /\ log[i].copy.body = Bytes(rules, x.body, order, repl)
        /\ log[i].copy.answer = Bytes(rules, x.answer, order, repl)
    BY <2>2 DEF Scrub
  <2>5. /\ Restored(Bytes(rules, x.body, order, repl)) = x.body
        /\ Restored(Bytes(rules, x.answer, order, repl)) = x.answer
    BY <2>2, <2>3, BodyRestored
  <2> QED BY <2>4, <2>5 DEF x
<1> QED BY <1>1, Invariance, PTL
=============================================================================
