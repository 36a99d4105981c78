---------------------------- MODULE PathLemmas ----------------------------
(* Facts about paths, the sequences of names of which the file browser, the  *)
(* backend and the shell are modelled: what is in front of the last name,    *)
(* what is below a directory, and where it comes when the directory moves;   *)
(* and the induction with which walks along paths are followed.              *)
EXTENDS Naturals, Sequences, SequencesExt, Trees, SequenceTheorems, WellFoundedInduction, TLAPS

-----------------------------------------------------------------------------
(* Functions that are computed step by step *)

\* There is a least number in a set of numbers.
LEMMA LeastNumber ==
    ASSUME NEW T, T \subseteq Nat, T # {}
    PROVE  \E m \in T : \A k \in T : ~(k < m)
<1>1. \E m \in T : \A k \in T : ~(<<k, m>> \in OpToRel(<, Nat))
  BY NatLessThanWellFounded, WFMin, Zenon
<1>2. PICK m \in T : \A k \in T : ~(<<k, m>> \in OpToRel(<, Nat)) BY <1>1
<1>3. \A k \in T : k < m => <<k, m>> \in OpToRel(<, Nat) BY DEF OpToRel
<1> QED BY <1>2, <1>3

\* What every step keeps holds all along.
LEMMA StepsStayIn ==
    ASSUME NEW S, NEW f, NEW n \in Nat, f[0] \in S,
           \A i \in 1..n : f[i - 1] \in S => f[i] \in S
    PROVE  \A i \in 0..n : f[i] \in S
<1> DEFINE T == {i \in 0..n : f[i] \notin S}
<1>1. SUFFICES ASSUME T # {} PROVE FALSE OBVIOUS
<1>2. PICK m \in T : \A k \in T : ~(k < m)
  <2>1. T \subseteq Nat OBVIOUS
  <2> HIDE DEF T
  <2> QED BY <1>1, <2>1, LeastNumber
<1>3. m # 0 OBVIOUS
<1>4. m \in 1..n /\ m - 1 \in 0..n /\ m - 1 < m BY <1>3
<1>5. m - 1 \notin T BY <1>2, <1>4
<1>6. f[m - 1] \in S BY <1>4, <1>5
<1> QED BY <1>4, <1>6

\* f begins with a, and F makes each of its values from the one before.
IsRun(f, a, F, n) == f[0] = a /\ \A i \in 1..n : f[i] = F[<<i, f[i - 1]>>]
StepsWithin(S, F, n) == \A i \in 1..n : \A x \in S : F[<<i, x>>] \in S

\* A function that is defined by its first value and a step exists.
LEMMA StepsExist ==
    ASSUME NEW S, NEW a \in S, NEW F, NEW n \in Nat, StepsWithin(S, F, n)
    PROVE  \E f \in [0..n -> S] : IsRun(f, a, F, n)
<1> USE DEF IsRun, StepsWithin
<1> DEFINE Upto(k) == \E f \in [0..k -> S] : f[0] = a /\ \A i \in 1..k : f[i] = F[<<i, f[i - 1]>>]
           T == {k \in 0..n : ~Upto(k)}
<1>1. SUFFICES ASSUME T # {} PROVE FALSE OBVIOUS
<1>2. PICK m \in T : \A k \in T : ~(k < m)
  <2>1. T \subseteq Nat OBVIOUS
  <2> HIDE DEF T
  <2> QED BY <1>1, <2>1, LeastNumber
<1>3. m # 0
  <2>1. [i \in 0..0 |-> a] \in [0..0 -> S] /\ [i \in 0..0 |-> a][0] = a /\ 1..0 = {} OBVIOUS
  <2>2. Upto(0) BY <2>1
  <2> QED BY <1>2, <2>2
<1>4. m \in 1..n /\ m - 1 \in 0..n /\ m - 1 < m BY <1>2, <1>3
<1>5. Upto(m - 1) BY <1>2, <1>4
<1>6. PICK g \in [0..(m - 1) -> S] : g[0] = a /\ \A i \in 1..(m - 1) : g[i] = F[<<i, g[i - 1]>>]
  BY <1>5
<1> DEFINE f == [i \in 0..m |-> IF i = m THEN F[<<m, g[m - 1]>>] ELSE g[i]]
<1>7. f \in [0..m -> S]
  <2>1. g[m - 1] \in S BY <1>4
  <2>2. F[<<m, g[m - 1]>>] \in S BY <1>4, <2>1
  <2>3. \A i \in 0..m : i # m => i \in 0..(m - 1) BY <1>4
  <2> QED BY <2>2, <2>3
<1>8. f[0] = a BY <1>3, <1>4, <1>6
<1>9. \A i \in 1..m : f[i] = F[<<i, f[i - 1]>>]
  <2>1. f[m] = F[<<m, g[m - 1]>>] /\ \A i \in 0..m : i # m => f[i] = g[i] BY <1>4
  <2> HIDE DEF f
  <2> TAKE i \in 1..m
  <2>2. i - 1 \in 0..m /\ i - 1 # m /\ f[i - 1] = g[i - 1] BY <1>4, <2>1
  <2>3. CASE i = m BY <2>1, <2>2, <2>3
  <2>4. CASE i # m
    <3>1. i \in 1..(m - 1) /\ f[i] = g[i] BY <1>4, <2>1, <2>4
    <3> QED BY <1>6, <2>2, <3>1
  <2> QED BY <2>3, <2>4
<1>10. Upto(m) BY <1>7, <1>8, <1>9
<1> QED BY <1>2, <1>10

-----------------------------------------------------------------------------
(* Paths *)

\* A path is its directory and its last name.
LEMMA FrontAndLast ==
    ASSUME NEW S, NEW p \in Seq(S), p # <<>>
    PROVE  /\ Front(p) \in Seq(S) /\ Len(Front(p)) = Len(p) - 1 /\ Last(p) \in S
           /\ \A i \in 1..(Len(p) - 1) : Front(p)[i] = p[i]
           /\ Append(Front(p), Last(p)) = p
<1>1. Len(p) \in Nat /\ Len(p) # 0 BY EmptySeq
<1>2. \A i \in 1..(Len(p) - 1) : p[i] \in S
  <2> TAKE i \in 1..(Len(p) - 1)
  <2>1. i \in 1..Len(p) BY <1>1
  <2> QED BY <2>1, ElementOfSeq
<1>3. 1 \in Int /\ Len(p) - 1 \in Int BY <1>1
<1>4. PICK f : f = Front(p) OBVIOUS
<1>5. /\ f \in Seq(S) /\ Len(f) = Len(p) - 1 /\ \A i \in 1..(Len(p) - 1) : f[i] = p[i]
  <2>1. /\ f \in Seq(S)
        /\ Len(f) = IF 1 <= Len(p) - 1 THEN (Len(p) - 1) - 1 + 1 ELSE 0
        /\ \A i \in 1..((Len(p) - 1) - 1 + 1) : f[i] = p[1 + i - 1]
    BY <1>2, <1>3, <1>4, SubSeqProperties DEF Front
  <2>2. Len(f) = Len(p) - 1
    <3>1. PICK n, m : n = Len(p) /\ m = Len(f) OBVIOUS
    <3>2. n \in Nat /\ n # 0 /\ m = IF 1 <= n - 1 THEN (n - 1) - 1 + 1 ELSE 0 BY <1>1, <2>1, <3>1
    <3>3. m = n - 1 BY <3>2
    <3> QED BY <3>1, <3>3
  <2>3. \A i \in 1..(Len(p) - 1) : f[i] = p[i]
    <3> TAKE i \in 1..(Len(p) - 1)
    <3>1. i \in 1..((Len(p) - 1) - 1 + 1) /\ 1 + i - 1 = i BY <1>1
    <3> QED BY <2>1, <3>1
  <2> QED BY <2>1, <2>2, <2>3
<1>6. Last(p) \in S /\ Last(p) = p[Len(p)]
  <2>1. Len(p) \in 1..Len(p) BY <1>1
  <2> QED BY <2>1, ElementOfSeq DEF Last
<1>7. Append(f, Last(p)) = p
  <2>1. /\ Append(f, Last(p)) \in Seq(S) /\ Len(Append(f, Last(p))) = Len(p)
        /\ \A i \in 1..Len(f) : Append(f, Last(p))[i] = f[i]
        /\ Append(f, Last(p))[Len(f) + 1] = Last(p)
    BY <1>1, <1>5, <1>6, AppendProperties
  <2>2. \A i \in 1..Len(p) : Append(f, Last(p))[i] = p[i]
    <3> TAKE i \in 1..Len(p)
    <3>1. CASE i = Len(p) BY <1>1, <1>5, <1>6, <2>1, <3>1
    <3>2. CASE i # Len(p)
      <4>1. i \in 1..Len(f) /\ i \in 1..(Len(p) - 1) BY <1>1, <1>5, <3>2
      <4> QED BY <1>5, <2>1, <4>1
    <3> QED BY <3>1, <3>2
  <2> QED BY <2>1, <2>2, SeqEqual
<1> QED BY <1>4, <1>5, <1>6, <1>7

\* A name after a path is the last one, and the path is in front of it.
LEMMA NameAfter ==
    ASSUME NEW S, NEW p \in Seq(S), NEW n \in S
    PROVE  /\ Append(p, n) \in Seq(S) /\ Append(p, n) # <<>> /\ Len(Append(p, n)) = Len(p) + 1
           /\ Front(Append(p, n)) = p /\ Last(Append(p, n)) = n
<1>1. PICK q : q = Append(p, n) OBVIOUS
<1>2. /\ q \in Seq(S) /\ q # <<>> /\ Len(q) = Len(p) + 1
      /\ \A i \in 1..Len(p) : q[i] = p[i]
      /\ q[Len(p) + 1] = n
  BY <1>1, AppendProperties
<1>3. Len(p) \in Nat OBVIOUS
<1>4. PICK f : f = Front(q) OBVIOUS
<1>5. f \in Seq(S) /\ Len(f) = Len(q) - 1 /\ \A i \in 1..(Len(q) - 1) : f[i] = q[i]
  BY <1>2, <1>4, FrontAndLast
<1>6. Len(f) = Len(p) /\ \A i \in 1..Len(p) : f[i] = p[i] BY <1>2, <1>3, <1>5
<1>7. f = p BY <1>5, <1>6, SeqEqual
<1> QED BY <1>1, <1>2, <1>4, <1>7 DEF Last

\* What is below a directory is its path and the rest.
LEMMA PrefixAndRest ==
    ASSUME NEW S, NEW a \in Seq(S), NEW q \in Seq(S), IsPrefix(a, q)
    PROVE  /\ SubSeq(q, Len(a) + 1, Len(q)) \in Seq(S)
           /\ q = a \o SubSeq(q, Len(a) + 1, Len(q))
<1>1. /\ Len(a) <= Len(q) /\ SubSeq(a, 1, Len(a)) = SubSeq(q, 1, Len(a))
      /\ Len(a) \in Nat /\ Len(q) \in Nat
  BY DEF IsPrefix
<1>2. SubSeq(a, 1, Len(a)) = a BY SubSeqFull
<1>3. 1 \in 1..(Len(q) + 1) /\ Len(a) \in (1 - 1)..Len(q) /\ Len(q) \in Len(a)..Len(q) BY <1>1
<1>4. SubSeq(q, 1, Len(a)) \o SubSeq(q, Len(a) + 1, Len(q)) = SubSeq(q, 1, Len(q))
  BY <1>3, ConcatAdjacentSubSeq
<1>5. SubSeq(q, 1, Len(q)) = q BY SubSeqFull
<1>6. SubSeq(q, Len(a) + 1, Len(q)) \in Seq(S)
  <2>1. \A i \in (Len(a) + 1)..Len(q) : q[i] \in S
    <3> TAKE i \in (Len(a) + 1)..Len(q)
    <3>1. i \in 1..Len(q) BY <1>1
    <3> QED BY <3>1, ElementOfSeq
  <2>2. Len(a) + 1 \in Int /\ Len(q) \in Int BY <1>1
  <2> QED BY <2>1, <2>2, SubSeqProperties
<1> QED BY <1>1, <1>2, <1>4, <1>5, <1>6

\* A concatenation begins with its first part and ends in its second.
LEMMA RestOfConcat ==
    ASSUME NEW S, NEW a \in Seq(S), NEW r \in Seq(S)
    PROVE  /\ a \o r \in Seq(S) /\ Len(a \o r) = Len(a) + Len(r)
           /\ IsPrefix(a, a \o r)
           /\ SubSeq(a \o r, Len(a) + 1, Len(a \o r)) = r
           /\ r = <<>> => a \o r = a
           /\ r # <<>> => a \o r # <<>> /\ a \o r # a /\ Front(a \o r) = a \o Front(r)
                          /\ Last(a \o r) = Last(r)
<1>1. PICK p : p = a \o r OBVIOUS
<1>2. /\ p \in Seq(S) /\ Len(p) = Len(a) + Len(r)
      /\ Len(a) \in Nat /\ Len(r) \in Nat
      /\ \A i \in 1..(Len(a) + Len(r)) : p[i] = IF i <= Len(a) THEN a[i] ELSE r[i - Len(a)]
  BY <1>1, ConcatProperties
<1>3. \A i \in 1..Len(r) : p[Len(a) + i] = r[i]
  <2> TAKE i \in 1..Len(r)
  <2>1. /\ Len(a) + i \in 1..(Len(a) + Len(r)) /\ ~(Len(a) + i <= Len(a)) /\ (Len(a) + i) - Len(a) = i
    BY <1>2
  <2> QED BY <1>2, <2>1
<1>4. \A i \in 1..Len(a) : p[i] = a[i]
  <2> TAKE i \in 1..Len(a)
  <2>1. i \in 1..(Len(a) + Len(r)) /\ i <= Len(a) BY <1>2
  <2> QED BY <1>2, <2>1
<1>5. PICK t : t = SubSeq(p, Len(a) + 1, Len(p)) OBVIOUS
<1>6. t = r
  <2>1. \A i \in (Len(a) + 1)..Len(p) : p[i] \in S
    <3> TAKE i \in (Len(a) + 1)..Len(p)
    <3>1. i \in 1..Len(p) BY <1>2
    <3> QED BY <1>2, <3>1, ElementOfSeq
  <2>2. Len(a) + 1 \in Int /\ Len(p) \in Int BY <1>2
  <2>3. /\ t \in Seq(S)
        /\ Len(t) = IF Len(a) + 1 <= Len(p) THEN Len(p) - (Len(a) + 1) + 1 ELSE 0
        /\ \A i \in 1..(Len(p) - (Len(a) + 1) + 1) : t[i] = p[(Len(a) + 1) + i - 1]
    BY <1>5, <2>1, <2>2, SubSeqProperties
  <2>4. Len(t) = Len(r) BY <1>2, <2>3
  <2>5. \A i \in 1..Len(r) : t[i] = r[i]
    <3> TAKE i \in 1..Len(r)
    <3>1. i \in 1..(Len(p) - (Len(a) + 1) + 1) /\ (Len(a) + 1) + i - 1 = Len(a) + i BY <1>2
    <3> QED BY <1>3, <2>3, <3>1
  <2> QED BY <2>3, <2>4, <2>5, SeqEqual
<1>7. r = <<>> => p = a BY <1>1, ConcatEmptySeq
<1>8. IsPrefix(a, p)
  <2>1. PICK s : s = SubSeq(p, 1, Len(a)) OBVIOUS
  <2>2. \A i \in 1..Len(a) : p[i] \in S BY <1>4, ElementOfSeq
  <2>3. 1 \in Int /\ Len(a) \in Int BY <1>2
  <2>4. /\ s \in Seq(S)
        /\ Len(s) = IF 1 <= Len(a) THEN Len(a) - 1 + 1 ELSE 0
        /\ \A i \in 1..(Len(a) - 1 + 1) : s[i] = p[1 + i - 1]
    BY <2>1, <2>2, <2>3, SubSeqProperties
  <2>5. Len(s) = Len(a) BY <1>2, <2>4
  <2>6. \A i \in 1..Len(a) : s[i] = a[i]
    <3> TAKE i \in 1..Len(a)
    <3>1. i \in 1..(Len(a) - 1 + 1) /\ 1 + i - 1 = i BY <1>2
    <3> QED BY <1>4, <2>4, <3>1
  <2>7. s = a BY <2>4, <2>5, <2>6, SeqEqual
  <2>8. SubSeq(a, 1, Len(a)) = a BY SubSeqFull
  <2>9. Len(a) <= Len(p) BY <1>2
  <2> QED BY <2>1, <2>7, <2>8, <2>9 DEF IsPrefix
<1>9. ASSUME r # <<>> PROVE p # <<>> /\ p # a /\ Front(p) = a \o Front(r) /\ Last(p) = Last(r)
  <2>1. Len(r) # 0 BY <1>9, EmptySeq
  <2>2. Len(p) # 0 /\ Len(p) # Len(a) BY <1>2, <2>1
  <2>3. p # <<>> /\ p # a BY <2>2
  <2>4. Last(p) = Last(r)
    <3>1. Len(r) \in 1..Len(r) BY <1>2, <2>1
    <3> QED BY <1>2, <1>3, <3>1 DEF Last
  <2>5. PICK f, g : f = Front(p) /\ g = Front(r) OBVIOUS
  <2>6. f \in Seq(S) /\ Len(f) = Len(p) - 1 /\ \A i \in 1..(Len(p) - 1) : f[i] = p[i]
    BY <1>2, <2>3, <2>5, FrontAndLast
  <2>7. g \in Seq(S) /\ Len(g) = Len(r) - 1 /\ \A i \in 1..(Len(r) - 1) : g[i] = r[i]
    BY <1>9, <2>5, FrontAndLast
  <2>8. PICK h : h = a \o g OBVIOUS
  <2>9. /\ h \in Seq(S) /\ Len(h) = Len(a) + Len(g)
        /\ \A i \in 1..(Len(a) + Len(g)) : h[i] = IF i <= Len(a) THEN a[i] ELSE g[i - Len(a)]
    BY <2>7, <2>8, ConcatProperties
  <2>10. Len(h) = Len(f) BY <1>2, <2>6, <2>7, <2>9
  <2>11. \A i \in 1..Len(f) : h[i] = f[i]
    <3> TAKE i \in 1..Len(f)
    <3>1. i \in 1..(Len(p) - 1) /\ i \in 1..(Len(a) + Len(g)) /\ i \in 1..(Len(a) + Len(r))
      BY <1>2, <2>6, <2>7
    <3>2. CASE i <= Len(a) BY <1>2, <2>6, <2>9, <3>1, <3>2
    <3>3. CASE ~(i <= Len(a))
      <4>1. i - Len(a) \in 1..(Len(r) - 1) BY <1>2, <2>7, <3>1, <3>3
      <4> QED BY <1>2, <2>6, <2>7, <2>9, <3>1, <3>3, <4>1
    <3> QED BY <3>2, <3>3
  <2>12. h = f BY <2>6, <2>9, <2>10, <2>11, SeqEqual
  <2> QED BY <2>3, <2>4, <2>5, <2>8, <2>12
<1> QED BY <1>1, <1>2, <1>5, <1>6, <1>7, <1>8, <1>9

\* Every path is below itself.
LEMMA PrefixSelf == ASSUME NEW S, NEW a \in Seq(S) PROVE IsPrefix(a, a)
BY DEF IsPrefix

\* What is below a directory, and is not the directory, is in one that is below it.
LEMMA BelowFront ==
    ASSUME NEW S, NEW a \in Seq(S), NEW q \in Seq(S), IsPrefix(a, q), q # a
    PROVE  q # <<>> /\ IsPrefix(a, Front(q))
<1>1. PICK r \in Seq(S) : q = a \o r BY PrefixAndRest
<1>2. r # <<>> BY <1>1, RestOfConcat
<1>3. q # <<>> /\ Front(q) = a \o Front(r) BY <1>1, <1>2, RestOfConcat
<1>4. Front(r) \in Seq(S) BY <1>2, FrontAndLast
<1> QED BY <1>3, <1>4, RestOfConcat

\* What is in a directory is below whatever the directory is below.
LEMMA AboveFront ==
    ASSUME NEW S, NEW a \in Seq(S), NEW q \in Seq(S), q # <<>>, IsPrefix(a, Front(q))
    PROVE  IsPrefix(a, q) /\ q # a
<1>1. Front(q) \in Seq(S) /\ Last(q) \in S /\ Append(Front(q), Last(q)) = q BY FrontAndLast
<1>2. PICK r \in Seq(S) : Front(q) = a \o r BY <1>1, PrefixAndRest
<1>3. PICK s : s = Append(r, Last(q)) OBVIOUS
<1>4. s \in Seq(S) /\ s # <<>> BY <1>1, <1>2, <1>3, NameAfter
<1>5. q = a \o s
  <2>1. <<Last(q)>> \in Seq(S) /\ a \o r \in Seq(S) BY <1>1, <1>2
  <2>2. Append(a \o r, Last(q)) = (a \o r) \o <<Last(q)>> BY <1>1, <2>1, AppendIsConcat
  <2>3. s = r \o <<Last(q)>> BY <1>1, <1>3, AppendIsConcat
  <2>4. (a \o r) \o <<Last(q)>> = a \o (r \o <<Last(q)>>) BY <2>1, ConcatAssociative
  <2> QED BY <1>1, <1>2, <2>2, <2>3, <2>4
<1> QED BY <1>4, <1>5, RestOfConcat

\* What is below something that is below a directory is below that directory.
LEMMA PrefixOfPrefix ==
    ASSUME NEW S, NEW a \in Seq(S), NEW b \in Seq(S), NEW c \in Seq(S), IsPrefix(a, b), IsPrefix(b, c)
    PROVE  IsPrefix(a, c)
<1>1. PICK r \in Seq(S) : b = a \o r BY PrefixAndRest
<1> DEFINE s == SubSeq(c, Len(b) + 1, Len(c))
<1>2. s \in Seq(S) /\ c = b \o s BY PrefixAndRest
<1> HIDE DEF s
<1>3. c = a \o (r \o s) BY <1>1, <1>2, ConcatAssociative
<1>4. r \o s \in Seq(S) BY <1>2, RestOfConcat
<1> QED BY <1>3, <1>4, RestOfConcat

\* Two paths that are below each other are the same.
LEMMA PrefixBothWays ==
    ASSUME NEW S, NEW a \in Seq(S), NEW b \in Seq(S), IsPrefix(a, b), IsPrefix(b, a) PROVE a = b
<1>1. Len(a) = Len(b) BY DEF IsPrefix
<1>2. SubSeq(a, 1, Len(a)) = a /\ SubSeq(b, 1, Len(b)) = b BY SubSeqFull
<1> QED BY <1>1, <1>2 DEF IsPrefix

\* A path below a directory, when the directory moves: where it comes, and back.
LEMMA PathMoves ==
    ASSUME NEW S, NEW a \in Seq(S), NEW b \in Seq(S), NEW q \in Seq(S), IsPrefix(a, q),
           NEW p, p = Rebased(q, a, b)
    PROVE  /\ p \in Seq(S) /\ IsPrefix(b, p)
           /\ Rebased(p, b, a) = q
           /\ q = a => p = b
           /\ q # a => /\ p # b /\ p # <<>> /\ q # <<>>
                       /\ Front(q) \in Seq(S) /\ IsPrefix(a, Front(q))
                       /\ Front(p) = Rebased(Front(q), a, b)
                       /\ Last(p) = Last(q)
<1>2. PICK r : r = SubSeq(q, Len(a) + 1, Len(q)) OBVIOUS
<1>3. r \in Seq(S) /\ q = a \o r BY <1>2, PrefixAndRest
<1>4. p = b \o r BY <1>2 DEF Rebased
<1>5. ASSUME NEW e \in Seq(S)
       PROVE  /\ e \o r \in Seq(S) /\ IsPrefix(e, e \o r)
              /\ SubSeq(e \o r, Len(e) + 1, Len(e \o r)) = r
              /\ r = <<>> => e \o r = e
              /\ r # <<>> => /\ e \o r # <<>> /\ e \o r # e /\ Front(e \o r) = e \o Front(r)
                             /\ Last(e \o r) = Last(r)
  <2>1. e \o r \in Seq(S) BY <1>3
  <2>2. IsPrefix(e, e \o r) BY <1>3, RestOfConcat
  <2>3. SubSeq(e \o r, Len(e) + 1, Len(e \o r)) = r BY <1>3, RestOfConcat
  <2>4. r = <<>> => e \o r = e BY <1>3, RestOfConcat
  <2>5. r # <<>> => e \o r # <<>> BY <1>3, RestOfConcat
  <2>6. r # <<>> => e \o r # e BY <1>3, RestOfConcat
  <2>7. r # <<>> => Front(e \o r) = e \o Front(r) BY <1>3, RestOfConcat
  <2>8. r # <<>> => Last(e \o r) = Last(r) BY <1>3, RestOfConcat
  <2> QED BY <2>1, <2>2, <2>3, <2>4, <2>5, <2>6, <2>7, <2>8
<1>6. p \in Seq(S) /\ IsPrefix(b, p) /\ SubSeq(p, Len(b) + 1, Len(p)) = r
  BY <1>4, <1>5, Zenon
<1>7. Rebased(p, b, a) = q BY <1>3, <1>6 DEF Rebased
<1>8. ASSUME q = a PROVE p = b
  <2>1. r = <<>> BY <1>3, <1>8, <1>5, Zenon
  <2> QED BY <1>4, <1>5, <2>1, Zenon
<1>9. ASSUME q # a
      PROVE  /\ p # b /\ p # <<>> /\ q # <<>>
             /\ Front(q) \in Seq(S) /\ IsPrefix(a, Front(q))
             /\ Front(p) = Rebased(Front(q), a, b)
             /\ Last(p) = Last(q)
  <2>1. r # <<>> BY <1>3, <1>9, <1>5, Zenon
  <2>2. /\ p # b /\ p # <<>> /\ q # <<>> /\ Last(p) = Last(q)
        /\ Front(q) = a \o Front(r) /\ Front(p) = b \o Front(r)
    BY <1>3, <1>4, <1>9, <1>5, <2>1, Zenon
  <2>3. PICK f : f = Front(r) OBVIOUS
  <2>4. f \in Seq(S) BY <1>3, <2>1, <2>3, FrontAndLast
  <2>5. a \o f \in Seq(S) /\ IsPrefix(a, a \o f) /\ SubSeq(a \o f, Len(a) + 1, Len(a \o f)) = f
    BY <2>4, RestOfConcat
  <2> QED BY <2>2, <2>3, <2>5 DEF Rebased
<1> QED BY <1>6, <1>7, <1>8, <1>9

\* The same, for an entry of a directory below.
LEMMA EntryMoves ==
    ASSUME NEW S, NEW a \in Seq(S), NEW b \in Seq(S), NEW q \in Seq(S), IsPrefix(a, q), NEW n \in S
    PROVE  /\ IsPrefix(a, Append(q, n)) /\ Append(q, n) # a
           /\ Rebased(Append(q, n), a, b) = Append(Rebased(q, a, b), n)
<1>1. PICK p : p = Append(q, n) OBVIOUS
<1>2. p \in Seq(S) /\ p # <<>> /\ Front(p) = q /\ Last(p) = n BY <1>1, NameAfter
<1>3. IsPrefix(a, p) /\ p # a BY <1>2, AboveFront
<1>4. PICK m : m = Rebased(p, a, b) OBVIOUS
<1>5. m \in Seq(S) /\ m # <<>> /\ Front(m) = Rebased(q, a, b) /\ Last(m) = n
  BY <1>2, <1>3, <1>4, PathMoves
<1>6. Append(Front(m), Last(m)) = m BY <1>5, FrontAndLast
<1> QED BY <1>1, <1>3, <1>4, <1>5, <1>6

\* Of two directories that something is below, one is below the other.
LEMMA OneWay ==
    ASSUME NEW S, NEW a \in Seq(S), NEW b \in Seq(S), NEW q \in Seq(S), IsPrefix(a, q), IsPrefix(b, q)
    PROVE  IsPrefix(a, b) \/ IsPrefix(b, a)
<1>1. /\ Len(a) \in Nat /\ Len(b) \in Nat /\ Len(q) \in Nat
      /\ Len(a) <= Len(q) /\ Len(b) <= Len(q)
  BY DEF IsPrefix
<1>2. a = SubSeq(q, 1, Len(a)) /\ b = SubSeq(q, 1, Len(b)) BY SubSeqFull DEF IsPrefix
<1>3. ASSUME NEW c \in Seq(S), c = SubSeq(q, 1, Len(c)), Len(c) <= Len(q),
             NEW d \in Seq(S), d = SubSeq(q, 1, Len(d)), Len(d) <= Len(q),
             Len(c) <= Len(d)
      PROVE  IsPrefix(c, d)
  <2>1. PICK k, l, m : k = Len(c) /\ l = Len(d) /\ m = Len(q) OBVIOUS
  <2>2. k \in Nat /\ l \in Nat /\ m \in Nat /\ k <= l /\ l <= m BY <1>1, <1>3, <2>1
  <2>3. \A i \in 1..k : i \in 1..l /\ i \in 1..m BY <2>2
  <2>4. \A i \in 1..l : d[i] = q[i]
    <3>1. PICK s : s = SubSeq(q, 1, l) OBVIOUS
    <3>2. \A i \in 1..l : q[i] \in S
      <4> TAKE i \in 1..l
      <4>1. i \in 1..Len(q) BY <2>1, <2>2
      <4> QED BY <4>1, ElementOfSeq
    <3>3. 1 \in Int /\ l \in Int BY <2>2
    <3>4. \A i \in 1..(l - 1 + 1) : s[i] = q[1 + i - 1] BY <3>1, <3>2, <3>3, SubSeqProperties
    <3> QED BY <1>3, <2>1, <2>2, <3>1, <3>4
  <2>5. \A i \in 1..k : c[i] = q[i]
    <3>1. PICK s : s = SubSeq(q, 1, k) OBVIOUS
    <3>2. \A i \in 1..k : q[i] \in S
      <4> TAKE i \in 1..k
      <4>1. i \in 1..Len(q) BY <2>1, <2>2
      <4> QED BY <4>1, ElementOfSeq
    <3>3. 1 \in Int /\ k \in Int BY <2>2
    <3>4. \A i \in 1..(k - 1 + 1) : s[i] = q[1 + i - 1] BY <3>1, <3>2, <3>3, SubSeqProperties
    <3> QED BY <1>3, <2>1, <2>2, <3>1, <3>4
  <2>6. PICK e : e = SubSeq(d, 1, k) OBVIOUS
  <2>7. e \in Seq(S) /\ Len(e) = k /\ \A i \in 1..k : e[i] = d[i]
    <3>1. \A i \in 1..k : d[i] \in S
      <4> TAKE i \in 1..k
      <4>1. i \in 1..Len(d) BY <2>1, <2>3
      <4> QED BY <4>1, ElementOfSeq
    <3>2. 1 \in Int /\ k \in Int BY <2>2
    <3>3. e \in Seq(S) BY <2>6, <3>1, <3>2, SubSeqProperties
    <3>4. Len(e) = IF 1 <= k THEN k - 1 + 1 ELSE 0 BY <2>6, <3>1, <3>2, SubSeqProperties
    <3>5. \A i \in 1..(k - 1 + 1) : e[i] = d[1 + i - 1] BY <2>6, <3>1, <3>2, SubSeqProperties
    <3>6. Len(e) = k BY <2>2, <3>4
    <3>7. \A i \in 1..k : e[i] = d[i]
      <4> TAKE i \in 1..k
      <4>1. i \in 1..(k - 1 + 1) /\ 1 + i - 1 = i BY <2>2
      <4> QED BY <3>5, <4>1
    <3> QED BY <3>3, <3>6, <3>7
  <2>8. e = c
    <3>1. \A i \in 1..k : e[i] = c[i] BY <2>3, <2>4, <2>5, <2>7
    <3> QED BY <2>1, <2>7, <3>1, SeqEqual
  <2>9. SubSeq(c, 1, Len(c)) = c BY SubSeqFull
  <2> QED BY <1>3, <2>1, <2>6, <2>8, <2>9 DEF IsPrefix
<1>4. CASE Len(a) <= Len(b) BY <1>1, <1>2, <1>3, <1>4
<1>5. CASE Len(b) <= Len(a) BY <1>1, <1>2, <1>3, <1>5
<1> QED BY <1>1, <1>4, <1>5

\* What is below a directory is below one entry of it.
LEMMA WayDown ==
    ASSUME NEW S, NEW a \in Seq(S), NEW q \in Seq(S), IsPrefix(a, q), q # a
    PROVE  \E n \in S : IsPrefix(Append(a, n), q)
<1> DEFINE D == {c \in Seq(S) : IsPrefix(a, c) /\ c # a /\ IsPrefix(c, q)}
           L == {Len(c) : c \in D}
<1>1. PICK m \in L : \A k \in L : ~(k < m)
  <2>1. q \in D BY PrefixSelf
  <2>2. \A c \in D : Len(c) \in Nat OBVIOUS
  <2> HIDE DEF D
  <2>3. L \subseteq Nat /\ L # {} BY <2>1, <2>2
  <2> HIDE DEF L
  <2> QED BY <2>3, LeastNumber
<1>2. PICK c \in D : Len(c) = m BY <1>1
<1>3. PICK f : f = Front(c) OBVIOUS
<1>4. c # <<>> /\ IsPrefix(a, f) BY <1>2, <1>3, BelowFront
<1>5. f \in Seq(S) /\ Len(f) = Len(c) - 1 /\ Last(c) \in S /\ Append(f, Last(c)) = c
  BY <1>2, <1>3, <1>4, FrontAndLast
<1>6. f = a
  <2>1. SUFFICES ASSUME f # a PROVE FALSE OBVIOUS
  <2>2. IsPrefix(f, c)
    <3>1. IsPrefix(f, f) BY <1>5, PrefixSelf
    <3> QED BY <1>2, <1>3, <1>4, <1>5, <3>1, AboveFront
  <2>3. IsPrefix(f, q) BY <1>2, <1>5, <2>2, PrefixOfPrefix
  <2>4. Len(f) \in L BY <1>4, <1>5, <2>1, <2>3
  <2>5. ~(Len(f) < m) BY <1>1, <2>4
  <2>6. PICK x, y : x = Len(c) /\ y = Len(f) OBVIOUS
  <2>7. x \in Nat /\ y = x - 1 /\ x = m /\ ~(y < m) BY <1>2, <1>5, <2>5, <2>6
  <2> QED BY <2>7
<1> QED BY <1>2, <1>5, <1>6

\* And only one.
LEMMA OneWayDown ==
    ASSUME NEW S, NEW a \in Seq(S), NEW q \in Seq(S), NEW n \in S, NEW m \in S,
           IsPrefix(Append(a, n), q), IsPrefix(Append(a, m), q)
    PROVE  n = m
<1>1. PICK x, y : x = Append(a, n) /\ y = Append(a, m) OBVIOUS
<1>2. /\ x \in Seq(S) /\ Len(x) = Len(a) + 1 /\ Last(x) = n
      /\ y \in Seq(S) /\ Len(y) = Len(a) + 1 /\ Last(y) = m
  BY <1>1, NameAfter
<1>3. IsPrefix(x, q) /\ IsPrefix(y, q) BY <1>1
<1>4. SubSeq(x, 1, Len(x)) = x /\ SubSeq(y, 1, Len(y)) = y BY <1>2, SubSeqFull
<1>5. x = y BY <1>2, <1>3, <1>4 DEF IsPrefix
<1> QED BY <1>2, <1>5

\* With an entry, a tree has all that is on the way to it.
LEMMA WholeWay ==
    ASSUME NEW S, NEW T, T \subseteq Seq(S), \A p \in T : p # <<>> => Front(p) \in T,
           NEW q \in T, NEW a \in Seq(S), IsPrefix(a, q)
    PROVE  a \in T
<1> DEFINE P(c) == IsPrefix(a, c) /\ IsPrefix(c, q)
           D == {c \in T : P(c)}
           L == {Len(c) : c \in D}
<1>1. q \in Seq(S) /\ IsPrefix(q, q) BY PrefixSelf
<1>2. \A c \in T : c \in Seq(S) /\ Len(c) \in Nat OBVIOUS
<1>3. PICK m \in L : \A k \in L : ~(k < m)
  <2>1. L \subseteq Nat /\ L # {} BY <1>1, <1>2
  <2> HIDE DEF L
  <2> QED BY <2>1, LeastNumber
<1>4. PICK c \in D : Len(c) = m BY <1>3
<1>5. c = a
  <2>1. SUFFICES ASSUME c # a PROVE FALSE OBVIOUS
  <2>2. c \in T /\ c \in Seq(S) /\ IsPrefix(a, c) /\ IsPrefix(c, q) BY <1>2, <1>4
  <2>3. PICK f : f = Front(c) OBVIOUS
  <2>4. c # <<>> /\ IsPrefix(a, f) BY <2>1, <2>2, <2>3, BelowFront
  <2>5. f \in T /\ f \in Seq(S) BY <2>2, <2>3, <2>4
  <2>6. Len(f) = Len(c) - 1 BY <2>2, <2>3, <2>4, FrontAndLast
  <2>7. IsPrefix(f, c)
    <3>1. IsPrefix(f, f) BY <2>5, PrefixSelf
    <3> QED BY <2>2, <2>3, <2>4, <2>5, <3>1, AboveFront
  <2>8. IsPrefix(f, q) BY <1>1, <2>2, <2>5, <2>7, PrefixOfPrefix
  <2>9. Len(f) \in L BY <2>4, <2>5, <2>8
  <2>10. ~(Len(f) < m) BY <1>3, <2>9
  <2>11. PICK x, y : x = Len(c) /\ y = Len(f) OBVIOUS
  <2>12. x \in Nat /\ y = x - 1 /\ x = m /\ ~(y < m) BY <1>4, <2>2, <2>6, <2>10, <2>11
  <2> QED BY <2>12
<1> QED BY <1>4, <1>5

\* On the way down from a directory there is an entry of it.
LEMMA NextOnTheWay ==
    ASSUME NEW S, NEW T, T \subseteq Seq(S), \A p \in T : p # <<>> => Front(p) \in T,
           NEW q \in T, NEW a \in Seq(S), IsPrefix(a, q), a # q
    PROVE  \E n \in S : Append(a, n) \in T /\ IsPrefix(Append(a, n), q)
<1>1. q \in Seq(S) OBVIOUS
<1>2. PICK n \in S : IsPrefix(Append(a, n), q) BY <1>1, WayDown
<1>3. PICK b : b = Append(a, n) OBVIOUS
<1>4. b \in Seq(S) /\ IsPrefix(b, q) BY <1>2, <1>3
<1>5. b \in T BY <1>4, WholeWay
<1> QED BY <1>2, <1>3, <1>5

\* Directories on the way to a path, name by name.
LEMMA PrefixGrows ==
    ASSUME NEW S, NEW a \in Seq(S), NEW q \in Seq(S), IsPrefix(a, q), Len(a) < Len(q)
    PROVE  /\ Append(a, q[Len(a) + 1]) \in Seq(S) /\ Len(Append(a, q[Len(a) + 1])) = Len(a) + 1
           /\ IsPrefix(Append(a, q[Len(a) + 1]), q)
<1>1. a # q OBVIOUS
<1>2. PICK n \in S : IsPrefix(Append(a, n), q) BY <1>1, WayDown
<1>3. PICK b : b = Append(a, n) OBVIOUS
<1>4. b \in Seq(S) /\ Len(b) = Len(a) + 1 /\ b[Len(a) + 1] = n BY <1>3, AppendProperties
<1>5. SubSeq(b, 1, Len(b)) = b BY <1>4, SubSeqFull
<1>6. b = SubSeq(q, 1, Len(a) + 1) BY <1>2, <1>3, <1>4, <1>5 DEF IsPrefix
<1>7. q[Len(a) + 1] = n
  <2>1. PICK k, m : k = Len(a) + 1 /\ m = Len(q) OBVIOUS
  <2>2. k \in Nat /\ m \in Nat /\ 1 <= k /\ k <= m BY <2>1
  <2>3. \A i \in 1..k : q[i] \in S
    <3> TAKE i \in 1..k
    <3>1. i \in 1..Len(q) BY <2>1, <2>2
    <3> QED BY <3>1, ElementOfSeq
  <2>4. 1 \in Int /\ k \in Int BY <2>2
  <2>5. \A i \in 1..(k - 1 + 1) : b[i] = q[1 + i - 1] BY <1>6, <2>1, <2>3, <2>4, SubSeqProperties
  <2>6. k \in 1..(k - 1 + 1) /\ 1 + k - 1 = k BY <2>2
  <2> QED BY <1>4, <2>1, <2>5, <2>6
<1> QED BY <1>2, <1>3, <1>4, <1>7

\* Nothing is on the way to the root.
LEMMA RootIsFirst ==
    ASSUME NEW S, NEW q \in Seq(S)
    PROVE  /\ IsPrefix(<<>>, q)
           /\ Len(q) = 0 <=> q = <<>>
<1>1. PICK e : e = <<>> OBVIOUS
<1>2. e \in Seq(S) /\ Len(e) = 0 BY <1>1
<1>3. e \o q = q BY <1>1, ConcatEmptySeq
<1>4. IsPrefix(e, e \o q) BY <1>2, RestOfConcat
<1>5. Len(q) = 0 <=> q = <<>> BY EmptySeq
<1> QED BY <1>1, <1>3, <1>4, <1>5

\* A prefix as long as the path is the path.
LEMMA WholePrefix ==
    ASSUME NEW S, NEW a \in Seq(S), NEW q \in Seq(S), IsPrefix(a, q)
    PROVE  Len(a) \in Nat /\ Len(q) \in Nat /\ Len(a) <= Len(q) /\ (Len(a) = Len(q) => a = q)
<1>1. SubSeq(a, 1, Len(a)) = a /\ SubSeq(q, 1, Len(q)) = q BY SubSeqFull
<1>2. Len(a) \in Nat /\ Len(q) \in Nat OBVIOUS
<1>3. Len(a) <= Len(q) /\ SubSeq(a, 1, Len(a)) = SubSeq(q, 1, Len(a)) BY DEF IsPrefix
<1> QED BY <1>1, <1>2, <1>3

=============================================================================
