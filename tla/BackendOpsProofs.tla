-------------------------- MODULE BackendOpsProofs --------------------------
(* What one command of the backend does to the files, for every tree it may  *)
(* find: nothing is lost by a move, nothing changed by a copy, nothing        *)
(* touched elsewhere, and what is reported as done has been done.             *)
EXTENDS BackendApart, PathLemmas, TLAPS

-----------------------------------------------------------------------------
(* Where a path leads *)

\* Place follows a path name by name.
LEMMA PlaceIsRun ==
    ASSUME IsTree(fs), NEW p \in Path
    PROVE  \E run :
              /\ run[0] = <<>>
              /\ \A i \in 1..Len(p) : run[i] = Append(Followed(run[i - 1]), p[i])
              /\ \A i \in 0..Len(p) : run[i] \in Path
              /\ Place(p) = run[Len(p)]
<1> DEFINE P(w) == w = [i \in 0..Len(p) |-> IF i = 0 THEN <<>> ELSE Append(Followed(w[i - 1]), p[i])]
           walk == CHOOSE w : P(w)
           F == [x \in (1..Len(p)) \X Path |-> Append(Followed(x[2]), p[x[1]])]
<1>1. Len(p) \in Nat /\ <<>> \in Path BY DEF Path
<1>2. ASSUME NEW x \in Path, NEW n \in Names PROVE Append(Followed(x), n) \in Path
  <2>1. Followed(x) \in Path BY DEF Followed, IsTree, IsNode
  <2> QED BY <2>1 DEF Path
<1>3. \A i \in 1..Len(p) : p[i] \in Names BY DEF Path
<1>4. \A i \in 1..Len(p) : \A x \in Path :
         F[<<i, x>>] = Append(Followed(x), p[i]) /\ F[<<i, x>>] \in Path
  BY <1>2, <1>3
<1>5. PICK f \in [0..Len(p) -> Path] :
         f[0] = <<>> /\ \A i \in 1..Len(p) : f[i] = F[<<i, f[i - 1]>>]
  <2>1. PICK G, n : G = F /\ n = Len(p) OBVIOUS
  <2> HIDE DEF F
  <2>2. n \in Nat /\ StepsWithin(Path, G, n) BY <1>1, <1>4, <2>1 DEF StepsWithin
  <2>3. \E f \in [0..n -> Path] : IsRun(f, <<>>, G, n) BY <1>1, <2>2, StepsExist
  <2> QED BY <2>1, <2>3 DEF IsRun
<1>6. P(f)
  <2>1. \A i \in 1..Len(p) : f[i - 1] \in Path BY <1>1
  <2>2. \A i \in 1..Len(p) : f[i] = Append(Followed(f[i - 1]), p[i]) BY <1>4, <1>5, <2>1
  <2>3. f = [i \in 0..Len(p) |-> f[i]] OBVIOUS
  <2>4. \A i \in 0..Len(p) : f[i] = IF i = 0 THEN <<>> ELSE Append(Followed(f[i - 1]), p[i])
    BY <1>1, <1>5, <2>2
  <2> QED BY <2>3, <2>4
<1>7. P(walk)
  <2> HIDE DEF P
  <2> QED BY <1>6, Zenon
<1>8. walk[0] = <<>> /\ \A i \in 1..Len(p) : walk[i] = Append(Followed(walk[i - 1]), p[i])
  <2>1. PICK w : w = walk OBVIOUS
  <2>2. w = [i \in 0..Len(p) |-> IF i = 0 THEN <<>> ELSE Append(Followed(w[i - 1]), p[i])]
    BY <1>7, <2>1
  <2>3. 0 \in 0..Len(p) /\ \A i \in 1..Len(p) : i \in 0..Len(p) /\ i # 0 BY <1>1
  <2>4. w[0] = <<>> BY <2>2, <2>3
  <2>5. \A i \in 1..Len(p) : w[i] = Append(Followed(w[i - 1]), p[i]) BY <2>2, <2>3
  <2> QED BY <2>1, <2>4, <2>5
<1>9. \A i \in 0..Len(p) : walk[i] \in Path
  <2> HIDE DEF walk
  <2>1. \A i \in 1..Len(p) : walk[i - 1] \in Path => walk[i] \in Path BY <1>2, <1>3, <1>8
  <2>2. walk[0] \in Path BY <1>1, <1>8
  <2> QED BY <1>1, <2>1, <2>2, StepsStayIn
<1>10. Place(p) = walk[Len(p)] BY Zenon DEF Place
<1> HIDE DEF walk
<1> QED BY <1>8, <1>9, <1>10

\* A path leads to a path.
LEMMA PlaceIsPath ==
    ASSUME IsTree(fs), NEW p \in Path
    PROVE  Place(p) \in Path /\ Target(p) \in Path
<1>1. PICK run : (\A i \in 0..Len(p) : run[i] \in Path) /\ Place(p) = run[Len(p)] BY PlaceIsRun
<1>2. Len(p) \in 0..Len(p) BY DEF Path
<1> QED BY <1>1, <1>2 DEF Target, Followed, IsTree, IsNode

\* A path with no link on the way leads to the entry it names.
LEMMA StraightPlace ==
    ASSUME IsTree(fs), NEW p \in Path, Straight(fs, p)
    PROVE  Place(p) = p
<1>1. PICK run : /\ run[0] = <<>>
                 /\ \A i \in 1..Len(p) : run[i] = Append(Followed(run[i - 1]), p[i])
                 /\ Place(p) = run[Len(p)]
  BY PlaceIsRun
<1>2. p \in Seq(Names) /\ Len(p) \in Nat BY DEF Path
<1> DEFINE g == [i \in 0..Len(p) |-> <<i, run[i]>>]
           S == {x \in (0..Len(p)) \X Path : Len(x[2]) = x[1] /\ IsPrefix(x[2], p)}
<1>3. g[0] \in S
  <2>1. 0 \in 0..Len(p) BY <1>2
  <2>2. <<>> \in Path /\ Len(<<>>) = 0 BY DEF Path
  <2>3. IsPrefix(<<>>, p) BY <1>2, RootIsFirst
  <2> QED BY <1>1, <2>1, <2>2, <2>3
<1>4. ASSUME NEW i \in 1..Len(p), g[i - 1] \in S PROVE g[i] \in S
  <2>1. PICK q, k, n : q = run[i - 1] /\ k = i - 1 /\ n = Len(p) OBVIOUS
  <2>2. n \in Nat /\ k \in 0..n /\ i \in 0..n /\ k < n /\ k + 1 = i BY <1>2, <2>1
  <2>3. g[i - 1] = <<k, q>> /\ g[i] = <<i, run[i]>> BY <2>1, <2>2
  <2>4. q \in Path /\ Len(q) = k /\ IsPrefix(q, p) BY <1>4, <2>3
  <2>5. q # p BY <2>1, <2>2, <2>4
  <2>6. Followed(q) = q BY <2>4, <2>5 DEF Straight, Followed
  <2>7. run[i] = Append(q, p[i]) BY <1>1, <2>1, <2>6
  <2>8. /\ Append(q, p[i]) \in Seq(Names) /\ Len(Append(q, p[i])) = i
        /\ IsPrefix(Append(q, p[i]), p)
    <3>1. q \in Seq(Names) /\ Len(q) < Len(p) /\ Len(q) + 1 = i BY <2>1, <2>2, <2>4 DEF Path
    <3>2. Append(q, p[Len(q) + 1]) \in Seq(Names) BY <1>2, <2>4, <3>1, PrefixGrows
    <3>3. Len(Append(q, p[Len(q) + 1])) = Len(q) + 1 BY <1>2, <2>4, <3>1, PrefixGrows
    <3>4. IsPrefix(Append(q, p[Len(q) + 1]), p) BY <1>2, <2>4, <3>1, PrefixGrows
    <3> QED BY <3>1, <3>2, <3>3, <3>4
  <2> QED BY <2>1, <2>2, <2>3, <2>7, <2>8 DEF Path
<1>5. \A i \in 0..Len(p) : g[i] \in S
  <2>1. \A i \in 1..Len(p) : g[i - 1] \in S => g[i] \in S BY <1>4
  <2> HIDE DEF g, S
  <2> QED BY <1>2, <1>3, <2>1, StepsStayIn
<1>6. Len(p) \in 0..Len(p) BY <1>2
<1>7. run[Len(p)] \in Path /\ Len(run[Len(p)]) = Len(p) /\ IsPrefix(run[Len(p)], p) BY <1>5, <1>6
<1>8. run[Len(p)] = p BY <1>2, <1>7, WholePrefix DEF Path
<1> QED BY <1>1, <1>8

-----------------------------------------------------------------------------
(* Trees *)

\* With an entry, a tree has the directories on the way to it.
LEMMA OnTheWay ==
    ASSUME NEW t, IsTree(t), NEW q \in DOMAIN t, NEW a \in Path, IsPrefix(a, q)
    PROVE  a \in DOMAIN t /\ (a # q => t[a].kind = "dir")
<1>1. PICK T : T = DOMAIN t OBVIOUS
<1>2. /\ T \subseteq Seq(Names) /\ q \in T /\ a \in Seq(Names)
      /\ \A p \in T : p # <<>> => Front(p) \in T /\ t[Front(p)].kind = "dir"
  BY <1>1 DEF IsTree, Path
<1>3. a \in T BY <1>2, WholeWay
<1>4. ASSUME a # q PROVE t[a].kind = "dir"
  <2>1. PICK n \in Names : Append(a, n) \in T BY <1>2, <1>4, NextOnTheWay
  <2>2. PICK b : b = Append(a, n) OBVIOUS
  <2>3. b # <<>> /\ Front(b) = a BY <1>2, <2>2, NameAfter
  <2> QED BY <1>2, <2>1, <2>2, <2>3
<1> QED BY <1>1, <1>3, <1>4

\* What a directory with nothing in it is: nothing is below it.
LEMMA NothingBelow ==
    ASSUME NEW t, IsTree(t), NEW b \in Path, \A c \in DOMAIN t : c # <<>> => Front(c) # b,
           NEW q \in DOMAIN t, IsPrefix(b, q)
    PROVE  q = b
<1> SUFFICES ASSUME q # b PROVE FALSE OBVIOUS
<1>1. PICK T : T = DOMAIN t OBVIOUS
<1>2. /\ T \subseteq Seq(Names) /\ q \in T /\ b \in Seq(Names)
      /\ \A p \in T : p # <<>> => Front(p) \in T
  BY <1>1 DEF IsTree, Path
<1>3. PICK n \in Names : Append(b, n) \in T BY <1>2, NextOnTheWay
<1>4. PICK c : c = Append(b, n) OBVIOUS
<1>5. c # <<>> /\ Front(c) = b BY <1>2, <1>4, NameAfter
<1> QED BY <1>1, <1>3, <1>4, <1>5

\* An entry is made, or replaced by one of its kind.
LEMMA PutIsTree ==
    ASSUME NEW t, IsTree(t), NEW p \in Path, p # <<>>, NEW n, IsNode(n),
           Front(p) \in DOMAIN t, t[Front(p)].kind = "dir",
           p \in DOMAIN t /\ t[p].kind = "dir" => n.kind = "dir",
           NEW s, s = Put(t, p, n)
    PROVE  IsTree(s)
<1>2. /\ DOMAIN s = DOMAIN t \cup {p}
      /\ s[p] = n /\ \A q \in DOMAIN t : q # p => s[q] = t[q]
  BY DEF Put
<1>3. \A q \in DOMAIN t : t[q].kind = "dir" => s[q].kind = "dir" BY <1>2
<1>4. IsTree(s)
  <2>1. <<>> \in DOMAIN s /\ s[<<>>].kind = "dir" BY <1>2, <1>3 DEF IsTree
  <2>2. ASSUME NEW q \in DOMAIN s
        PROVE  /\ q \in Path /\ IsNode(s[q])
               /\ q # <<>> => Front(q) \in DOMAIN s /\ s[Front(q)].kind = "dir"
    <3>1. CASE q = p BY <1>2, <1>3, <3>1
    <3>2. CASE q # p
      <4>1. q \in DOMAIN t /\ s[q] = t[q] BY <1>2, <2>2, <3>2
      <4>2. /\ q \in Path /\ IsNode(t[q])
            /\ q # <<>> => Front(q) \in DOMAIN t /\ t[Front(q)].kind = "dir"
        BY <4>1 DEF IsTree
      <4> QED BY <1>2, <1>3, <4>1, <4>2
    <3> QED BY <3>1, <3>2
  <2> QED BY <2>1, <2>2 DEF IsTree
<1> QED BY <1>4

\* An entry with nothing below is taken away.
LEMMA TakenIsTree ==
    ASSUME NEW t, IsTree(t), NEW a, a # <<>>, \A q \in DOMAIN t : q # <<>> => Front(q) # a
    PROVE  IsTree([q \in DOMAIN t \ {a} |-> t[q]])
<1>1. PICK s : s = [q \in DOMAIN t \ {a} |-> t[q]] OBVIOUS
<1>2. DOMAIN s = DOMAIN t \ {a} /\ \A q \in DOMAIN s : q \in DOMAIN t /\ s[q] = t[q] BY <1>1
<1>3. <<>> \in DOMAIN s /\ s[<<>>].kind = "dir" BY <1>2 DEF IsTree
<1>4. ASSUME NEW q \in DOMAIN s
      PROVE  /\ q \in Path /\ IsNode(s[q])
             /\ q # <<>> => Front(q) \in DOMAIN s /\ s[Front(q)].kind = "dir"
  <2>1. q \in DOMAIN t /\ s[q] = t[q] BY <1>2
  <2>2. /\ q \in Path /\ IsNode(t[q])
        /\ q # <<>> => Front(q) \in DOMAIN t /\ t[Front(q)].kind = "dir"
    BY <2>1 DEF IsTree
  <2>3. q # <<>> => Front(q) \in DOMAIN s BY <1>2, <2>1, <2>2
  <2> QED BY <1>2, <2>1, <2>2, <2>3
<1> QED BY <1>1, <1>3, <1>4 DEF IsTree

\* rename: what was below a is below b, and nothing else is different; what was
\* at b, which had nothing below it, is gone.
LEMMA MovedIsTree ==
    ASSUME NEW t, IsTree(t), NEW a \in Path, NEW b \in Path, a # <<>>, b # <<>>, ~IsPrefix(a, b),
           Front(b) \in DOMAIN t, t[Front(b)].kind = "dir",
           \A c \in DOMAIN t : c # <<>> => Front(c) # b,
           NEW s, s = Moved(t, a, b)
    PROVE  /\ IsTree(s)
           /\ \A q \in DOMAIN t :
                 IF IsPrefix(a, q) THEN Rebased(q, a, b) \in DOMAIN s /\ s[Rebased(q, a, b)] = t[q]
                 ELSE q # b => q \in DOMAIN s /\ s[q] = t[q]
           /\ \A q \in DOMAIN s :
                 IF IsPrefix(b, q) THEN \/ /\ Rebased(q, b, a) \in DOMAIN t /\ s[q] = t[Rebased(q, b, a)]
                                           /\ IsPrefix(a, Rebased(q, b, a))
                                        \/ q = b /\ b \in DOMAIN t /\ a \notin DOMAIN t /\ s[q] = t[q]
                 ELSE q \in DOMAIN t /\ s[q] = t[q] /\ ~IsPrefix(a, q)
<1>1. PICK low, moved : low = Below(t, a) /\ moved = {Rebased(q, a, b) : q \in low} OBVIOUS
<1>2. /\ DOMAIN s = (DOMAIN t \ low) \cup moved
      /\ \A q \in DOMAIN s : s[q] = IF q \in moved THEN t[Rebased(q, b, a)] ELSE t[q]
  BY <1>1 DEF Moved
<1>3. low \subseteq DOMAIN t /\ \A q \in DOMAIN t : q \in low <=> IsPrefix(a, q)
  BY <1>1 DEF Below
<1>4. a \in Seq(Names) /\ b \in Seq(Names) BY DEF Path
<1>5. \A q \in DOMAIN t : q \in Seq(Names) BY DEF IsTree, Path
<1>6. ASSUME NEW q \in low
      PROVE  /\ Rebased(q, a, b) \in moved /\ Rebased(q, a, b) \in Path
             /\ Rebased(Rebased(q, a, b), b, a) = q
             /\ IsPrefix(b, Rebased(q, a, b))
             /\ q = a => Rebased(q, a, b) = b
             /\ q # a => /\ Rebased(q, a, b) # <<>> /\ Rebased(q, a, b) # b
                         /\ Front(q) \in low /\ t[Front(q)].kind = "dir"
                         /\ Front(Rebased(q, a, b)) = Rebased(Front(q), a, b)
  <2>1. q \in DOMAIN t /\ q \in Seq(Names) /\ IsPrefix(a, q) BY <1>3, <1>5
  <2>2. PICK p : p = Rebased(q, a, b) OBVIOUS
  <2>3. /\ p \in Seq(Names) /\ IsPrefix(b, p)
        /\ Rebased(p, b, a) = q
        /\ q = a => p = b
        /\ q # a => /\ p # b /\ p # <<>> /\ q # <<>>
                    /\ IsPrefix(a, Front(q)) /\ Front(p) = Rebased(Front(q), a, b)
    BY <1>4, <2>1, <2>2, PathMoves
  <2>4. q # a => Front(q) \in DOMAIN t /\ t[Front(q)].kind = "dir" BY <2>1, <2>3 DEF IsTree
  <2> QED BY <1>1, <1>3, <2>2, <2>3, <2>4 DEF Path
<1>7. \A p \in moved : \E q \in low : p = Rebased(q, a, b) BY <1>1
\* What is below b is what came there.
<1>8. ASSUME NEW q \in DOMAIN t, IsPrefix(b, q) PROVE q = b BY <1>8, NothingBelow
<1>9. ASSUME NEW q \in DOMAIN t, q \in moved PROVE q = b
  <2>1. IsPrefix(b, q) BY <1>6, <1>7, <1>9
  <2> QED BY <1>8, <2>1
<1>10. <<>> \notin low /\ <<>> \notin moved
  <2>1. ASSUME NEW e, e = <<>>, e \in Seq(Names), NEW c \in Seq(Names), IsPrefix(c, e) PROVE c = <<>>
    <3>1. IsPrefix(e, c) BY <2>1, RootIsFirst
    <3>2. e = c BY <2>1, <3>1, PrefixBothWays
    <3> QED BY <2>1, <3>2
  <2>2. <<>> \in Seq(Names) OBVIOUS
  <2> QED BY <1>3, <1>4, <1>6, <1>7, <2>1, <2>2
<1>11. IsTree(s)
  <2>1. <<>> \in DOMAIN s /\ s[<<>>].kind = "dir" BY <1>2, <1>10 DEF IsTree
  <2>2. ASSUME NEW q \in DOMAIN s PROVE q \in Path /\ IsNode(s[q])
    <3>1. CASE q \in moved
      <4>1. PICK o \in low : q = Rebased(o, a, b) BY <1>7, <3>1
      <4>2. q \in Path /\ Rebased(q, b, a) = o BY <1>6, <4>1
      <4>3. s[q] = t[o] BY <1>2, <3>1, <4>2
      <4> QED BY <1>3, <4>2, <4>3 DEF IsTree
    <3>2. CASE q \notin moved BY <1>2, <3>2 DEF IsTree
    <3> QED BY <3>1, <3>2
  <2>3. ASSUME NEW q \in DOMAIN s, q # <<>>
        PROVE  Front(q) \in DOMAIN s /\ s[Front(q)].kind = "dir"
    <3>1. CASE q = b /\ q \in moved
      <4>1. Front(b) \notin low
        <5>1. ASSUME IsPrefix(a, Front(b)) PROVE FALSE BY <1>4, <5>1, AboveFront
        <5> QED BY <1>3, <5>1
      <4>2. Front(b) \notin moved
        <5>1. ASSUME Front(b) \in moved PROVE FALSE
          <6>1. Front(b) = b BY <1>9, <5>1
          <6>2. Len(Front(b)) = Len(b) - 1 /\ Len(b) \in Nat BY <1>4, FrontAndLast
          <6>3. PICK m : m = Len(b) OBVIOUS
          <6>4. m \in Nat /\ m = m - 1 BY <6>1, <6>2, <6>3
          <6> QED BY <6>4
        <5> QED BY <5>1
      <4> QED BY <1>2, <3>1, <4>1, <4>2
    <3>2. CASE q # b /\ q \in moved
      <4>1. PICK o \in low : q = Rebased(o, a, b) BY <1>7, <3>2
      <4>2. o # a BY <1>6, <3>2, <4>1
      <4>3. Front(o) \in low /\ t[Front(o)].kind = "dir" /\ Front(q) = Rebased(Front(o), a, b)
        BY <1>6, <4>1, <4>2
      <4>4. Front(q) \in moved /\ Rebased(Front(q), b, a) = Front(o) BY <1>6, <4>3
      <4> QED BY <1>2, <4>3, <4>4
    <3>3. CASE q \notin moved
      <4>1. q \in DOMAIN t /\ q \notin low /\ q \in Seq(Names) BY <1>2, <1>5, <3>3
      <4>2. Front(q) \in DOMAIN t /\ t[Front(q)].kind = "dir" BY <2>3, <4>1 DEF IsTree
      <4>3. Front(q) \notin low
        <5>1. ASSUME IsPrefix(a, Front(q)) PROVE FALSE
          <6>1. IsPrefix(a, q) BY <1>4, <2>3, <4>1, <5>1, AboveFront
          <6> QED BY <1>3, <4>1, <6>1
        <5> QED BY <1>3, <5>1
      <4>4. Front(q) \notin moved BY <1>9, <2>3, <4>1, <4>2
      <4> QED BY <1>2, <4>2, <4>3, <4>4
    <3> QED BY <3>1, <3>2, <3>3
  <2> QED BY <2>1, <2>2, <2>3 DEF IsTree
<1>12. ASSUME NEW q \in DOMAIN t
       PROVE  IF IsPrefix(a, q) THEN Rebased(q, a, b) \in DOMAIN s /\ s[Rebased(q, a, b)] = t[q]
              ELSE q # b => q \in DOMAIN s /\ s[q] = t[q]
  <2>1. CASE q \in low BY <1>2, <1>3, <1>6, <2>1
  <2>2. CASE q \notin low /\ q # b BY <1>2, <1>3, <1>9, <2>2
  <2> QED BY <1>3, <2>1, <2>2
<1>13. ASSUME NEW q \in DOMAIN s
       PROVE  IF IsPrefix(b, q) THEN \/ /\ Rebased(q, b, a) \in DOMAIN t /\ s[q] = t[Rebased(q, b, a)]
                                        /\ IsPrefix(a, Rebased(q, b, a))
                                     \/ q = b /\ b \in DOMAIN t /\ a \notin DOMAIN t /\ s[q] = t[q]
              ELSE q \in DOMAIN t /\ s[q] = t[q] /\ ~IsPrefix(a, q)
  <2>1. CASE q \in moved
    <3>1. PICK o \in low : q = Rebased(o, a, b) BY <1>7, <2>1
    <3>2. Rebased(q, b, a) = o /\ IsPrefix(b, q) BY <1>6, <3>1
    <3>3. s[q] = t[o] BY <1>2, <2>1, <3>2
    <3> QED BY <1>3, <3>2, <3>3
  <2>2. CASE q \notin moved
    <3>1. q \in DOMAIN t /\ s[q] = t[q] /\ ~IsPrefix(a, q) BY <1>2, <1>3, <2>2
    <3>2. IsPrefix(b, q) => q = b BY <1>8, <3>1
    <3>3. q = b => a \notin DOMAIN t
      <4>1. a \in DOMAIN t => a \in low BY <1>3, <1>4, PrefixSelf
      <4>2. a \in low => b \in moved BY <1>6
      <4> QED BY <2>2, <4>1, <4>2
    <3> QED BY <3>1, <3>2, <3>3
  <2> QED BY <2>1, <2>2
<1> QED BY <1>11, <1>12, <1>13

-----------------------------------------------------------------------------
(* What a command finds *)

\* The command and the files it found are one of the cases.
LEMMA Given ==
    ASSUME TypeOK
    PROVE  /\ IsTree(before) /\ Apart(before, cmd)
           /\ cmd.type \in Delete..Symlink
           /\ cmd.src \in Path /\ cmd.src # <<>> /\ cmd.dest \in Path /\ cmd.mode \in Modes
           /\ cmd.dest = <<>> => cmd.type \in {Delete, Mkdir, Chmod}
<1>1. PICK c \in Cases : c = <<before, cmd>> BY DEF TypeOK
<1>2. before = c[1] /\ cmd = c[2] BY <1>1
<1>3. /\ IsTree(c[1]) /\ c[2].type \in Delete..Symlink
      /\ c[2].src \in Path \ {<<>>} /\ c[2].dest \in Path /\ c[2].mode \in Modes
      /\ c[2].dest = <<>> => c[2].type \in {Delete, Mkdir, Chmod}
  BY CasesAssumption
<1>4. Apart(c[1], c[2]) BY ApartAssumption
<1> QED BY <1>2, <1>3, <1>4

\* No link is made on the way to a path, or below it, before the command ends.
LEMMA NoNewLinks ==
    ASSUME LinksAreOld, outcome = "none", NEW p
    PROVE  /\ Straight(before, p) => Straight(fs, p)
           /\ NoLinks(before, p) => NoLinks(fs, p)
BY DEF LinksAreOld, Straight, NoLinks, Below

\* A path with no link on the way, and the directory it is in.
LEMMA StraightTarget ==
    ASSUME IsTree(fs), NEW p \in Path, Straight(fs, p)
    PROVE  /\ Place(p) = p
           /\ (p \in DOMAIN fs /\ fs[p].kind = "link") \/ Target(p) = p
           /\ p # <<>> => /\ Front(p) \in Path /\ Straight(fs, Front(p))
                          /\ Place(Front(p)) = Front(p) /\ Target(Front(p)) = Front(p)
<1>1. Place(p) = p BY StraightPlace
<1>2. (p \in DOMAIN fs /\ fs[p].kind = "link") \/ Target(p) = p BY <1>1 DEF Target, Followed
<1>3. ASSUME p # <<>>
      PROVE  /\ Front(p) \in Path /\ Straight(fs, Front(p))
             /\ Place(Front(p)) = Front(p) /\ Target(Front(p)) = Front(p)
  <2>1. p \in Seq(Names) BY DEF Path
  <2>2. PICK f : f = Front(p) OBVIOUS
  <2>3. f \in Seq(Names) BY <1>3, <2>1, <2>2, FrontAndLast
  <2>4. IsPrefix(f, f) BY <2>3, PrefixSelf
  <2>5. IsPrefix(f, p) /\ p # f BY <1>3, <2>1, <2>2, <2>3, <2>4, AboveFront
  <2>6. ASSUME NEW q \in DOMAIN fs, IsPrefix(q, f) PROVE IsPrefix(q, p) /\ q # p
    <3>1. q \in Seq(Names) BY DEF IsTree, Path
    <3>2. IsPrefix(q, p) BY <2>1, <2>3, <2>5, <2>6, <3>1, PrefixOfPrefix
    <3>3. q # p BY <2>1, <2>3, <2>5, <2>6, PrefixBothWays
    <3> QED BY <3>2, <3>3
  <2>7. Straight(fs, f) BY <2>6 DEF Straight
  <2>8. f \in DOMAIN fs => fs[f].kind # "link" BY <2>4, <2>6 DEF Straight
  <2>9. f \in Path BY <2>3 DEF Path
  <2>10. Place(f) = f BY <2>7, <2>9, StraightPlace
  <2>11. Target(f) = f BY <2>8, <2>10 DEF Target, Followed
  <2> QED BY <2>2, <2>7, <2>9, <2>10, <2>11
<1> QED BY <1>1, <1>2, <1>3

\* Below a path with no link on the way and none below, every path is what it says.
LEMMA BelowStraight ==
    ASSUME IsTree(fs), NEW a \in Path, Straight(fs, a), NoLinks(fs, a), NEW p \in Path, IsPrefix(a, p)
    PROVE  Straight(fs, p) /\ Place(p) = p /\ Target(p) = p
<1>1. a \in Seq(Names) /\ p \in Seq(Names) BY DEF Path
<1>2. ASSUME NEW q \in DOMAIN fs, IsPrefix(q, p) PROVE fs[q].kind # "link"
  <2>1. q \in Seq(Names) BY DEF IsTree, Path
  <2>2. IsPrefix(a, q) \/ IsPrefix(q, a) BY <1>1, <1>2, <2>1, OneWay
  <2>3. IsPrefix(a, q) => fs[q].kind # "link" BY DEF NoLinks, Below
  <2>4. IsPrefix(q, a) /\ ~IsPrefix(a, q) => fs[q].kind # "link"
    <3>1. IsPrefix(a, a) BY <1>1, PrefixSelf
    <3> QED BY <3>1 DEF Straight
  <2> QED BY <2>2, <2>3, <2>4
<1>3. IsPrefix(p, p) BY <1>1, PrefixSelf
<1>4. Straight(fs, p) BY <1>2 DEF Straight
<1>5. p \in DOMAIN fs => fs[p].kind # "link" BY <1>2, <1>3
<1> QED BY <1>4, <1>5, StraightTarget

\* An entry is where its path says: everything on the way is a directory.
LEMMA EntryPlace ==
    ASSUME IsTree(fs), NEW p \in DOMAIN fs
    PROVE  p \in Path /\ Straight(fs, p) /\ Place(p) = p /\ (fs[p].kind # "link" => Target(p) = p)
<1>1. p \in Path BY DEF IsTree
<1>2. ASSUME NEW q \in DOMAIN fs, IsPrefix(q, p), q # p PROVE fs[q].kind # "link"
  <2>1. q \in Path BY DEF IsTree
  <2>2. fs[q].kind = "dir" BY <1>2, <2>1, OnTheWay
  <2> QED BY <2>2
<1>3. Straight(fs, p) BY <1>2 DEF Straight
<1> QED BY <1>1, <1>3, StraightTarget

\* The destination of a move or of a copy, and what is below it.
LEMMA DestPlace ==
    ASSUME TypeOK, LinksAreOld, outcome = "none", cmd.type \in {Move, Copy},
           NEW d \in Path, IsPrefix(cmd.dest, d)
    PROVE  /\ Place(d) = d /\ Target(d) = d
           /\ d # <<>> /\ Front(d) \in Path /\ Place(Front(d)) = Front(d) /\ Target(Front(d)) = Front(d)
<1>1. /\ cmd.dest \in Path /\ Straight(before, cmd.dest) /\ NoLinks(before, cmd.dest)
      /\ cmd.dest # <<>>
  BY Given DEF Apart, Move, Copy, Delete, Mkdir, Chmod
<1>2. Straight(fs, cmd.dest) /\ NoLinks(fs, cmd.dest) BY <1>1, NoNewLinks
<1>3. IsTree(fs) BY DEF TypeOK
<1>4. Straight(fs, d) /\ Place(d) = d /\ Target(d) = d BY <1>1, <1>2, <1>3, BelowStraight
<1>5. d # <<>>
  <2>1. ASSUME d = <<>> PROVE FALSE
    <3>1. cmd.dest \in Seq(Names) /\ d \in Seq(Names) BY <1>1 DEF Path
    <3>2. IsPrefix(d, cmd.dest) BY <2>1, <3>1, RootIsFirst
    <3>3. cmd.dest = d BY <3>1, <3>2, PrefixBothWays
    <3> QED BY <1>1, <2>1, <3>3
  <2> QED BY <2>1
<1> QED BY <1>3, <1>4, <1>5, StraightTarget

\* The source of a move, and what is below it.
LEMMA SourcePlace ==
    ASSUME TypeOK, LinksAreOld, outcome = "none", cmd.type = Move,
           NEW p \in Path, IsPrefix(cmd.src, p)
    PROVE  Place(p) = p /\ Target(p) = p /\ (p \in DOMAIN fs => fs[p].kind # "link")
<1>1. cmd.src \in Path /\ Straight(before, cmd.src) /\ NoLinks(before, cmd.src)
  BY Given DEF Apart, Move, Copy, Symlink
<1>2. Straight(fs, cmd.src) /\ NoLinks(fs, cmd.src) BY <1>1, NoNewLinks
<1>3. IsTree(fs) BY DEF TypeOK
<1>4. p \in DOMAIN fs => fs[p].kind # "link" BY <1>2 DEF NoLinks, Below
<1> QED BY <1>1, <1>2, <1>3, <1>4, BelowStraight

\* The path of a command that is neither a copy nor a link.
LEMMA SourceIsStraight ==
    ASSUME TypeOK, LinksAreOld, outcome = "none", cmd.type \notin {Copy, Symlink}
    PROVE  Straight(fs, cmd.src) /\ Place(cmd.src) = cmd.src
<1>1. cmd.src \in Path /\ Straight(before, cmd.src) BY Given DEF Apart
<1>2. Straight(fs, cmd.src) BY <1>1, NoNewLinks
<1> QED BY <1>1, <1>2, StraightPlace DEF TypeOK

-----------------------------------------------------------------------------
(* Stacks of calls *)

\* The top of a stack and what is below it.
LEMMA StackShape ==
    ASSUME NEW S, NEW s \in Seq(S), s # <<>>
    PROVE  /\ 1 \in 1..Len(s) /\ Len(s) \in Nat /\ DOMAIN s = 1..Len(s)
           /\ Head(s) = s[1] /\ Head(s) \in S
           /\ Tail(s) \in Seq(S) /\ Len(Tail(s)) = Len(s) - 1
           /\ \A i \in 1..(Len(s) - 1) : Tail(s)[i] = s[i + 1]
<1>1. Len(s) \in Nat /\ Len(s) # 0 /\ DOMAIN s = 1..Len(s) BY EmptySeq
<1>2. Head(s) = s[1] /\ Head(s) \in S BY <1>1, ElementOfSeq
<1>3. /\ Tail(s) \in Seq(S) /\ Len(Tail(s)) = Len(s) - 1
      /\ \A i \in 1..(Len(s) - 1) : Tail(s)[i] = s[i + 1]
  BY HeadTailProperties
<1> QED BY <1>1, <1>2, <1>3

\* Another frame in the place of the top.
LEMMA TopPut ==
    ASSUME NEW S, NEW s \in Seq(S), s # <<>>, NEW f \in S, NEW r, r = <<f>> \o Tail(s)
    PROVE  /\ r \in Seq(S) /\ Len(r) = Len(s) /\ r[1] = f
           /\ \A i \in 2..Len(s) : r[i] = s[i]
<1>1. PICK n, t : n = Len(s) /\ t = Tail(s) OBVIOUS
<1>2. n \in Nat /\ n # 0 /\ t \in Seq(S) /\ Len(t) = n - 1 /\ \A i \in 1..(n - 1) : t[i] = s[i + 1]
  BY <1>1, StackShape
<1>3. <<f>> \in Seq(S) /\ Len(<<f>>) = 1 /\ <<f>>[1] = f OBVIOUS
<1>4. /\ r \in Seq(S) /\ Len(r) = 1 + (n - 1)
      /\ \A i \in 1..(1 + (n - 1)) : r[i] = IF i <= 1 THEN <<f>>[i] ELSE t[i - 1]
  BY <1>1, <1>2, <1>3, ConcatProperties
<1>5. r[1] = f /\ Len(r) = n BY <1>2, <1>3, <1>4
<1>6. ASSUME NEW i \in 2..n PROVE r[i] = s[i]
  <2>1. i \in 1..(1 + (n - 1)) /\ ~(i <= 1) /\ i - 1 \in 1..(n - 1) /\ (i - 1) + 1 = i BY <1>2
  <2> QED BY <1>2, <1>4, <2>1
<1> QED BY <1>1, <1>4, <1>5, <1>6

\* Another frame in the place of the top, and one more on it.
LEMMA TopPushed ==
    ASSUME NEW S, NEW s \in Seq(S), s # <<>>, NEW f \in S, NEW g \in S, NEW r, r = <<f, g>> \o Tail(s)
    PROVE  /\ r \in Seq(S) /\ Len(r) = Len(s) + 1 /\ r[1] = f /\ r[2] = g
           /\ \A i \in 3..(Len(s) + 1) : r[i] = s[i - 1]
<1>1. PICK n, t : n = Len(s) /\ t = Tail(s) OBVIOUS
<1>2. n \in Nat /\ n # 0 /\ t \in Seq(S) /\ Len(t) = n - 1 /\ \A i \in 1..(n - 1) : t[i] = s[i + 1]
  BY <1>1, StackShape
<1>3. <<f, g>> \in Seq(S) /\ Len(<<f, g>>) = 2 /\ <<f, g>>[1] = f /\ <<f, g>>[2] = g OBVIOUS
<1>4. /\ r \in Seq(S) /\ Len(r) = 2 + (n - 1)
      /\ \A i \in 1..(2 + (n - 1)) : r[i] = IF i <= 2 THEN <<f, g>>[i] ELSE t[i - 2]
  BY <1>1, <1>2, <1>3, ConcatProperties
<1>5. Len(r) = n + 1 BY <1>2, <1>4
<1>6. r[1] = f /\ r[2] = g
  <2>1. 1 \in 1..(2 + (n - 1)) /\ 2 \in 1..(2 + (n - 1)) BY <1>2
  <2> QED BY <1>3, <1>4, <2>1
<1>7. ASSUME NEW i \in 3..(n + 1) PROVE r[i] = s[i - 1]
  <2>1. i \in 1..(2 + (n - 1)) /\ ~(i <= 2) /\ i - 2 \in 1..(n - 1) /\ (i - 2) + 1 = i - 1 BY <1>2
  <2> QED BY <1>2, <1>4, <2>1
<1> QED BY <1>1, <1>4, <1>5, <1>6, <1>7

\* The innermost call is the first frame, and fits.
LEMMA TopFits ==
    ASSUME TypeOK, WalkInv, stack # <<>>
    PROVE  /\ 1 \in DOMAIN stack /\ DOMAIN stack = 1..Len(stack) /\ Len(stack) \in Nat
           /\ Top = stack[1] /\ Top \in Frames /\ FrameFits(1)
           /\ Top.src \in Path /\ Top.dest \in Path /\ IsPrefix(cmd.src, Top.src)
           /\ cmd.type \in {Delete, Move, Copy}
<1>1. stack \in Seq(Frames) BY DEF TypeOK
<1>2. PICK s : s = stack OBVIOUS
<1>3. s \in Seq(Frames) /\ s # <<>> BY <1>1, <1>2
<1>4. 1 \in 1..Len(s) /\ Len(s) \in Nat /\ DOMAIN s = 1..Len(s) /\ Head(s) = s[1] /\ Head(s) \in Frames
  BY <1>3, StackShape
<1>5. 1 \in DOMAIN stack BY <1>2, <1>4
<1>6. FrameFits(1) BY <1>5 DEF WalkInv
<1>7. Top = stack[1] /\ Top \in Frames BY <1>2, <1>4 DEF Top
<1>8. Top.src \in Path /\ Top.dest \in Path BY <1>7 DEF Frames
<1>9. IsPrefix(cmd.src, Top.src) BY <1>6, <1>7 DEF FrameFits
<1>10. cmd.type \in {Delete, Move, Copy} BY <1>6 DEF FrameFits
<1> QED BY <1>2, <1>4, <1>6, <1>7, <1>8, <1>9, <1>10

-----------------------------------------------------------------------------
(* Source and destination *)

\* Where an entry of the source goes to.
LEMMA WhereItGoes ==
    ASSUME TypeOK, NEW p \in Path, IsPrefix(cmd.src, p)
    PROVE  /\ AtDest(p) \in Path /\ IsPrefix(cmd.dest, AtDest(p))
           /\ Rebased(AtDest(p), cmd.dest, cmd.src) = p
<1>1. cmd.src \in Seq(Names) /\ cmd.dest \in Seq(Names) /\ p \in Seq(Names) BY Given DEF Path
<1>2. PICK q : q = Rebased(p, cmd.src, cmd.dest) OBVIOUS
<1>3. q \in Seq(Names) /\ IsPrefix(cmd.dest, q) /\ Rebased(q, cmd.dest, cmd.src) = p
  BY <1>1, <1>2, PathMoves
<1>4. AtDest(p) = q BY <1>2 DEF AtDest, Rebased
<1> QED BY <1>3, <1>4 DEF Path

\* Two entries of the source do not go to the same place.
LEMMA EachToItsPlace ==
    ASSUME TypeOK, NEW p \in Path, IsPrefix(cmd.src, p), NEW q \in Path, IsPrefix(cmd.src, q),
           AtDest(p) = AtDest(q)
    PROVE  p = q
BY WhereItGoes

\* What is in the source of a move is not below its destination, nor the other
\* way round.
LEMMA MoveIsApart ==
    ASSUME TypeOK, cmd.type = Move, cmd.src # cmd.dest,
           NEW s \in Path, IsPrefix(cmd.src, s), NEW d \in Path, IsPrefix(cmd.dest, d)
    PROVE  ~IsPrefix(s, d) /\ ~IsPrefix(d, s) /\ s # d
<1>1. /\ cmd.src \in Seq(Names) /\ cmd.dest \in Seq(Names)
      /\ ~IsPrefix(cmd.src, cmd.dest) /\ ~IsPrefix(cmd.dest, cmd.src)
  BY Given DEF Path, Apart
<1>2. s \in Seq(Names) /\ d \in Seq(Names) BY DEF Path
<1>3. ASSUME IsPrefix(s, d) PROVE FALSE
  <2>1. IsPrefix(cmd.src, d) BY <1>1, <1>2, <1>3, PrefixOfPrefix
  <2> QED BY <1>1, <1>2, <2>1, OneWay
<1>4. ASSUME IsPrefix(d, s) PROVE FALSE
  <2>1. IsPrefix(cmd.dest, s) BY <1>1, <1>2, <1>4, PrefixOfPrefix
  <2> QED BY <1>1, <1>2, <2>1, OneWay
<1>5. IsPrefix(s, s) BY <1>2, PrefixSelf
<1> QED BY <1>3, <1>4, <1>5

\* What a copy reads and found there is not below its destination.
LEMMA CopyIsApart ==
    ASSUME TypeOK, cmd.type = Copy, NEW p \in SourceEntries, NEW d \in Path, IsPrefix(cmd.dest, d)
    PROVE  p # d
<1>1. /\ cmd.src \in Path /\ cmd.dest \in Path /\ IsTree(before)
      /\ ~IsPrefix(cmd.dest, cmd.src) /\ (IsPrefix(cmd.src, cmd.dest) => cmd.dest \notin DOMAIN before)
  BY Given DEF Apart, Move, Copy
<1>2. SUFFICES ASSUME p = d PROVE FALSE OBVIOUS
<1>3. p \in DOMAIN before /\ IsPrefix(cmd.src, p) /\ p \in Path BY <1>1 DEF SourceEntries, IsTree
<1>4. cmd.dest \in DOMAIN before BY <1>1, <1>2, <1>3, OnTheWay
<1>5. IsPrefix(cmd.src, cmd.dest) \/ IsPrefix(cmd.dest, cmd.src)
  <2>1. cmd.src \in Seq(Names) /\ cmd.dest \in Seq(Names) /\ p \in Seq(Names) BY <1>1, <1>3 DEF Path
  <2> QED BY <1>2, <1>3, <2>1, OneWay
<1> QED BY <1>1, <1>4, <1>5

-----------------------------------------------------------------------------
(* What a step of a walk changes *)

\* Outside of Q the files are what they were.
SameBut(Q) ==
    \A q \in DOMAIN fs \cup DOMAIN fs' :
        q \notin Q => q \in DOMAIN fs /\ q \in DOMAIN fs' /\ fs'[q] = fs[q]

\* All of Q is what the innermost call works on.
Reach(Q) ==
    \A q \in Q : \/ cmd.type # Copy /\ IsPrefix(Top.src, q)
                 \/ cmd.type # Delete /\ q = AtDest(Top.src)

\* What fails unseen is recorded.
UnseenGrows ==
    unseen \subseteq unseen' /\ unseen' \subseteq [call : {"readdir", "fread", "chmod"}, at : Path]

WalkStep(Q) ==
    /\ outcome = "none" /\ stack # <<>>
    /\ UNCHANGED <<cmd, outcome, try, before>>
    /\ UnseenGrows
    /\ IsTree(fs') /\ SameBut(Q) /\ Reach(Q)
    /\ \A q \in Q : q \in DOMAIN fs' => fs'[q].kind # "link"
    /\ cmd.type = Move /\ cmd.src = cmd.dest => Q = {}

\* What stays of a file of the source when neither of its places is changed.
LEMMA StaysWhole ==
    ASSUME NEW Q, SameBut(Q), UNCHANGED <<cmd, before>>, unseen \subseteq unseen', NEW p
    PROVE  /\ AtDest(p)' = AtDest(p)
           /\ p \notin Q => /\ Kept(p)' <=> Kept(p)
                            /\ HasData(p, before[p].data)' <=> HasData(p, before[p].data)
           /\ AtDest(p) \notin Q =>
                 /\ unseen' = unseen => (Whole(p)' <=> Whole(p))
                 /\ before[p].kind = "file" => (Whole(p) => Whole(p)')
                 /\ HasData(AtDest(p), before[p].data)' <=> HasData(AtDest(p), before[p].data)
<1>1. AtDest(p)' = AtDest(p) BY DEF AtDest
<1>2. ASSUME NEW q, q \notin Q
      PROVE  (q \in DOMAIN fs' <=> q \in DOMAIN fs) /\ (q \in DOMAIN fs => fs'[q] = fs[q])
  BY <1>2 DEF SameBut
<1>3. p \notin Q => /\ Kept(p)' <=> Kept(p)
                    /\ HasData(p, before[p].data)' <=> HasData(p, before[p].data)
  BY <1>2 DEF Kept, Holds, HasData
<1>4. PICK q : q = AtDest(p) OBVIOUS
<1>5. q \notin Q => /\ Holds(fs, q, before[p])' <=> Holds(fs, q, before[p])
                    /\ HasData(q, before[p].data)' <=> HasData(q, before[p].data)
  BY <1>2 DEF Holds, HasData
<1>6. cmd'.type = cmd.type /\ AtDest(p)' = q BY <1>1, <1>4
<1>7. Whole(p)' = IF cmd.type = Copy /\ ModeSet(p)' THEN Holds(fs, q, before[p])' ELSE HasData(q, before[p].data)'
  BY <1>6 DEF Whole, Holds, HasData
<1>8. Whole(p) = IF cmd.type = Copy /\ ModeSet(p) THEN Holds(fs, q, before[p]) ELSE HasData(q, before[p].data)
  BY <1>4 DEF Whole
<1>9. ModeSet(p)' => ModeSet(p) BY DEF ModeSet
<1>10. unseen' = unseen => (ModeSet(p)' <=> ModeSet(p)) BY DEF ModeSet
<1>11. before[p].kind = "file" => (Holds(fs, q, before[p]) => HasData(q, before[p].data))
  BY DEF Holds, HasData
<1>12. q \notin Q => /\ unseen' = unseen => (Whole(p)' <=> Whole(p))
                     /\ HasData(AtDest(p), before[p].data)' <=> HasData(AtDest(p), before[p].data)
  BY <1>4, <1>5, <1>6, <1>7, <1>8, <1>10, Zenon DEF HasData
<1>13. q \notin Q => (before[p].kind = "file" => (Whole(p) => Whole(p)'))
  BY <1>5, <1>7, <1>8, <1>9, <1>11, Zenon
<1> QED BY <1>1, <1>3, <1>4, <1>12, <1>13

\* The files of the source are below it, and were there.
LEMMA FilesAreBelow ==
    ASSUME TypeOK, NEW p \in Files
    PROVE  p \in SourceEntries /\ p \in Path /\ IsPrefix(cmd.src, p) /\ IsNode(before[p]) /\ before[p].kind = "file"
BY Given DEF Files, SourceEntries, IsTree

\* A read that fails unseen takes files out of what is promised, and puts none in.
LEMMA FewerFiles ==
    ASSUME UNCHANGED <<cmd, before>>, unseen \subseteq unseen'
    PROVE  SourceEntries' = SourceEntries /\ Files' \subseteq Files
BY DEF Files, SourceEntries, ReadWhole

\* What the innermost call is not about, it does not reach.
LEMMA NotReached ==
    ASSUME TypeOK, WalkInv, stack # <<>>, cmd.type \in {Move, Copy}, NEW Q, Reach(Q),
           cmd.type = Move /\ cmd.src = cmd.dest => Q = {},
           NEW p \in Files
    PROVE  /\ ~IsPrefix(Top.src, p) => p \notin Q /\ AtDest(p) \notin Q
           /\ cmd.type = Copy => p \notin Q
           /\ cmd.type = Move => p # AtDest(Top.src) \/ Q = {}
           /\ AtDest(p) \in Q => p = Top.src
<1>1. p \in SourceEntries /\ p \in Path /\ IsPrefix(cmd.src, p) BY FilesAreBelow
<1>2. PICK s : s = Top.src OBVIOUS
<1>3. s \in Path /\ IsPrefix(cmd.src, s) BY <1>2, TopFits
<1>4. PICK d, e : d = AtDest(s) /\ e = AtDest(p) OBVIOUS
<1>5. d \in Path /\ IsPrefix(cmd.dest, d) /\ e \in Path /\ IsPrefix(cmd.dest, e)
  BY <1>1, <1>3, <1>4, WhereItGoes
<1>6. d = e => s = p BY <1>1, <1>3, <1>4, EachToItsPlace
<1>7. IsPrefix(p, p) /\ IsPrefix(s, s) BY <1>1, <1>3, PrefixSelf DEF Path
<1>8. CASE Q = {} BY <1>8
<1>9. CASE Q # {} /\ cmd.type = Move
  <2>1. cmd.src # cmd.dest BY <1>9
  <2>2. p # d /\ ~IsPrefix(s, e) BY <1>1, <1>3, <1>5, <1>9, <2>1, MoveIsApart
  <2>3. \A q \in Q : IsPrefix(s, q) \/ q = d BY <1>2, <1>4 DEF Reach
  <2>4. ~IsPrefix(s, p) => p \notin Q /\ e \notin Q BY <1>6, <1>7, <2>2, <2>3
  <2>5. e \in Q => p = s BY <1>6, <2>2, <2>3
  <2> QED BY <1>2, <1>4, <1>9, <2>2, <2>4, <2>5 DEF Move, Copy
<1>10. CASE cmd.type = Copy
  <2>1. p # d BY <1>1, <1>5, <1>10, CopyIsApart
  <2>2. \A q \in Q : q = d BY <1>4, <1>2, <1>10 DEF Reach
  <2> QED BY <1>2, <1>4, <1>6, <1>7, <1>10, <2>1, <2>2 DEF Move, Copy
<1> QED BY <1>8, <1>9, <1>10

\* What a step of a walk keeps, if it does not lose what it moves.
LEMMA WalkKeeps ==
    ASSUME BackendInv, NEW Q, WalkStep(Q),
           cmd.type = Move =>
               \A p \in Files' : IsPrefix(Top.src, p) =>
                   HasData(p, before[p].data)' \/ HasData(AtDest(p), before[p].data)'
    PROVE  /\ IsTree(fs)' /\ LinksAreOld' /\ OthersUntouched'
           /\ MoveLosesNothing' /\ CopyLeavesSource'
           /\ MkdirRounds' /\ MkdirNumbers' /\ SymlinkDone'
<1>1. /\ TypeOK /\ LinksAreOld /\ WalkInv /\ OthersUntouched /\ MoveLosesNothing /\ CopyLeavesSource
      /\ stack # <<>> /\ outcome = "none" /\ cmd' = cmd /\ before' = before /\ outcome' = "none"
      /\ unseen \subseteq unseen'
      /\ SameBut(Q) /\ Reach(Q) /\ IsTree(fs')
      /\ (cmd.type = Move /\ cmd.src = cmd.dest => Q = {})
  BY DEF BackendInv, WalkStep, UnseenGrows
<1>2. /\ Top.src \in Path /\ IsPrefix(cmd.src, Top.src) /\ cmd.type \in {Delete, Move, Copy}
  BY <1>1, TopFits
<1>3. LinksAreOld'
  <2>1. ASSUME NEW q \in DOMAIN fs', fs'[q].kind = "link" PROVE q \in DOMAIN before /\ before[q] = fs'[q]
    <3>1. q \notin Q BY <2>1 DEF WalkStep
    <3>2. q \in DOMAIN fs /\ fs'[q] = fs[q] BY <1>1, <3>1 DEF SameBut
    <3> QED BY <1>1, <2>1, <3>2 DEF LinksAreOld
  <2> QED BY <1>1, <2>1 DEF LinksAreOld
<1>4. OthersUntouched'
  <2>1. Arguments' = Arguments
    <3>1. \A k : Digit(k)' = Digit(k) BY <1>1 DEF Digit
    <3> QED BY <1>1, <1>2 DEF Arguments, Delete, Move, Copy, Chmod, Mkdir, Symlink
  <2>2. ASSUME NEW p, \A a \in Arguments : ~IsPrefix(a, p) , p \in Path PROVE p \notin Q
    <3>1. /\ cmd.type = Delete => cmd.src \in Arguments
          /\ cmd.type = Move => cmd.src \in Arguments /\ cmd.dest \in Arguments
          /\ cmd.type = Copy => cmd.dest \in Arguments
      BY DEF Arguments, Delete, Move, Copy, Chmod, Mkdir, Symlink
    <3>2. cmd.type # Copy => ~IsPrefix(Top.src, p)
      <4>1. ASSUME IsPrefix(Top.src, p) PROVE IsPrefix(cmd.src, p)
        <5>1. cmd.src \in Seq(Names) /\ Top.src \in Seq(Names) /\ p \in Seq(Names)
          BY <1>1, <1>2, <2>2, Given DEF Path
        <5> QED BY <1>2, <4>1, <5>1, PrefixOfPrefix
      <4> QED BY <1>2, <2>2, <3>1, <4>1
    <3>3. cmd.type # Delete => p # AtDest(Top.src)
      <4>1. IsPrefix(cmd.dest, AtDest(Top.src)) BY <1>1, <1>2, WhereItGoes
      <4> QED BY <1>2, <2>2, <3>1, <4>1
    <3> QED BY <1>1, <3>2, <3>3 DEF Reach
  <2>3. ASSUME NEW p \in DOMAIN before \cup DOMAIN fs', \A a \in Arguments : ~IsPrefix(a, p)
        PROVE  p \in DOMAIN before /\ p \in DOMAIN fs' /\ fs'[p] = before[p]
    <3>1. p \in Path BY <1>1, Given DEF IsTree
    <3>2. p \notin Q BY <2>2, <2>3, <3>1
    <3>3. p \in DOMAIN fs' <=> p \in DOMAIN fs BY <1>1, <3>2 DEF SameBut
    <3>4. p \in DOMAIN before /\ p \in DOMAIN fs /\ fs[p] = before[p]
      BY <1>1, <2>3, <3>3 DEF OthersUntouched, Holds
    <3> QED BY <1>1, <3>2, <3>3, <3>4 DEF SameBut
  <2> QED BY <1>1, <2>1, <2>3 DEF OthersUntouched, Holds
<1>5. Files' \subseteq Files /\ SourceEntries' = SourceEntries BY <1>1, FewerFiles
<1>6. MoveLosesNothing'
  <2>1. ASSUME cmd.type = Move, NEW p \in Files'
        PROVE  HasData(p, before[p].data)' \/ HasData(AtDest(p), before[p].data)'
    <3>1. CASE IsPrefix(Top.src, p) BY <2>1, <3>1
    <3>2. CASE ~IsPrefix(Top.src, p)
      <4>1. p \notin Q /\ AtDest(p) \notin Q BY <1>1, <1>5, <2>1, <3>2, NotReached
      <4>2. HasData(p, before[p].data) \/ HasData(AtDest(p), before[p].data)
        BY <1>1, <1>5, <2>1 DEF MoveLosesNothing, Files
      <4>3. /\ HasData(p, before[p].data)' <=> HasData(p, before[p].data)
            /\ HasData(AtDest(p), before[p].data)' <=> HasData(AtDest(p), before[p].data)
        BY <1>1, <4>1, StaysWhole
      <4> QED BY <4>2, <4>3
    <3> QED BY <3>1, <3>2
  <2>2. ASSUME cmd'.type = Move, NEW p \in SourceEntries', before'[p].kind = "file", ReadWhole(p)'
        PROVE  HasData(p, before[p].data)' \/ HasData(AtDest(p), before[p].data)'
    <3>1. p \in Files' /\ cmd.type = Move BY <1>1, <2>2 DEF Files
    <3> QED BY <2>1, <3>1
  <2> QED BY <2>2 DEF MoveLosesNothing
<1>7. CopyLeavesSource'
  <2>1. ASSUME cmd.type = Copy, NEW p \in SourceEntries PROVE p \in DOMAIN fs' /\ fs'[p] = before[p]
    <3>1. IsPrefix(cmd.dest, AtDest(Top.src)) /\ AtDest(Top.src) \in Path BY <1>1, <1>2, WhereItGoes
    <3>2. p # AtDest(Top.src) BY <1>1, <2>1, <3>1, CopyIsApart
    <3>3. p \notin Q BY <1>1, <2>1, <3>2 DEF Reach
    <3>4. p \in DOMAIN fs /\ fs[p] = before[p] BY <1>1, <2>1 DEF CopyLeavesSource, Holds
    <3> QED BY <1>1, <3>3, <3>4 DEF SameBut
  <2> QED BY <1>1, <1>5, <2>1 DEF CopyLeavesSource, Holds
<1>8. MkdirRounds' /\ MkdirNumbers' BY <1>1, <1>2 DEF MkdirRounds, MkdirNumbers, Delete, Mkdir, Move, Copy
<1>9. SymlinkDone' BY <1>1 DEF SymlinkDone, Succeeded
<1> QED BY <1>1, <1>3, <1>4, <1>6, <1>7, <1>8, <1>9

-----------------------------------------------------------------------------
(* The calls that wait *)

\* Every call is at a place that is on the way to that of the innermost one.
LEMMA Nested ==
    ASSUME TypeOK, WalkInv, stack # <<>>, NEW i \in DOMAIN stack
    PROVE  stack[i] \in Frames /\ stack[i].src \in Path /\ IsPrefix(stack[i].src, Top.src)
<1>1. /\ DOMAIN stack = 1..Len(stack) /\ Len(stack) \in Nat /\ Top = stack[1] /\ Top.src \in Path
  BY TopFits
<1>2. PICK n, s : n = Len(stack) - 1 /\ s = stack OBVIOUS
<1>3. s \in Seq(Frames) BY <1>2 DEF TypeOK
<1>4. \A k \in 1..(n + 1) : s[k] \in Frames /\ s[k].src \in Path
  <2> TAKE k \in 1..(n + 1)
  <2>1. k \in 1..Len(s) BY <1>1, <1>2
  <2>2. s[k] \in Frames BY <1>3, <2>1, ElementOfSeq
  <2> QED BY <2>2 DEF Frames
<1> DEFINE f == [k \in 0..n |-> s[k + 1].src]
           S == {q \in Path : IsPrefix(q, Top.src)}
<1>5. n \in Nat /\ n + 1 = Len(stack) /\ i \in 1..(n + 1) BY <1>1, <1>2
<1>6. f[0] \in S
  <2>1. IsPrefix(Top.src, Top.src) BY <1>1, PrefixSelf DEF Path
  <2>2. 0 \in 0..n /\ 0 + 1 = 1 BY <1>5
  <2> QED BY <1>1, <1>2, <2>1, <2>2
<1>7. ASSUME NEW k \in 1..n, f[k - 1] \in S PROVE f[k] \in S
  <2>1. k - 1 \in 0..n /\ k \in 0..n /\ k + 1 \in 1..(n + 1) /\ (k - 1) + 1 = k /\ (k + 1) - 1 = k /\ k + 1 > 1
    BY <1>5
  <2>2. k + 1 \in DOMAIN stack BY <1>1, <1>5, <2>1
  <2>3. PICK m \in Names : s[k].src = Append(s[k + 1].src, m)
    <3>1. FrameFits(k + 1) BY <2>2 DEF WalkInv
    <3>2. \E m \in Names \ s[k + 1].left : s[(k + 1) - 1].src = Append(s[k + 1].src, m)
      BY <1>2, <2>1, <3>1 DEF FrameFits
    <3> QED BY <2>1, <3>2
  <2>4. f[k - 1] = s[k].src /\ f[k] = s[k + 1].src BY <2>1
  <2>5. PICK a, b : a = s[k + 1].src /\ b = s[k].src OBVIOUS
  <2>6. a \in Seq(Names) /\ b \in Path /\ IsPrefix(b, Top.src) BY <1>4, <1>7, <2>1, <2>4, <2>5 DEF Path
  <2>7. IsPrefix(a, a) BY <2>6, PrefixSelf
  <2>8. IsPrefix(a, b) BY <2>3, <2>5, <2>6, <2>7, EntryMoves
  <2>9. IsPrefix(a, Top.src) BY <1>1, <2>6, <2>8, PrefixOfPrefix DEF Path
  <2> QED BY <2>4, <2>5, <2>6, <2>9 DEF Path
<1>8. \A k \in 0..n : f[k] \in S
  <2>1. \A k \in 1..n : f[k - 1] \in S => f[k] \in S BY <1>7
  <2> HIDE DEF f, S
  <2> QED BY <1>5, <1>6, <2>1, StepsStayIn
<1>9. i - 1 \in 0..n /\ (i - 1) + 1 = i BY <1>5
<1>10. f[i - 1] = s[i].src BY <1>9
<1>11. s[i].src \in S BY <1>8, <1>9, <1>10
<1> QED BY <1>2, <1>4, <1>5, <1>11

\* A call that waits is in its loop; the entry it is in is read already.
LEMMA Waiting ==
    ASSUME TypeOK, WalkInv, stack # <<>>, NEW i \in DOMAIN stack, i > 1
    PROVE  /\ i \in 2..Len(stack) /\ i - 1 \in DOMAIN stack
           /\ stack[i].at = "loop" /\ stack[i].fn # "remove" /\ cmd.type \in {Move, Copy}
           /\ \A p \in Path : IsPrefix(Top.src, p) =>
                 /\ IsPrefix(stack[i].src, p) /\ IsPrefix(stack[i - 1].src, p)
                 /\ ~ \E n \in stack[i].left : IsPrefix(Append(stack[i].src, n), p)
<1>1. DOMAIN stack = 1..Len(stack) /\ Len(stack) \in Nat /\ Top.src \in Path BY TopFits
<1>2. i \in 2..Len(stack) /\ i - 1 \in DOMAIN stack BY <1>1
<1>3. FrameFits(i) BY DEF WalkInv
<1>4. stack[i].at = "loop" BY DEF TypeOK
<1>5. stack[i].fn # "remove" /\ cmd.type \in {Move, Copy} BY <1>3, <1>4 DEF FrameFits
<1>6. ASSUME NEW p \in Path, IsPrefix(Top.src, p)
      PROVE  /\ IsPrefix(stack[i].src, p) /\ IsPrefix(stack[i - 1].src, p)
             /\ ~ \E n \in stack[i].left : IsPrefix(Append(stack[i].src, n), p)
  <2>1. PICK a, b, t : a = stack[i].src /\ b = stack[i - 1].src /\ t = Top.src OBVIOUS
  <2>2. /\ a \in Path /\ IsPrefix(a, t) /\ b \in Path /\ IsPrefix(b, t)
        /\ stack[i] \in Frames
    BY <1>2, <2>1, Nested
  <2>3. a \in Seq(Names) /\ b \in Seq(Names) /\ t \in Seq(Names) /\ p \in Seq(Names)
    BY <1>1, <2>1, <2>2 DEF Path
  <2>4. IsPrefix(a, p) BY <1>6, <2>1, <2>2, <2>3, PrefixOfPrefix
  <2>5. IsPrefix(b, p) BY <1>6, <2>1, <2>2, <2>3, PrefixOfPrefix
  <2>6. PICK m \in Names \ stack[i].left : b = Append(a, m) BY <1>3, <2>1 DEF FrameFits
  <2>7. ASSUME NEW n \in stack[i].left, IsPrefix(Append(a, n), p) PROVE FALSE
    <3>1. n \in Names BY <2>2, <2>7 DEF Frames
    <3>2. n = m BY <2>3, <2>5, <2>6, <2>7, <3>1, OneWayDown
    <3> QED BY <2>6, <3>2
  <2> QED BY <2>1, <2>4, <2>5, <2>7
<1> QED BY <1>2, <1>4, <1>5, <1>6

\* What a call that waits has seen to is not undone by the innermost one.
LEMMA WaitingStays ==
    ASSUME TypeOK, WalkInv, stack # <<>>, ret # "err", NEW Q, WalkStep(Q),
           NEW i \in DOMAIN stack, i > 1, NEW p \in Files, IsPrefix(stack[i].src, p)
    PROVE  IF \E n \in stack[i].left : IsPrefix(Append(stack[i].src, n), p) THEN Kept(p)'
           ELSE Whole(p)' \/ IsPrefix(stack[i - 1].src, p)
<1>1. /\ stack[i].at = "loop" /\ stack[i].fn # "remove" /\ cmd.type \in {Move, Copy}
      /\ i - 1 \in DOMAIN stack
  BY Waiting
<1>2. p \in Path BY FilesAreBelow
<1>3. CASE IsPrefix(Top.src, p) BY <1>2, <1>3, Waiting
<1>4. CASE ~IsPrefix(Top.src, p)
  <2>1. SameBut(Q) /\ Reach(Q) /\ UNCHANGED <<cmd, before>> /\ unseen \subseteq unseen'
        /\ (cmd.type = Move /\ cmd.src = cmd.dest => Q = {})
    BY DEF WalkStep, UnseenGrows
  <2>2. p \notin Q /\ AtDest(p) \notin Q BY <1>1, <1>4, <2>1, NotReached
  <2>3. (Kept(p)' <=> Kept(p)) /\ (Whole(p) => Whole(p)')
    <3>1. before[p].kind = "file" BY DEF Files
    <3> QED BY <2>1, <2>2, <3>1, StaysWhole
  <2>4. Progress(i, p) BY <1>1 DEF WalkInv
  <2>5. IF \E n \in stack[i].left : IsPrefix(Append(stack[i].src, n), p) THEN Kept(p)
        ELSE Whole(p) \/ IsPrefix(stack[i - 1].src, p)
    BY <1>1, <2>4 DEF Progress
  <2> QED BY <2>3, <2>5
<1> QED BY <1>3, <1>4

-----------------------------------------------------------------------------
(* The innermost call goes on, or returns *)

\* The frame g fits in the place of the innermost one, after the step.
FitsNext(g) ==
    /\ \/ cmd.type = Delete /\ g.fn = "remove"
       \/ cmd.type = Move /\ g.fn \in {"move", "remove"}
       \/ cmd.type = Copy /\ g.fn = "copy"
    /\ IF g.fn = "remove" THEN g.at \in {"enter", "tree"}
       ELSE g.at # "tree" /\ g.dest = AtDest(g.src)
    /\ g.fn = "move" /\ g.at \in {"file", "open", "full"} => IsFile(g.src)'
    /\ g.at \in {"open", "full"} => IsFile(g.dest)'

\* What the call of the frame g has done of the file p, after the step.
DoneNext(g, p) ==
    /\ g.fn = "remove" => Whole(p)'
    /\ g.at = "loop" => IF \E n \in g.left : IsPrefix(Append(g.src, n), p) THEN Kept(p)' ELSE Whole(p)'
    /\ g.fn # "remove" /\ g.at # "loop" => Kept(p)'
    /\ g.at \in {"file", "open", "full"} =>
          p = g.src /\ (cmd.type = Copy => g.mode = before[p].mode)
    /\ g.at = "full" => HasData(AtDest(p), before[p].data)'

\* The innermost call goes on.
LEMMA TopGoesOn ==
    ASSUME BackendInv, ret = "none", ret' = "none", NEW Q, WalkStep(Q),
           NEW g \in Frames, stack' = <<g>> \o Tail(stack), g.src = Top.src, FitsNext(g),
           cmd.type \in {Move, Copy} => \A p \in Files' : IsPrefix(Top.src, p) => DoneNext(g, p),
           cmd.type = Move => cmd.src # cmd.dest
    PROVE  TypeOK' /\ NotBegun' /\ WalkInv' /\ DoneWhenOk'
<1>1. /\ TypeOK /\ WalkInv /\ stack # <<>> /\ outcome = "none" /\ outcome' = "none"
      /\ cmd' = cmd /\ before' = before /\ try' = try /\ IsTree(fs')
      /\ unseen \subseteq unseen' /\ unseen' \subseteq [call : {"readdir", "fread", "chmod"}, at : Path]
  BY DEF BackendInv, WalkStep, UnseenGrows
<1>2. /\ DOMAIN stack = 1..Len(stack) /\ 1 \in DOMAIN stack /\ Len(stack) \in Nat /\ Top = stack[1]
      /\ FrameFits(1) /\ IsPrefix(cmd.src, Top.src)
  BY <1>1, TopFits
<1>3. /\ stack' \in Seq(Frames) /\ Len(stack') = Len(stack) /\ stack'[1] = g
      /\ \A i \in 2..Len(stack) : stack'[i] = stack[i]
  <2>1. PICK s, r : s = stack /\ r = stack' OBVIOUS
  <2>2. s \in Seq(Frames) /\ s # <<>> /\ r = <<g>> \o Tail(s) BY <1>1, <2>1 DEF TypeOK
  <2>3. /\ r \in Seq(Frames) /\ Len(r) = Len(s) /\ r[1] = g
        /\ \A i \in 2..Len(s) : r[i] = s[i]
    BY <2>2, TopPut
  <2> QED BY <2>1, <2>3
<1>4. DOMAIN stack' = DOMAIN stack /\ stack' # <<>>
  <2>1. DOMAIN stack' = 1..Len(stack') BY <1>3
  <2> QED BY <1>2, <1>3, <2>1
<1>5. ASSUME NEW i \in DOMAIN stack
      PROVE  /\ stack'[i].src = stack[i].src
             /\ i = 1 \/ (i > 1 /\ stack'[i] = stack[i] /\ i - 1 \in DOMAIN stack)
  BY <1>2, <1>3
<1>6. TypeOK'
  <2>1. \A i \in DOMAIN stack' : i > 1 => stack'[i].at = "loop"
    BY <1>1, <1>3, <1>4, <1>5 DEF TypeOK
  <2> QED BY <1>1, <1>3, <1>4, <2>1 DEF TypeOK
<1>7. NotBegun' /\ DoneWhenOk' BY <1>1, <1>4 DEF NotBegun, DoneWhenOk
<1>8. Files' \subseteq Files /\ \A p : AtDest(p)' = AtDest(p) BY <1>1, FewerFiles DEF AtDest
<1>9. ASSUME NEW i \in DOMAIN stack PROVE FrameFits(i)'
  <2>1. CASE i = 1
    <3>1. i = Len(stack) => g.src = cmd.src BY <1>2, <2>1 DEF FrameFits
    <3> QED BY <1>1, <1>2, <1>3, <1>8, <2>1, <3>1 DEF FrameFits, FitsNext, IsFile
  <2>2. CASE i > 1
    <3>1. PICK f : f = stack[i] OBVIOUS
    <3>2. stack'[i] = f /\ f.at = "loop" /\ f.fn # "remove" BY <1>1, <1>5, <2>2, <3>1, Waiting
    <3>3. FrameFits(i) BY <1>1 DEF WalkInv
    <3>4. stack'[i - 1].src = stack[i - 1].src BY <1>5, <2>2
    <3>5. /\ \/ cmd.type = Move /\ f.fn \in {"move", "remove"}
             \/ cmd.type = Copy /\ f.fn = "copy"
          /\ IsPrefix(cmd.src, f.src)
          /\ i = Len(stack) => f.src = cmd.src
          /\ \E n \in Names \ f.left : stack[i - 1].src = Append(f.src, n)
          /\ f.dest = AtDest(f.src)
      BY <2>2, <3>1, <3>2, <3>3 DEF FrameFits
    <3> QED BY <1>1, <1>3, <1>8, <3>2, <3>4, <3>5 DEF FrameFits
  <2> QED BY <1>5, <2>1, <2>2
<1>10. ASSUME cmd.type \in {Move, Copy}, NEW i \in DOMAIN stack, NEW p \in Files', IsPrefix(stack[i].src, p)
       PROVE  Progress(i, p)'
  <2>1. CASE i = 1
    <3>1. DoneNext(g, p) BY <1>2, <1>10, <2>1
    <3>2. ~(i > 1) BY <2>1
    <3> QED BY <1>1, <1>3, <1>8, <2>1, <3>1, <3>2 DEF Progress, DoneNext
  <2>2. CASE i > 1
    <3>1. stack'[i] = stack[i] /\ stack[i].at = "loop" /\ stack[i].fn # "remove"
      BY <1>1, <1>5, <2>2, Waiting
    <3>2. stack'[i - 1].src = stack[i - 1].src BY <1>5, <2>2
    <3>3. IF \E n \in stack[i].left : IsPrefix(Append(stack[i].src, n), p) THEN Kept(p)'
          ELSE Whole(p)' \/ IsPrefix(stack[i - 1].src, p)
      BY <1>1, <1>8, <1>10, <2>2, WaitingStays
    <3> QED BY <2>2, <3>1, <3>2, <3>3 DEF Progress
  <2> QED BY <1>5, <2>1, <2>2
<1>11. WalkInv'
  <2>1. \A i \in DOMAIN stack' : FrameFits(i)' BY <1>4, <1>9
  <2>2. cmd.type \in {Move, Copy} =>
          \A i \in DOMAIN stack' : \A p \in Files' : IsPrefix(stack'[i].src, p) => Progress(i, p)'
    BY <1>4, <1>5, <1>8, <1>10
  <2> QED BY <1>1, <2>1, <2>2 DEF WalkInv
<1> QED BY <1>6, <1>7, <1>11

\* The innermost call returns.
LEMMA TopReturns ==
    ASSUME BackendInv, NEW Q, WalkStep(Q), stack' = Tail(stack), ret' \in {"ok", "err"},
           ret' = "ok" => ret # "err",
           ret' = "ok" /\ cmd.type \in {Move, Copy} => \A p \in Files' : IsPrefix(Top.src, p) => Whole(p)',
           ret' = "ok" /\ cmd.type \in {Delete, Move} => Top.src \notin DOMAIN fs'
    PROVE  TypeOK' /\ NotBegun' /\ WalkInv' /\ DoneWhenOk'
<1>1. /\ TypeOK /\ WalkInv /\ stack # <<>> /\ outcome = "none" /\ outcome' = "none"
      /\ cmd' = cmd /\ before' = before /\ try' = try /\ IsTree(fs')
      /\ unseen \subseteq unseen' /\ unseen' \subseteq [call : {"readdir", "fread", "chmod"}, at : Path]
  BY DEF BackendInv, WalkStep, UnseenGrows
<1>2. /\ DOMAIN stack = 1..Len(stack) /\ 1 \in DOMAIN stack /\ Len(stack) \in Nat /\ Top = stack[1]
      /\ FrameFits(1) /\ cmd.type \in {Delete, Move, Copy}
  BY <1>1, TopFits
<1>3. /\ stack' \in Seq(Frames) /\ Len(stack') = Len(stack) - 1
      /\ \A i \in 1..(Len(stack) - 1) : stack'[i] = stack[i + 1]
  <2>1. PICK s : s = stack OBVIOUS
  <2>2. s \in Seq(Frames) /\ s # <<>> BY <1>1, <2>1 DEF TypeOK
  <2>3. /\ Tail(s) \in Seq(Frames) /\ Len(Tail(s)) = Len(s) - 1
        /\ \A i \in 1..(Len(s) - 1) : Tail(s)[i] = s[i + 1]
    BY <2>2, StackShape
  <2> QED BY <2>1, <2>3
<1>4. ASSUME NEW i \in DOMAIN stack'
      PROVE  /\ i + 1 \in DOMAIN stack /\ i + 1 > 1 /\ (i + 1) - 1 = i /\ i \in DOMAIN stack
             /\ stack'[i] = stack[i + 1]
             /\ (i = Len(stack') <=> i + 1 = Len(stack))
             /\ i = 1 \/ (i > 1 /\ i - 1 \in 1..(Len(stack) - 1) /\ stack'[i - 1] = stack[i])
  <2>1. DOMAIN stack' = 1..(Len(stack) - 1) BY <1>3
  <2>2. i \in 1..(Len(stack) - 1) BY <2>1
  <2>3. i > 1 => i - 1 \in 1..(Len(stack) - 1) /\ (i - 1) + 1 = i BY <1>2, <2>2
  <2> QED BY <1>2, <1>3, <2>2, <2>3
<1>5. TypeOK'
  <2>1. \A i \in DOMAIN stack' : i > 1 => stack'[i].at = "loop" BY <1>1, <1>4, Waiting
  <2> QED BY <1>1, <1>3, <2>1 DEF TypeOK
<1>6. NotBegun' BY DEF NotBegun
<1>7. Files' \subseteq Files /\ \A p : AtDest(p)' = AtDest(p) BY <1>1, FewerFiles DEF AtDest
<1>8. ASSUME NEW i \in DOMAIN stack' PROVE FrameFits(i)'
  <2>1. PICK f : f = stack[i + 1] OBVIOUS
  <2>2. stack'[i] = f /\ f.at = "loop" /\ f.fn # "remove" BY <1>1, <1>4, <2>1, Waiting
  <2>3. FrameFits(i + 1) BY <1>1, <1>4 DEF WalkInv
  <2>4. i > 1 => \E n \in Names \ f.left : stack'[i - 1].src = Append(f.src, n)
    <3>1. PICK k : k = i + 1 OBVIOUS
    <3>2. k > 1 /\ k - 1 = i /\ f = stack[k] /\ FrameFits(k) BY <1>4, <2>1, <2>3, <3>1
    <3>3. \E n \in Names \ f.left : stack[k - 1].src = Append(f.src, n) BY <3>2 DEF FrameFits
    <3> QED BY <1>4, <3>2, <3>3
  <2>5. /\ \/ cmd.type = Move /\ f.fn \in {"move", "remove"}
           \/ cmd.type = Copy /\ f.fn = "copy"
        /\ IsPrefix(cmd.src, f.src)
        /\ i = Len(stack') => f.src = cmd.src
        /\ f.dest = AtDest(f.src)
    BY <1>4, <2>1, <2>2, <2>3 DEF FrameFits
  <2> QED BY <1>1, <1>7, <2>2, <2>4, <2>5 DEF FrameFits
<1>9. ASSUME ret' = "ok", cmd.type \in {Move, Copy}, NEW i \in DOMAIN stack', NEW p \in Files',
             IsPrefix(stack'[i].src, p)
      PROVE  Progress(i, p)'
  <2>1. stack'[i] = stack[i + 1] /\ stack[i + 1].at = "loop" /\ stack[i + 1].fn # "remove"
    BY <1>1, <1>4, Waiting
  <2>2. IF \E n \in stack[i + 1].left : IsPrefix(Append(stack[i + 1].src, n), p) THEN Kept(p)'
        ELSE Whole(p)' \/ IsPrefix(stack[i].src, p)
    <3>1. PICK k : k = i + 1 OBVIOUS
    <3>2. k \in DOMAIN stack /\ k > 1 /\ k - 1 = i /\ IsPrefix(stack[k].src, p) BY <1>4, <1>9, <2>1, <3>1
    <3>3. IF \E n \in stack[k].left : IsPrefix(Append(stack[k].src, n), p) THEN Kept(p)'
          ELSE Whole(p)' \/ IsPrefix(stack[k - 1].src, p)
      BY <1>1, <1>7, <1>9, <3>2, WaitingStays
    <3> QED BY <3>1, <3>2, <3>3
  <2>3. IsPrefix(stack[i].src, p) => Whole(p)' \/ (i > 1 /\ IsPrefix(stack'[i - 1].src, p))
    BY <1>2, <1>4, <1>9
  <2> QED BY <2>1, <2>2, <2>3 DEF Progress
<1>10. WalkInv'
  <2>1. \A i \in DOMAIN stack' : FrameFits(i)' BY <1>8
  <2>2. cmd.type \in {Move, Copy} /\ ret' # "err" =>
          \A i \in DOMAIN stack' : \A p \in Files' : IsPrefix(stack'[i].src, p) => Progress(i, p)'
    BY <1>7, <1>9
  <2>3. stack' # <<>> => ~(cmd.type = Move /\ cmd.src = cmd.dest)
    <3>1. Len(stack) = 1 => stack' = <<>> BY <1>2, <1>3, EmptySeq
    <3> QED BY <1>1, <3>1 DEF WalkInv
  <2> QED BY <1>1, <1>2, <2>1, <2>2, <2>3 DEF WalkInv
<1>11. DoneWhenOk'
  <2>1. SUFFICES ASSUME stack' = <<>>, ret' = "ok"
                 PROVE  /\ cmd.type \in {Delete, Move} => cmd.src \notin DOMAIN fs'
                        /\ cmd.type \in {Move, Copy} => \A p \in Files' : Whole(p)'
                        /\ MoveDone'
    BY <1>1, <1>7 DEF DoneWhenOk
  <2>2. Len(stack) = 1
    <3>1. PICK n, m : n = Len(stack) /\ m = Len(stack') OBVIOUS
    <3>2. n \in Nat /\ m = n - 1 /\ m = 0 BY <1>2, <1>3, <2>1, <3>1
    <3>3. n = 1 BY <3>2
    <3> QED BY <3>1, <3>3
  <2>3. Top.src = cmd.src BY <1>2, <2>2 DEF FrameFits
  <2>4. \A p \in Files' : IsPrefix(Top.src, p) BY <1>7, <2>3 DEF Files, SourceEntries
  <2>5. MoveDone' BY <1>1 DEF MoveDone, Succeeded
  <2> QED BY <2>1, <2>3, <2>4, <2>5
<1> QED BY <1>5, <1>6, <1>10, <1>11

\* A step of a walk, and the innermost call goes on; what is said of the files is
\* asked of those that no read has missed.
LEMMA WalkGoesOnUnseen ==
    ASSUME BackendInv, ret = "none", ret' = "none", NEW Q, WalkStep(Q),
           cmd.type = Move =>
               \A p \in Files' : IsPrefix(Top.src, p) =>
                   HasData(p, before[p].data)' \/ HasData(AtDest(p), before[p].data)',
           NEW g \in Frames, stack' = <<g>> \o Tail(stack), g.src = Top.src, FitsNext(g),
           cmd.type \in {Move, Copy} => \A p \in Files' : IsPrefix(Top.src, p) => DoneNext(g, p),
           cmd.type = Move => cmd.src # cmd.dest
    PROVE  BackendInv'
<1>1. TypeOK' /\ NotBegun' /\ WalkInv' /\ DoneWhenOk' BY TopGoesOn
<1>2. /\ LinksAreOld' /\ OthersUntouched' /\ MoveLosesNothing' /\ CopyLeavesSource'
      /\ MkdirRounds' /\ MkdirNumbers' /\ SymlinkDone'
  BY WalkKeeps
<1> QED BY <1>1, <1>2 DEF BackendInv

LEMMA WalkGoesOn ==
    ASSUME BackendInv, ret = "none", ret' = "none", NEW Q, WalkStep(Q),
           cmd.type = Move =>
               \A p \in Files : IsPrefix(Top.src, p) =>
                   HasData(p, before[p].data)' \/ HasData(AtDest(p), before[p].data)',
           NEW g \in Frames, stack' = <<g>> \o Tail(stack), g.src = Top.src, FitsNext(g),
           cmd.type \in {Move, Copy} => \A p \in Files : IsPrefix(Top.src, p) => DoneNext(g, p),
           cmd.type = Move => cmd.src # cmd.dest
    PROVE  BackendInv'
<1>1. Files' \subseteq Files BY FewerFiles DEF WalkStep, UnseenGrows
<1>2. /\ cmd.type = Move =>
            \A p \in Files' : IsPrefix(Top.src, p) =>
                HasData(p, before[p].data)' \/ HasData(AtDest(p), before[p].data)'
      /\ cmd.type \in {Move, Copy} => \A p \in Files' : IsPrefix(Top.src, p) => DoneNext(g, p)
  BY <1>1
<1> QED BY <1>2, WalkGoesOnUnseen

\* A step of a walk, and the innermost call returns.
LEMMA WalkReturns ==
    ASSUME BackendInv, NEW Q, WalkStep(Q),
           cmd.type = Move =>
               \A p \in Files : IsPrefix(Top.src, p) =>
                   HasData(p, before[p].data)' \/ HasData(AtDest(p), before[p].data)',
           stack' = Tail(stack), ret' \in {"ok", "err"},
           ret' = "ok" => ret # "err",
           ret' = "ok" /\ cmd.type \in {Move, Copy} => \A p \in Files : IsPrefix(Top.src, p) => Whole(p)',
           ret' = "ok" /\ cmd.type \in {Delete, Move} => Top.src \notin DOMAIN fs'
    PROVE  BackendInv'
<1>1. Files' \subseteq Files BY FewerFiles DEF WalkStep, UnseenGrows
<1>2. ret' = "ok" /\ cmd.type \in {Move, Copy} => \A p \in Files' : IsPrefix(Top.src, p) => Whole(p)'
  BY <1>1
<1>3. cmd.type = Move =>
          \A p \in Files' : IsPrefix(Top.src, p) =>
              HasData(p, before[p].data)' \/ HasData(AtDest(p), before[p].data)'
  BY <1>1
<1>4. TypeOK' /\ NotBegun' /\ WalkInv' /\ DoneWhenOk' BY <1>2, TopReturns
<1>5. /\ LinksAreOld' /\ OthersUntouched' /\ MoveLosesNothing' /\ CopyLeavesSource'
      /\ MkdirRounds' /\ MkdirNumbers' /\ SymlinkDone'
  BY <1>3, WalkKeeps
<1> QED BY <1>4, <1>5 DEF BackendInv

\* A step that leaves the files alone; a call may have failed unseen.
LEMMA FilesLeftAlone ==
    ASSUME BackendInv, outcome = "none", stack # <<>>, UNCHANGED <<fs, cmd, outcome, try, before>>,
           UnseenGrows
    PROVE  /\ WalkStep({})
           /\ \A p : /\ Kept(p)' <=> Kept(p)
                     /\ unseen' = unseen => (Whole(p)' <=> Whole(p))
                     /\ HasData(AtDest(p), before[p].data)' <=> HasData(AtDest(p), before[p].data)
           /\ \A q : IsFile(q)' <=> IsFile(q)
           /\ cmd.type = Move =>
                 \A p \in Files : HasData(p, before[p].data)' \/ HasData(AtDest(p), before[p].data)'
<1>1. IsTree(fs) /\ MoveLosesNothing BY DEF BackendInv, TypeOK
<1>2. SameBut({}) BY DEF SameBut
<1>3. WalkStep({}) BY <1>1, <1>2 DEF WalkStep, Reach
<1>4. \A p : /\ Kept(p)' <=> Kept(p)
             /\ unseen' = unseen => (Whole(p)' <=> Whole(p))
             /\ HasData(p, before[p].data)' <=> HasData(p, before[p].data)
             /\ HasData(AtDest(p), before[p].data)' <=> HasData(AtDest(p), before[p].data)
  <2> TAKE p
  <2>1. p \notin {} /\ AtDest(p) \notin {} OBVIOUS
  <2> QED BY <1>2, <2>1, StaysWhole DEF UnseenGrows
<1>5. cmd.type = Move => \A p \in Files : HasData(p, before[p].data) \/ HasData(AtDest(p), before[p].data)
  BY <1>1 DEF MoveLosesNothing, Files
<1> QED BY <1>3, <1>4, <1>5 DEF IsFile

LEMMA FilesUnchanged ==
    ASSUME BackendInv, outcome = "none", stack # <<>>, UNCHANGED <<fs, cmd, outcome, try, before, unseen>>
    PROVE  /\ WalkStep({})
           /\ \A p : /\ Kept(p)' <=> Kept(p)
                     /\ Whole(p)' <=> Whole(p)
                     /\ HasData(AtDest(p), before[p].data)' <=> HasData(AtDest(p), before[p].data)
           /\ \A q : IsFile(q)' <=> IsFile(q)
           /\ cmd.type = Move =>
                 \A p \in Files : HasData(p, before[p].data)' \/ HasData(AtDest(p), before[p].data)'
<1>1. UnseenGrows BY DEF UnseenGrows, BackendInv, TypeOK
<1> QED BY <1>1, FilesLeftAlone

\* What fits the innermost call, and what it has done.
LEMMA TopIs ==
    ASSUME BackendInv, stack # <<>>
    PROVE  /\ \/ cmd.type = Delete /\ Top.fn = "remove"
              \/ cmd.type = Move /\ Top.fn \in {"move", "remove"}
              \/ cmd.type = Copy /\ Top.fn = "copy"
           /\ Top \in Frames /\ Top.src \in Path /\ IsPrefix(cmd.src, Top.src)
           /\ Top.fn = "remove" => Top.at \in {"enter", "tree"}
           /\ Top.fn # "remove" => Top.at # "tree" /\ Top.dest = AtDest(Top.src)
           /\ Top.fn = "move" /\ Top.at \in {"file", "open", "full"} => IsFile(Top.src)
           /\ Top.at \in {"open", "full"} => IsFile(Top.dest)
           /\ cmd.type = Move /\ cmd.src = cmd.dest => Top.at = "enter" /\ Top.fn = "move" /\ ~Found(Top.src)
           /\ cmd.type = Delete => Top.src = cmd.src
<1>1. TypeOK /\ WalkInv /\ LinksAreOld /\ outcome = "none" BY DEF BackendInv, TypeOK
<1>2. /\ Top = stack[1] /\ Top \in Frames /\ FrameFits(1) /\ Top.src \in Path /\ IsPrefix(cmd.src, Top.src)
      /\ DOMAIN stack = 1..Len(stack) /\ Len(stack) \in Nat /\ 1 \in DOMAIN stack
  BY <1>1, TopFits
<1>3. /\ \/ cmd.type = Delete /\ Top.fn = "remove"
         \/ cmd.type = Move /\ Top.fn \in {"move", "remove"}
         \/ cmd.type = Copy /\ Top.fn = "copy"
      /\ Top.fn = "remove" => Top.at \in {"enter", "tree"}
      /\ Top.fn # "remove" => Top.at # "tree" /\ Top.dest = AtDest(Top.src)
      /\ Top.fn = "move" /\ Top.at \in {"file", "open", "full"} => IsFile(Top.src)
      /\ Top.at \in {"open", "full"} => IsFile(Top.dest)
      /\ 1 = Len(stack) => Top.src = cmd.src
  BY <1>2 DEF FrameFits
<1>4. ASSUME cmd.type = Move, cmd.src = cmd.dest
      PROVE  Top.at = "enter" /\ Top.fn = "move" /\ ~Found(Top.src)
  <2>1. /\ Len(stack) = 1 /\ Top.at = "enter" /\ Top.fn = "move"
        /\ Len(cmd.src) <= PathMax => cmd.src \notin DOMAIN fs
    BY <1>1, <1>4 DEF WalkInv
  <2>2. Top.src = cmd.src BY <1>3, <2>1
  <2>3. Target(Top.src) = Top.src BY <1>1, <1>2, <1>4, SourcePlace
  <2> QED BY <2>1, <2>2, <2>3 DEF Found
<1>5. ASSUME cmd.type = Delete PROVE Top.src = cmd.src
  <2>1. ASSUME Len(stack) # 1 PROVE FALSE
    <3>1. 2 \in DOMAIN stack /\ 2 > 1 BY <1>2, <2>1
    <3>2. cmd.type \in {Move, Copy} BY <1>1, <3>1, Waiting
    <3> QED BY <1>5, <3>2 DEF Delete, Move, Copy
  <2> QED BY <1>3, <2>1
<1> QED BY <1>2, <1>3, <1>4, <1>5

\* What the innermost call has done of a file that is below its source.
LEMMA TopHasDone ==
    ASSUME BackendInv, stack # <<>>, ret # "err", cmd.type \in {Move, Copy},
           NEW p \in Files, IsPrefix(Top.src, p)
    PROVE  /\ Top.fn = "remove" => Whole(p)
           /\ Top.at = "loop" =>
                 IF \E n \in Top.left : IsPrefix(Append(Top.src, n), p) THEN Kept(p) ELSE Whole(p)
           /\ Top.fn # "remove" /\ Top.at # "loop" => Kept(p)
           /\ Top.at \in {"file", "open", "full"} =>
                 p = Top.src /\ (cmd.type = Copy => Top.mode = before[p].mode)
           /\ Top.at = "full" => HasData(AtDest(p), before[p].data)
<1>1. TypeOK /\ WalkInv BY DEF BackendInv
<1>2. Top = stack[1] /\ 1 \in DOMAIN stack BY <1>1, TopFits
<1>3. Progress(1, p) BY <1>1, <1>2 DEF WalkInv
<1>4. ~(1 > 1) OBVIOUS
<1> QED BY <1>2, <1>3, <1>4 DEF Progress

-----------------------------------------------------------------------------
(* The steps of a walk that leave the files alone *)

\* The innermost call fails (EnterMissing, Denied, Resume, OpenFiles).
LEMMA GivesUp ==
    ASSUME BackendInv, outcome = "none", stack # <<>>, Returns("err"), UNCHANGED <<fs, cmd, outcome, try, before, unseen>>
    PROVE  BackendInv'
<1>1. /\ WalkStep({}) /\ stack' = Tail(stack) /\ ret' = "err"
      /\ cmd.type = Move =>
            \A p \in Files : IsPrefix(Top.src, p) =>
                HasData(p, before[p].data)' \/ HasData(AtDest(p), before[p].data)'
  BY FilesUnchanged DEF Returns
<1> QED BY <1>1, WalkReturns

\* An inner call is back: what it was at is done, and its loop goes on.
LEMMA ResumeKeeps == ASSUME BackendInv, Resume PROVE BackendInv'
<1>1. CASE ret = "ok"
  <2>1. /\ outcome = "none" /\ stack # <<>> /\ UNCHANGED <<fs, cmd, stack, outcome, try, before, unseen>> /\ ret' = "none"
    BY <1>1 DEF Resume
  <2>2. /\ TypeOK /\ LinksAreOld /\ WalkInv /\ OthersUntouched /\ MoveLosesNothing /\ CopyLeavesSource
        /\ MkdirRounds /\ MkdirNumbers /\ SymlinkDone
    BY DEF BackendInv
  <2>3. TypeOK' /\ NotBegun' /\ DoneWhenOk' BY <2>1, <2>2 DEF TypeOK, NotBegun, DoneWhenOk
  <2>4. LinksAreOld' BY <2>1, <2>2 DEF LinksAreOld
  <2>5. WalkInv'
    <3>1. Files' = Files BY <2>1 DEF Files, SourceEntries, ReadWhole
    <3>2. ASSUME NEW i \in DOMAIN stack PROVE FrameFits(i)'
      BY <2>1, <2>2 DEF WalkInv, FrameFits, AtDest, IsFile
    <3>3. ASSUME cmd.type \in {Move, Copy}, NEW i \in DOMAIN stack, NEW p \in Files, IsPrefix(stack[i].src, p)
          PROVE  Progress(i, p)'
      <4>1. Progress(i, p) BY <1>1, <2>2, <3>3 DEF WalkInv
      <4>2. (Kept(p)' <=> Kept(p)) /\ (Whole(p)' <=> Whole(p))
            /\ (HasData(AtDest(p), before[p].data)' <=> HasData(AtDest(p), before[p].data))
        BY <2>1, FilesUnchanged
      <4> QED BY <2>1, <4>1, <4>2 DEF Progress
    <3> QED BY <2>1, <2>2, <3>1, <3>2, <3>3 DEF WalkInv, Top
  <2>6. OthersUntouched'
    <3>1. Arguments' = Arguments
      <4>1. \A k : Digit(k)' = Digit(k) BY <2>1 DEF Digit
      <4>2. cmd' = cmd BY <2>1
      <4> QED BY <4>1, <4>2 DEF Arguments
    <3> QED BY <2>1, <2>2, <3>1 DEF OthersUntouched, Holds
  <2>7. MoveLosesNothing' /\ CopyLeavesSource'
    BY <2>1, <2>2 DEF MoveLosesNothing, CopyLeavesSource, SourceEntries, ReadWhole, AtDest, HasData, Holds
  <2>8. SymlinkDone' BY <2>1 DEF SymlinkDone, Succeeded
  <2>9. MkdirRounds' /\ MkdirNumbers'
    <3>1. cmd.type \in {Delete, Move, Copy} BY <2>1, <2>2, TopFits
    <3> QED BY <2>1, <3>1 DEF MkdirRounds, MkdirNumbers, Delete, Mkdir, Move, Copy
  <2> QED BY <2>3, <2>4, <2>5, <2>6, <2>7, <2>8, <2>9 DEF BackendInv
<1>2. CASE ret # "ok" BY <1>2, GivesUp DEF Resume
<1> QED BY <1>1, <1>2

\* A call that fails changes nothing, and everything above it gives up.
LEMMA DeniedKeeps == ASSUME BackendInv, Denied PROVE BackendInv'
BY GivesUp DEF Denied, Running

\* What cannot be found is neither moved nor copied.
LEMMA EnterMissingKeeps == ASSUME BackendInv, EnterMissing PROVE BackendInv'
BY GivesUp DEF EnterMissing, Running

\* A file of the source that the copy is at is reached by its own path.
LEMMA CopiedPlace ==
    ASSUME BackendInv, stack # <<>>, NEW p \in Files, IsPrefix(Top.src, p), Kept(p)
    PROVE  /\ Place(Top.src) = Top.src /\ Target(Top.src) = Top.src /\ Top.src \in DOMAIN fs
           /\ p \in DOMAIN fs /\ fs[p] = before[p] /\ fs[p].kind = "file"
           /\ p # Top.src => fs[Top.src].kind = "dir"
<1>1. TypeOK /\ WalkInv /\ IsTree(fs) BY DEF BackendInv, TypeOK
<1>2. p \in DOMAIN fs /\ fs[p] = before[p] /\ fs[p].kind = "file" BY DEF Kept, Holds, Files
<1>3. Top.src \in Path BY <1>1, TopFits
<1>4. Top.src \in DOMAIN fs /\ (p # Top.src => fs[Top.src].kind = "dir") BY <1>1, <1>2, <1>3, OnTheWay
<1>5. fs[Top.src].kind # "link" BY <1>2, <1>4
<1> QED BY <1>1, <1>2, <1>4, <1>5, EntryPlace

\* The call is at a file: it is the file itself, and its mode is known.
LEMMA EnterFileKeeps == ASSUME BackendInv, EnterFile PROVE BackendInv'
<1>0. PICK g, s : g = [Top EXCEPT !.at = "file", !.mode = fs[Target(Top.src)].mode] /\ s = Top.src
  OBVIOUS
<1>1. /\ outcome = "none" /\ ret = "none" /\ ret' = "none" /\ stack # <<>>
      /\ Top.fn \in {"move", "copy"} /\ Top.at = "enter" /\ Found(Top.src) /\ ~IsDir(Top.src)
      /\ stack' = <<g>> \o Tail(stack) /\ UNCHANGED <<fs, cmd, outcome, try, before, unseen>>
  BY <1>0 DEF EnterFile, Running, Transfer
<1>2. /\ TypeOK /\ WalkInv /\ LinksAreOld /\ IsTree(fs) BY DEF BackendInv, TypeOK
<1>3. Target(Top.src) \in DOMAIN fs /\ fs[Target(Top.src)].kind # "dir" BY <1>1 DEF Found, IsDir
<1>4. /\ Top \in Frames /\ Top.src \in Path /\ IsPrefix(cmd.src, Top.src)
      /\ (cmd.type = Move /\ Top.fn = "move") \/ (cmd.type = Copy /\ Top.fn = "copy")
      /\ Top.dest = AtDest(Top.src)
      /\ cmd.type = Move => cmd.src # cmd.dest
  BY <1>1, TopIs
<1>5. fs[Target(Top.src)].mode \in Modes BY <1>2, <1>3 DEF IsTree, IsNode
<1>6. /\ g \in Frames /\ g.src = Top.src /\ g.fn = Top.fn /\ g.at = "file" /\ g.dest = Top.dest
      /\ g.mode = fs[Target(Top.src)].mode
  BY <1>0, <1>4, <1>5 DEF Frames
<1>7. FitsNext(g)
  <2>1. Top.fn = "move" => IsFile(Top.src)
    <3>1. ASSUME cmd.type = Move PROVE IsFile(Top.src)
      <4>1. Target(Top.src) = Top.src /\ fs[Top.src].kind # "link" /\ Top.src \in DOMAIN fs
        BY <1>1, <1>2, <1>3, <1>4, <3>1, SourcePlace
      <4> QED BY <1>2, <1>3, <4>1 DEF IsFile, IsTree, IsNode
    <3> QED BY <1>4, <3>1
  <2>2. IsFile(s)' <=> IsFile(s) BY <1>1, FilesUnchanged
  <2>3. g.src = s BY <1>0, <1>6
  <2>4. g.fn = "move" => IsFile(g.src)' BY <1>0, <1>6, <2>1, <2>2, <2>3
  <2> QED BY <1>4, <1>6, <2>4 DEF FitsNext
<1>8. ASSUME NEW p \in Files, IsPrefix(Top.src, p), cmd.type \in {Move, Copy} PROVE DoneNext(g, p)
  <2>1. Kept(p) BY <1>1, <1>8, TopHasDone
  <2>2. /\ Target(Top.src) = Top.src /\ p \in DOMAIN fs /\ fs[p] = before[p]
        /\ p # Top.src => fs[Top.src].kind = "dir"
    BY <1>1, <1>8, <2>1, CopiedPlace
  <2>3. p = Top.src BY <1>3, <2>2
  <2>4. Kept(p)' BY <1>1, <2>1, FilesUnchanged
  <2> QED BY <1>1, <1>6, <2>2, <2>3, <2>4 DEF DoneNext
<1>9. /\ WalkStep({})
      /\ cmd.type = Move =>
            \A p \in Files : HasData(p, before[p].data)' \/ HasData(AtDest(p), before[p].data)'
  BY <1>1, FilesUnchanged
<1> QED BY <1>1, <1>4, <1>6, <1>7, <1>8, <1>9, WalkGoesOn

\* A directory is read in part: of the files below it, nothing is promised any more.
LEMMA StopReadingKeeps == ASSUME BackendInv, StopReading PROVE BackendInv'
<1>1. PICK g : g = [Top EXCEPT !.left = {}] OBVIOUS
<1>2. /\ outcome = "none" /\ ret = "none" /\ ret' = "none" /\ stack # <<>>
      /\ Top.fn \in {"move", "copy"} /\ Top.at = "loop"
      /\ UNCHANGED <<fs, cmd, outcome, try, before>>
      /\ unseen' = unseen \cup {[call |-> "readdir", at |-> Top.src]}
      /\ stack' = <<g>> \o Tail(stack)
  BY <1>1 DEF StopReading, Running, Transfer, Unseen
<1>3. /\ (cmd.type = Move /\ Top.fn = "move") \/ (cmd.type = Copy /\ Top.fn = "copy")
      /\ Top \in Frames /\ Top.src \in Path /\ Top.dest = AtDest(Top.src)
      /\ cmd.type = Move => cmd.src # cmd.dest
  BY <1>2, TopIs
<1>4. /\ g \in Frames /\ g.src = Top.src /\ g.fn = Top.fn /\ g.at = "loop" /\ g.dest = Top.dest
  BY <1>1, <1>2, <1>3 DEF Frames
<1>5. FitsNext(g) BY <1>2, <1>3, <1>4 DEF FitsNext
<1>6. UnseenGrows
  <2>1. unseen \subseteq [call : {"readdir", "fread", "chmod"}, at : Path] BY DEF BackendInv, TypeOK
  <2> QED BY <1>2, <1>3, <2>1 DEF UnseenGrows
<1>7. WalkStep({}) BY <1>2, <1>6, FilesLeftAlone
<1>8. \A p \in Files' : ~IsPrefix(Top.src, p)
  <2> TAKE p \in Files'
  <2>1. [call |-> "readdir", at |-> Top.src] \in unseen' BY <1>2
  <2> QED BY <2>1 DEF Files, ReadWhole
<1> QED BY <1>2, <1>3, <1>4, <1>5, <1>7, <1>8, WalkGoesOnUnseen

\* A directory has been read: all below it is whole in its new place.
LEMMA LeaveDirectoryKeeps == ASSUME BackendInv, LeaveDirectory PROVE BackendInv'
<1>1. /\ outcome = "none" /\ ret = "none" /\ stack # <<>>
      /\ Top.fn \in {"move", "copy"} /\ Top.at = "loop" /\ Top.left = {}
      /\ IF Top.fn = "copy" THEN stack' = Tail(stack) /\ ret' = "ok"
         ELSE stack' = <<Frame("remove", Top.src, <<>>)>> \o Tail(stack) /\ ret' = "none"
      /\ UNCHANGED <<fs, cmd, outcome, try, before, unseen>>
  BY DEF LeaveDirectory, Running, Transfer, Returns
<1>2. /\ Top \in Frames /\ Top.src \in Path
      /\ (cmd.type = Move /\ Top.fn = "move") \/ (cmd.type = Copy /\ Top.fn = "copy")
      /\ cmd.type = Move => cmd.src # cmd.dest
  BY <1>1, TopIs
<1>3. /\ WalkStep({})
      /\ cmd.type = Move =>
            \A p \in Files : HasData(p, before[p].data)' \/ HasData(AtDest(p), before[p].data)'
  BY <1>1, FilesUnchanged
<1>4. \A p \in Files : IsPrefix(Top.src, p) => Whole(p)'
  <2> TAKE p \in Files
  <2> SUFFICES ASSUME IsPrefix(Top.src, p) PROVE Whole(p)' OBVIOUS
  <2>1. IF \E n \in Top.left : IsPrefix(Append(Top.src, n), p) THEN Kept(p) ELSE Whole(p)
    BY <1>1, <1>2, TopHasDone
  <2>2. Whole(p)' <=> Whole(p) BY <1>1, FilesUnchanged
  <2> QED BY <1>1, <2>1, <2>2
<1>5. CASE Top.fn = "copy"
  <2>1. cmd.type = Copy BY <1>2, <1>5
  <2> QED BY <1>1, <1>3, <1>4, <1>5, <2>1, WalkReturns DEF Delete, Move, Copy
<1>6. CASE Top.fn # "copy"
  <2>1. PICK g : g = Frame("remove", Top.src, <<>>) OBVIOUS
  <2>2. /\ g \in Frames /\ g.fn = "remove" /\ g.at = "enter" /\ g.src = Top.src
    BY <1>2, <2>1 DEF Frames, Frame, Modes, Path
  <2>3. cmd.type = Move BY <1>2, <1>6
  <2>4. FitsNext(g) BY <2>2, <2>3 DEF FitsNext
  <2>5. \A p \in Files : IsPrefix(Top.src, p) => DoneNext(g, p) BY <1>4, <2>2 DEF DoneNext
  <2> QED BY <1>1, <1>2, <1>3, <1>6, <2>1, <2>2, <2>4, <2>5, WalkGoesOn
<1> QED BY <1>5, <1>6

\* The calls for the entries get whole paths.
LEMMA DescendsTo ==
    ASSUME Descend
    PROVE  \E n \in Top.left :
               stack' = <<Frame(Top.fn, Append(Top.src, n), Append(Top.dest, n)), [Top EXCEPT !.left = @ \ {n}]>>
                        \o Tail(stack)
<1>1. \A p, n : Joined(p, n) = {Append(p, n)} BY UncutAssumption DEF Joined
<1> QED BY <1>1 DEF Descend

\* The next entry: the inner call takes over the files below it.
LEMMA DescendKeeps == ASSUME BackendInv, Descend PROVE BackendInv'
<1>1. PICK n \in Top.left :
          stack' = <<Frame(Top.fn, Append(Top.src, n), Append(Top.dest, n)), [Top EXCEPT !.left = @ \ {n}]>>
                   \o Tail(stack)
  BY DescendsTo
<1>2. PICK f, g, s : /\ f = Frame(Top.fn, Append(Top.src, n), Append(Top.dest, n))
                     /\ g = [Top EXCEPT !.left = @ \ {n}] /\ s = Top.src
  OBVIOUS
<1>3. /\ outcome = "none" /\ ret = "none" /\ stack # <<>>
      /\ Top.fn \in {"move", "copy"} /\ Top.at = "loop"
      /\ stack' = <<f, g>> \o Tail(stack) /\ UNCHANGED <<fs, cmd, ret, outcome, try, before, unseen>>
  BY <1>1, <1>2 DEF Descend, Running, Transfer
<1>4. TypeOK /\ WalkInv BY DEF BackendInv
<1>5. /\ (cmd.type = Move /\ Top.fn = "move") \/ (cmd.type = Copy /\ Top.fn = "copy")
      /\ Top \in Frames /\ s \in Path /\ IsPrefix(cmd.src, s) /\ Top.dest = AtDest(s)
      /\ ~(cmd.type = Move /\ cmd.src = cmd.dest)
  BY <1>2, <1>3, TopIs
<1>6. n \in Names BY <1>1, <1>5 DEF Frames
<1>7. PICK r : r = Append(s, n) OBVIOUS
<1>8. /\ r \in Path /\ IsPrefix(cmd.src, r) /\ IsPrefix(s, r)
      /\ Append(Top.dest, n) = AtDest(r) /\ AtDest(r) \in Path
  <2>1. cmd.src \in Seq(Names) /\ cmd.dest \in Seq(Names) /\ s \in Seq(Names)
    BY <1>4, <1>5, Given DEF Path
  <2>2. r \in Seq(Names) BY <1>6, <1>7, <2>1
  <2>3. IsPrefix(cmd.src, r) BY <1>5, <1>6, <1>7, <2>1, EntryMoves
  <2>4. IsPrefix(s, s) BY <2>1, PrefixSelf
  <2>5. IsPrefix(s, r) BY <1>6, <1>7, <2>1, <2>4, EntryMoves
  <2>6. Rebased(Append(s, n), cmd.src, cmd.dest) = Append(Rebased(s, cmd.src, cmd.dest), n)
    BY <1>5, <1>6, <2>1, EntryMoves
  <2>7. Append(AtDest(s), n) = AtDest(r) BY <1>7, <2>6 DEF AtDest, Rebased
  <2>8. AtDest(r) \in Path BY <1>4, <2>2, <2>3, WhereItGoes DEF Path
  <2> QED BY <1>5, <2>2, <2>3, <2>5, <2>7, <2>8 DEF Path
<1>9. /\ f \in Frames /\ f.fn = Top.fn /\ f.at = "enter" /\ f.src = r /\ f.dest = AtDest(r)
  BY <1>2, <1>5, <1>7, <1>8 DEF Frames, Frame, Modes
<1>10. /\ g \in Frames /\ g.fn = Top.fn /\ g.at = "loop" /\ g.src = s /\ g.dest = Top.dest
       /\ g.left = Top.left \ {n} /\ g.mode = Top.mode
  BY <1>2, <1>3, <1>5 DEF Frames
<1>11. /\ DOMAIN stack = 1..Len(stack) /\ 1 \in DOMAIN stack /\ Len(stack) \in Nat /\ Top = stack[1]
       /\ FrameFits(1)
  BY <1>3, <1>4, TopFits
<1>12. /\ stack' \in Seq(Frames) /\ Len(stack') = Len(stack) + 1 /\ stack'[1] = f /\ stack'[2] = g
       /\ \A i \in 3..(Len(stack) + 1) : stack'[i] = stack[i - 1]
  <2>1. PICK t, u : t = stack /\ u = stack' OBVIOUS
  <2>2. t \in Seq(Frames) /\ t # <<>> /\ u = <<f, g>> \o Tail(t) BY <1>3, <1>4, <2>1 DEF TypeOK
  <2>3. /\ u \in Seq(Frames) /\ Len(u) = Len(t) + 1 /\ u[1] = f /\ u[2] = g
        /\ \A i \in 3..(Len(t) + 1) : u[i] = t[i - 1]
    BY <1>9, <1>10, <2>2, TopPushed
  <2> QED BY <2>1, <2>3
<1>13. ASSUME NEW i \in DOMAIN stack'
       PROVE  \/ i = 1
              \/ i = 2
              \/ /\ i > 2 /\ i - 1 \in DOMAIN stack /\ i - 1 > 1 /\ stack'[i] = stack[i - 1]
                 /\ stack'[i - 1].src = stack[(i - 1) - 1].src
                 /\ (i = Len(stack') <=> i - 1 = Len(stack)) /\ i > 1
  <2>1. DOMAIN stack' = 1..(Len(stack) + 1) BY <1>12
  <2>2. i \in 1..(Len(stack) + 1) BY <2>1
  <2>3. CASE i = 3
    <3>1. PICK m : m = Len(stack) OBVIOUS
    <3>2. m \in Nat /\ i \in 1..(m + 1) BY <1>11, <2>2, <3>1
    <3>3. i - 1 = 2 /\ (i - 1) - 1 = 1 /\ m >= 2 /\ (i = m + 1 <=> i - 1 = m) BY <2>3, <3>2
    <3>4. stack'[3] = stack[3 - 1] BY <1>12, <3>1, <3>2, <2>3
    <3>5. stack'[i] = stack[i - 1] BY <2>3, <3>4
    <3>6. stack'[i - 1].src = stack[(i - 1) - 1].src BY <1>2, <1>10, <1>11, <1>12, <3>3
    <3>7. i > 2 /\ i > 1 /\ i - 1 > 1 /\ i - 1 \in DOMAIN stack BY <1>11, <2>3, <3>1, <3>2, <3>3
    <3> QED BY <1>12, <3>1, <3>3, <3>5, <3>6, <3>7
  <2>4. CASE i > 3
    <3>1. i \in 3..(Len(stack) + 1) /\ i - 1 \in 3..(Len(stack) + 1) /\ i - 1 \in 1..Len(stack) /\ i - 1 > 1 /\ i > 2 /\ i > 1
      BY <1>11, <2>2, <2>4
    <3>2. stack'[i] = stack[i - 1] /\ stack'[i - 1] = stack[(i - 1) - 1] BY <1>12, <3>1
    <3>3. i = Len(stack) + 1 <=> i - 1 = Len(stack) BY <1>11, <2>2
    <3> QED BY <1>11, <1>12, <3>1, <3>2, <3>3
  <2> QED BY <2>2, <2>3, <2>4
<1>14. stack' # <<>> BY <1>11, <1>12
<1>15. TypeOK'
  <2>1. \A i \in DOMAIN stack' : i > 1 => stack'[i].at = "loop"
    BY <1>3, <1>4, <1>10, <1>12, <1>13 DEF TypeOK
  <2> QED BY <1>3, <1>4, <1>12, <1>14, <2>1 DEF TypeOK
<1>16. NotBegun' /\ DoneWhenOk' BY <1>3, <1>14 DEF NotBegun, DoneWhenOk
<1>17. Files' = Files /\ \A p : AtDest(p)' = AtDest(p) BY <1>3 DEF Files, SourceEntries, ReadWhole, AtDest
<1>18. ASSUME NEW i \in DOMAIN stack' PROVE FrameFits(i)'
  <2>1. CASE i = 1
    <3>1. i # Len(stack') /\ ~(i > 1) BY <1>11, <1>12, <2>1
    <3> QED BY <1>3, <1>5, <1>8, <1>9, <1>12, <1>17, <2>1, <3>1 DEF FrameFits
  <2>2. CASE i = 2
    <3>1. i = Len(stack') => s = cmd.src
      <4>1. i = Len(stack') => 1 = Len(stack) BY <1>11, <1>12, <2>2
      <4> QED BY <1>2, <1>11, <4>1 DEF FrameFits
    <3>2. n \in Names \ g.left /\ stack'[i - 1].src = Append(g.src, n)
      <4>1. i - 1 = 1 BY <2>2
      <4> QED BY <1>6, <1>7, <1>9, <1>10, <1>12, <4>1
    <3> QED BY <1>3, <1>5, <1>10, <1>12, <1>17, <2>2, <3>1, <3>2 DEF FrameFits
  <2>3. CASE i > 2
    <3>1. PICK k : k = i - 1 OBVIOUS
    <3>2. /\ k \in DOMAIN stack /\ k > 1 /\ stack'[i] = stack[k] /\ stack'[i - 1].src = stack[k - 1].src
          /\ (i = Len(stack') <=> k = Len(stack))
      BY <1>13, <2>3, <3>1
    <3>3. PICK h : h = stack[k] OBVIOUS
    <3>4. h.at = "loop" /\ h.fn # "remove" BY <1>3, <1>4, <3>2, <3>3, Waiting
    <3>5. FrameFits(k) BY <1>4, <3>2 DEF WalkInv
    <3>6. /\ (cmd.type = Move /\ h.fn \in {"move", "remove"}) \/ (cmd.type = Copy /\ h.fn = "copy")
          /\ IsPrefix(cmd.src, h.src)
          /\ k = Len(stack) => h.src = cmd.src
          /\ \E m \in Names \ h.left : stack[k - 1].src = Append(h.src, m)
          /\ h.dest = AtDest(h.src)
      BY <3>2, <3>3, <3>4, <3>5 DEF FrameFits
    <3> QED BY <1>3, <1>17, <3>2, <3>3, <3>4, <3>6 DEF FrameFits
  <2> QED BY <1>13, <2>1, <2>2, <2>3
<1>19. \A p : /\ Kept(p)' <=> Kept(p)
              /\ Whole(p)' <=> Whole(p)
  BY <1>3, FilesUnchanged
<1>20. ASSUME cmd.type \in {Move, Copy}, NEW i \in DOMAIN stack', NEW p \in Files, IsPrefix(stack'[i].src, p)
       PROVE  Progress(i, p)'
  <2>1. p \in Path BY <1>4, FilesAreBelow
  <2>2. IsPrefix(s, p) =>
          IF \E m \in Top.left : IsPrefix(Append(s, m), p) THEN Kept(p) ELSE Whole(p)
    BY <1>2, <1>3, <1>20, TopHasDone
  <2>3. CASE i = 1
    <3>1. IsPrefix(r, p) BY <1>9, <1>12, <1>20, <2>3
    <3>2. IsPrefix(s, p)
      <4>1. s \in Seq(Names) /\ r \in Seq(Names) /\ p \in Seq(Names) BY <1>5, <1>8, <2>1 DEF Path
      <4> QED BY <1>8, <3>1, <4>1, PrefixOfPrefix
    <3>3. Kept(p) BY <1>1, <1>7, <2>2, <3>1, <3>2
    <3> QED BY <1>3, <1>9, <1>12, <1>19, <2>3, <3>3 DEF Progress
  <2>4. CASE i = 2
    <3>1. IsPrefix(s, p) BY <1>10, <1>12, <1>20, <2>4
    <3>2. i > 1 /\ i - 1 = 1 BY <2>4
    <3>3. CASE \E m \in g.left : IsPrefix(Append(s, m), p)
      <4>1. Kept(p) BY <1>10, <2>2, <3>1, <3>3
      <4> QED BY <1>3, <1>10, <1>12, <1>19, <2>4, <3>3, <4>1 DEF Progress
    <3>4. CASE ~ \E m \in g.left : IsPrefix(Append(s, m), p)
      <4>1. Whole(p) \/ IsPrefix(r, p)
        <5>1. (\E m \in Top.left : IsPrefix(Append(s, m), p)) => IsPrefix(Append(s, n), p) BY <1>10, <3>4
        <5> QED BY <1>7, <2>2, <3>1, <5>1
      <4>2. stack'[i - 1].src = r BY <1>9, <1>12, <3>2
      <4> QED BY <1>3, <1>10, <1>12, <1>19, <2>4, <3>2, <3>4, <4>1, <4>2 DEF Progress
    <3> QED BY <3>3, <3>4
  <2>5. CASE i > 2
    <3>1. PICK k : k = i - 1 OBVIOUS
    <3>2. /\ k \in DOMAIN stack /\ k > 1 /\ stack'[i] = stack[k] /\ stack'[i - 1].src = stack[k - 1].src
      BY <1>13, <2>5, <3>1
    <3>3. stack[k].at = "loop" /\ stack[k].fn # "remove" BY <1>3, <1>4, <3>2, Waiting
    <3>4. Progress(k, p) BY <1>3, <1>4, <1>20, <3>2 DEF WalkInv
    <3>5. IF \E m \in stack[k].left : IsPrefix(Append(stack[k].src, m), p) THEN Kept(p)
          ELSE Whole(p) \/ IsPrefix(stack[k - 1].src, p)
      BY <3>3, <3>4 DEF Progress
    <3>6. i > 1 BY <1>13, <2>5
    <3> QED BY <1>3, <1>19, <3>2, <3>3, <3>5, <3>6 DEF Progress
  <2> QED BY <1>13, <2>3, <2>4, <2>5
<1>21. WalkInv'
  <2>1. cmd.type \in {Move, Copy} =>
          \A i \in DOMAIN stack' : \A p \in Files' : IsPrefix(stack'[i].src, p) => Progress(i, p)'
    BY <1>17, <1>20
  <2> QED BY <1>3, <1>5, <1>18, <2>1 DEF WalkInv
<1>22. /\ LinksAreOld' /\ OthersUntouched' /\ MoveLosesNothing' /\ CopyLeavesSource'
       /\ MkdirRounds' /\ MkdirNumbers' /\ SymlinkDone'
  <2>1. Files' = Files BY <1>17
  <2> QED BY <1>3, <2>1, FilesUnchanged, WalkKeeps
<1> QED BY <1>15, <1>16, <1>21, <1>22 DEF BackendInv

-----------------------------------------------------------------------------
(* The steps of a walk that change the files *)

\* Nothing is in what is not a directory, nor in what has no children.
LEMMA NothingIn ==
    ASSUME IsTree(fs), NEW a, a \notin DOMAIN fs \/ fs[a].kind # "dir" \/ Children(a) = {}
    PROVE  \A q \in DOMAIN fs : q # <<>> => Front(q) # a
<1>1. ASSUME NEW q \in DOMAIN fs, q # <<>>, Front(q) = a PROVE FALSE
  <2>1. a \in DOMAIN fs /\ fs[a].kind = "dir" BY <1>1 DEF IsTree
  <2>2. q \in {t \in DOMAIN fs : t # <<>> /\ Front(t) = a} BY <1>1
  <2>3. Last(q) \in Children(a) BY <2>2 DEF Children
  <2> QED BY <2>1, <2>3
<1> QED BY <1>1

\* An entry is made at the destination, or replaced by one of its kind.
LEMMA DestIsMade ==
    ASSUME BackendInv, outcome = "none", stack # <<>>, UNCHANGED <<cmd, outcome, try, before>>,
           unseen' = unseen \/ UnseenGrows,
           Top.fn \in {"move", "copy"}, cmd.type = Move => cmd.src # cmd.dest,
           NEW n, IsNode(n), n.kind # "link", NEW d, d = Top.dest, NEW s, s = Top.src,
           Front(d) \in DOMAIN fs, fs[Front(d)].kind = "dir",
           d \in DOMAIN fs /\ fs[d].kind = "dir" => n.kind = "dir",
           fs' = Put(fs, d, n)
    PROVE  /\ WalkStep({d})
           /\ d \in DOMAIN fs' /\ fs'[d] = n
           /\ \A p \in Files : Kept(p) => Kept(p)'
           /\ \A p \in Files : IsFile(p) => IsFile(p)'
           /\ cmd.type = Move /\ IsFile(s) => IsFile(s)'
<1>1. TypeOK /\ WalkInv /\ IsTree(fs) BY DEF BackendInv, TypeOK
<1>2. /\ cmd.type \in {Move, Copy} /\ Top.src \in Path /\ IsPrefix(cmd.src, Top.src) /\ d = AtDest(Top.src)
  BY TopIs
<1>3. /\ d \in Path /\ IsPrefix(cmd.dest, d) BY <1>1, <1>2, WhereItGoes
<1>4. d # <<>>
  <2>1. LinksAreOld BY DEF BackendInv
  <2> QED BY <1>1, <1>2, <1>3, <2>1, DestPlace
<1>5. /\ IsTree(fs') /\ DOMAIN fs' = DOMAIN fs \cup {d} /\ fs'[d] = n
      /\ \A q \in DOMAIN fs : q # d => fs'[q] = fs[q]
  <2>1. PICK t, u : t = fs /\ u = fs' OBVIOUS
  <2>2. /\ IsTree(t) /\ u = Put(t, d, n)
        /\ d # <<>> /\ Front(d) \in DOMAIN t /\ t[Front(d)].kind = "dir"
        /\ d \in DOMAIN t /\ t[d].kind = "dir" => n.kind = "dir"
    BY <1>1, <1>4, <2>1
  <2>3. IsTree(u) BY <1>3, <2>2, PutIsTree
  <2>4. /\ DOMAIN u = DOMAIN t \cup {d} /\ u[d] = n
        /\ \A q \in DOMAIN t : q # d => u[q] = t[q]
    BY <2>2 DEF Put
  <2> QED BY <2>1, <2>3, <2>4
<1>6. SameBut({d}) BY <1>5 DEF SameBut
<1>7. Reach({d}) BY <1>2 DEF Reach, Delete, Move, Copy
<1>8. WalkStep({d})
  <2>1. UnseenGrows BY <1>1 DEF UnseenGrows, TypeOK
  <2> QED BY <1>5, <1>6, <1>7, <2>1 DEF WalkStep
<1>9. ASSUME NEW p \in Files PROVE p # d
  <2>1. /\ p \in SourceEntries /\ p \in Path /\ IsPrefix(cmd.src, p) BY <1>1, FilesAreBelow
  <2>2. CASE cmd.type = Move BY <1>1, <1>3, <2>1, <2>2, MoveIsApart
  <2>3. CASE cmd.type = Copy BY <1>1, <1>3, <2>1, <2>3, CopyIsApart
  <2> QED BY <1>2, <2>2, <2>3
<1>10. ASSUME NEW p \in Files
       PROVE  /\ Kept(p)' <=> Kept(p)
              /\ IsFile(p) => IsFile(p)'
  <2>1. p \notin {d} BY <1>9
  <2>2. Kept(p)' <=> Kept(p) BY <1>6, <1>8, <2>1, StaysWhole DEF WalkStep, UnseenGrows
  <2> QED BY <1>5, <1>9, <2>2 DEF IsFile
<1>11. ASSUME cmd.type = Move PROVE s # d BY <1>1, <1>2, <1>3, <1>11, MoveIsApart
<1>12. cmd.type = Move /\ IsFile(s) => IsFile(s)' BY <1>5, <1>11 DEF IsFile
<1> QED BY <1>5, <1>8, <1>10, <1>12

\* An entry with nothing in it is taken away.
LEMMA EntryIsTaken ==
    ASSUME BackendInv, outcome = "none", stack # <<>>, UNCHANGED <<cmd, outcome, try, before, unseen>>,
           cmd.type = Move => cmd.src # cmd.dest,
           NEW a, a # <<>>, Reach({a}), \A q \in DOMAIN fs : q # <<>> => Front(q) # a,
           fs' = Without({a})
    PROVE  /\ WalkStep({a})
           /\ a \notin DOMAIN fs'
           /\ \A p \in Files : p # a => (Kept(p)' <=> Kept(p))
           /\ \A p \in Files : AtDest(p) # a =>
                 /\ Whole(p)' <=> Whole(p)
                 /\ HasData(AtDest(p), before[p].data)' <=> HasData(AtDest(p), before[p].data)
<1>1. TypeOK /\ WalkInv /\ IsTree(fs) BY DEF BackendInv, TypeOK
<1>2. /\ DOMAIN fs' = DOMAIN fs \ {a} /\ \A q \in DOMAIN fs' : fs'[q] = fs[q] BY DEF Without
<1>3. IsTree(fs')
  <2>1. PICK t, u : t = fs /\ u = fs' OBVIOUS
  <2>2. IsTree(t) /\ \A q \in DOMAIN t : q # <<>> => Front(q) # a BY <1>1, <2>1
  <2>3. IsTree([q \in DOMAIN t \ {a} |-> t[q]]) BY <2>2, TakenIsTree
  <2>4. u = [q \in DOMAIN t \ {a} |-> t[q]] BY <2>1 DEF Without
  <2> QED BY <2>1, <2>3, <2>4
<1>4. SameBut({a}) BY <1>2 DEF SameBut
<1>5. \A q \in {a} : q \notin DOMAIN fs' BY <1>2
<1>6. WalkStep({a})
  <2>1. UnseenGrows BY <1>1 DEF UnseenGrows, TypeOK
  <2> QED BY <1>3, <1>4, <1>5, <2>1 DEF WalkStep
<1>7. ASSUME NEW p \in Files
      PROVE  /\ p # a => (Kept(p)' <=> Kept(p))
             /\ AtDest(p) # a =>
                   /\ Whole(p)' <=> Whole(p)
                   /\ HasData(AtDest(p), before[p].data)' <=> HasData(AtDest(p), before[p].data)
  <2>1. (p # a => p \notin {a}) /\ (AtDest(p) # a => AtDest(p) \notin {a}) OBVIOUS
  <2> QED BY <1>4, <2>1, StaysWhole
<1> QED BY <1>2, <1>6, <1>7

\* What is kept, or whole, has its data.
LEMMA HasItsData ==
    ASSUME BackendInv, UNCHANGED <<cmd, before>>, NEW p \in Files
    PROVE  /\ Kept(p)' => HasData(p, before[p].data)'
           /\ cmd.type = Move => (Whole(p)' <=> HasData(AtDest(p), before[p].data)')
<1>1. before[p].kind = "file" BY DEF Files
<1>2. Kept(p)' => HasData(p, before[p].data)' BY <1>1 DEF Kept, Holds, HasData
<1>3. cmd.type = Move => (Whole(p)' <=> HasData(AtDest(p), before[p].data)')
  BY DEF Whole, Move, Copy
<1> QED BY <1>2, <1>3

\* A directory is read: every file below it is in one of its entries.
LEMMA EnterDirectoryKeeps == ASSUME BackendInv, EnterDirectory PROVE BackendInv'
<1>1. PICK dir, d, s : dir = Target(Top.src) /\ d = Top.dest /\ s = Top.src OBVIOUS
<1>2. PICK new \in SUBSET {n \in {Last(Place(d))} : Creatable(d) /\ Front(Place(d)) = dir} :
         stack' = <<[Top EXCEPT !.at = "loop", !.left = Children(dir) \cup new]>> \o Tail(stack)
  BY <1>1 DEF EnterDirectory
<1>3. PICK g : g = [Top EXCEPT !.at = "loop", !.left = Children(dir) \cup new] OBVIOUS
<1>4. /\ outcome = "none" /\ ret = "none" /\ ret' = "none" /\ stack # <<>>
      /\ Top.fn \in {"move", "copy"} /\ Top.at = "enter" /\ IsDir(s)
      /\ fs' = Made(d, fs[dir].mode) \/ fs' = fs
      /\ stack' = <<g>> \o Tail(stack) /\ UNCHANGED <<cmd, outcome, try, before, unseen>>
  BY <1>1, <1>2, <1>3 DEF EnterDirectory, Running, Transfer
<1>5. TypeOK /\ WalkInv /\ LinksAreOld /\ IsTree(fs) BY DEF BackendInv, TypeOK
<1>6. /\ Top \in Frames /\ s \in Path /\ IsPrefix(cmd.src, s)
      /\ (cmd.type = Move /\ Top.fn = "move") \/ (cmd.type = Copy /\ Top.fn = "copy")
      /\ d = AtDest(s)
  BY <1>1, <1>4, TopIs
<1>7. cmd.type = Move => cmd.src # cmd.dest BY <1>1, <1>4, TopIs DEF IsDir
<1>8. dir \in DOMAIN fs /\ fs[dir].kind = "dir" /\ fs[dir].mode \in Modes
  BY <1>1, <1>4, <1>5 DEF IsDir, Found, IsTree, IsNode
<1>9. /\ d \in Path /\ IsPrefix(cmd.dest, d) BY <1>5, <1>6, WhereItGoes
<1>10. Place(d) = d /\ d # <<>> /\ Target(Front(d)) = Front(d)
  BY <1>4, <1>5, <1>6, <1>9, DestPlace
<1>11. /\ Children(dir) \subseteq Names /\ new \subseteq Names
  <2>1. ASSUME NEW q \in Path, q # <<>> PROVE Last(q) \in Names
    <3>1. q \in Seq(Names) BY DEF Path
    <3> QED BY <2>1, <3>1, FrontAndLast
  <2>2. \A q \in DOMAIN fs : q \in Path BY <1>5 DEF IsTree
  <2>3. Children(dir) \subseteq Names BY <2>1, <2>2 DEF Children
  <2> QED BY <1>2, <1>9, <1>10, <2>1, <2>3
<1>12. /\ g \in Frames /\ g.src = s /\ g.dest = d /\ g.fn = Top.fn /\ g.at = "loop"
       /\ g.left = Children(dir) \cup new
  BY <1>1, <1>3, <1>6, <1>11 DEF Frames
<1>13. FitsNext(g) BY <1>6, <1>12 DEF FitsNext
<1>14. ASSUME NEW Q, WalkStep(Q), \A p \in Files : Kept(p) => Kept(p)'
       PROVE  BackendInv'
  <2>1. ASSUME NEW p \in Files, IsPrefix(s, p)
        PROVE  Kept(p)' /\ DoneNext(g, p)
    <3>1. Kept(p) BY <1>1, <1>4, <1>6, <2>1, TopHasDone
    <3>2. Kept(p)' BY <1>14, <3>1
    <3>3. /\ dir = s /\ p \in DOMAIN fs /\ fs[p].kind = "file" BY <1>1, <1>4, <2>1, <3>1, CopiedPlace
    <3>4. PICK n \in Names : Append(s, n) \in DOMAIN fs /\ IsPrefix(Append(s, n), p)
      <4>1. PICK T : T = DOMAIN fs OBVIOUS
      <4>2. /\ T \subseteq Seq(Names) /\ p \in T /\ s \in Seq(Names) /\ p # s
            /\ \A q \in T : q # <<>> => Front(q) \in T
        BY <1>5, <1>6, <1>8, <3>3, <4>1 DEF IsTree, Path
      <4>3. \E n \in Names : Append(s, n) \in T /\ IsPrefix(Append(s, n), p) BY <2>1, <4>2, NextOnTheWay
      <4> QED BY <4>1, <4>3
    <3>5. n \in Children(dir)
      <4>1. PICK c : c = Append(s, n) OBVIOUS
      <4>2. c # <<>> /\ Front(c) = s /\ Last(c) = n BY <1>6, <4>1, NameAfter DEF Path
      <4> QED BY <3>3, <3>4, <4>1, <4>2 DEF Children
    <3>6. \E m \in g.left : IsPrefix(Append(g.src, m), p) BY <1>12, <3>4, <3>5
    <3> QED BY <1>4, <1>12, <3>2, <3>6 DEF DoneNext
  <2>2. \A p \in Files : IsPrefix(s, p) => HasData(p, before[p].data)' BY <1>4, <2>1, HasItsData
  <2> QED BY <1>1, <1>4, <1>7, <1>12, <1>13, <1>14, <2>1, <2>2, WalkGoesOn
<1>15. CASE fs' = fs
  <2>1. WalkStep({}) /\ \A p \in Files : Kept(p) => Kept(p)' BY <1>4, <1>15, FilesUnchanged
  <2> QED BY <1>14, <2>1
<1>16. CASE fs' # fs
  <2>1. Creatable(d) /\ fs' = Put(fs, d, DirNode(fs[dir].mode \ Umask))
    BY <1>4, <1>10, <1>16 DEF Made, With
  <2>2. d \notin DOMAIN fs /\ Front(d) \in DOMAIN fs /\ fs[Front(d)].kind = "dir"
    BY <1>10, <2>1 DEF Creatable, IsDir, Found
  <2>3. PICK n : n = DirNode(fs[dir].mode \ Umask) OBVIOUS
  <2>4. IsNode(n) /\ n.kind = "dir"
    <3>1. <<>> \in Path BY DEF Path
    <3> QED BY <1>8, <2>3, <3>1 DEF DirNode, IsNode, Modes
  <2>5. WalkStep({d}) /\ \A p \in Files : Kept(p) => Kept(p)'
    BY <1>1, <1>4, <1>7, <2>1, <2>2, <2>3, <2>4, DestIsMade
  <2> QED BY <1>14, <2>5
<1> QED BY <1>15, <1>16

\* What is written to the destination of a file, while its source is kept; when it
\* is not the data of the source, a read has failed unseen.
LEMMA WritesDest ==
    ASSUME BackendInv, outcome = "none", ret = "none", ret' = "none", stack # <<>>,
           UNCHANGED <<cmd, outcome, try, before>>, unseen' = unseen \/ UnseenGrows,
           Top.fn \in {"move", "copy"}, Top.at \in {"file", "open"}, NEW at \in {"open", "full"},
           stack' = <<[Top EXCEPT !.at = at]>> \o Tail(stack),
           NEW d, d = Top.dest, NEW data,
           fs' = Filled(d, data),
           Front(d) \in DOMAIN fs, fs[Front(d)].kind = "dir", d \in DOMAIN fs => fs[d].kind = "file",
           at = "full" => \/ data = fs[Target(Top.src)].data
                          \/ [call |-> "fread", at |-> Top.src] \in unseen'
    PROVE  BackendInv'
<1>1. TypeOK /\ WalkInv /\ LinksAreOld /\ IsTree(fs) BY DEF BackendInv, TypeOK
<1>2. PICK s, g : s = Top.src /\ g = [Top EXCEPT !.at = at] OBVIOUS
<1>3. /\ Top \in Frames /\ s \in Path /\ IsPrefix(cmd.src, s) /\ d = AtDest(s)
      /\ (cmd.type = Move /\ Top.fn = "move" /\ cmd.src # cmd.dest) \/ (cmd.type = Copy /\ Top.fn = "copy")
      /\ Top.fn = "move" => IsFile(s)
  BY <1>2, TopIs
<1>4. /\ d \in Path /\ IsPrefix(cmd.dest, d) BY <1>1, <1>3, WhereItGoes
<1>5. Place(d) = d /\ Target(d) = d /\ d # <<>> BY <1>1, <1>3, <1>4, DestPlace
<1>6. /\ g \in Frames /\ g.src = s /\ g.dest = d /\ g.fn = Top.fn /\ g.at = at /\ g.mode = Top.mode
  BY <1>2, <1>3 DEF Frames
<1>7. PICK n : n = FileNode(data, IF d \in DOMAIN fs THEN fs[d].mode ELSE NewFileMode) OBVIOUS
<1>8. IsNode(n) /\ n.kind = "file" /\ n.data = data
  <2>1. d \in DOMAIN fs => fs[d].mode \in Modes BY <1>1 DEF IsTree, IsNode
  <2>2. <<>> \in Path BY DEF Path
  <2> QED BY <1>7, <2>1, <2>2 DEF FileNode, IsNode, NewFileMode, Modes
<1>9. fs' = Put(fs, d, n) BY <1>5, <1>7 DEF Filled, With
<1>10. /\ WalkStep({d})
       /\ d \in DOMAIN fs' /\ fs'[d] = n
       /\ \A p \in Files : Kept(p) => Kept(p)'
       /\ cmd.type = Move /\ IsFile(s) => IsFile(s)'
  <2>1. d \in DOMAIN fs /\ fs[d].kind = "dir" => n.kind = "dir" OBVIOUS
  <2>2. WalkStep({d}) /\ (\A p \in Files : Kept(p) => Kept(p)') /\ (cmd.type = Move /\ IsFile(s) => IsFile(s)')
    <3>1. /\ cmd.type = Move => cmd.src # cmd.dest
          /\ UNCHANGED <<cmd, outcome, try, before>> /\ (unseen' = unseen \/ UnseenGrows)
      BY <1>3 DEF Move, Copy
    <3>2. /\ Front(d) \in DOMAIN fs /\ fs[Front(d)].kind = "dir" /\ s = Top.src /\ n.kind # "link"
      BY <1>2, <1>8
    <3> QED BY <1>8, <1>9, <2>1, <3>1, <3>2, DestIsMade
  <2>3. d \in DOMAIN fs' /\ fs'[d] = n BY <1>9 DEF Put
  <2> QED BY <2>2, <2>3
<1>11. FitsNext(g)
  <2>1. IsFile(g.dest)' BY <1>6, <1>8, <1>10 DEF IsFile
  <2>2. g.fn = "move" => IsFile(g.src)' BY <1>3, <1>6, <1>10 DEF Move, Copy
  <2> QED BY <1>3, <1>6, <2>1, <2>2 DEF FitsNext
<1>12. ASSUME NEW p \in Files', IsPrefix(s, p) PROVE p \in Files /\ Kept(p)' /\ DoneNext(g, p)
  <2>0. p \in Files BY <1>10, FewerFiles DEF WalkStep, UnseenGrows
  <2>1. /\ Kept(p) /\ p = s /\ (cmd.type = Copy => Top.mode = before[p].mode)
    BY <1>2, <1>3, <1>12, <2>0, TopHasDone
  <2>2. Kept(p)' BY <1>10, <2>0, <2>1
  <2>3. Target(s) = s /\ fs[s] = before[s] BY <1>2, <1>12, <2>0, <2>1, CopiedPlace
  <2>4. at = "full" => HasData(d, before[p].data)'
    <3>1. [call |-> "fread", at |-> s] \notin unseen' BY <1>12 DEF Files, ReadWhole
    <3> QED BY <1>2, <1>8, <1>10, <2>1, <2>3, <3>1 DEF HasData
  <2>5. at = "full" => HasData(AtDest(p), before[p].data)' BY <1>3, <2>1, <2>4 DEF HasData, AtDest
  <2> QED BY <1>6, <2>0, <2>1, <2>2, <2>5 DEF DoneNext
<1>13. \A p \in Files' : IsPrefix(s, p) => HasData(p, before[p].data)' BY <1>12, HasItsData
<1>14. stack' = <<g>> \o Tail(stack) /\ g.src = Top.src BY <1>2, <1>6
<1>15. cmd.type = Move => cmd.src # cmd.dest BY <1>3 DEF Move, Copy
<1> QED BY <1>2, <1>6, <1>10, <1>11, <1>12, <1>13, <1>14, <1>15, WalkGoesOnUnseen

\* The destination is emptied; the source is still there.
LEMMA OpenFilesKeeps == ASSUME BackendInv, OpenFiles PROVE BackendInv'
<1>1. PICK d : d = Top.dest OBVIOUS
<1>2. /\ outcome = "none" /\ ret = "none" /\ stack # <<>>
      /\ Top.fn \in {"move", "copy"} /\ Top.at = "file"
      /\ UNCHANGED <<cmd, outcome, try, before, unseen>>
      /\ \/ /\ Writable(d) /\ fs' = Filled(d, "") /\ ret' = "none"
            /\ stack' = <<[Top EXCEPT !.at = "open"]>> \o Tail(stack)
         \/ Returns("err") /\ UNCHANGED fs
  BY <1>1 DEF OpenFiles, Running, Transfer, Goes
<1>3. CASE Returns("err") /\ UNCHANGED fs BY <1>2, <1>3, GivesUp
<1>4. CASE Writable(d) /\ fs' = Filled(d, "") /\ ret' = "none"
           /\ stack' = <<[Top EXCEPT !.at = "open"]>> \o Tail(stack)
  <2>1. TypeOK /\ WalkInv /\ LinksAreOld BY DEF BackendInv
  <2>2. /\ cmd.type \in {Move, Copy} /\ Top.src \in Path /\ IsPrefix(cmd.src, Top.src) /\ d = AtDest(Top.src)
    BY <1>1, <1>2, TopIs
  <2>3. /\ d \in Path /\ IsPrefix(cmd.dest, d) BY <2>1, <2>2, WhereItGoes
  <2>4. Target(d) = d /\ Target(Front(d)) = Front(d) BY <1>2, <2>1, <2>2, <2>3, DestPlace
  <2>5. /\ Front(d) \in DOMAIN fs /\ fs[Front(d)].kind = "dir" /\ (d \in DOMAIN fs => fs[d].kind = "file")
    BY <1>4, <2>4 DEF Writable, IsDir, Found
  <2> QED BY <1>1, <1>2, <1>4, <2>5, WritesDest
<1> QED BY <1>2, <1>3, <1>4

\* The data arrives; the source is still there.
LEMMA CopyDataKeeps == ASSUME BackendInv, CopyData PROVE BackendInv'
<1>1. PICK d, data : d = Top.dest /\ data = fs[Target(Top.src)].data OBVIOUS
<1>2. /\ outcome = "none" /\ ret = "none" /\ ret' = "none" /\ stack # <<>>
      /\ Top.fn \in {"move", "copy"} /\ Top.at = "open"
      /\ UNCHANGED <<cmd, outcome, try, before, unseen>>
      /\ fs' = Filled(d, data) /\ stack' = <<[Top EXCEPT !.at = "full"]>> \o Tail(stack)
  BY <1>1 DEF CopyData, Running, Transfer, Goes
<1>3. IsFile(d) BY <1>1, <1>2, TopIs
<1>4. d # <<>> /\ IsTree(fs)
  <2>1. IsTree(fs) BY DEF BackendInv, TypeOK
  <2> QED BY <1>3, <2>1 DEF IsTree, IsFile
<1>5. Front(d) \in DOMAIN fs /\ fs[Front(d)].kind = "dir" /\ fs[d].kind = "file"
  BY <1>3, <1>4 DEF IsTree, IsFile
<1> QED BY <1>1, <1>2, <1>5, WritesDest

\* Less data arrives, and that is recorded; the source is still there.
LEMMA CopyShortKeeps == ASSUME BackendInv, CopyShort PROVE BackendInv'
<1>1. PICK d : d = Top.dest OBVIOUS
<1>2. /\ outcome = "none" /\ ret = "none" /\ ret' = "none" /\ stack # <<>>
      /\ Top.fn \in {"move", "copy"} /\ Top.at = "open"
      /\ UNCHANGED <<cmd, outcome, try, before>>
      /\ unseen' = unseen \cup {[call |-> "fread", at |-> Top.src]}
      /\ fs' = Filled(d, "short") /\ stack' = <<[Top EXCEPT !.at = "full"]>> \o Tail(stack)
  BY <1>1 DEF CopyShort, Running, Transfer, Goes, Unseen
<1>3. IsFile(d) /\ Top.src \in Path BY <1>1, <1>2, TopIs
<1>4. d # <<>> /\ IsTree(fs)
  <2>1. IsTree(fs) BY DEF BackendInv, TypeOK
  <2> QED BY <1>3, <2>1 DEF IsTree, IsFile
<1>5. Front(d) \in DOMAIN fs /\ fs[Front(d)].kind = "dir" /\ fs[d].kind = "file"
  BY <1>3, <1>4 DEF IsTree, IsFile
<1>6. UnseenGrows
  <2>1. unseen \subseteq [call : {"readdir", "fread", "chmod"}, at : Path] BY DEF BackendInv, TypeOK
  <2> QED BY <1>2, <1>3, <2>1 DEF UnseenGrows
<1>7. [call |-> "fread", at |-> Top.src] \in unseen' BY <1>2
<1> QED BY <1>1, <1>2, <1>5, <1>6, <1>7, WritesDest

\* The copy gets its mode, and is whole.
LEMMA CopyModeKeeps == ASSUME BackendInv, CopyMode PROVE BackendInv'
<1>1. PICK d, n : d = Top.dest /\ n = FileNode(fs[d].data, Top.mode) OBVIOUS
<1>2. /\ outcome = "none" /\ ret = "none" /\ ret' = "ok" /\ stack # <<>>
      /\ Top.fn = "copy" /\ Top.at = "full" /\ UNCHANGED <<cmd, outcome, try, before, unseen>>
      /\ fs' = [fs EXCEPT ![Target(d)].mode = Top.mode] /\ stack' = Tail(stack)
  BY <1>1 DEF CopyMode, Running, Returns
<1>3. TypeOK /\ WalkInv /\ LinksAreOld /\ IsTree(fs) BY DEF BackendInv, TypeOK
<1>4. /\ cmd.type = Copy /\ Top.src \in Path /\ IsPrefix(cmd.src, Top.src) /\ d = AtDest(Top.src)
      /\ d \in DOMAIN fs /\ fs[d].kind = "file" /\ Top \in Frames
  BY <1>1, <1>2, TopIs DEF IsFile
<1>5. /\ d \in Path /\ IsPrefix(cmd.dest, d) BY <1>3, <1>4, WhereItGoes
<1>6. Target(d) = d /\ d # <<>> BY <1>2, <1>3, <1>4, <1>5, DestPlace
<1>7. IsNode(fs[d]) /\ Front(d) \in DOMAIN fs /\ fs[Front(d)].kind = "dir" BY <1>3, <1>4, <1>6 DEF IsTree
<1>8. [fs[d] EXCEPT !.mode = Top.mode] = n
  <2>1. PICK m, k : m = fs[d] /\ k = Top.mode OBVIOUS
  <2>2. m = [kind |-> "file", data |-> m.data, mode |-> m.mode, to |-> <<>>] BY <1>4, <1>7, <2>1 DEF IsNode
  <2>3. [m EXCEPT !.mode = k] = [kind |-> "file", data |-> m.data, mode |-> k, to |-> <<>>] BY <2>2
  <2> QED BY <1>1, <2>1, <2>3 DEF FileNode
<1>9. fs' = Put(fs, d, n)
  <2>1. fs' = [q \in DOMAIN fs |-> IF q = d THEN [fs[d] EXCEPT !.mode = Top.mode] ELSE fs[q]] BY <1>2, <1>6
  <2>2. DOMAIN fs \cup {d} = DOMAIN fs BY <1>4
  <2> QED BY <1>8, <2>1, <2>2 DEF Put
<1>10. IsNode(n) /\ n.kind = "file"
  <2>1. <<>> \in Path /\ Top.mode \in Modes BY <1>4 DEF Path, Frames
  <2> QED BY <1>1, <2>1 DEF IsNode, FileNode
<1>11. WalkStep({d}) BY <1>1, <1>2, <1>4, <1>7, <1>9, <1>10, DestIsMade DEF Move, Copy
<1>12. d \in DOMAIN fs' /\ fs'[d] = n BY <1>9 DEF Put
<1>13. ASSUME NEW p \in Files, IsPrefix(Top.src, p) PROVE Whole(p)'
  <2>1. /\ p = Top.src /\ Top.mode = before[p].mode /\ HasData(AtDest(p), before[p].data)
    BY <1>2, <1>4, <1>13, TopHasDone
  <2>2. PICK m : m = before[p] OBVIOUS
  <2>3. IsNode(m) /\ m.kind = "file" BY <1>3, <2>2, FilesAreBelow
  <2>4. AtDest(p) = d /\ fs[d].data = m.data /\ Top.mode = m.mode BY <1>4, <2>1, <2>2 DEF HasData
  <2>5. m = [kind |-> "file", data |-> m.data, mode |-> m.mode, to |-> <<>>] BY <2>3 DEF IsNode
  <2>6. n = m BY <1>1, <2>4, <2>5 DEF FileNode
  <2>7. AtDest(p)' = d BY <1>2, <2>4 DEF AtDest
  <2>8. Holds(fs, AtDest(p), before[p])' /\ HasData(AtDest(p), before[p].data)'
    BY <1>2, <1>12, <2>2, <2>3, <2>6, <2>7 DEF Holds, HasData
  <2> QED BY <2>8 DEF Whole
<1> QED BY <1>2, <1>4, <1>11, <1>13, WalkReturns DEF Delete, Move, Copy

\* The copy is whole but for its mode, and that is recorded.
LEMMA CopyKeepsModeKeeps == ASSUME BackendInv, CopyKeepsMode PROVE BackendInv'
<1>1. /\ outcome = "none" /\ ret = "none" /\ ret' = "ok" /\ stack # <<>>
      /\ Top.fn = "copy" /\ Top.at = "full" /\ UNCHANGED <<fs, cmd, outcome, try, before>>
      /\ stack' = Tail(stack) /\ unseen' = unseen \cup {[call |-> "chmod", at |-> Top.src]}
  BY DEF CopyKeepsMode, Running, Returns, Unseen
<1>2. cmd.type = Copy /\ Top.src \in Path BY <1>1, TopIs
<1>3. UnseenGrows
  <2>1. unseen \subseteq [call : {"readdir", "fread", "chmod"}, at : Path] BY DEF BackendInv, TypeOK
  <2> QED BY <1>1, <1>2, <2>1 DEF UnseenGrows
<1>4. /\ WalkStep({})
      /\ \A p : HasData(AtDest(p), before[p].data)' <=> HasData(AtDest(p), before[p].data)
  BY <1>1, <1>3, FilesLeftAlone
<1>5. ASSUME NEW p \in Files, IsPrefix(Top.src, p) PROVE Whole(p)'
  <2>1. p = Top.src /\ HasData(AtDest(p), before[p].data) BY <1>1, <1>2, <1>5, TopHasDone
  <2>2. ~ModeSet(p)' BY <1>1, <2>1 DEF ModeSet
  <2>3. HasData(AtDest(p), before[p].data)' BY <1>4, <2>1
  <2> QED BY <2>2, <2>3 DEF Whole
<1> QED BY <1>1, <1>2, <1>4, <1>5, WalkReturns DEF Delete, Move, Copy

\* A copy that is cut short goes, or stays; the source is still there.
LEMMA WriteFailsKeeps == ASSUME BackendInv, WriteFails PROVE BackendInv'
<1>1. PICK d : d = Top.dest OBVIOUS
<1>2. /\ outcome = "none" /\ ret = "none" /\ ret' = "err" /\ stack # <<>>
      /\ Top.fn \in {"move", "copy"} /\ Top.at = "open" /\ UNCHANGED <<cmd, outcome, try, before, unseen>>
      /\ fs' = Without({Place(d)}) \/ fs' = Filled(d, "short")
      /\ stack' = Tail(stack)
  BY <1>1 DEF WriteFails, Running, Returns, Transfer
<1>3. TypeOK /\ WalkInv /\ LinksAreOld /\ IsTree(fs) BY DEF BackendInv, TypeOK
<1>4. /\ (cmd.type = Move /\ cmd.src # cmd.dest) \/ cmd.type = Copy
      /\ Top.src \in Path /\ IsPrefix(cmd.src, Top.src) /\ d = AtDest(Top.src)
      /\ d \in DOMAIN fs /\ fs[d].kind = "file"
  BY <1>1, <1>2, TopIs DEF IsFile
<1>5. /\ d \in Path /\ IsPrefix(cmd.dest, d) BY <1>3, <1>4, WhereItGoes
<1>6. Place(d) = d /\ Target(d) = d /\ d # <<>> BY <1>2, <1>3, <1>4, <1>5, DestPlace
<1>7. cmd.type = Move => cmd.src # cmd.dest BY <1>4 DEF Move, Copy
<1>8. CASE fs' = Without({Place(d)})
  <2>1. \A q \in DOMAIN fs : q # <<>> => Front(q) # d BY <1>3, <1>4, NothingIn
  <2>2. Reach({d}) BY <1>4 DEF Reach, Delete, Move, Copy
  <2>3. fs' = Without({d}) BY <1>6, <1>8
  <2>4. WalkStep({d}) /\ \A p \in Files : p # d => (Kept(p)' <=> Kept(p))
    BY <1>2, <1>6, <1>7, <2>1, <2>2, <2>3, EntryIsTaken
  <2>5. ASSUME cmd.type = Move, NEW p \in Files, IsPrefix(Top.src, p) PROVE HasData(p, before[p].data)'
    <3>1. Kept(p) BY <1>2, <1>4, <2>5, TopHasDone
    <3>2. p \in Path /\ IsPrefix(cmd.src, p) BY <1>3, FilesAreBelow
    <3>3. p # d BY <1>3, <1>4, <1>5, <2>5, <3>2, MoveIsApart DEF Move, Copy
    <3> QED BY <1>2, <2>4, <3>1, <3>3, HasItsData
  <2> QED BY <1>2, <2>4, <2>5, WalkReturns
<1>9. CASE fs' = Filled(d, "short")
  <2>1. PICK n : n = FileNode("short", fs[d].mode) OBVIOUS
  <2>2. /\ IsNode(fs[d]) /\ Front(d) \in DOMAIN fs /\ fs[Front(d)].kind = "dir"
    BY <1>3, <1>4, <1>6 DEF IsTree
  <2>3. IsNode(n) /\ n.kind = "file"
    <3>1. <<>> \in Path BY DEF Path
    <3> QED BY <2>1, <2>2, <3>1 DEF FileNode, IsNode
  <2>4. fs' = Put(fs, d, n) BY <1>4, <1>6, <1>9, <2>1 DEF Filled, With
  <2>5. WalkStep({d}) /\ \A p \in Files : Kept(p) => Kept(p)'
    BY <1>1, <1>2, <1>4, <1>7, <2>2, <2>3, <2>4, DestIsMade
  <2>6. ASSUME cmd.type = Move, NEW p \in Files, IsPrefix(Top.src, p) PROVE HasData(p, before[p].data)'
    <3>1. Kept(p) BY <1>2, <1>4, <2>6, TopHasDone
    <3> QED BY <1>2, <2>5, <3>1, HasItsData
  <2> QED BY <1>2, <2>5, <2>6, WalkReturns
<1> QED BY <1>2, <1>8, <1>9

\* The source of a file goes when its data has arrived.
LEMMA UnlinkSourceKeeps == ASSUME BackendInv, UnlinkSource PROVE BackendInv'
<1>1. PICK s : s = Top.src OBVIOUS
<1>2. /\ outcome = "none" /\ ret = "none" /\ ret' = "ok" /\ stack # <<>>
      /\ Top.fn = "move" /\ Top.at = "full" /\ UNCHANGED <<cmd, outcome, try, before, unseen>>
      /\ fs' = Without({Place(s)}) /\ stack' = Tail(stack)
  BY <1>1 DEF UnlinkSource, Running, Returns
<1>3. TypeOK /\ WalkInv /\ LinksAreOld /\ IsTree(fs) BY DEF BackendInv, TypeOK
<1>4. /\ cmd.type = Move /\ cmd.src # cmd.dest /\ s \in Path /\ IsPrefix(cmd.src, s)
      /\ s \in DOMAIN fs /\ fs[s].kind = "file"
  BY <1>1, <1>2, TopIs DEF IsFile
<1>5. Place(s) = s /\ s # <<>> BY <1>2, <1>3, <1>4, SourcePlace DEF IsTree
<1>6. \A q \in DOMAIN fs : q # <<>> => Front(q) # s BY <1>3, <1>4, NothingIn
<1>7. Reach({s})
  <2>1. IsPrefix(s, s) BY <1>4, PrefixSelf DEF Path
  <2> QED BY <1>1, <1>4, <2>1 DEF Reach, Move, Copy
<1>8. /\ WalkStep({s}) /\ s \notin DOMAIN fs'
      /\ \A p \in Files : AtDest(p) # s =>
            /\ Whole(p)' <=> Whole(p)
            /\ HasData(AtDest(p), before[p].data)' <=> HasData(AtDest(p), before[p].data)
  BY <1>2, <1>4, <1>5, <1>6, <1>7, EntryIsTaken
<1>9. ASSUME NEW p \in Files, IsPrefix(s, p) PROVE Whole(p)' /\ HasData(AtDest(p), before[p].data)'
  <2>1. HasData(AtDest(p), before[p].data) BY <1>1, <1>2, <1>4, <1>9, TopHasDone
  <2>2. p \in Path /\ IsPrefix(cmd.src, p) BY <1>3, FilesAreBelow
  <2>3. AtDest(p) \in Path /\ IsPrefix(cmd.dest, AtDest(p)) BY <1>3, <2>2, WhereItGoes
  <2>4. AtDest(p) # s BY <1>3, <1>4, <2>3, MoveIsApart
  <2> QED BY <1>2, <1>4, <1>8, <2>1, <2>4, HasItsData
<1> QED BY <1>1, <1>2, <1>8, <1>9, WalkReturns

\* A file is in its new place at once.
LEMMA RenameFileKeeps == ASSUME BackendInv, RenameFile PROVE BackendInv'
<1>1. PICK s, d : s = Top.src /\ d = Top.dest OBVIOUS
<1>2. /\ outcome = "none" /\ ret = "none" /\ ret' = "ok" /\ stack # <<>>
      /\ Top.fn = "move" /\ Top.at = "file" /\ UNCHANGED <<cmd, outcome, try, before, unseen>>
      /\ Renamable(s, d) /\ fs' = Moved(fs, Place(s), Place(d)) /\ stack' = Tail(stack)
  BY <1>1 DEF RenameFile, Running, Returns, Renamed
<1>3. TypeOK /\ WalkInv /\ LinksAreOld /\ IsTree(fs) BY DEF BackendInv, TypeOK
<1>4. /\ cmd.type = Move /\ cmd.src # cmd.dest /\ s \in Path /\ IsPrefix(cmd.src, s)
      /\ s \in DOMAIN fs /\ fs[s].kind = "file" /\ d = AtDest(s)
  BY <1>1, <1>2, TopIs DEF IsFile
<1>5. /\ d \in Path /\ IsPrefix(cmd.dest, d) BY <1>3, <1>4, WhereItGoes
<1>6. Place(s) = s /\ s # <<>> BY <1>2, <1>3, <1>4, SourcePlace DEF IsTree
<1>7. Place(d) = d /\ d # <<>> /\ Target(Front(d)) = Front(d) BY <1>2, <1>3, <1>4, <1>5, DestPlace
<1>8. ~IsPrefix(s, d) /\ ~IsPrefix(d, s) /\ s # d BY <1>3, <1>4, <1>5, MoveIsApart
<1>9. /\ Front(d) \in DOMAIN fs /\ fs[Front(d)].kind = "dir"
      /\ d \notin DOMAIN fs \/ Children(d) = {}
  BY <1>2, <1>6, <1>7, <1>8 DEF Renamable, IsDir, Found
<1>10. \A q \in DOMAIN fs : q # <<>> => Front(q) # d BY <1>3, <1>9, NothingIn
<1>11. ASSUME NEW q \in DOMAIN fs, IsPrefix(s, q) PROVE q = s
  <2>1. \A c \in DOMAIN fs : c # <<>> => Front(c) # s BY <1>3, <1>4, NothingIn
  <2> QED BY <1>3, <1>4, <1>11, <2>1, NothingBelow
<1>12. PICK t, u : t = fs /\ u = fs' OBVIOUS
<1>13. /\ IsTree(t) /\ u = Moved(t, s, d)
       /\ Front(d) \in DOMAIN t /\ t[Front(d)].kind = "dir"
       /\ \A c \in DOMAIN t : c # <<>> => Front(c) # d
  BY <1>2, <1>3, <1>6, <1>7, <1>9, <1>10, <1>12
<1>14. /\ IsTree(u)
       /\ \A q \in DOMAIN t :
             IF IsPrefix(s, q) THEN Rebased(q, s, d) \in DOMAIN u /\ u[Rebased(q, s, d)] = t[q]
             ELSE q # d => q \in DOMAIN u /\ u[q] = t[q]
       /\ \A q \in DOMAIN u :
             IF IsPrefix(d, q) THEN \/ /\ Rebased(q, d, s) \in DOMAIN t /\ u[q] = t[Rebased(q, d, s)]
                                       /\ IsPrefix(s, Rebased(q, d, s))
                                    \/ q = d /\ d \in DOMAIN t /\ s \notin DOMAIN t /\ u[q] = t[q]
             ELSE q \in DOMAIN t /\ u[q] = t[q] /\ ~IsPrefix(s, q)
  BY <1>4, <1>5, <1>6, <1>7, <1>8, <1>13, MovedIsTree
<1>15. s \in Seq(Names) /\ d \in Seq(Names) /\ \A q \in DOMAIN u : q \in Seq(Names)
  BY <1>4, <1>5, <1>14 DEF Path, IsTree
<1>16. Rebased(s, s, d) = d /\ IsPrefix(s, s) BY <1>15, PathMoves, PrefixSelf
<1>17. d \in DOMAIN u /\ u[d] = t[s] BY <1>4, <1>12, <1>14, <1>16
<1>18. s \notin DOMAIN u BY <1>8, <1>14, <1>16
<1>19. ASSUME NEW q \in DOMAIN u, q # d PROVE q \in DOMAIN t /\ u[q] = t[q]
  <2>1. CASE IsPrefix(d, q)
    <3>1. IsPrefix(s, Rebased(q, d, s)) /\ Rebased(q, d, s) \in DOMAIN t BY <1>14, <1>19, <2>1
    <3>2. Rebased(q, d, s) = s BY <1>11, <1>12, <3>1
    <3>3. Rebased(Rebased(q, d, s), s, d) = q BY <1>15, <2>1, PathMoves
    <3> QED BY <1>16, <1>19, <3>2, <3>3
  <2>2. CASE ~IsPrefix(d, q) BY <1>14, <2>2
  <2> QED BY <2>1, <2>2
<1>20. ASSUME NEW q \in DOMAIN t, q # s, q # d PROVE q \in DOMAIN u
  <2>1. ~IsPrefix(s, q) BY <1>11, <1>12, <1>20
  <2> QED BY <1>14, <1>20, <2>1
<1>21. SameBut({s, d}) BY <1>12, <1>19, <1>20 DEF SameBut
<1>22. Reach({s, d}) BY <1>1, <1>4, <1>16 DEF Reach, Delete, Move, Copy
<1>23. WalkStep({s, d})
  <2>1. \A q \in {s, d} : q \in DOMAIN fs' => fs'[q].kind # "link" BY <1>4, <1>12, <1>17, <1>18
  <2>2. UnseenGrows BY <1>2, <1>3 DEF UnseenGrows, TypeOK
  <2> QED BY <1>2, <1>4, <1>12, <1>14, <1>21, <1>22, <2>1, <2>2 DEF WalkStep
<1>24. ASSUME NEW p \in Files, IsPrefix(s, p) PROVE Whole(p)' /\ HasData(AtDest(p), before[p].data)'
  <2>1. Kept(p) /\ p = s BY <1>1, <1>2, <1>4, <1>24, TopHasDone
  <2>2. HasData(d, before[p].data)' BY <1>2, <1>4, <1>12, <1>17, <2>1 DEF HasData, Kept, Holds
  <2>3. HasData(AtDest(p), before[p].data)' BY <1>2, <1>4, <2>1, <2>2 DEF HasData, AtDest
  <2> QED BY <1>2, <1>4, <2>3, HasItsData
<1> QED BY <1>1, <1>2, <1>12, <1>18, <1>23, <1>24, WalkReturns

\* An entry is removed with nothing in it, at the path that is to go or below.
LEMMA RemovesBelow ==
    ASSUME BackendInv, outcome = "none", ret = "none", stack # <<>>, UNCHANGED <<cmd, outcome, try, before, unseen>>,
           Top.fn = "remove", NEW r \in Path, IsPrefix(Top.src, r),
           \A q \in DOMAIN fs : q # <<>> => Front(q) # r,
           fs' = Without({r})
    PROVE  /\ WalkStep({r}) /\ r \notin DOMAIN fs'
           /\ cmd.type \in {Delete, Move}
           /\ cmd.type = Move =>
                 \A p \in Files : IsPrefix(Top.src, p) =>
                     Whole(p)' /\ HasData(AtDest(p), before[p].data)'
<1>1. TypeOK /\ WalkInv BY DEF BackendInv
<1>2. /\ cmd.type \in {Delete, Move} /\ Top.src \in Path /\ IsPrefix(cmd.src, Top.src)
      /\ (cmd.type = Move => cmd.src # cmd.dest)
  BY TopIs
<1>3. cmd.src \in Path /\ cmd.src # <<>> BY <1>1, Given
<1>4. IsPrefix(cmd.src, r)
  <2>1. cmd.src \in Seq(Names) /\ Top.src \in Seq(Names) /\ r \in Seq(Names) BY <1>2, <1>3 DEF Path
  <2> QED BY <1>2, <2>1, PrefixOfPrefix
<1>5. r # <<>>
  <2>1. cmd.src \in Seq(Names) /\ r \in Seq(Names) BY <1>3 DEF Path
  <2>2. r = <<>> => IsPrefix(r, cmd.src) BY <2>1, RootIsFirst
  <2>3. r = <<>> => r = cmd.src BY <1>4, <2>1, <2>2, PrefixBothWays
  <2> QED BY <1>3, <2>3
<1>6. Reach({r}) BY <1>2 DEF Reach, Delete, Move, Copy
<1>7. /\ WalkStep({r}) /\ r \notin DOMAIN fs'
      /\ \A p \in Files : AtDest(p) # r =>
            /\ Whole(p)' <=> Whole(p)
            /\ HasData(AtDest(p), before[p].data)' <=> HasData(AtDest(p), before[p].data)
  BY <1>2, <1>5, <1>6, EntryIsTaken
<1>8. ASSUME cmd.type = Move, NEW p \in Files, IsPrefix(Top.src, p)
      PROVE  Whole(p)' /\ HasData(AtDest(p), before[p].data)'
  <2>1. Whole(p) BY <1>8, TopHasDone
  <2>2. p \in Path /\ IsPrefix(cmd.src, p) BY <1>1, FilesAreBelow
  <2>3. AtDest(p) \in Path /\ IsPrefix(cmd.dest, AtDest(p)) BY <1>1, <2>2, WhereItGoes
  <2>4. AtDest(p) # r BY <1>1, <1>2, <1>4, <1>8, <2>3, MoveIsApart
  <2> QED BY <1>7, <1>8, <2>1, <2>4, HasItsData
<1> QED BY <1>2, <1>7, <1>8

\* The path that is to go is where it says.
LEMMA RemovedPlace ==
    ASSUME BackendInv, outcome = "none", stack # <<>>, Top.fn = "remove"
    PROVE  Place(Top.src) = Top.src /\ Top.src \in Path
<1>1. TypeOK /\ WalkInv /\ LinksAreOld BY DEF BackendInv
<1>2. /\ cmd.type \in {Delete, Move} /\ Top.src \in Path /\ IsPrefix(cmd.src, Top.src)
      /\ cmd.type = Delete => Top.src = cmd.src
  BY TopIs
<1>3. CASE cmd.type = Delete BY <1>1, <1>2, <1>3, SourceIsStraight DEF Delete, Copy, Symlink
<1>4. CASE cmd.type = Move BY <1>1, <1>2, <1>4, SourcePlace
<1> QED BY <1>2, <1>3, <1>4

\* A file, a link or an empty directory is removed.
LEMMA RemoveEntryKeeps == ASSUME BackendInv, RemoveEntry PROVE BackendInv'
<1>1. PICK s : s = Top.src OBVIOUS
<1>2. /\ outcome = "none" /\ ret = "none" /\ stack # <<>>
      /\ Top.fn = "remove" /\ Top.at = "enter" /\ UNCHANGED <<cmd, outcome, try, before, unseen>>
      /\ \/ Returns("err") /\ UNCHANGED fs
         \/ /\ (Found(s) /\ ~IsDir(s)) \/ Children(Place(s)) = {}
            /\ fs' = Without({Place(s)}) /\ stack' = Tail(stack) /\ ret' = "ok"
         \/ stack' = <<[Top EXCEPT !.at = "tree"]>> \o Tail(stack) /\ UNCHANGED <<fs, ret>>
  BY <1>1 DEF RemoveEntry, Running, Returns, Goes
<1>3. IsTree(fs) BY DEF BackendInv, TypeOK
<1>4. Place(s) = s /\ s \in Path BY <1>1, <1>2, RemovedPlace
<1>5. CASE Returns("err") /\ UNCHANGED fs BY <1>2, <1>5, GivesUp
<1>6. CASE /\ (Found(s) /\ ~IsDir(s)) \/ Children(Place(s)) = {}
           /\ fs' = Without({Place(s)}) /\ stack' = Tail(stack) /\ ret' = "ok"
  <2>1. s \notin DOMAIN fs \/ fs[s].kind # "dir" \/ Children(s) = {}
    <3>1. ASSUME s \in DOMAIN fs, fs[s].kind = "dir", Found(s) PROVE IsDir(s)
      BY <1>4, <3>1 DEF IsDir, Target, Followed
    <3> QED BY <1>4, <1>6, <3>1
  <2>2. \A q \in DOMAIN fs : q # <<>> => Front(q) # s BY <1>3, <2>1, NothingIn
  <2>3. IsPrefix(s, s) BY <1>4, PrefixSelf DEF Path
  <2>4. fs' = Without({s}) BY <1>4, <1>6
  <2>5. /\ WalkStep({s}) /\ s \notin DOMAIN fs' /\ cmd.type \in {Delete, Move}
        /\ cmd.type = Move =>
              \A p \in Files : IsPrefix(Top.src, p) =>
                  Whole(p)' /\ HasData(AtDest(p), before[p].data)'
    BY <1>1, <1>2, <1>4, <2>2, <2>3, <2>4, RemovesBelow
  <2>6. cmd.type # Copy /\ (cmd.type \in {Move, Copy} => cmd.type = Move) BY <2>5 DEF Delete, Move, Copy
  <2>7. ret # "err" /\ ret' \in {"ok", "err"} /\ stack' = Tail(stack) /\ Top.src \notin DOMAIN fs'
    BY <1>1, <1>2, <1>6, <2>5
  <2>8. /\ cmd.type = Move =>
              \A p \in Files : IsPrefix(Top.src, p) =>
                  HasData(p, before[p].data)' \/ HasData(AtDest(p), before[p].data)'
        /\ cmd.type \in {Move, Copy} => \A p \in Files : IsPrefix(Top.src, p) => Whole(p)'
    BY <2>5, <2>6
  <2> QED BY <2>5, <2>7, <2>8, WalkReturns
<1>7. CASE stack' = <<[Top EXCEPT !.at = "tree"]>> \o Tail(stack) /\ UNCHANGED <<fs, ret>>
  <2>1. PICK g : g = [Top EXCEPT !.at = "tree"] OBVIOUS
  <2>2. /\ cmd.type \in {Delete, Move} /\ (cmd.type = Move => cmd.src # cmd.dest) /\ Top \in Frames
    BY <1>2, TopIs
  <2>3. /\ g \in Frames /\ g.fn = "remove" /\ g.at = "tree" /\ g.src = Top.src
    BY <1>2, <2>1, <2>2 DEF Frames
  <2>4. FitsNext(g) BY <2>2, <2>3 DEF FitsNext
  <2>5. ASSUME cmd.type \in {Move, Copy}, NEW p \in Files, IsPrefix(Top.src, p) PROVE DoneNext(g, p)
    <3>1. Whole(p) BY <1>2, <2>5, TopHasDone
    <3>2. Whole(p)' BY <1>2, <1>7, <3>1, FilesUnchanged
    <3> QED BY <2>3, <3>2 DEF DoneNext
  <2>6. /\ WalkStep({})
        /\ cmd.type = Move =>
              \A p \in Files : HasData(p, before[p].data)' \/ HasData(AtDest(p), before[p].data)'
    BY <1>2, <1>7, FilesUnchanged
  <2> QED BY <1>2, <1>7, <2>1, <2>2, <2>3, <2>4, <2>5, <2>6, WalkGoesOn
<1> QED BY <1>2, <1>5, <1>6, <1>7

\* One entry of a directory that is removed: it has nothing in it.
LEMMA RemoveTreeKeeps == ASSUME BackendInv, RemoveTree PROVE BackendInv'
<1>1. PICK s : s = Top.src OBVIOUS
<1>2. PICK r \in Below(fs, Place(s)) :
         /\ Children(r) = {} /\ fs' = Without({r})
         /\ IF r = Place(s) THEN stack' = Tail(stack) /\ ret' = "ok" ELSE UNCHANGED <<stack, ret>>
  BY <1>1 DEF RemoveTree, Returns
<1>3. /\ outcome = "none" /\ ret = "none" /\ stack # <<>>
      /\ Top.fn = "remove" /\ Top.at = "tree" /\ UNCHANGED <<cmd, outcome, try, before, unseen>>
  BY DEF RemoveTree, Running
<1>4. TypeOK /\ IsTree(fs) BY DEF BackendInv, TypeOK
<1>5. Place(s) = s /\ s \in Path BY <1>1, <1>3, RemovedPlace
<1>6. r \in Path /\ IsPrefix(s, r) BY <1>2, <1>4, <1>5 DEF Below, IsTree
<1>7. \A q \in DOMAIN fs : q # <<>> => Front(q) # r BY <1>2, <1>4, NothingIn
<1>8. /\ WalkStep({r}) /\ r \notin DOMAIN fs' /\ cmd.type \in {Delete, Move}
      /\ cmd.type = Move =>
            \A p \in Files : IsPrefix(Top.src, p) =>
                Whole(p)' /\ HasData(AtDest(p), before[p].data)'
  BY <1>1, <1>2, <1>3, <1>6, <1>7, RemovesBelow
<1>9. CASE r = s
  <2>1. cmd.type # Copy /\ (cmd.type \in {Move, Copy} => cmd.type = Move) BY <1>8 DEF Delete, Move, Copy
  <2>2. ret # "err" /\ ret' \in {"ok", "err"} /\ stack' = Tail(stack) /\ Top.src \notin DOMAIN fs'
    BY <1>1, <1>2, <1>3, <1>5, <1>8, <1>9
  <2>3. /\ cmd.type = Move =>
              \A p \in Files : IsPrefix(Top.src, p) =>
                  HasData(p, before[p].data)' \/ HasData(AtDest(p), before[p].data)'
        /\ cmd.type \in {Move, Copy} => \A p \in Files : IsPrefix(Top.src, p) => Whole(p)'
    BY <1>8, <2>1
  <2> QED BY <1>8, <2>2, <2>3, WalkReturns
<1>10. CASE r # s
  <2>1. UNCHANGED <<stack, ret>> BY <1>2, <1>5, <1>10
  <2>2. PICK g : g = Top OBVIOUS
  <2>3. /\ g \in Frames /\ g.fn = "remove" /\ g.at = "tree" /\ g.src = Top.src
        /\ (cmd.type = Move => cmd.src # cmd.dest)
    BY <1>3, <2>2, TopIs
  <2>4. stack' = <<g>> \o Tail(stack)
    <3>1. PICK t, u : t = stack /\ u = <<g>> \o Tail(t) OBVIOUS
    <3>2. t \in Seq(Frames) /\ t # <<>> BY <1>3, <1>4, <3>1 DEF TypeOK
    <3>3. /\ u \in Seq(Frames) /\ Len(u) = Len(t) /\ u[1] = g
          /\ \A i \in 2..Len(t) : u[i] = t[i]
      BY <2>3, <3>1, <3>2, TopPut
    <3>4. t[1] = g /\ Len(t) \in Nat BY <2>2, <3>1, <3>2, StackShape DEF Top
    <3>5. \A i \in 1..Len(t) : i = 1 \/ i \in 2..Len(t) BY <3>4
    <3>6. u = t BY <3>2, <3>3, <3>4, <3>5, SeqEqual
    <3> QED BY <2>1, <3>1, <3>6
  <2>5. FitsNext(g) BY <1>8, <2>3 DEF FitsNext
  <2>6. \A p \in Files : cmd.type \in {Move, Copy} /\ IsPrefix(Top.src, p) => DoneNext(g, p)
    BY <1>8, <2>3 DEF DoneNext, Delete, Move, Copy
  <2> QED BY <1>3, <1>8, <2>1, <2>3, <2>4, <2>5, <2>6, WalkGoesOn
<1> QED BY <1>9, <1>10

-----------------------------------------------------------------------------
(* How a command begins, and how it ends *)

\* A command that has not begun finds the files that it was received with.
LEMMA Begins ==
    ASSUME BackendInv, NEW type, Command(type)
    PROVE  /\ TypeOK /\ LinksAreOld /\ WalkInv /\ IsTree(fs) /\ fs = before
           /\ outcome = "none" /\ stack = <<>> /\ ret = "none" /\ cmd.type = type
           /\ Straight(fs, cmd.dest)
           /\ cmd.type \notin {Copy, Symlink} => Straight(fs, cmd.src)
<1>1. TypeOK /\ LinksAreOld /\ WalkInv /\ NotBegun BY DEF BackendInv
<1>2. outcome = "none" /\ stack = <<>> /\ ret = "none" /\ cmd.type = type BY DEF Command
<1>3. fs = before BY <1>1, <1>2 DEF NotBegun
<1>4. IsTree(fs) BY <1>1 DEF TypeOK
<1>5. Apart(fs, cmd) BY <1>1, <1>3, Given
<1> QED BY <1>1, <1>2, <1>3, <1>4, <1>5 DEF Apart

\* What is said of the files, when they are left alone.
LEMMA NothingChanged ==
    ASSUME BackendInv, UNCHANGED <<fs, cmd, try, before, unseen>>
    PROVE  IsTree(fs') /\ OthersUntouched' /\ MoveLosesNothing' /\ CopyLeavesSource' /\ MkdirRounds'
<1>1. /\ IsTree(fs) /\ OthersUntouched /\ MoveLosesNothing /\ CopyLeavesSource /\ MkdirRounds
      /\ fs' = fs /\ cmd' = cmd /\ before' = before /\ try' = try /\ unseen' = unseen
  BY DEF BackendInv, TypeOK
<1>2. SourceEntries' = SourceEntries /\ (\A p : AtDest(p)' = AtDest(p)) /\ (\A k : Digit(k)' = Digit(k))
  BY <1>1 DEF SourceEntries, AtDest, Digit
<1>3. Arguments' = Arguments BY <1>1, <1>2 DEF Arguments
<1>4. OthersUntouched' BY <1>1, <1>3 DEF OthersUntouched, Holds
<1>5. MoveLosesNothing' BY <1>1, <1>2 DEF MoveLosesNothing, HasData, ReadWhole
<1>6. CopyLeavesSource' BY <1>1, <1>2 DEF CopyLeavesSource, Holds
<1>7. MkdirRounds' BY <1>1, <1>2 DEF MkdirRounds
<1> QED BY <1>1, <1>4, <1>5, <1>6, <1>7

\* An outermost call is made: nothing has been done yet.
LEMMA CallKeeps ==
    ASSUME BackendInv, NEW type, Command(type), NEW fn, Calls(fn),
           \/ type = Delete /\ fn = "remove"
           \/ type = Move /\ fn = "move"
           \/ type = Copy /\ fn = "copy",
           type = Move /\ cmd.src = cmd.dest /\ Len(cmd.src) <= PathMax => cmd.src \notin DOMAIN fs
    PROVE  BackendInv'
<1>1. /\ TypeOK /\ LinksAreOld /\ fs = before /\ outcome = "none" /\ stack = <<>> /\ ret = "none"
      /\ cmd.type = type
  BY Begins
<1>2. /\ stack' = <<Frame(fn, cmd.src, cmd.dest)>> /\ fs' = fs /\ cmd' = cmd /\ ret' = "none"
      /\ outcome' = "none" /\ before' = before /\ try' = try /\ unseen' = unseen
  BY <1>1 DEF Calls
<1>3. cmd.src \in Path /\ cmd.dest \in Path BY <1>1, Given
<1>4. PICK g : g = Frame(fn, cmd.src, cmd.dest) OBVIOUS
<1>5. /\ g \in Frames /\ g.fn = fn /\ g.src = cmd.src /\ g.dest = cmd.dest /\ g.at = "enter"
  BY <1>3, <1>4 DEF Frame, Frames, Modes
<1>6. /\ stack' \in Seq(Frames) /\ Len(stack') = 1 /\ DOMAIN stack' = {1} /\ stack'[1] = g /\ stack' # <<>>
      /\ Head(stack') = g
  BY <1>2, <1>4, <1>5
<1>7. AtDest(cmd.src) = cmd.dest /\ IsPrefix(cmd.src, cmd.src)
  <2>1. cmd.src \in Seq(Names) /\ cmd.dest \in Seq(Names) BY <1>3 DEF Path
  <2>2. IsPrefix(cmd.src, cmd.src) BY <2>1, PrefixSelf
  <2>3. Rebased(cmd.src, cmd.src, cmd.dest) = cmd.dest BY <2>1, <2>2, PathMoves
  <2> QED BY <2>2, <2>3 DEF AtDest, Rebased
<1>8. TypeOK' BY <1>1, <1>2, <1>6 DEF TypeOK
<1>9. NotBegun' /\ DoneWhenOk' BY <1>2, <1>6 DEF NotBegun, DoneWhenOk
<1>10. LinksAreOld' BY <1>1, <1>2 DEF LinksAreOld
<1>11. FrameFits(1)'
  <2>1. AtDest(cmd.src)' = cmd.dest BY <1>2, <1>7 DEF AtDest
  <2> QED BY <1>1, <1>2, <1>5, <1>6, <1>7, <2>1 DEF FrameFits
<1>12. ASSUME cmd.type \in {Move, Copy}, NEW p \in Files' PROVE Progress(1, p)'
  <2>1. p \in DOMAIN fs BY <1>1, <1>2 DEF Files, SourceEntries
  <2>2. Kept(p)' BY <1>1, <1>2, <2>1 DEF Kept, Holds
  <2>3. fn # "remove" BY <1>1, <1>12 DEF Delete, Move, Copy
  <2> QED BY <1>5, <1>6, <2>2, <2>3 DEF Progress
<1>13. WalkInv'
  <2>1. cmd.type = Move => fn = "move" BY <1>1 DEF Delete, Move, Copy
  <2>2. \A i \in DOMAIN stack' : FrameFits(i)' BY <1>6, <1>11
  <2>3. cmd'.type \in {Move, Copy} /\ ret' # "err" =>
          \A i \in DOMAIN stack' : \A p \in Files' : IsPrefix(stack'[i].src, p) => Progress(i, p)'
    BY <1>2, <1>6, <1>12
  <2>4. cmd'.type = Move /\ cmd'.src = cmd'.dest =>
          /\ Len(stack') = 1 /\ Head(stack').at = "enter" /\ Head(stack').fn = "move"
          /\ Len(cmd'.src) <= PathMax => cmd'.src \notin DOMAIN fs'
    BY <1>1, <1>2, <1>5, <1>6, <2>1
  <2>5. ret' = "none" BY <1>2
  <2> QED BY <2>2, <2>3, <2>4, <2>5 DEF WalkInv, Top
<1>14. SymlinkDone' /\ MkdirNumbers' BY <1>1, <1>2 DEF SymlinkDone, MkdirNumbers, Succeeded
<1> QED BY <1>2, <1>8, <1>9, <1>10, <1>13, <1>14, NothingChanged DEF BackendInv

\* A command ends.
LEMMA EndKeeps ==
    ASSUME BackendInv, stack = <<>>, UNCHANGED <<cmd, stack, ret, try, before, unseen>>,
           outcome' \in {"success", "failed", "silent"}, ret = "ok" => outcome' = "success",
           IsTree(fs'), OthersUntouched', MoveLosesNothing', CopyLeavesSource', MkdirNumbers', SymlinkDone',
           outcome' = "success" =>
               /\ cmd.type = Delete => cmd.src \notin DOMAIN fs'
               /\ cmd.type = Move => cmd.src = cmd.dest \/ cmd.src \notin DOMAIN fs'
               /\ cmd.type \in {Move, Copy} => \A p \in Files : Whole(p)'
               /\ MoveDone'
    PROVE  BackendInv'
<1>1. TypeOK /\ WalkInv BY DEF BackendInv
<1>2. /\ stack' = <<>> /\ cmd' = cmd /\ ret' = ret /\ before' = before /\ outcome' # "none"
      /\ try' = try /\ unseen' = unseen
      /\ DOMAIN stack' = {}
  OBVIOUS
<1>3. TypeOK' BY <1>1, <1>2 DEF TypeOK
<1>4. NotBegun' /\ LinksAreOld' BY <1>2 DEF NotBegun, LinksAreOld
<1>5. WalkInv'
  <2>1. ret # "none" => cmd.type \in {Delete, Move, Copy} BY <1>1 DEF WalkInv
  <2> QED BY <1>2, <2>1 DEF WalkInv
<1>6. Files' = Files BY <1>2 DEF Files, SourceEntries, ReadWhole
<1>7. DoneWhenOk'
  <2>1. (stack' = <<>> /\ ret' = "ok") \/ outcome' = "success" => outcome' = "success" BY <1>2
  <2> QED BY <1>2, <1>6, <2>1 DEF DoneWhenOk
<1>8. MkdirRounds'
  <2>1. \A k : Digit(k)' = Digit(k) BY <1>2 DEF Digit
  <2>2. MkdirRounds BY DEF BackendInv
  <2> QED BY <1>2, <2>1, <2>2 DEF MkdirRounds
<1> QED BY <1>3, <1>4, <1>5, <1>7, <1>8 DEF BackendInv

\* A delete begins.
LEMMA StartDeleteKeeps == ASSUME BackendInv, StartDelete PROVE BackendInv'
BY CallKeeps DEF StartDelete, Delete, Move, Copy

\* A command that ends with the files as they were.
LEMMA EndsWithNothing ==
    ASSUME BackendInv, NEW type, Command(type), UNCHANGED fs, NEW o \in {"failed", "silent"}, Ends(o)
    PROVE  BackendInv'
<1>1. stack = <<>> /\ ret = "none" /\ fs = before BY Begins
<1>2. outcome' = o /\ UNCHANGED <<cmd, stack, ret, try, before, unseen>> BY DEF Ends
<1>3. SymlinkDone' BY <1>2 DEF SymlinkDone, Succeeded
<1>4. IsTree(fs') /\ OthersUntouched' /\ MoveLosesNothing' /\ CopyLeavesSource'
  BY <1>2, NothingChanged
<1>5. MkdirNumbers' BY <1>1, <1>2 DEF MkdirNumbers
<1> QED BY <1>1, <1>2, <1>3, <1>4, <1>5, EndKeeps

\* A copy begins, or there is no directory to copy to.
LEMMA StartCopyKeeps == ASSUME BackendInv, StartCopy PROVE BackendInv'
<1>1. Command(Copy) /\ ((Ends("failed") /\ UNCHANGED fs) \/ Calls("copy"))
  BY DEF StartCopy
<1>2. CASE Command(Copy) /\ Ends("failed") /\ UNCHANGED fs BY <1>2, EndsWithNothing
<1>3. CASE Command(Copy) /\ Calls("copy") BY <1>3, CallKeeps DEF Delete, Move, Copy
<1> QED BY <1>1, <1>2, <1>3

\* rename of an entry to itself.
LEMMA MovedToItself ==
    ASSUME NEW t, IsTree(t), NEW a \in Path, NEW s, s = Moved(t, a, a)
    PROVE  DOMAIN s = DOMAIN t /\ \A q \in DOMAIN t : s[q] = t[q]
<1>1. ASSUME NEW q \in Below(t, a) PROVE Rebased(q, a, a) = q
  <2>1. q \in Seq(Names) /\ a \in Seq(Names) /\ IsPrefix(a, q) BY DEF Below, IsTree, Path
  <2> QED BY <2>1, PrefixAndRest DEF Rebased
<1>2. {Rebased(q, a, a) : q \in Below(t, a)} = Below(t, a) BY <1>1
<1>3. (DOMAIN t \ Below(t, a)) \cup Below(t, a) = DOMAIN t BY DEF Below
<1>4. s = [q \in DOMAIN t |-> IF q \in Below(t, a) THEN t[Rebased(q, a, a)] ELSE t[q]]
  BY <1>2, <1>3 DEF Moved
<1> QED BY <1>1, <1>4

\* What rename makes of the source: all of it is in the new place.
LEMMA RenameMoves ==
    ASSUME BackendInv, NEW type \in {Rename, Move}, Command(type),
           Renamable(cmd.src, cmd.dest), NEW u, u = Renamed(cmd.src, cmd.dest)
    PROVE  /\ IsTree(u)
           /\ cmd.src # cmd.dest => cmd.src \notin DOMAIN u
           /\ \A p \in SourceEntries : AtDest(p) \in DOMAIN u /\ u[AtDest(p)] = before[p]
           /\ \A q \in DOMAIN fs \cup DOMAIN u : ~IsPrefix(cmd.src, q) /\ ~IsPrefix(cmd.dest, q) =>
                 q \in DOMAIN fs /\ q \in DOMAIN u /\ u[q] = fs[q]
<1>1. PICK t, a, b : t = fs /\ a = cmd.src /\ b = cmd.dest OBVIOUS
<1>2. /\ TypeOK /\ IsTree(t) /\ t = before /\ cmd.type = type
      /\ Straight(fs, a) /\ Straight(fs, b)
  BY <1>1, Begins DEF Rename, Move, Copy, Symlink
<1>3. a \in Path /\ b \in Path /\ a # <<>> BY <1>1, <1>2, Given
<1>4. b # <<>> BY <1>1 DEF Renamable
<1>5. Place(a) = a BY <1>1, <1>2, <1>3, StraightTarget
<1>6. Place(b) = b /\ Target(Front(b)) = Front(b) BY <1>1, <1>2, <1>3, <1>4, StraightTarget
<1>7. /\ u = Moved(t, a, b) /\ a \in DOMAIN t /\ Front(b) \in DOMAIN t /\ t[Front(b)].kind = "dir"
      /\ a = b \/ (~IsPrefix(a, b) /\ (b \notin DOMAIN t \/ Children(b) = {}))
  BY <1>1, <1>5, <1>6 DEF Renamable, Renamed, IsDir, Found
<1>8. ASSUME NEW p \in SourceEntries
      PROVE  p \in DOMAIN t /\ p \in Path /\ IsPrefix(a, p) /\ before[p] = t[p] /\ AtDest(p) = Rebased(p, a, b)
  BY <1>1, <1>2 DEF SourceEntries, AtDest, Rebased, IsTree
<1>9. CASE a = b
  <2>1. DOMAIN u = DOMAIN t /\ \A q \in DOMAIN t : u[q] = t[q] BY <1>2, <1>3, <1>7, <1>9, MovedToItself
  <2>2. IsTree(u) BY <1>2, <2>1 DEF IsTree
  <2>3. ASSUME NEW p \in SourceEntries PROVE AtDest(p) = p
    <3>1. p \in Seq(Names) /\ a \in Seq(Names) BY <1>3, <1>8 DEF Path
    <3>2. p = Rebased(p, a, a) BY <1>8, <3>1, PrefixAndRest DEF Rebased
    <3> QED BY <1>8, <1>9, <3>2
  <2> QED BY <1>1, <1>8, <1>9, <2>1, <2>2, <2>3
<1>10. CASE a # b
  <2>1. ~IsPrefix(a, b) /\ \A q \in DOMAIN t : q # <<>> => Front(q) # b
    BY <1>1, <1>2, <1>7, <1>10, NothingIn
  <2>2. /\ IsTree(u)
        /\ \A q \in DOMAIN t :
              IF IsPrefix(a, q) THEN Rebased(q, a, b) \in DOMAIN u /\ u[Rebased(q, a, b)] = t[q]
              ELSE q # b => q \in DOMAIN u /\ u[q] = t[q]
        /\ \A q \in DOMAIN u :
              ~IsPrefix(b, q) => q \in DOMAIN t /\ u[q] = t[q] /\ ~IsPrefix(a, q)
    BY <1>2, <1>3, <1>4, <1>7, <2>1, MovedIsTree
  <2>3. a \in Seq(Names) /\ b \in Seq(Names) /\ IsPrefix(a, a) /\ IsPrefix(b, b)
    BY <1>3, PrefixSelf DEF Path
  <2>4. a \notin DOMAIN u
    <3>1. ~IsPrefix(b, a) BY <1>2, <1>3, <1>7, <1>10, <2>1, NothingBelow
    <3> QED BY <2>2, <2>3, <3>1
  <2>5. ASSUME NEW q \in DOMAIN t \cup DOMAIN u, ~IsPrefix(a, q), ~IsPrefix(b, q)
        PROVE  q \in DOMAIN t /\ q \in DOMAIN u /\ u[q] = t[q]
    BY <2>2, <2>3, <2>5
  <2> QED BY <1>1, <1>8, <2>2, <2>4, <2>5
<1> QED BY <1>9, <1>10

\* A command that is one rename.
LEMMA RenameKeeps ==
    ASSUME BackendInv, NEW type \in {Rename, Move}, Command(type),
           Renamable(cmd.src, cmd.dest), fs' = Renamed(cmd.src, cmd.dest), Ends("success")
    PROVE  BackendInv'
<1>1. /\ TypeOK /\ fs = before /\ stack = <<>> /\ ret = "none" /\ cmd.type = type BY Begins
<1>2. /\ outcome' = "success" /\ cmd' = cmd /\ stack' = stack /\ ret' = ret /\ before' = before
      /\ try' = try /\ unseen' = unseen
  BY DEF Ends
<1>3. PICK u : u = fs' OBVIOUS
<1>4. /\ IsTree(u)
      /\ cmd.src # cmd.dest => cmd.src \notin DOMAIN u
      /\ \A p \in SourceEntries : AtDest(p) \in DOMAIN u /\ u[AtDest(p)] = before[p]
      /\ \A q \in DOMAIN fs \cup DOMAIN u : ~IsPrefix(cmd.src, q) /\ ~IsPrefix(cmd.dest, q) =>
            q \in DOMAIN fs /\ q \in DOMAIN u /\ u[q] = fs[q]
  BY <1>3, RenameMoves
<1>5. type \notin {Delete, Mkdir, Copy, Chmod, Symlink}
  BY DEF Delete, Mkdir, Rename, Move, Copy, Chmod, Symlink
<1>6. SourceEntries' = SourceEntries /\ \A p : AtDest(p)' = AtDest(p) BY <1>2 DEF SourceEntries, AtDest
<1>7. OthersUntouched'
  <2>1. Arguments' = {cmd.src, cmd.dest} BY <1>1, <1>2, <1>5 DEF Arguments
  <2> QED BY <1>1, <1>2, <1>3, <1>4, <2>1 DEF OthersUntouched, Holds
<1>8. ASSUME NEW p \in SourceEntries PROVE before[p].kind = "file" => HasData(AtDest(p), before[p].data)'
  BY <1>2, <1>3, <1>4, <1>6 DEF HasData
<1>9. MoveLosesNothing' BY <1>2, <1>6, <1>8 DEF MoveLosesNothing, HasData
<1>10. CopyLeavesSource' /\ MkdirNumbers' /\ SymlinkDone'
  BY <1>1, <1>2, <1>5 DEF CopyLeavesSource, MkdirNumbers, SymlinkDone, Succeeded
<1>11. ASSUME NEW p \in Files PROVE Whole(p)'
  <2>1. HasData(AtDest(p), before[p].data)' BY <1>8 DEF Files
  <2> QED BY <1>1, <1>2, <1>5, <2>1 DEF Whole, HasData
<1>12. MoveDone' BY <1>2, <1>3, <1>4, <1>6 DEF MoveDone
<1>13. IsTree(fs') BY <1>3, <1>4
<1> QED BY <1>1, <1>2, <1>3, <1>4, <1>5, <1>7, <1>9, <1>10, <1>11, <1>12, <1>13, EndKeeps

\* A move is a rename, or begins a walk, or has no directory to move to.
LEMMA StartMoveKeeps == ASSUME BackendInv, StartMove PROVE BackendInv'
<1>1. Command(Move) BY DEF StartMove
<1>2. CASE Ends("failed") /\ UNCHANGED fs BY <1>1, <1>2, EndsWithNothing
<1>3. CASE Renamable(cmd.src, cmd.dest) /\ fs' = Renamed(cmd.src, cmd.dest) /\ Ends("success")
  BY <1>1, <1>3, RenameKeeps
<1>4. CASE IsDir(Front(cmd.dest)) /\ NotRenamed(cmd.src, cmd.dest) /\ Calls("move")
  <2>1. TypeOK /\ cmd.type = Move BY <1>1, Begins
  <2>2. cmd.src # <<>> BY <2>1, Given
  <2>3. ASSUME cmd.src = cmd.dest, Len(cmd.src) <= PathMax PROVE cmd.src \notin DOMAIN fs
    <3>1. Place(cmd.src) \notin DOMAIN fs BY <1>4, <2>2, <2>3 DEF NotRenamed, Renamable
    <3>2. Place(cmd.src) = cmd.src
      <4>1. IsTree(fs) /\ Straight(fs, cmd.dest) /\ cmd.src \in Path BY <1>1, <2>1, Begins, Given
      <4> QED BY <2>3, <4>1, StraightTarget
    <3> QED BY <3>1, <3>2
  <2> QED BY <1>1, <1>4, <2>3, CallKeeps DEF Delete, Move, Copy
<1> QED BY <1>2, <1>3, <1>4 DEF StartMove

\* A rename is made, or it is not and nothing is answered.
LEMMA StartRenameKeeps == ASSUME BackendInv, StartRename PROVE BackendInv'
<1>1. Command(Rename) BY DEF StartRename
<1>2. CASE Ends("silent") /\ UNCHANGED fs BY <1>1, <1>2, EndsWithNothing
<1>3. CASE Renamable(cmd.src, cmd.dest) /\ fs' = Renamed(cmd.src, cmd.dest) /\ Ends("success")
  BY <1>1, <1>3, RenameKeeps
<1> QED BY <1>2, <1>3 DEF StartRename

\* A command that makes, changes or removes entries at its arguments only, and
\* moves or copies nothing.
LEMMA OnlyArguments ==
    ASSUME BackendInv, NEW type \in {Mkdir, Rename, Chmod, Symlink}, Command(type), UNCHANGED <<cmd, before>>,
           NEW Q, SameBut(Q), \A q \in Q : q \in Path /\ q \in Arguments
    PROVE  OthersUntouched' /\ MoveLosesNothing' /\ CopyLeavesSource' /\ (type # Mkdir => MkdirNumbers')
<1>1. /\ fs = before /\ cmd.type = type /\ cmd' = cmd /\ before' = before BY Begins
<1>2. type \notin {Delete, Move, Copy} BY DEF Delete, Mkdir, Rename, Move, Copy, Chmod, Symlink
<1>3. \A k : Digit(k)' = Digit(k) BY <1>1 DEF Digit
<1>4. Arguments' = Arguments BY <1>1, <1>3 DEF Arguments
<1>5. ASSUME NEW q \in Q PROVE \E a \in Arguments : IsPrefix(a, q)
  <2>1. q \in Seq(Names) /\ q \in Arguments BY DEF Path
  <2> QED BY <2>1, PrefixSelf
<1>6. ASSUME NEW p \in DOMAIN before \cup DOMAIN fs', \A a \in Arguments : ~IsPrefix(a, p)
      PROVE  p \in DOMAIN before /\ p \in DOMAIN fs' /\ fs'[p] = before[p]
  <2>1. p \notin Q BY <1>5, <1>6
  <2> QED BY <1>1, <2>1 DEF SameBut
<1>7. OthersUntouched' BY <1>1, <1>4, <1>6 DEF OthersUntouched, Holds
<1>8. MoveLosesNothing' /\ CopyLeavesSource' /\ (type # Mkdir => MkdirNumbers')
  BY <1>1, <1>2 DEF MoveLosesNothing, CopyLeavesSource, MkdirNumbers
<1> QED BY <1>7, <1>8

\* Such a command ends.
LEMMA SmallEnds ==
    ASSUME BackendInv, NEW type \in {Mkdir, Rename, Chmod, Symlink}, Command(type),
           NEW o \in {"success", "failed", "silent"}, Ends(o), IsTree(fs'),
           NEW Q, SameBut(Q), \A q \in Q : q \in Path /\ q \in Arguments,
           type = Mkdir => MkdirNumbers', type = Rename => o # "success",
           type = Symlink => SymlinkDone'
    PROVE  BackendInv'
<1>1. /\ fs = before /\ stack = <<>> /\ ret = "none" /\ cmd.type = type BY Begins
<1>2. /\ outcome' = o /\ cmd' = cmd /\ stack' = stack /\ ret' = ret /\ before' = before
      /\ try' = try /\ unseen' = unseen
  BY DEF Ends
<1>3. type \notin {Delete, Move, Copy} BY DEF Delete, Mkdir, Rename, Move, Copy, Chmod, Symlink
<1>4. OthersUntouched' /\ MoveLosesNothing' /\ CopyLeavesSource' /\ (type # Mkdir => MkdirNumbers')
  BY <1>2, OnlyArguments
<1>5. SymlinkDone'
  <2>1. type # Symlink => SymlinkDone' BY <1>1, <1>2 DEF SymlinkDone, Succeeded
  <2> QED BY <2>1
<1>6. o = "success" => MoveDone' BY <1>1, <1>2, <1>3 DEF MoveDone, Succeeded
<1> QED BY <1>1, <1>2, <1>3, <1>4, <1>5, <1>6, EndKeeps

\* What an entry that is put somewhere changes.
LEMMA PutIsSameBut ==
    ASSUME NEW p, NEW n, fs' = Put(fs, p, n) PROVE SameBut({p})
BY DEF SameBut, Put

\* The names of new folders lead where they say.
LEMMA DigitPlace ==
    ASSUME BackendInv, Command(Mkdir), NEW k \in DOMAIN Numbered
    PROVE  /\ Digit(k) \in Path /\ Digit(k) # <<>> /\ Place(Digit(k)) = Digit(k)
           /\ Front(Digit(k)) = Front(cmd.src) /\ Target(Front(Digit(k))) = Front(cmd.src)
           /\ Len(Digit(k)) = Len(Front(cmd.src)) + 1
<1>1. TypeOK /\ IsTree(fs) /\ Straight(fs, cmd.src) BY Begins DEF Mkdir, Copy, Symlink
<1>2. cmd.src \in Path /\ cmd.src # <<>> BY <1>1, Given
<1>3. PICK f, d : f = Front(cmd.src) /\ d = Digit(k) OBVIOUS
<1>4. f \in Path /\ Straight(fs, f) /\ Target(f) = f BY <1>1, <1>2, <1>3, StraightTarget
<1>5. f \in Seq(Names) BY <1>4 DEF Path
<1>6. Numbered[k] \in Names BY CasesAssumption
<1>7. d = Append(f, Numbered[k]) BY <1>3 DEF Digit
<1>8. d \in Seq(Names) /\ d # <<>> /\ Len(d) = Len(f) + 1 /\ Front(d) = f BY <1>5, <1>6, <1>7, NameAfter
<1>9. ASSUME NEW q \in DOMAIN fs, IsPrefix(q, d), q # d PROVE fs[q].kind # "link"
  <2>1. q \in Seq(Names) BY <1>1 DEF IsTree, Path
  <2>2. IsPrefix(q, f) BY <1>8, <1>9, <2>1, BelowFront
  <2>3. q = f => fs[q].kind # "link"
    <3>1. Place(f) = f BY <1>1, <1>4, StraightTarget
    <3>2. ASSUME q = f, fs[q].kind = "link" PROVE FALSE
      <4>1. IsPrefix(f, f) BY <1>5, PrefixSelf
      <4>2. cmd.src \in Seq(Names) BY <1>2 DEF Path
      <4>3. IsPrefix(f, cmd.src) /\ cmd.src # f BY <1>2, <1>3, <1>5, <4>1, <4>2, AboveFront
      <4> QED BY <1>1, <3>2, <4>3 DEF Straight
    <3> QED BY <3>2
  <2> QED BY <1>4, <2>2, <2>3 DEF Straight
<1>10. Straight(fs, d) BY <1>9 DEF Straight
<1>11. Place(d) = d BY <1>1, <1>8, <1>10, StraightPlace DEF Path
<1> QED BY <1>3, <1>4, <1>8, <1>11 DEF Path

\* A round of mkdir's loop: a new folder takes the digit, for those below it are
\* in use; or it is in use too, and the next one is tried.
LEMMA MkdirAttemptKeeps == ASSUME BackendInv, MkdirAttempt PROVE BackendInv'
<1>1. Command(Mkdir) /\ try.count < 11 BY DEF MkdirAttempt
<1>2. PICK k, d : k = try.digit + 1 /\ d = Digit(k) OBVIOUS
<1>3. /\ TypeOK /\ IsTree(fs) /\ fs = before /\ cmd.type = Mkdir /\ MkdirRounds
      /\ outcome = "none" /\ stack = <<>> /\ ret = "none"
  BY <1>1, Begins DEF BackendInv
<1>4. /\ try = [digit |-> try.digit, count |-> try.count]
      /\ try.digit \in 0..9 /\ try.count \in 0..10
  BY <1>1, <1>3 DEF TypeOK
<1>5. DOMAIN Numbered = 1..10 BY DEF Numbered
<1>6. k \in DOMAIN Numbered /\ k \in Nat /\ k - 1 = try.digit BY <1>2, <1>4, <1>5
<1>7. /\ d \in Path /\ d # <<>> /\ Place(d) = d /\ Target(Front(d)) = Front(d) /\ Front(d) = Front(cmd.src)
  BY <1>1, <1>2, <1>6, DigitPlace
<1>8. \A j \in 1..(k - 1) : Digit(j) \in DOMAIN before BY <1>3, <1>6 DEF MkdirRounds
<1>9. CASE Creatable(d) /\ fs' = Made(d, {"x"}) /\ Ends("success")
  <2>1. PICK n : n = DirNode({"x"} \ Umask) OBVIOUS
  <2>2. /\ d \notin DOMAIN fs /\ Front(d) \in DOMAIN fs /\ fs[Front(d)].kind = "dir"
        /\ fs' = Put(fs, d, n)
    BY <1>7, <1>9, <2>1 DEF Creatable, Made, With, IsDir, Found
  <2>3. IsNode(n)
    <3>1. <<>> \in Path BY DEF Path
    <3> QED BY <2>1, <3>1 DEF DirNode, IsNode, Modes
  <2>4. IsTree(fs')
    <3>1. PICK t, u : t = fs /\ u = fs' OBVIOUS
    <3>2. IsTree(u) BY <1>3, <1>7, <2>2, <2>3, <3>1, PutIsTree
    <3> QED BY <3>1, <3>2
  <2>5. SameBut({d}) BY <2>2, PutIsSameBut
  <2>6. d \in Arguments
    <3>1. Arguments = {Digit(j) : j \in DOMAIN Numbered}
      BY <1>3 DEF Arguments, Delete, Mkdir, Copy, Chmod, Symlink
    <3> QED BY <1>2, <1>6, <3>1
  <2>7. MkdirNumbers'
    <3>1. DOMAIN fs' = DOMAIN before \cup {d} /\ d \notin DOMAIN before BY <1>3, <2>2 DEF Put
    <3>2. cmd' = cmd /\ before' = before /\ outcome' = "success" BY <1>9 DEF Ends
    <3>3. \A j : Digit(j)' = Digit(j) BY <3>2 DEF Digit
    <3> QED BY <1>2, <1>6, <1>8, <3>1, <3>2, <3>3 DEF MkdirNumbers
  <2>8. Mkdir \notin {Rename, Symlink} BY DEF Mkdir, Rename, Symlink
  <2> QED BY <1>1, <1>7, <1>9, <2>4, <2>5, <2>6, <2>7, <2>8, SmallEnds
<1>10. CASE /\ Place(d) \in DOMAIN fs
            /\ try' = [digit |-> try.count % 10, count |-> try.count + 1]
            /\ UNCHANGED <<fs, cmd, stack, ret, outcome, before, unseen>>
  <2>1. try.count % 10 = IF try.count = 10 THEN 0 ELSE try.count BY <1>4
  <2>2. /\ try'.digit = IF try.count = 10 THEN 0 ELSE try.count
        /\ try'.count = try.count + 1 /\ try' \in [digit : 0..9, count : 0..11]
    BY <1>4, <1>10, <2>1
  <2>3. UNCHANGED <<fs, cmd, stack, ret, outcome, before, unseen>> BY <1>10
  <2>4. TypeOK'
    <3>1. PICK r : r = try' OBVIOUS
    <3>2. r \in [digit : 0..9, count : 0..11] BY <2>2, <3>1
    <3> QED BY <1>3, <2>3, <3>1, <3>2 DEF TypeOK
  <2>5. MkdirRounds'
    <3>1. \A j \in 1..try.digit : Digit(j) \in DOMAIN before BY <1>3 DEF MkdirRounds
    <3>2. try.digit = IF try.count = 0 THEN 0 ELSE try.count - 1 BY <1>3, <1>4 DEF MkdirRounds
    <3>3. Digit(k) \in DOMAIN before BY <1>2, <1>3, <1>7, <1>10
    <3>4. ASSUME NEW j \in 1..try'.digit PROVE Digit(j) \in DOMAIN before
      <4>1. j \in 1..try.digit \/ j = k BY <1>2, <1>4, <2>2, <3>2
      <4> QED BY <3>1, <3>3, <4>1
    <3>5. try'.digit = IF try'.count \in {0, 11} THEN 0 ELSE try'.count - 1 BY <1>4, <2>2
    <3>6. \A j : Digit(j)' = Digit(j) BY <2>3 DEF Digit
    <3> QED BY <2>3, <3>4, <3>5, <3>6 DEF MkdirRounds
  <2>6. NotBegun' /\ LinksAreOld' /\ WalkInv' /\ DoneWhenOk'
    <3>1. stack' = <<>> /\ ret' = "none" /\ outcome' = "none" /\ DOMAIN stack' = {} BY <1>3, <2>3
    <3>2. LinksAreOld BY DEF BackendInv
    <3> QED BY <1>3, <2>3, <3>1, <3>2 DEF NotBegun, LinksAreOld, WalkInv, DoneWhenOk
  <2>7. OthersUntouched'
    <3>1. \A j : Digit(j)' = Digit(j) BY <2>3 DEF Digit
    <3>2. Arguments' = Arguments BY <2>3, <3>1 DEF Arguments
    <3>3. OthersUntouched BY DEF BackendInv
    <3> QED BY <2>3, <3>2, <3>3 DEF OthersUntouched, Holds
  <2>8. cmd'.type \notin {Move, Copy} BY <1>3, <2>3 DEF Mkdir, Move, Copy
  <2>9. MoveLosesNothing' /\ CopyLeavesSource' /\ MkdirNumbers' /\ SymlinkDone'
    BY <1>3, <2>3, <2>8 DEF MoveLosesNothing, CopyLeavesSource, MkdirNumbers, SymlinkDone, Succeeded
  <2> QED BY <2>4, <2>5, <2>6, <2>7, <2>9 DEF BackendInv
<1>11. CASE UNCHANGED fs /\ Ends("silent") BY <1>1, <1>11, EndsWithNothing
<1> QED BY <1>2, <1>9, <1>10, <1>11 DEF MkdirAttempt

\* All ten names were in use.
LEMMA MkdirGivesUpKeeps == ASSUME BackendInv, MkdirGivesUp PROVE BackendInv'
BY EndsWithNothing DEF MkdirGivesUp

\* Only the permissions of the named entry are others.
LEMMA StartChmodKeeps == ASSUME BackendInv, StartChmod PROVE BackendInv'
<1>1. Command(Chmod) BY DEF StartChmod
<1>2. CASE UNCHANGED fs /\ Ends("failed") BY <1>1, <1>2, EndsWithNothing
<1>3. CASE Found(cmd.src) /\ fs' = [fs EXCEPT ![Target(cmd.src)].mode = cmd.mode] /\ Ends("success")
  <2>1. PICK a, m, n : a = cmd.src /\ m = fs[a] /\ n = [m EXCEPT !.mode = cmd.mode] OBVIOUS
  <2>2. /\ TypeOK /\ IsTree(fs) /\ fs = before /\ cmd.type = Chmod /\ Straight(fs, a)
    BY <1>1, <2>1, Begins DEF Chmod, Copy, Symlink
  <2>3. a \in Path /\ a # <<>> /\ cmd.mode \in Modes /\ Apart(fs, cmd) BY <2>1, <2>2, Given
  <2>4. Place(a) = a BY <2>2, <2>3, StraightPlace
  <2>5. Target(a) = a BY <2>1, <2>2, <2>3, <2>4 DEF Apart, Target, Followed
  <2>6. a \in DOMAIN fs BY <1>3, <2>1, <2>5 DEF Found
  <2>7. IsNode(m) /\ Front(a) \in DOMAIN fs /\ fs[Front(a)].kind = "dir" BY <2>1, <2>2, <2>3, <2>6 DEF IsTree
  <2>8. IsNode(n) /\ n.kind = m.kind
    <3>1. m = [kind |-> m.kind, data |-> m.data, mode |-> m.mode, to |-> m.to] BY <2>7 DEF IsNode
    <3>2. n = [kind |-> m.kind, data |-> m.data, mode |-> cmd.mode, to |-> m.to] BY <2>1, <3>1
    <3> QED BY <2>3, <2>7, <3>2 DEF IsNode
  <2>9. fs' = Put(fs, a, n)
    <3>1. fs' = [q \in DOMAIN fs |-> IF q = a THEN n ELSE fs[q]] BY <1>3, <2>1, <2>5
    <3>2. DOMAIN fs \cup {a} = DOMAIN fs BY <2>6
    <3> QED BY <3>1, <3>2 DEF Put
  <2>10. IsTree(fs')
    <3>1. PICK t, u : t = fs /\ u = fs' OBVIOUS
    <3>2. IsTree(u) BY <2>1, <2>2, <2>3, <2>7, <2>8, <2>9, <3>1, PutIsTree
    <3> QED BY <3>1, <3>2
  <2>11. SameBut({a}) BY <2>9, PutIsSameBut
  <2>12. a \in Arguments
    <3>1. Arguments = {cmd.src} BY <2>2 DEF Arguments, Delete, Mkdir, Copy, Chmod, Symlink
    <3> QED BY <2>1, <3>1
  <2>13. Chmod \notin {Mkdir, Rename, Symlink} BY DEF Mkdir, Rename, Chmod, Symlink
  <2> QED BY <1>1, <1>3, <2>3, <2>10, <2>11, <2>12, <2>13, SmallEnds
<1> QED BY <1>2, <1>3 DEF StartChmod

\* The directory that favourites live in, found or made.
LEMMA LinkHomeIs ==
    ASSUME BackendInv, Command(Symlink), NEW h, h = LinkHomeMade
    PROVE  /\ IsTree(h) /\ cmd.dest \in Path /\ cmd.dest # <<>> /\ Place(cmd.dest) = cmd.dest
           /\ LinkHome \in Path /\ Target(LinkHome) = LinkHome
           /\ \A q \in DOMAIN fs \cup DOMAIN h :
                 q # LinkHome => q \in DOMAIN fs /\ q \in DOMAIN h /\ h[q] = fs[q]
<1>1. PICK c, d : c = cmd.dest /\ d = LinkHome OBVIOUS
<1>2. /\ TypeOK /\ IsTree(fs) /\ Straight(fs, c) BY <1>1, Begins
<1>3. c \in Path /\ c # <<>>
  <2>1. cmd.type = Symlink /\ Symlink \notin {Delete, Mkdir, Chmod} BY Begins DEF Delete, Mkdir, Chmod, Symlink
  <2> QED BY <1>1, <1>2, <2>1, Given
<1>4. d = Front(c) BY <1>1 DEF LinkHome
<1>5. Place(c) = c /\ d \in Path /\ Straight(fs, d) /\ Place(d) = d /\ Target(d) = d
  BY <1>2, <1>3, <1>4, StraightTarget
<1>6. CASE h = fs BY <1>1, <1>2, <1>3, <1>5, <1>6
<1>7. CASE h # fs
  <2>1. PICK n : n = DirNode({"x"} \ Umask) OBVIOUS
  <2>2. Creatable(d) /\ h = Put(fs, d, n) BY <1>1, <1>5, <1>7, <2>1 DEF LinkHomeMade, Made, With
  <2>3. d # <<>> /\ d \notin DOMAIN fs BY <1>5, <2>2 DEF Creatable
  <2>4. Target(Front(d)) = Front(d) BY <1>2, <1>5, <2>3, StraightTarget
  <2>5. Front(d) \in DOMAIN fs /\ fs[Front(d)].kind = "dir" BY <2>2, <2>4 DEF Creatable, IsDir, Found
  <2>6. IsNode(n)
    <3>1. <<>> \in Path BY DEF Path
    <3> QED BY <2>1, <3>1 DEF DirNode, IsNode, Modes
  <2>7. IsTree(h)
    <3>1. PICK t : t = fs OBVIOUS
    <3> QED BY <1>2, <1>5, <2>2, <2>3, <2>5, <2>6, <3>1, PutIsTree
  <2>8. \A q \in DOMAIN fs \cup DOMAIN h : q # d => q \in DOMAIN fs /\ q \in DOMAIN h /\ h[q] = fs[q]
    BY <2>2 DEF Put
  <2> QED BY <1>1, <1>3, <1>5, <2>7, <2>8
<1> QED BY <1>6, <1>7

\* A link may change what is at its name, and the directory that is in.
LEMMA LinkEnds ==
    ASSUME BackendInv, Command(Symlink), NEW o \in {"success", "failed", "silent"}, Ends(o),
           IsTree(fs'), NEW Q, SameBut(Q), Q \subseteq {cmd.dest, LinkHome},
           o = "success" => cmd.dest \in DOMAIN fs' /\ fs'[cmd.dest] = LinkNode(cmd.src)
    PROVE  BackendInv'
<1>1. /\ cmd.dest \in Path /\ LinkHome \in Path BY LinkHomeIs
<1>2. cmd.type = Symlink BY Begins
<1>3. Arguments = {cmd.dest, LinkHome}
  BY <1>2 DEF Arguments, LinkHome, Delete, Mkdir, Move, Copy, Chmod, Symlink
<1>4. \A q \in Q : q \in Path /\ q \in Arguments BY <1>1, <1>3
<1>5. outcome' = o /\ cmd' = cmd BY DEF Ends
<1>6. SymlinkDone' BY <1>5 DEF SymlinkDone, Succeeded, LinkNode
<1>7. Symlink \notin {Mkdir, Rename} BY DEF Mkdir, Rename, Symlink
<1> QED BY <1>4, <1>6, <1>7, SmallEnds

\* A favourite is made, in the place of what had its name.
LEMMA StartSymlinkKeeps == ASSUME BackendInv, StartSymlink PROVE BackendInv'
<1>1. Command(Symlink) BY DEF StartSymlink
<1>2. PICK h, c, d : h = LinkHomeMade /\ c = cmd.dest /\ d = LinkHome OBVIOUS
<1>3. /\ IsTree(h) /\ c \in Path /\ c # <<>> /\ Place(c) = c /\ d \in Path /\ Target(d) = d
      /\ \A q \in DOMAIN fs \cup DOMAIN h : q # d => q \in DOMAIN fs /\ q \in DOMAIN h /\ h[q] = fs[q]
  BY <1>1, <1>2, LinkHomeIs
<1>4. CASE fs' = h /\ Ends("failed")
  <2>1. SameBut({d}) BY <1>3, <1>4 DEF SameBut
  <2>2. IsTree(fs') BY <1>3, <1>4
  <2> QED BY <1>1, <1>2, <1>4, <2>1, <2>2, LinkEnds
<1>5. CASE /\ d \in DOMAIN h /\ h[d].kind = "dir" /\ (c \in DOMAIN h => h[c].kind # "dir")
           /\ fs' = Put(h, c, LinkNode(cmd.src)) /\ Ends("success")
  <2>1. PICK n, u : n = LinkNode(cmd.src) /\ u = fs' OBVIOUS
  <2>2. d = Front(c) BY <1>2 DEF LinkHome
  <2>3. IsNode(n)
    <3>1. TypeOK BY <1>1, Begins
    <3>2. cmd.src \in Path BY <3>1, Given
    <3> QED BY <2>1, <3>2 DEF LinkNode, IsNode, Modes
  <2>4. IsTree(u) BY <1>3, <1>5, <2>1, <2>2, <2>3, PutIsTree
  <2>5. DOMAIN u = DOMAIN h \cup {c} /\ u[c] = n /\ \A q \in DOMAIN h : q # c => u[q] = h[q]
    BY <1>5, <2>1 DEF Put
  <2>6. SameBut({c, d}) BY <1>3, <2>1, <2>5 DEF SameBut
  <2>7. c \in DOMAIN fs' /\ fs'[c] = LinkNode(cmd.src) /\ IsTree(fs') BY <2>1, <2>4, <2>5
  <2> QED BY <1>1, <1>2, <1>5, <2>6, <2>7, LinkEnds
<1>6. \/ fs' = h /\ Ends("failed")
      \/ /\ d \in DOMAIN h /\ h[d].kind = "dir" /\ (c \in DOMAIN h => h[c].kind # "dir")
         /\ fs' = Put(h, c, LinkNode(cmd.src)) /\ Ends("success")
  BY <1>2, <1>3 DEF StartSymlink
<1> QED BY <1>4, <1>5, <1>6

\* A single call fails, perhaps after the one before it did not.
LEMMA DeniedCommandKeeps == ASSUME BackendInv, DeniedCommand PROVE BackendInv'
<1>1. PICK o : o = Failure OBVIOUS
<1>2. o \in {"failed", "silent"} /\ Ends(o) BY <1>1 DEF Failure, DeniedCommand
<1>3. CASE \E type \in Mkdir..Symlink : Command(type) /\ UNCHANGED fs
  BY <1>2, <1>3, EndsWithNothing
<1>4. CASE Command(Symlink) /\ fs' = LinkHomeMade
  <2>1. IsTree(fs') /\ SameBut({LinkHome}) BY <1>4, LinkHomeIs DEF SameBut
  <2> QED BY <1>2, <1>4, <2>1, LinkEnds
<1>5. CASE /\ Command(Symlink) /\ Place(cmd.dest) \in DOMAIN fs /\ fs[Place(cmd.dest)].kind # "dir"
           /\ fs' = Without({Place(cmd.dest)})
  <2>1. PICK c : c = cmd.dest OBVIOUS
  <2>2. c # <<>> /\ Place(c) = c BY <1>5, <2>1, LinkHomeIs
  <2>3. IsTree(fs) BY <1>5, Begins
  <2>4. \A q \in DOMAIN fs : q # <<>> => Front(q) # c BY <1>5, <2>1, <2>2, <2>3, NothingIn
  <2>5. IsTree(fs')
    <3>1. PICK t : t = fs OBVIOUS
    <3>2. IsTree([q \in DOMAIN t \ {c} |-> t[q]]) BY <2>2, <2>3, <2>4, <3>1, TakenIsTree
    <3> QED BY <1>5, <2>1, <2>2, <3>1, <3>2 DEF Without
  <2>6. SameBut({c}) BY <1>5, <2>1, <2>2 DEF SameBut, Without
  <2> QED BY <1>2, <1>5, <2>1, <2>5, <2>6, LinkEnds
<1> QED BY <1>3, <1>4, <1>5 DEF DeniedCommand

\* The outermost call is back: all that is to be answered has been done.
LEMMA FinishKeeps == ASSUME BackendInv, Finish PROVE BackendInv'
<1>1. /\ outcome = "none" /\ stack = <<>> /\ ret # "none"
      /\ outcome' = (IF ret = "ok" THEN "success" ELSE Failure)
      /\ fs' = fs /\ UNCHANGED <<cmd, stack, ret, try, before, unseen>>
  BY DEF Finish
<1>2. TypeOK /\ WalkInv /\ DoneWhenOk BY DEF BackendInv
<1>3. cmd.type \in {Delete, Move, Copy} BY <1>1, <1>2 DEF WalkInv
<1>4. SymlinkDone' /\ MkdirNumbers'
  BY <1>1, <1>3 DEF SymlinkDone, MkdirNumbers, Succeeded, Delete, Mkdir, Move, Copy, Symlink
<1>5. IsTree(fs') /\ OthersUntouched' /\ MoveLosesNothing' /\ CopyLeavesSource'
  BY <1>1, NothingChanged
<1>6. outcome' \in {"success", "failed", "silent"} BY <1>1 DEF Failure
<1>7. ASSUME outcome' = "success" PROVE ret = "ok" BY <1>1, <1>7 DEF Failure
<1>8. ASSUME ret = "ok"
      PROVE  /\ cmd.type = Delete => cmd.src \notin DOMAIN fs
             /\ cmd.type = Move => cmd.src = cmd.dest \/ cmd.src \notin DOMAIN fs
             /\ cmd.type \in {Move, Copy} => \A p \in Files : Whole(p)
  BY <1>1, <1>2, <1>8 DEF DoneWhenOk
<1>9. \A p \in Files : Whole(p)' <=> Whole(p) BY <1>1 DEF Whole, ModeSet, Holds, HasData, AtDest
<1>10. ASSUME ret = "ok" PROVE MoveDone'
  <2>1. SUFFICES ASSUME cmd.type = Move
                 PROVE  /\ cmd.src # cmd.dest => cmd.src \notin DOMAIN fs
                        /\ \A p \in SourceEntries :
                              before[p].kind # "dir" /\ ReadWhole(p) =>
                                  /\ AtDest(p) \in DOMAIN fs
                                  /\ fs[AtDest(p)].kind = before[p].kind
                                  /\ fs[AtDest(p)].data = before[p].data
    BY <1>1, <1>3 DEF MoveDone, Succeeded, SourceEntries, ReadWhole, AtDest, Delete, Rename, Move, Copy
  <2>2. ASSUME NEW p \in SourceEntries, before[p].kind # "dir", ReadWhole(p)
        PROVE  /\ AtDest(p) \in DOMAIN fs
               /\ fs[AtDest(p)].kind = before[p].kind /\ fs[AtDest(p)].data = before[p].data
    <3>1. IsTree(before) /\ Apart(before, cmd) BY <1>2, Given
    <3>2. p \in DOMAIN before /\ IsPrefix(cmd.src, p) BY DEF SourceEntries
    <3>3. before[p].kind # "link" BY <2>1, <3>1, <3>2 DEF Apart, NoLinks, Below
    <3>4. before[p].kind = "file" BY <2>2, <3>1, <3>2, <3>3 DEF IsTree, IsNode
    <3>5. Whole(p) BY <1>8, <1>10, <2>1, <2>2, <3>4 DEF Files
    <3> QED BY <2>1, <3>4, <3>5 DEF Whole, HasData, Move, Copy
  <2> QED BY <1>8, <1>10, <2>1, <2>2
<1> QED BY <1>1, <1>4, <1>5, <1>6, <1>7, <1>8, <1>9, <1>10, EndKeeps

-----------------------------------------------------------------------------
(* All commands *)

\* A command that has been received has done nothing yet.
LEMMA InitIsSafe == ASSUME Init PROVE BackendInv
<1>1. PICK c \in Cases : fs = c[1] /\ cmd = c[2] BY DEF Init
<1>2. stack = <<>> /\ ret = "none" /\ outcome = "none" /\ before = fs
      /\ try = [digit |-> 0, count |-> 0] /\ unseen = {}
  BY DEF Init
<1>3. c = <<c[1], c[2]>> /\ IsTree(c[1]) BY CasesAssumption
<1>4. TypeOK
  <2>1. stack \in Seq(Frames) /\ DOMAIN stack = {} BY <1>2
  <2>2. <<before, cmd>> \in Cases BY <1>1, <1>2, <1>3
  <2> QED BY <1>1, <1>2, <1>3, <2>1, <2>2 DEF TypeOK
<1>5. NotBegun /\ LinksAreOld BY <1>2 DEF NotBegun, LinksAreOld
<1>6. WalkInv BY <1>2 DEF WalkInv
<1>7. DoneWhenOk BY <1>2 DEF DoneWhenOk
<1>8. OthersUntouched BY <1>2 DEF OthersUntouched, Holds
<1>9. MoveLosesNothing BY <1>2 DEF MoveLosesNothing, SourceEntries, HasData
<1>10. CopyLeavesSource BY <1>2 DEF CopyLeavesSource, SourceEntries, Holds
<1>11. MkdirRounds /\ MkdirNumbers /\ SymlinkDone
  BY <1>2 DEF MkdirRounds, MkdirNumbers, SymlinkDone, Succeeded
<1> QED BY <1>4, <1>5, <1>6, <1>7, <1>8, <1>9, <1>10, <1>11 DEF BackendInv

\* Nothing is different when nothing happens.
LEMMA StutterKeeps == ASSUME BackendInv, UNCHANGED vars PROVE BackendInv'
<1>1. /\ fs' = fs /\ cmd' = cmd /\ stack' = stack /\ ret' = ret /\ outcome' = outcome /\ before' = before
      /\ try' = try /\ unseen' = unseen
  BY DEF vars
<1>2. /\ TypeOK /\ NotBegun /\ LinksAreOld /\ WalkInv /\ DoneWhenOk /\ SymlinkDone /\ MkdirNumbers
  BY DEF BackendInv
<1>3. SourceEntries' = SourceEntries /\ \A p : AtDest(p)' = AtDest(p) BY <1>1 DEF SourceEntries, AtDest
<1>4. Files' = Files BY <1>1, <1>3 DEF Files, ReadWhole
<1>5. \A p : /\ Kept(p)' <=> Kept(p)
             /\ Whole(p)' <=> Whole(p)
             /\ HasData(AtDest(p), before[p].data)' <=> HasData(AtDest(p), before[p].data)
  BY <1>1, <1>3 DEF Kept, Whole, ModeSet, Holds, HasData
<1>6. TypeOK' /\ NotBegun' /\ LinksAreOld' /\ SymlinkDone'
  BY <1>1, <1>2 DEF TypeOK, NotBegun, LinksAreOld, SymlinkDone, Succeeded
<1>7. \A i : FrameFits(i)' <=> FrameFits(i) BY <1>1, <1>3 DEF FrameFits, IsFile
<1>8. \A i, p : Progress(i, p)' <=> Progress(i, p) BY <1>1, <1>5 DEF Progress
<1>9. WalkInv' BY <1>1, <1>2, <1>4, <1>7, <1>8 DEF WalkInv, Top
<1>10. MoveDone' <=> MoveDone BY <1>1, <1>3 DEF MoveDone, Succeeded, ReadWhole
<1>11. DoneWhenOk' BY <1>1, <1>2, <1>4, <1>5, <1>10 DEF DoneWhenOk
<1>12. MkdirNumbers'
  <2>1. \A k : Digit(k)' = Digit(k) BY <1>1 DEF Digit
  <2> QED BY <1>1, <1>2, <2>1 DEF MkdirNumbers
<1> QED BY <1>1, <1>6, <1>9, <1>11, <1>12, NothingChanged DEF BackendInv

\* Every step of every command keeps the invariant.
LEMMA NextKeeps == ASSUME BackendInv, [Next]_vars PROVE BackendInv'
<1>1. CASE UNCHANGED vars BY <1>1, StutterKeeps
<1>2. CASE Removing BY <1>2, StartDeleteKeeps, RemoveEntryKeeps, RemoveTreeKeeps DEF Removing
<1>3. CASE Transferring
  BY <1>3, StartMoveKeeps, StartCopyKeeps, EnterMissingKeeps, EnterFileKeeps, EnterDirectoryKeeps,
     DescendKeeps, LeaveDirectoryKeeps, RenameFileKeeps, OpenFilesKeeps, CopyDataKeeps, WriteFailsKeeps,
     UnlinkSourceKeeps, CopyModeKeeps, StopReadingKeeps, CopyShortKeeps, CopyKeepsModeKeeps
     DEF Transferring
<1>4. CASE StartRename BY <1>4, StartRenameKeeps
<1>5. CASE MkdirAttempt \/ MkdirGivesUp BY <1>5, MkdirAttemptKeeps, MkdirGivesUpKeeps
<1>6. CASE StartChmod BY <1>6, StartChmodKeeps
<1>7. CASE StartSymlink BY <1>7, StartSymlinkKeeps
<1>8. CASE DeniedCommand BY <1>8, DeniedCommandKeeps
<1>9. CASE Finish BY <1>9, FinishKeeps
<1>10. CASE Resume BY <1>10, ResumeKeeps
<1>11. CASE Denied BY <1>11, DeniedKeeps
<1> QED BY <1>1, <1>2, <1>3, <1>4, <1>5, <1>6, <1>7, <1>8, <1>9, <1>10, <1>11 DEF Next

\* Everything below holds at every moment of every command.
THEOREM CommandsAreSafe == Spec => []BackendInv
<1>1. Init => BackendInv BY InitIsSafe
<1>2. BackendInv /\ [Next]_vars => BackendInv' BY NextKeeps
<1> QED BY <1>1, <1>2, PTL DEF Spec

\* Every entry is in a directory, and only a command that runs has active calls.
THEOREM FilesAreTree == Spec => []TypeOK
<1>1. BackendInv => TypeOK BY DEF BackendInv
<1> QED BY <1>1, CommandsAreSafe, PTL

\* At every moment of a move, whatever call fails, the data of each file is in its
\* old place or in its new one (backend.c:80-154), unless a read of it, or of a
\* directory it is in, has failed without the code looking (99, 139, 148-149).
THEOREM MovesLoseNothing == Spec => []MoveLosesNothing
<1>1. BackendInv => MoveLosesNothing BY DEF BackendInv
<1> QED BY <1>1, CommandsAreSafe, PTL

\* A copy does not change what is copied (backend.c:157-223).
THEOREM CopiesLeaveSource == Spec => []CopyLeavesSource
<1>1. BackendInv => CopyLeavesSource BY DEF BackendInv
<1> QED BY <1>1, CommandsAreSafe, PTL

\* What a command does not name it does not touch.
THEOREM CommandsTouchArguments == Spec => []OthersUntouched
<1>1. BackendInv => OthersUntouched BY DEF BackendInv
<1> QED BY <1>1, CommandsAreSafe, PTL

\* What is answered with "success" has been done as a whole (backend.c:292, 329,
\* 346-352, 196, 409-438), but for what a read that failed unseen has missed, and
\* the mode of a copy whose chmod failed (189).
THEOREM SuccessIsDone == Spec => []SuccessMeansDone
<1>1. ASSUME BackendInv PROVE SuccessMeansDone
  <2>1. DoneWhenOk /\ TypeOK BY <1>1 DEF BackendInv
  <2>2. DeleteDone BY <2>1 DEF DoneWhenOk, DeleteDone, Succeeded
  <2>3. MoveDone BY <2>1 DEF DoneWhenOk, MoveDone, Succeeded
  <2>4. CopyDone
    <3>1. SUFFICES ASSUME Succeeded(Copy), NEW p \in SourceEntries, before[p].kind = "file", ReadWhole(p)
                   PROVE  IF ModeSet(p) THEN Holds(fs, AtDest(p), before[p])
                          ELSE HasData(AtDest(p), before[p].data)
      BY DEF CopyDone
    <3>2. p \in Files BY <3>1 DEF Files
    <3>3. Whole(p) BY <2>1, <3>1, <3>2 DEF DoneWhenOk, Succeeded
    <3> QED BY <3>1, <3>3 DEF Whole, Succeeded
  <2>5. SymlinkDone BY <1>1 DEF BackendInv
  <2> QED BY <2>2, <2>3, <2>4, <2>5 DEF SuccessMeansDone
<1> QED BY <1>1, CommandsAreSafe, PTL

\* The loop of mkdir makes one folder, under the lowest digit that was free, when it
\* says so and only then (backend.c:299-327): each round that finds its digit in use
\* leaves all digits up to the next one in use.
THEOREM MkdirIsNumbered == Spec => []MkdirNumbers
<1>1. BackendInv => MkdirNumbers BY DEF BackendInv
<1> QED BY <1>1, CommandsAreSafe, PTL

-----------------------------------------------------------------------------
(* A command comes nearer to its end *)

\* A stack without its top is past what it was.
LEMMA TailIsPast == ASSUME NEW S, NEW s \in Seq(S), s # <<>> PROVE Past(Tail(s), s)
<1>1. PICK n, t : n = Len(s) /\ t = Tail(s) OBVIOUS
<1>2. n \in 1..n /\ n \in Nat /\ Len(t) = n - 1 /\ \A i \in 1..(n - 1) : t[i] = s[i + 1]
  BY <1>1, StackShape
<1>3. ASSUME NEW i \in 1..(n - 1) PROVE Call(t, i) = Call(s, i)
  <2>1. n - i \in 1..(n - 1) /\ (n - i) + 1 = n + 1 - i /\ (n - 1) + 1 - i = n - i BY <1>2
  <2> QED BY <1>1, <1>2, <2>1 DEF Call
<1> QED BY <1>1, <1>2, <1>3 DEF Past

\* A stack whose top is further on is past what it was.
LEMMA PutIsPast ==
    ASSUME NEW S, NEW s \in Seq(S), s # <<>>, NEW g \in S, FurtherOn(g, Head(s)), NEW r, r = <<g>> \o Tail(s)
    PROVE  Past(r, s)
<1>1. PICK n : n = Len(s) OBVIOUS
<1>2. n \in 1..n /\ n \in Nat /\ Head(s) = s[1] BY <1>1, StackShape
<1>3. Len(r) = n /\ r[1] = g /\ \A i \in 2..n : r[i] = s[i] BY <1>1, TopPut
<1>4. ASSUME NEW i \in 1..(n - 1) PROVE Call(r, i) = Call(s, i)
  <2>1. n + 1 - i \in 2..n BY <1>2
  <2> QED BY <1>1, <1>3, <2>1 DEF Call
<1>5. FurtherOn(Call(r, n), Call(s, n))
  <2>1. n + 1 - n = 1 BY <1>2
  <2> QED BY <1>1, <1>2, <1>3, <2>1 DEF Call
<1>6. Len(r) >= n - 1 BY <1>2, <1>3
<1> HIDE DEF Call, FurtherOn
<1> QED BY <1>1, <1>2, <1>4, <1>5, <1>6 DEF Past

\* So is one whose top is further on and has made a call.
LEMMA PushedIsPast ==
    ASSUME NEW S, NEW s \in Seq(S), s # <<>>, NEW f \in S, NEW g \in S, FurtherOn(g, Head(s)),
           NEW r, r = <<f, g>> \o Tail(s)
    PROVE  Past(r, s)
<1>1. PICK n : n = Len(s) OBVIOUS
<1>2. n \in 1..n /\ n \in Nat /\ Head(s) = s[1] BY <1>1, StackShape
<1>3. Len(r) = n + 1 /\ r[2] = g /\ \A i \in 3..(n + 1) : r[i] = s[i - 1] BY <1>1, TopPushed
<1>4. ASSUME NEW i \in 1..(n - 1) PROVE Call(r, i) = Call(s, i)
  <2>1. (n + 1) + 1 - i \in 3..(n + 1) /\ ((n + 1) + 1 - i) - 1 = n + 1 - i BY <1>2
  <2> QED BY <1>1, <1>3, <2>1 DEF Call
<1>5. FurtherOn(Call(r, n), Call(s, n))
  <2>1. n + 1 - n = 1 /\ (n + 1) + 1 - n = 2 BY <1>2
  <2> QED BY <1>1, <1>2, <1>3, <2>1 DEF Call
<1>6. Len(r) >= n - 1 BY <1>2, <1>3
<1> HIDE DEF Call, FurtherOn
<1> QED BY <1>1, <1>2, <1>4, <1>5, <1>6 DEF Past

\* What a command works on has a name, and every call a path.
LEMMA Depths ==
    ASSUME BackendInv
    PROVE  /\ Len(cmd.src) \in Nat \ {0}
           /\ stack \in Seq(Frames)
<1>1. TypeOK BY DEF BackendInv
<1>2. cmd.src \in Seq(Names) /\ cmd.src # <<>> BY <1>1, Given DEF Path
<1>3. Len(cmd.src) \in Nat /\ Len(cmd.src) # 0 BY <1>2, EmptySeq
<1> QED BY <1>1, <1>3 DEF TypeOK

\* The calls below the top are as deep as they were.
LEMMA TailIsDeep ==
    ASSUME NEW s \in Seq(Frames), s # <<>>, NEW n \in Nat, EachDeeper(s, n)
    PROVE  EachDeeper(Tail(s), n)
<1>1. PICK m, t : m = Len(s) /\ t = Tail(s) OBVIOUS
<1>2. m \in Nat /\ Len(t) = m - 1 /\ (\A i \in 1..(m - 1) : t[i] = s[i + 1]) /\ DOMAIN s = 1..m
  BY <1>1, StackShape
<1>3. ASSUME NEW i \in 1..(m - 1)
      PROVE  /\ Len(t[i].src) + i = n + (m - 1)
             /\ t[i].at = "loop" => Len(t[i].src) <= PathMax
  <2>1. i + 1 \in 1..m BY <1>2
  <2>2. s[i + 1] \in Frames BY <1>2, <2>1, ElementOfSeq
  <2>3. s[i + 1].src \in Seq(Names) BY <2>2 DEF Frames, Path
  <2>4. Len(s[i + 1].src) \in Nat BY <2>3
  <2>5. /\ Len(s[i + 1].src) + (i + 1) = n + m
        /\ s[i + 1].at = "loop" => Len(s[i + 1].src) <= PathMax
    BY <1>1, <2>1 DEF EachDeeper
  <2>6. t[i] = s[i + 1] BY <1>2
  <2>7. \A k \in Nat : k + (i + 1) = n + m => k + i = n + (m - 1) BY <1>2
  <2> QED BY <2>4, <2>5, <2>6, <2>7
<1> QED BY <1>1, <1>2, <1>3 DEF EachDeeper

\* A top that goes on is as deep as it was.
LEMMA PutIsDeep ==
    ASSUME NEW s \in Seq(Frames), s # <<>>, NEW n \in Nat, EachDeeper(s, n),
           NEW g \in Frames, g.src = Head(s).src, g.at = "loop" => Len(g.src) <= PathMax,
           NEW r, r = <<g>> \o Tail(s)
    PROVE  EachDeeper(r, n)
<1>1. PICK m : m = Len(s) OBVIOUS
<1>2. m \in Nat /\ 1 \in 1..m /\ Head(s) = s[1] BY <1>1, StackShape
<1>3. Len(r) = m /\ r[1] = g /\ \A i \in 2..m : r[i] = s[i] BY <1>1, TopPut
<1>4. ASSUME NEW i \in 1..m
      PROVE  /\ Len(r[i].src) + i = n + m
             /\ r[i].at = "loop" => Len(r[i].src) <= PathMax
  <2>1. Len(s[i].src) + i = n + m /\ (s[i].at = "loop" => Len(s[i].src) <= PathMax)
    BY <1>1 DEF EachDeeper
  <2>2. CASE i = 1 BY <1>2, <1>3, <2>1, <2>2
  <2>3. CASE i # 1
    <3>1. i \in 2..m BY <1>2, <2>3
    <3> QED BY <1>3, <2>1, <3>1
  <2> QED BY <2>2, <2>3
<1> QED BY <1>3, <1>4 DEF EachDeeper

\* A call for an entry is one name deeper.
LEMMA PushedIsDeep ==
    ASSUME NEW s \in Seq(Frames), s # <<>>, NEW n \in Nat, EachDeeper(s, n),
           NEW f \in Frames, NEW g \in Frames, f.at = "enter", Len(f.src) = Len(g.src) + 1,
           g.src = Head(s).src, g.at = Head(s).at,
           NEW r, r = <<f, g>> \o Tail(s)
    PROVE  EachDeeper(r, n)
<1>1. PICK m : m = Len(s) OBVIOUS
<1>2. m \in Nat /\ 1 \in 1..m /\ Head(s) = s[1] BY <1>1, StackShape
<1>3. Len(r) = m + 1 /\ r[1] = f /\ r[2] = g /\ \A i \in 3..(m + 1) : r[i] = s[i - 1]
  BY <1>1, TopPushed
<1>4. \A i \in 1..m : /\ Len(s[i].src) + i = n + m
                      /\ s[i].at = "loop" => Len(s[i].src) <= PathMax
  BY <1>1 DEF EachDeeper
<1>5. \A i \in 1..m : Len(s[i].src) \in Nat
  <2> TAKE i \in 1..m
  <2>1. s[i] \in Frames BY <1>1, ElementOfSeq
  <2>2. s[i].src \in Seq(Names) BY <2>1 DEF Frames, Path
  <2> QED BY <2>2
<1>6. \A k \in Nat : /\ k + 1 = n + m => k + 2 = n + (m + 1) /\ (k + 1) + 1 = n + (m + 1)
                     /\ \A i \in 3..(m + 1) : k + (i - 1) = n + m => k + i = n + (m + 1)
  BY <1>2
<1>7. ASSUME NEW i \in 1..(m + 1)
      PROVE  /\ Len(r[i].src) + i = n + (m + 1)
             /\ r[i].at = "loop" => Len(r[i].src) <= PathMax
  <2>1. CASE i = 1
    <3>1. Len(g.src) + 1 = n + m /\ Len(g.src) \in Nat BY <1>2, <1>4, <1>5
    <3>2. Len(f.src) + 1 = n + (m + 1) BY <1>6, <3>1
    <3> QED BY <1>3, <2>1, <3>2
  <2>2. CASE i = 2
    <3>1. Len(g.src) + 1 = n + m /\ Len(g.src) \in Nat BY <1>2, <1>4, <1>5
    <3>2. Len(g.src) + 2 = n + (m + 1) BY <1>6, <3>1
    <3>3. g.at = "loop" => Len(g.src) <= PathMax BY <1>2, <1>4
    <3> QED BY <1>3, <2>2, <3>2, <3>3
  <2>3. CASE i \in 3..(m + 1)
    <3>1. i - 1 \in 1..m BY <1>2, <2>3
    <3>2. Len(s[i - 1].src) + (i - 1) = n + m /\ Len(s[i - 1].src) \in Nat
      BY <1>4, <1>5, <3>1
    <3>3. Len(s[i - 1].src) + i = n + (m + 1) BY <1>6, <2>3, <3>2
    <3> QED BY <1>3, <1>4, <2>3, <3>1, <3>3
  <2>4. i = 1 \/ i = 2 \/ i \in 3..(m + 1) BY <1>2
  <2> QED BY <2>1, <2>2, <2>3, <2>4, Zenon
<1> QED BY <1>3, <1>7 DEF EachDeeper

\* The recursion is not deeper than a path is long.
LEMMA DepthIsBounded ==
    ASSUME NEW s \in Seq(Frames), NEW n \in Nat \ {0}, EachDeeper(s, n),
           \A i \in DOMAIN s : i > 1 => s[i].at = "loop"
    PROVE  Len(s) <= PathMax + 1
<1>1. Len(s) \in Nat /\ DOMAIN s = 1..Len(s) OBVIOUS
<1>2. CASE Len(s) <= 1 BY <1>1, <1>2, PathMaxAssumption
<1>3. CASE Len(s) > 1
  <2>1. 2 \in 1..Len(s) BY <1>1, <1>3
  <2>2. s[2] \in Frames BY <2>1, ElementOfSeq
  <2>3. s[2].src \in Seq(Names) BY <2>2 DEF Frames, Path
  <2>4. Len(s[2].src) \in Nat BY <2>3
  <2>5. Len(s[2].src) + 2 = n + Len(s) /\ Len(s[2].src) <= PathMax
    BY <1>1, <2>1 DEF EachDeeper
  <2> QED BY <1>1, <2>4, <2>5, PathMaxAssumption
<1> QED BY <1>1, <1>2, <1>3

\* The innermost call returns.
LEMMA ReturnAdvances ==
    ASSUME BackendInv, DepthInv, stack # <<>>, outcome = "none",
           stack' = Tail(stack), ret' # "none", UNCHANGED cmd, UNCHANGED outcome, UNCHANGED try
    PROVE  DepthInv' /\ Advances
<1>1. PICK s, n : s = stack /\ n = Len(cmd.src) OBVIOUS
<1>2. s \in Seq(Frames) /\ s # <<>> /\ n \in Nat BY <1>1, Depths
<1>3. EachDeeper(Tail(s), n) BY <1>1, <1>2, TailIsDeep DEF DepthInv
<1>4. Past(Tail(s), s) BY <1>2, TailIsPast
<1>5. DepthInv' BY <1>1, <1>3 DEF DepthInv
<1>6. Begun' BY DEF Begun
<1> QED BY <1>1, <1>4, <1>5, <1>6 DEF Advances

\* The innermost call goes on.
LEMMA GoesOnAdvances ==
    ASSUME BackendInv, DepthInv, stack # <<>>, outcome = "none", NEW g \in Frames,
           stack' = <<g>> \o Tail(stack), g.src = Top.src, FurtherOn(g, Top),
           g.at = "loop" => Len(g.src) <= PathMax, UNCHANGED cmd, UNCHANGED outcome, UNCHANGED try
    PROVE  DepthInv' /\ Advances
<1>1. PICK s, n, r : s = stack /\ n = Len(cmd.src) /\ r = <<g>> \o Tail(s) OBVIOUS
<1>2. s \in Seq(Frames) /\ s # <<>> /\ n \in Nat BY <1>1, Depths
<1>3. Head(s).src = g.src /\ FurtherOn(g, Head(s)) /\ EachDeeper(s, n) BY <1>1 DEF Top, DepthInv
<1>4. EachDeeper(r, n) BY <1>1, <1>2, <1>3, PutIsDeep
<1>5. Past(r, s) BY <1>1, <1>2, <1>3, PutIsPast
<1>6. r # <<>>
  <2>1. Len(r) = Len(s) /\ 1 \in 1..Len(s) BY <1>1, <1>2, TopPut, StackShape
  <2> QED BY <2>1
<1>7. DepthInv' BY <1>1, <1>4 DEF DepthInv
<1>8. Begun' BY <1>1, <1>6 DEF Begun
<1> QED BY <1>1, <1>5, <1>7, <1>8 DEF Advances

\* A directory is read on: the call for the entry is new, its entry is read.
LEMMA DescendAdvances == ASSUME BackendInv, DepthInv, Descend PROVE DepthInv' /\ Advances
<1>1. PICK n \in Top.left :
          stack' = <<Frame(Top.fn, Append(Top.src, n), Append(Top.dest, n)), [Top EXCEPT !.left = @ \ {n}]>>
                   \o Tail(stack)
  BY DescendsTo
<1>2. /\ outcome = "none" /\ stack # <<>> /\ Top.fn \in {"move", "copy"} /\ Top.at = "loop"
      /\ UNCHANGED cmd /\ UNCHANGED outcome /\ UNCHANGED try
  BY DEF Descend, Running, Transfer
<1>3. Top \in Frames BY <1>2, TopIs
<1>4. PICK f, g : /\ f = Frame(Top.fn, Append(Top.src, n), Append(Top.dest, n))
                  /\ g = [Top EXCEPT !.left = @ \ {n}]
  OBVIOUS
<1>5. n \in Names /\ Top.src \in Seq(Names) /\ Top.dest \in Seq(Names) BY <1>1, <1>3 DEF Frames, Path
<1>6. /\ f \in Frames /\ f.at = "enter" /\ f.src = Append(Top.src, n)
  BY <1>2, <1>4, <1>5 DEF Frames, Frame, Modes, Path
<1>7. /\ g \in Frames /\ g.src = Top.src /\ g.at = Top.at /\ g.fn = Top.fn
      /\ g.left \subseteq Top.left /\ g.left # Top.left
  BY <1>1, <1>3, <1>4 DEF Frames
<1>8. FurtherOn(g, Top)
  <2>1. Stages(g) = Stages(Top) BY <1>7 DEF Stages
  <2> QED BY <1>7, <2>1 DEF FurtherOn
<1>9. Len(f.src) = Len(g.src) + 1 BY <1>5, <1>6, <1>7
<1>10. PICK s, m, r : s = stack /\ m = Len(cmd.src) /\ r = <<f, g>> \o Tail(s) OBVIOUS
<1>11. s \in Seq(Frames) /\ s # <<>> /\ m \in Nat BY <1>2, <1>10, Depths
<1>12. /\ EachDeeper(s, m) /\ g.src = Head(s).src /\ g.at = Head(s).at /\ FurtherOn(g, Head(s))
  BY <1>7, <1>8, <1>10 DEF DepthInv, Top
<1>13. EachDeeper(r, m) BY <1>6, <1>7, <1>9, <1>10, <1>11, <1>12, PushedIsDeep
<1>14. Past(r, s) BY <1>6, <1>7, <1>10, <1>11, <1>12, PushedIsPast
<1>15. r # <<>>
  <2>1. Len(r) = Len(s) + 1 /\ Len(s) \in Nat BY <1>6, <1>7, <1>10, <1>11, TopPushed, StackShape
  <2> QED BY <2>1
<1>16. stack' = r BY <1>1, <1>4, <1>10
<1>17. DepthInv' BY <1>2, <1>10, <1>13, <1>16 DEF DepthInv
<1>18. Begun' BY <1>15, <1>16 DEF Begun
<1> QED BY <1>2, <1>10, <1>14, <1>16, <1>17, <1>18 DEF Advances

\* The calls that fail, or come to their end.
LEMMA ReturnsAdvance ==
    ASSUME BackendInv, DepthInv,
           \/ Denied \/ EnterMissing \/ RenameFile \/ WriteFails \/ UnlinkSource \/ CopyMode
           \/ CopyKeepsMode
    PROVE  DepthInv' /\ Advances
<1>1. /\ outcome = "none" /\ stack # <<>> /\ stack' = Tail(stack) /\ ret' # "none"
      /\ UNCHANGED cmd /\ UNCHANGED outcome /\ UNCHANGED try
  BY DEF Denied, EnterMissing, RenameFile, WriteFails, UnlinkSource, CopyMode, CopyKeepsMode, Running, Returns
<1> QED BY <1>1, ReturnAdvances

\* A file is found, opened, copied.
LEMMA FileAdvances ==
    ASSUME BackendInv, DepthInv, EnterFile \/ OpenFiles \/ CopyData \/ CopyShort
    PROVE  DepthInv' /\ Advances
<1>1. /\ outcome = "none" /\ stack # <<>> /\ Top.fn \in {"move", "copy"}
      /\ UNCHANGED cmd /\ UNCHANGED outcome /\ UNCHANGED try
  BY DEF EnterFile, OpenFiles, CopyData, CopyShort, Running, Transfer
<1>2. Top \in Frames BY <1>1, TopIs
<1>3. CASE EnterFile
  <2>1. PICK mode : mode = fs[Target(Top.src)].mode OBVIOUS
  <2>2. /\ Top.at = "enter" /\ Target(Top.src) \in DOMAIN fs
        /\ stack' = <<[Top EXCEPT !.at = "file", !.mode = mode]>> \o Tail(stack)
    BY <1>3, <2>1 DEF EnterFile, Running, Found
  <2>3. mode \in Modes
    <3>1. IsTree(fs) BY DEF BackendInv, TypeOK
    <3> QED BY <2>1, <2>2, <3>1 DEF IsTree, IsNode
  <2>4. PICK g : g = [Top EXCEPT !.at = "file", !.mode = mode] OBVIOUS
  <2>5. g \in Frames /\ g.src = Top.src /\ g.at = "file" /\ g.fn = Top.fn BY <1>2, <2>3, <2>4 DEF Frames
  <2>6. FurtherOn(g, Top) BY <1>1, <2>2, <2>5 DEF FurtherOn, Stages
  <2> QED BY <1>1, <2>2, <2>4, <2>5, <2>6, GoesOnAdvances
<1>4. CASE OpenFiles \/ CopyData \/ CopyShort
  <2>1. CASE Returns("err")
    <3>1. stack' = Tail(stack) /\ ret' # "none" BY <2>1 DEF Returns
    <3> QED BY <1>1, <3>1, ReturnAdvances
  <2>2. CASE ~Returns("err")
    <3>1. PICK at \in {"open", "full"} :
             /\ stack' = <<[Top EXCEPT !.at = at]>> \o Tail(stack)
             /\ (at = "open" /\ Top.at = "file") \/ (at = "full" /\ Top.at = "open")
      BY <1>4, <2>2 DEF OpenFiles, CopyData, CopyShort, Running, Goes
    <3>2. PICK g : g = [Top EXCEPT !.at = at] OBVIOUS
    <3>3. g \in Frames /\ g.src = Top.src /\ g.at = at /\ g.fn = Top.fn BY <1>2, <3>1, <3>2 DEF Frames
    <3>4. FurtherOn(g, Top) BY <1>1, <3>1, <3>3 DEF FurtherOn, Stages
    <3> QED BY <1>1, <3>1, <3>2, <3>3, <3>4, GoesOnAdvances
  <2> QED BY <2>1, <2>2
<1> QED BY <1>3, <1>4

\* A directory is found: its path fits.
LEMMA EnterDirectoryAdvances ==
    ASSUME BackendInv, DepthInv, EnterDirectory PROVE DepthInv' /\ Advances
<1>1. PICK left : stack' = <<[Top EXCEPT !.at = "loop", !.left = left]>> \o Tail(stack)
  BY DEF EnterDirectory
<1>2. /\ outcome = "none" /\ stack # <<>> /\ Top.fn \in {"move", "copy"} /\ Top.at = "enter"
      /\ Len(Top.src) <= PathMax /\ UNCHANGED cmd /\ UNCHANGED outcome /\ UNCHANGED try
  BY DEF EnterDirectory, Running, Transfer, IsDir, Found
<1>3. PICK g : g = [Top EXCEPT !.at = "loop", !.left = left] OBVIOUS
<1>4. Top \in Frames /\ stack \in Seq(Frames) BY <1>2, TopIs, Depths
<1>5. g.src = Top.src /\ g.at = "loop" /\ g.fn = Top.fn BY <1>3, <1>4 DEF Frames
<1>6. g \in Frames
  <2>1. stack' \in Seq(Frames)
    <3>1. BackendInv' BY EnterDirectoryKeeps
    <3> QED BY <3>1 DEF BackendInv, TypeOK
  <2>2. PICK t : t = Tail(stack) OBVIOUS
  <2>3. t \in Seq(Frames) BY <1>2, <1>4, <2>2, StackShape
  <2>4. PICK r : r = <<g>> \o t OBVIOUS
  <2>5. r \in Seq(Frames) BY <1>1, <1>3, <2>1, <2>2, <2>4
  <2>6. Len(r) = 1 + Len(t) /\ r[1] = g /\ Len(t) \in Nat BY <2>3, <2>4
  <2>7. 1 \in 1..Len(r) BY <2>6
  <2> QED BY <2>5, <2>6, <2>7, ElementOfSeq
<1>7. FurtherOn(g, Top) BY <1>2, <1>5 DEF FurtherOn, Stages
<1> QED BY <1>1, <1>2, <1>3, <1>5, <1>6, <1>7, GoesOnAdvances

\* The rest of a directory is passed over.
LEMMA StopReadingAdvances ==
    ASSUME BackendInv, DepthInv, StopReading PROVE DepthInv' /\ Advances
<1>1. PICK g : g = [Top EXCEPT !.left = {}] OBVIOUS
<1>2. /\ outcome = "none" /\ stack # <<>> /\ Top.fn \in {"move", "copy"} /\ Top.at = "loop" /\ Top.left # {}
      /\ UNCHANGED cmd /\ UNCHANGED outcome /\ UNCHANGED try
      /\ stack' = <<g>> \o Tail(stack)
  BY <1>1 DEF StopReading, Running, Transfer
<1>3. Top \in Frames BY <1>2, TopIs
<1>4. /\ g \in Frames /\ g.src = Top.src /\ g.at = Top.at /\ g.fn = Top.fn /\ g.left = {}
  BY <1>1, <1>3 DEF Frames
<1>5. FurtherOn(g, Top)
  <2>1. Stages(g) = Stages(Top) BY <1>4 DEF Stages
  <2> QED BY <1>2, <1>4, <2>1 DEF FurtherOn
<1>6. Len(g.src) <= PathMax
  <2>1. PICK s : s = stack OBVIOUS
  <2>2. s \in Seq(Frames) /\ s # <<>> BY <1>2, <2>1, Depths
  <2>3. 1 \in 1..Len(s) /\ s[1] = Top BY <2>1, <2>2, StackShape DEF Top
  <2> QED BY <1>2, <1>4, <2>1, <2>3 DEF DepthInv, EachDeeper
<1> QED BY <1>2, <1>4, <1>5, <1>6, GoesOnAdvances

\* A directory has been read: the call returns, or goes on to the removal.
LEMMA LeaveDirectoryAdvances ==
    ASSUME BackendInv, DepthInv, LeaveDirectory PROVE DepthInv' /\ Advances
<1>1. /\ outcome = "none" /\ stack # <<>> /\ Top.fn \in {"move", "copy"} /\ Top.at = "loop"
      /\ UNCHANGED cmd /\ UNCHANGED outcome /\ UNCHANGED try
      /\ IF Top.fn = "copy" THEN stack' = Tail(stack) /\ ret' = "ok"
         ELSE stack' = <<Frame("remove", Top.src, <<>>)>> \o Tail(stack)
  BY DEF LeaveDirectory, Running, Transfer, Returns
<1>2. CASE Top.fn = "copy" BY <1>1, <1>2, ReturnAdvances
<1>3. CASE Top.fn # "copy"
  <2>1. PICK g : g = Frame("remove", Top.src, <<>>) OBVIOUS
  <2>2. Top.src \in Path BY <1>1, TopIs
  <2>3. g \in Frames /\ g.fn = "remove" /\ g.at = "enter" /\ g.src = Top.src
    BY <2>1, <2>2 DEF Frames, Frame, Modes, Path
  <2>4. FurtherOn(g, Top)
    <3>1. Stages(g) = 2 BY <2>3 DEF Stages
    <3>2. Stages(Top) = 4 BY <1>1 DEF Stages
    <3> QED BY <3>1, <3>2 DEF FurtherOn
  <2> QED BY <1>1, <1>3, <2>1, <2>3, <2>4, GoesOnAdvances
<1> QED BY <1>2, <1>3

\* A removal returns, turns to the tree, or takes an entry away.
LEMMA RemovalAdvances ==
    ASSUME BackendInv, DepthInv, RemoveEntry \/ RemoveTree PROVE DepthInv' /\ Advances
<1>1. /\ outcome = "none" /\ ret = "none" /\ stack # <<>> /\ Top.fn = "remove"
      /\ UNCHANGED cmd /\ UNCHANGED outcome /\ UNCHANGED try
  BY DEF RemoveEntry, RemoveTree, Running
<1>2. CASE stack' = Tail(stack) /\ ret' # "none" BY <1>1, <1>2, ReturnAdvances
<1>3. CASE RemoveEntry /\ ~(stack' = Tail(stack) /\ ret' # "none")
  <2>1. Top.at = "enter" /\ stack' = <<[Top EXCEPT !.at = "tree"]>> \o Tail(stack)
    BY <1>3 DEF RemoveEntry, Running, Returns, Goes
  <2>2. PICK g : g = [Top EXCEPT !.at = "tree"] OBVIOUS
  <2>3. Top \in Frames BY <1>1, TopIs
  <2>4. g \in Frames /\ g.src = Top.src /\ g.at = "tree" /\ g.fn = Top.fn BY <2>2, <2>3 DEF Frames
  <2>5. FurtherOn(g, Top) BY <1>1, <2>1, <2>4 DEF FurtherOn, Stages
  <2> QED BY <1>1, <2>1, <2>2, <2>4, <2>5, GoesOnAdvances
<1>4. CASE RemoveTree /\ ~(stack' = Tail(stack) /\ ret' # "none")
  <2>1. PICK r \in DOMAIN fs : fs' = Without({r}) /\ UNCHANGED <<stack, ret>>
    BY <1>4 DEF RemoveTree, Returns, Below
  <2>2. DOMAIN fs' = DOMAIN fs \ {r} BY <2>1 DEF Without
  <2>3. DepthInv' BY <1>1, <2>1 DEF DepthInv
  <2>4. Begun' BY <1>1, <2>1 DEF Begun
  <2> QED BY <1>1, <2>1, <2>2, <2>3, <2>4 DEF Advances
<1> QED BY <1>2, <1>3, <1>4

\* A result is taken, or passed on.
LEMMA ResumeAdvances == ASSUME BackendInv, DepthInv, Resume PROVE DepthInv' /\ Advances
<1>1. /\ outcome = "none" /\ stack # <<>> /\ ret # "none" /\ UNCHANGED cmd /\ UNCHANGED outcome /\ UNCHANGED try
      /\ \/ ret' = "none" /\ stack' = stack
         \/ stack' = Tail(stack) /\ ret' = "err"
  BY DEF Resume, Returns
<1>2. CASE ret' = "none" /\ stack' = stack
  <2>1. DepthInv' BY <1>1, <1>2 DEF DepthInv
  <2>2. Begun' BY <1>1, <1>2 DEF Begun
  <2> QED BY <1>1, <1>2, <2>1, <2>2 DEF Advances
<1>3. CASE stack' = Tail(stack) /\ ret' = "err" BY <1>1, <1>3, ReturnAdvances
<1> QED BY <1>1, <1>2, <1>3

\* A command begins with one call.
LEMMA CallAdvances ==
    ASSUME BackendInv, NEW type, Command(type), NEW fn, Calls(fn) PROVE DepthInv' /\ Advances
<1>1. /\ outcome = "none" /\ stack = <<>> /\ ret = "none" /\ UNCHANGED cmd /\ UNCHANGED outcome /\ UNCHANGED try
      /\ stack' = <<Frame(fn, cmd.src, cmd.dest)>>
  BY DEF Command, Calls
<1>2. PICK s, f, n : s = <<f>> /\ f = Frame(fn, cmd.src, cmd.dest) /\ n = Len(cmd.src) OBVIOUS
<1>3. f.src = cmd.src /\ f.at = "enter" BY <1>2 DEF Frame
<1>4. n \in Nat /\ Len(f.src) = n BY <1>2, <1>3, Depths
<1>5. Len(s) = 1 /\ s[1] = f /\ s # <<>> BY <1>2
<1>6. \A i \in 1..1 : i = 1 OBVIOUS
<1>7. EachDeeper(s, n) BY <1>3, <1>4, <1>5, <1>6 DEF EachDeeper
<1>8. stack' = s BY <1>1, <1>2
<1>9. DepthInv' BY <1>1, <1>2, <1>7, <1>8 DEF DepthInv
<1>10. Begun' /\ ~Begun BY <1>1, <1>5, <1>8 DEF Begun
<1> QED BY <1>1, <1>9, <1>10 DEF Advances

\* A command ends.
LEMMA EndAdvances ==
    ASSUME DepthInv, outcome = "none", outcome' # "none", UNCHANGED stack, UNCHANGED cmd
    PROVE  DepthInv' /\ Advances
BY DEF DepthInv, Advances

\* A round of mkdir's loop, or its end.
LEMMA MkdirAdvances ==
    ASSUME BackendInv, DepthInv, MkdirAttempt \/ MkdirGivesUp PROVE DepthInv' /\ Advances
<1>1. outcome = "none" BY DEF MkdirAttempt, MkdirGivesUp, Command
<1>2. CASE \E o : o # "none" /\ Ends(o)
  <2>1. outcome' # "none" /\ UNCHANGED stack /\ UNCHANGED cmd BY <1>2 DEF Ends
  <2> QED BY <1>1, <2>1, EndAdvances
<1>3. CASE /\ try.count < 11 /\ UNCHANGED <<fs, cmd, stack, ret, outcome, before, unseen>>
           /\ try' = [digit |-> try.count % 10, count |-> try.count + 1]
  <2>1. try.count \in 0..11 BY DEF BackendInv, TypeOK
  <2>2. try'.count \in (try.count + 1)..11 BY <1>3, <2>1
  <2>3. DepthInv' BY <1>3 DEF DepthInv
  <2> QED BY <1>1, <1>3, <2>2, <2>3 DEF Advances
<1> QED BY <1>2, <1>3 DEF MkdirAttempt, MkdirGivesUp

LEMMA CommandsAdvance ==
    ASSUME BackendInv, DepthInv,
           \/ StartDelete \/ StartMove \/ StartCopy \/ StartRename \/ StartChmod
           \/ StartSymlink \/ DeniedCommand \/ Finish
    PROVE  DepthInv' /\ Advances
<1>1. Failure # "none" BY DEF Failure
<1>2. CASE \E o : o # "none" /\ Ends(o) /\ outcome = "none"
  <2>1. outcome = "none" /\ outcome' # "none" /\ UNCHANGED stack /\ UNCHANGED cmd BY <1>2 DEF Ends
  <2> QED BY <2>1, EndAdvances
<1>3. CASE \E type, fn : Command(type) /\ Calls(fn) BY <1>3, CallAdvances
<1>4. CASE Finish
  <2>1. outcome = "none" /\ outcome' # "none" /\ UNCHANGED stack /\ UNCHANGED cmd
    BY <1>1, <1>4 DEF Finish
  <2> QED BY <2>1, EndAdvances
<1>5. CASE StartRename \/ StartChmod \/ StartSymlink \/ DeniedCommand
  BY <1>1, <1>2, <1>5 DEF StartRename, StartChmod, StartSymlink, DeniedCommand, Command
<1>6. CASE StartDelete \/ StartMove \/ StartCopy
  BY <1>2, <1>3, <1>6 DEF StartDelete, StartMove, StartCopy, Command
<1> QED BY <1>4, <1>5, <1>6

LEMMA NextAdvances == ASSUME BackendInv, DepthInv, Next PROVE DepthInv' /\ Advances
<1>1. CASE Removing BY <1>1, CommandsAdvance, RemovalAdvances DEF Removing
<1>2. CASE Transferring
  BY <1>2, CommandsAdvance, ReturnsAdvance, FileAdvances, EnterDirectoryAdvances, DescendAdvances,
     LeaveDirectoryAdvances, StopReadingAdvances DEF Transferring
<1>3. CASE StartRename \/ StartChmod \/ StartSymlink \/ DeniedCommand \/ Finish
  BY <1>3, CommandsAdvance
<1>4. CASE Resume \/ Denied BY <1>4, ResumeAdvances, ReturnsAdvance
<1>5. CASE MkdirAttempt \/ MkdirGivesUp BY <1>5, MkdirAdvances
<1> QED BY <1>1, <1>2, <1>3, <1>4, <1>5 DEF Next

\* Every step of a command brings it nearer to its end, and the recursion is never
\* deeper than a path is long (backend.c:98-120, 203-218).
THEOREM CommandsAdvanceAlways == Spec => WalkAdvances
<1>1. Init => DepthInv
  <2> SUFFICES ASSUME Init PROVE DepthInv OBVIOUS
  <2>1. stack = <<>> BY DEF Init
  <2>2. Len(<<>>) = 0 /\ 1..0 = {} OBVIOUS
  <2> QED BY <2>1, <2>2 DEF DepthInv, EachDeeper
<1>2. BackendInv /\ DepthInv /\ [Next]_vars => DepthInv'
  <2>1. CASE UNCHANGED vars BY <2>1 DEF vars, DepthInv
  <2>2. CASE Next BY <2>2, NextAdvances
  <2> QED BY <2>1, <2>2
<1>3. BackendInv /\ DepthInv /\ [Next]_vars => [Advances /\ Len(stack') <= PathMax + 1]_vars
  <2> SUFFICES ASSUME BackendInv, DepthInv, Next PROVE Advances /\ Len(stack') <= PathMax + 1
    OBVIOUS
  <2>1. DepthInv' /\ Advances /\ BackendInv' BY NextAdvances, NextKeeps
  <2>2. PICK s, n : s = stack' /\ n = Len(cmd'.src) OBVIOUS
  <2>3. /\ s \in Seq(Frames) /\ \A i \in DOMAIN s : i > 1 => s[i].at = "loop"
    BY <2>1, <2>2 DEF BackendInv, TypeOK
  <2>4. EachDeeper(s, n) BY <2>1, <2>2 DEF DepthInv
  <2>5. n \in Nat \ {0}
    <3>1. cmd' = cmd
      BY DEF Next, Removing, Transferring, StartDelete, StartMove, StartCopy, StartRename,
         MkdirAttempt, MkdirGivesUp, StopReading, CopyShort, CopyKeepsMode, StartChmod, StartSymlink, DeniedCommand, Finish, Resume, Denied, RemoveEntry, RemoveTree,
         EnterMissing, EnterFile, EnterDirectory, Descend, LeaveDirectory, RenameFile, OpenFiles,
         CopyData, WriteFails, UnlinkSource, CopyMode, Calls, Ends
    <3> QED BY <2>2, <3>1, Depths
  <2>6. Len(s) <= PathMax + 1 BY <2>3, <2>4, <2>5, DepthIsBounded
  <2> QED BY <2>1, <2>2, <2>6
<1> QED BY <1>1, <1>2, <1>3, CommandsAreSafe, PTL DEF Spec, WalkAdvances

=============================================================================
