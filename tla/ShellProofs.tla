---------------------------- MODULE ShellProofs ----------------------------
(* custom_shell and its predecessors: whatever is typed, what does not begin *)
(* like BASE_PATH is neither changed nor listed, nobody who works there gets    *)
(* out, and what the prompt cuts off is there.                                 *)
EXTENDS ShellVersions, PathLemmas, TLAPS

-----------------------------------------------------------------------------
\* The walk that Walk is about, when every step leads from S to S.
LEMMA WalkIsRun ==
    ASSUME NEW start, NEW names, NEW follow, NEW S,
           [at |-> start, todo |-> names] \in S,
           \A w \in S : OneStep(w, follow) \in S
    PROVE  \E run :
              /\ run[0] = [at |-> start, todo |-> names]
              /\ \A i \in 1..MaxSteps : run[i] = OneStep(run[i - 1], follow)
              /\ \A i \in 0..MaxSteps : run[i] \in S
              /\ Walk(start, names, follow)
                    = IF Len(names) > PathMax \/ run[MaxSteps].todo # <<>> THEN NoPath ELSE run[MaxSteps].at
<1> DEFINE P(w) == w = [i \in 0..MaxSteps |->
                           IF i = 0 THEN [at |-> start, todo |-> names] ELSE OneStep(w[i - 1], follow)]
           walk == CHOOSE w : P(w)
           F == [p \in (1..MaxSteps) \X S |-> OneStep(p[2], follow)]
<1>1. MaxSteps \in Nat BY BoundsAssumption
<1>2. \A i \in 1..MaxSteps : \A x \in S : F[<<i, x>>] = OneStep(x, follow) /\ F[<<i, x>>] \in S
  OBVIOUS
<1>3. PICK f \in [0..MaxSteps -> S] :
         /\ f[0] = [at |-> start, todo |-> names]
         /\ \A i \in 1..MaxSteps : f[i] = F[<<i, f[i - 1]>>]
  <2>1. PICK a, G, n : a = [at |-> start, todo |-> names] /\ G = F /\ n = MaxSteps OBVIOUS
  <2> HIDE DEF F
  <2>2. n \in Nat /\ a \in S /\ StepsWithin(S, G, n)
    BY <1>1, <1>2, <2>1 DEF StepsWithin
  <2>3. \E f \in [0..n -> S] : IsRun(f, a, G, n) BY <2>2, StepsExist
  <2> QED BY <2>1, <2>3 DEF IsRun
<1>4. P(f)
  <2>1. \A i \in 1..MaxSteps : f[i - 1] \in S BY <1>1
  <2>2. \A i \in 1..MaxSteps : f[i] = OneStep(f[i - 1], follow) BY <1>2, <1>3, <2>1
  <2>3. f = [i \in 0..MaxSteps |-> f[i]] OBVIOUS
  <2>4. \A i \in 0..MaxSteps :
           f[i] = IF i = 0 THEN [at |-> start, todo |-> names] ELSE OneStep(f[i - 1], follow)
    BY <1>1, <1>3, <2>2
  <2> QED BY <2>3, <2>4
<1>5. P(walk)
  <2> HIDE DEF P
  <2> QED BY <1>4, Zenon
<1>6. /\ walk[0] = [at |-> start, todo |-> names]
      /\ \A i \in 1..MaxSteps : walk[i] = OneStep(walk[i - 1], follow)
  <2>1. PICK w : w = walk OBVIOUS
  <2>2. w = [i \in 0..MaxSteps |->
               IF i = 0 THEN [at |-> start, todo |-> names] ELSE OneStep(w[i - 1], follow)]
    BY <1>5, <2>1
  <2>3. 0 \in 0..MaxSteps /\ \A i \in 1..MaxSteps : i \in 0..MaxSteps /\ i # 0 BY <1>1
  <2>4. w[0] = [at |-> start, todo |-> names] BY <2>2, <2>3
  <2>5. \A i \in 1..MaxSteps : w[i] = OneStep(w[i - 1], follow) BY <2>2, <2>3
  <2> QED BY <2>1, <2>4, <2>5
<1>7. \A i \in 0..MaxSteps : walk[i] \in S
  <2> HIDE DEF walk
  <2>1. walk[0] \in S BY <1>6
  <2>2. \A i \in 1..MaxSteps : walk[i - 1] \in S => walk[i] \in S BY <1>6
  <2> QED BY <1>1, <2>1, <2>2, StepsStayIn
<1>8. Walk(start, names, follow)
         = IF Len(names) > PathMax \/ walk[MaxSteps].todo # <<>> THEN NoPath ELSE walk[MaxSteps].at
  BY Zenon DEF Walk
<1> HIDE DEF walk
<1> QED BY <1>6, <1>7, <1>8

\* Where such a walk ends.
LEMMA WalkIsSteps ==
    ASSUME NEW start, NEW names, NEW follow, NEW S,
           [at |-> start, todo |-> names] \in S,
           \A w \in S : OneStep(w, follow) \in S
    PROVE  \E end \in S :
              Walk(start, names, follow)
                 = IF Len(names) > PathMax \/ end.todo # <<>> THEN NoPath ELSE end.at
<1>1. PICK run : /\ \A i \in 0..MaxSteps : run[i] \in S
                 /\ Walk(start, names, follow)
                       = IF Len(names) > PathMax \/ run[MaxSteps].todo # <<>> THEN NoPath ELSE run[MaxSteps].at
  BY WalkIsRun
<1>2. MaxSteps \in 0..MaxSteps BY BoundsAssumption
<1> QED BY <1>1, <1>2

\* A path is taken into account name by name.
LEMMA NormalIsRun ==
    ASSUME NEW names \in Seq(Names)
    PROVE  \E run :
              /\ run[0] = <<>>
              /\ \A i \in 1..Len(names) : run[i] = Normalised(run[i - 1], names[i])
              /\ \A i \in 0..Len(names) : run[i] \in EntryPath
              /\ Normal(names) = run[Len(names)]
<1> DEFINE P(w) == w = [i \in 0..Len(names) |->
                           IF i = 0 THEN <<>> ELSE Normalised(w[i - 1], names[i])]
           path == CHOOSE w : P(w)
           F == [p \in (1..Len(names)) \X EntryPath |-> Normalised(p[2], names[p[1]])]
<1>1. Len(names) \in Nat /\ <<>> \in EntryPath BY DEF EntryPath
<1>2. ASSUME NEW x \in EntryPath, NEW name \in Names PROVE Normalised(x, name) \in EntryPath
  <2>1. Len(x) > 1 => Front(x) \in EntryPath
    <3>1. Len(x) > 1 => x # <<>> BY DEF EntryPath
    <3> QED BY <3>1, FrontAndLast DEF EntryPath
  <2>2. name \notin {".", ".."} => Append(x, name) \in EntryPath BY DEF EntryPath
  <2> QED BY <2>1, <2>2 DEF Normalised
<1>3. \A i \in 1..Len(names) : names[i] \in Names OBVIOUS
<1>4. \A i \in 1..Len(names) : \A x \in EntryPath :
         F[<<i, x>>] = Normalised(x, names[i]) /\ F[<<i, x>>] \in EntryPath
  BY <1>2, <1>3
<1>5. PICK f \in [0..Len(names) -> EntryPath] :
         f[0] = <<>> /\ \A i \in 1..Len(names) : f[i] = F[<<i, f[i - 1]>>]
  <2>1. PICK G, n : G = F /\ n = Len(names) OBVIOUS
  <2> HIDE DEF F
  <2>2. n \in Nat /\ StepsWithin(EntryPath, G, n) BY <1>1, <1>4, <2>1 DEF StepsWithin
  <2>3. \E f \in [0..n -> EntryPath] : IsRun(f, <<>>, G, n) BY <1>1, <2>2, StepsExist
  <2> QED BY <2>1, <2>3 DEF IsRun
<1>6. P(f)
  <2>1. \A i \in 1..Len(names) : f[i - 1] \in EntryPath BY <1>1
  <2>2. \A i \in 1..Len(names) : f[i] = Normalised(f[i - 1], names[i]) BY <1>4, <1>5, <2>1
  <2>3. f = [i \in 0..Len(names) |-> f[i]] OBVIOUS
  <2>4. \A i \in 0..Len(names) : f[i] = IF i = 0 THEN <<>> ELSE Normalised(f[i - 1], names[i])
    BY <1>1, <1>5, <2>2
  <2> QED BY <2>3, <2>4
<1>7. P(path)
  <2> HIDE DEF P
  <2> QED BY <1>6, Zenon
<1>8. /\ path[0] = <<>>
      /\ \A i \in 1..Len(names) : path[i] = Normalised(path[i - 1], names[i])
  <2>1. PICK w : w = path OBVIOUS
  <2>2. w = [i \in 0..Len(names) |-> IF i = 0 THEN <<>> ELSE Normalised(w[i - 1], names[i])]
    BY <1>7, <2>1
  <2>3. 0 \in 0..Len(names) /\ \A i \in 1..Len(names) : i \in 0..Len(names) /\ i # 0 BY <1>1
  <2>4. w[0] = <<>> BY <2>2, <2>3
  <2>5. \A i \in 1..Len(names) : w[i] = Normalised(w[i - 1], names[i]) BY <2>2, <2>3
  <2> QED BY <2>1, <2>4, <2>5
<1>9. \A i \in 0..Len(names) : path[i] \in EntryPath
  <2> HIDE DEF path
  <2>1. \A i \in 1..Len(names) : path[i - 1] \in EntryPath => path[i] \in EntryPath
    BY <1>2, <1>3, <1>8
  <2>2. path[0] \in EntryPath BY <1>1, <1>8
  <2> QED BY <1>1, <2>1, <2>2, StepsStayIn
<1>10. Normal(names) = path[Len(names)] BY Zenon DEF Normal
<1> HIDE DEF path
<1> QED BY <1>8, <1>9, <1>10

\* What a path becomes has neither "." nor "..".
LEMMA NormalIsClean == ASSUME NEW names \in Seq(Names) PROVE Normal(names) \in EntryPath
<1>1. PICK run : (\A i \in 0..Len(names) : run[i] \in EntryPath) /\ Normal(names) = run[Len(names)]
  BY NormalIsRun
<1>2. Len(names) \in 0..Len(names) OBVIOUS
<1> QED BY <1>1, <1>2

-----------------------------------------------------------------------------
(* Walks inside *)

\* The paths the shell lets through, and where it may get.
Inside == {p \in EntryPath : IsValidPath(p)}

\* The way to what is inside is a directory, and no link leads out.
LinksInside(tree) ==
    /\ <<"tmp">> \in DOMAIN tree /\ tree[<<"tmp">>].kind = "dir"
    /\ \A q \in DOMAIN tree : IsValidPath(q) /\ tree[q].kind = "link" => IsValidPath(tree[q].to)

LEMMA NoPathIsNone == NoPath \notin EntryPath /\ Gone \notin EntryPath /\ ~IsValidPath(NoPath) /\ ~IsValidPath(Gone)
<1>1. ASSUME NEW e \in EntryPath PROVE Len(e) \in Nat /\ \A i \in 1..Len(e) : e[i] \in Names
  BY DEF EntryPath
<1>2. PICK p : p = <<"">> OBVIOUS
<1>3. Len(p) = 1 /\ p[1] = "" BY <1>2
<1>4. 1 \in 1..1 OBVIOUS
<1>5. p \notin EntryPath BY <1>1, <1>3, <1>4, NamesAssumption
<1>6. ~IsValidPath(p) BY <1>3 DEF IsValidPath
<1> QED BY <1>2, <1>5, <1>6 DEF NoPath, Gone

\* What begins like BASE_PATH still does when names are added.
LEMMA InsideGrows ==
    ASSUME NEW p \in Inside, NEW r \in EntryPath PROVE p \o r \in Inside
<1>1. p \in EntryPath /\ Len(p) >= 2 /\ p[1] = "tmp" /\ p[2] \in LikeBase BY DEF Inside, IsValidPath
<1>2. PICK q, m, n, k : q = p \o r /\ m = Len(p) /\ n = Len(r) /\ k = Len(q) OBVIOUS
<1>3. q \in EntryPath /\ k = m + n BY <1>1, <1>2 DEF EntryPath
<1>4. m \in Nat /\ n \in Nat /\ m >= 2 BY <1>1, <1>2 DEF EntryPath
<1>5. q[1] = p[1] /\ q[2] = p[2]
  <2>1. \A i \in 1..(m + n) : q[i] = IF i <= m THEN p[i] ELSE r[i - m]
    BY <1>1, <1>2, ConcatProperties DEF EntryPath
  <2>2. 1 \in 1..(m + n) /\ 2 \in 1..(m + n) /\ 1 <= m /\ 2 <= m BY <1>4
  <2> QED BY <2>1, <2>2
<1>6. k >= 2 BY <1>3, <1>4
<1> QED BY <1>1, <1>2, <1>3, <1>5, <1>6 DEF Inside, IsValidPath

\* BASE_PATH itself.
LEMMA BaseIsInside ==
    Base \in Inside /\ Base # <<>> /\ Front(Base) = <<"tmp">>
<1> DEFINE S == Names \ {".", ".."}
<1>1. "tmp" \in S /\ "test" \in S BY NamesAssumption
<1>2. PICK b, t : b = <<"tmp", "test">> /\ t = <<"tmp">> OBVIOUS
<1>3. Len(b) = 2 /\ b[1] = "tmp" /\ b[2] = "test" /\ b # <<>> BY <1>2
<1>4. t \in Seq(S) BY <1>1, <1>2
<1>5. b = Append(t, "test") BY <1>2
<1> HIDE DEF S
<1>6. b \in Seq(S) /\ Front(b) = t BY <1>1, <1>4, <1>5, NameAfter
<1>7. IsValidPath(b)
  <2>1. "test" \in LikeBase BY NamesAssumption
  <2>2. Len(b) >= 2 BY <1>3
  <2> QED BY <1>3, <2>1, <2>2, Zenon DEF IsValidPath
<1> QED BY <1>2, <1>3, <1>6, <1>7 DEF Base, Inside, EntryPath, S

\* The first name of a path may be taken as the last one of what is in front of it.
LEMMA NameGoesOver ==
    ASSUME NEW at \in EntryPath, NEW todo \in EntryPath, todo # <<>>
    PROVE  /\ Head(todo) \in Names \ {".", ".."} /\ Tail(todo) \in EntryPath
           /\ Append(at, Head(todo)) \in EntryPath
           /\ Append(at, Head(todo)) \o Tail(todo) = at \o todo
<1> DEFINE S == Names \ {".", ".."}
<1>1. Head(todo) \in S /\ Tail(todo) \in Seq(S) /\ todo = <<Head(todo)>> \o Tail(todo)
  BY HeadTailProperties DEF EntryPath
<1> HIDE DEF S
<1>2. at \in Seq(S) BY DEF S, EntryPath
<1>3. PICK name, rest : name = Head(todo) /\ rest = Tail(todo) OBVIOUS
<1>4. <<name>> \in Seq(S) BY <1>1, <1>3
<1>5. Append(at, name) = at \o <<name>> BY <1>1, <1>2, <1>3, AppendIsConcat
<1>6. (at \o <<name>>) \o rest = at \o (<<name>> \o rest) BY <1>1, <1>2, <1>3, <1>4, ConcatAssociative
<1>7. Append(at, name) \in Seq(S) BY <1>1, <1>2, <1>3
<1> QED BY <1>1, <1>3, <1>5, <1>6, <1>7 DEF S, EntryPath

\* What is on the way to something inside is inside, but for the directory /tmp.
LEMMA WayInside ==
    ASSUME NEW q \in EntryPath, NEW rest \in EntryPath, q # <<>>, q \o rest \in Inside
    PROVE  q \in Inside \/ q = <<"tmp">>
<1> DEFINE S == Names \ {".", ".."}
<1>1. q \in Seq(S) /\ rest \in Seq(S) BY DEF EntryPath
<1> HIDE DEF S
<1>2. \A i \in 1..Len(q) : (q \o rest)[i] = q[i] BY <1>1
<1>3. PICK n : n = Len(q) OBVIOUS
<1>4. n \in Nat /\ n # 0 BY <1>1, <1>3, EmptySeq
<1>5. q[1] = "tmp"
  <2>1. 1 \in 1..n BY <1>4
  <2> QED BY <1>2, <1>3, <2>1 DEF Inside, IsValidPath
<1>6. CASE n = 1
  <2>1. q = <<q[1]>>
    <3>1. PICK x, t : x = q[1] /\ t = <<x>> OBVIOUS
    <3>2. x \in S /\ t \in Seq(S) /\ Len(t) = 1 /\ t[1] = x BY <1>1, <1>3, <1>6, <3>1
    <3>3. Len(q) = Len(t) /\ \A i \in 1..Len(q) : q[i] = t[i] BY <1>3, <1>6, <3>1, <3>2
    <3> QED BY <1>1, <3>1, <3>2, <3>3, SeqEqual
  <2> QED BY <1>5, <2>1
<1>7. CASE n # 1
  <2>1. 2 \in 1..n /\ n >= 2 BY <1>4, <1>7
  <2>2. q[2] = (q \o rest)[2] BY <1>2, <1>3, <2>1
  <2>3. q[2] \in LikeBase BY <2>2 DEF Inside, IsValidPath
  <2> QED BY <1>3, <1>5, <2>1, <2>3 DEF Inside, IsValidPath
<1> QED BY <1>6, <1>7

\* The directory /tmp is not inside.
LEMMA TmpIsOutside == ~IsValidPath(<<"tmp">>)
<1>1. PICK p : p = <<"tmp">> OBVIOUS
<1>2. Len(p) = 1 BY <1>1
<1> QED BY <1>1, <1>2 DEF IsValidPath

\* A walk that begins inside goes on there, links included, and does not end at
\* a link that is to be followed.
LEMMA WalkStaysInside ==
    ASSUME IsDisk(fs, data), LinksInside(fs), NEW p \in Inside, NEW follow \in BOOLEAN
    PROVE  LET end == Walk(<<>>, p, follow) IN
           \/ end = NoPath
           \/ end \in Inside /\ (follow => ~IsLink(end))
<1> DEFINE Good(at, todo) ==
               \/ at = NoPath /\ todo = <<>>
               \/ at \in EntryPath /\ at \o todo \in Inside /\ (follow => ~IsLink(at))
           S == {w \in [at : EntryPath \cup {NoPath}, todo : EntryPath] : Good(w.at, w.todo)}
<1>1. <<>> \in EntryPath /\ p \in EntryPath /\ <<>> \o p = p BY DEF EntryPath, Inside
<1>2. [at |-> <<>>, todo |-> p] \in S
  <2>1. ~IsLink(<<>>) BY DEF IsLink, IsDisk
  <2> QED BY <1>1, <2>1
<1>3. ASSUME NEW w \in S PROVE OneStep(w, follow) \in S
  <2>1. PICK at, todo : at = w.at /\ todo = w.todo OBVIOUS
  <2>2. at \in EntryPath \cup {NoPath} /\ todo \in EntryPath /\ Good(at, todo) BY <2>1
  <2>3. CASE todo = <<>> BY <2>1, <2>3 DEF OneStep
  <2>4. CASE todo # <<>>
    <3>1. at \in EntryPath /\ at \o todo \in Inside BY <2>2, <2>4
    <3>2. PICK name, rest, q : name = Head(todo) /\ rest = Tail(todo) /\ q = Append(at, name)
      OBVIOUS
    <3>3. /\ name \in Names \ {".", ".."} /\ rest \in EntryPath
          /\ q \in EntryPath /\ q \o rest \in Inside
      BY <2>2, <2>4, <3>1, <3>2, NameGoesOver
    <3>4. CASE ~IsDir(at)
      <4>1. OneStep(w, follow) = [at |-> NoPath, todo |-> <<>>]
        BY <2>1, <2>4, <3>4 DEF OneStep
      <4>2. PICK none : none = NoPath OBVIOUS
      <4>3. [at |-> none, todo |-> <<>>] \in S BY <1>1, <4>2
      <4> QED BY <4>1, <4>2, <4>3
    <3>5. CASE IsDir(at) /\ IsLink(q) /\ (rest # <<>> \/ follow)
      <4>1. OneStep(w, follow) = [at |-> <<>>, todo |-> fs[q].to \o rest]
        BY <2>1, <2>4, <3>2, <3>3, <3>5 DEF OneStep
      <4>2. fs[q].to \in Inside
        <5>1. q # <<>>
          <6>1. at \in Seq(Names) BY <3>1 DEF EntryPath
          <6> QED BY <3>2, <6>1
        <5>2. q \in Inside \/ q = <<"tmp">> BY <3>3, <5>1, WayInside
        <5>3. fs[<<"tmp">>].kind # "link" BY DEF LinksInside
        <5> QED BY <3>5, <5>2, <5>3 DEF IsLink, IsDisk, LinksInside, Inside
      <4>3. PICK new : new = fs[q].to \o rest OBVIOUS
      <4>4. new \in Inside BY <3>3, <4>2, <4>3, InsideGrows
      <4>5. <<>> \o new = new /\ new \in EntryPath BY <4>4 DEF Inside, EntryPath
      <4>6. Good(<<>>, new)
        <5>1. ~IsLink(<<>>) BY DEF IsLink, IsDisk
        <5> QED BY <1>1, <4>4, <4>5, <5>1
      <4>7. PICK root : root = <<>> OBVIOUS
      <4>8. root \in EntryPath /\ Good(root, new) BY <1>1, <4>6, <4>7
      <4>9. [at |-> root, todo |-> new] \in S BY <4>5, <4>8
      <4> QED BY <4>1, <4>3, <4>7, <4>9
    <3>6. CASE IsDir(at) /\ ~(IsLink(q) /\ (rest # <<>> \/ follow))
      <4>1. OneStep(w, follow) = [at |-> q, todo |-> rest]
        BY <2>1, <2>4, <3>2, <3>3, <3>6 DEF OneStep
      <4>2. Good(q, rest) BY <3>3, <3>6
      <4> QED BY <3>3, <4>1, <4>2
    <3> QED BY <3>4, <3>5, <3>6
  <2> QED BY <2>3, <2>4
<1>4. PICK end \in S :
         Walk(<<>>, p, follow) = IF Len(p) > PathMax \/ end.todo # <<>> THEN NoPath ELSE end.at
  <2> HIDE DEF S
  <2> QED BY <1>2, <1>3, WalkIsSteps
<1>5. ASSUME end.todo = <<>> PROVE end.at = NoPath \/ (end.at \in Inside /\ (follow => ~IsLink(end.at)))
  <2>1. end.at \in EntryPath => end.at \o <<>> = end.at BY DEF EntryPath
  <2> QED BY <1>5, <2>1
<1> QED BY <1>4, <1>5

-----------------------------------------------------------------------------
(* By the text and by the kernel *)

\* The conversion of a path to an absolute one begins at a directory, whose own
\* names stay as they are, and takes the names after it into account one by one.
LEMMA NormalFrom ==
    ASSUME NEW start \in EntryPath, NEW names \in Seq(Names)
    PROVE  \E norm :
              /\ norm[0] = start
              /\ \A i \in 1..Len(names) : norm[i] = Normalised(norm[i - 1], names[i])
              /\ \A i \in 0..Len(names) : norm[i] \in EntryPath
              /\ norm[Len(names)] = Normal(start \o names)
<1>1. PICK both, m, n : both = start \o names /\ m = Len(start) /\ n = Len(names) OBVIOUS
<1>2. start \in Seq(Names) /\ m \in Nat /\ n \in Nat BY <1>1 DEF EntryPath
<1>3. /\ both \in Seq(Names) /\ Len(both) = m + n
      /\ \A i \in 1..(m + n) : both[i] = IF i <= m THEN start[i] ELSE names[i - m]
  BY <1>1, <1>2, ConcatProperties
<1>4. PICK run : /\ run[0] = <<>>
                 /\ \A i \in 1..(m + n) : run[i] = Normalised(run[i - 1], both[i])
                 /\ \A i \in 0..(m + n) : run[i] \in EntryPath
                 /\ Normal(both) = run[m + n]
  BY <1>3, NormalIsRun
\* The directory comes out as it went in.
<1>5. run[m] = start
  <2> DEFINE S == {w \in Nat \X EntryPath : Len(w[2]) = w[1] /\ \A k \in 1..w[1] : w[2][k] = start[k]}
             f == [i \in 0..m |-> <<i, run[i]>>]
  <2>1. f[0] \in S
    <3>1. PICK e : e = <<>> OBVIOUS
    <3>2. e \in EntryPath /\ Len(e) = 0 BY <3>1 DEF EntryPath
    <3>3. f[0] = <<0, e>> BY <1>2, <1>4, <3>1
    <3>4. <<0, e>> \in Nat \X EntryPath /\ <<0, e>>[1] = 0 /\ <<0, e>>[2] = e /\ 1..0 = {} BY <3>2
    <3> QED BY <3>2, <3>3, <3>4
  <2>2. ASSUME NEW i \in 1..m, f[i - 1] \in S PROVE f[i] \in S
    <3>1. /\ i - 1 \in 0..m /\ i \in 1..(m + n) /\ i <= m /\ i \in 0..(m + n)
          /\ f[i - 1] = <<i - 1, run[i - 1]>> /\ f[i] = <<i, run[i]>>
      BY <1>2
    <3>2. PICK p : p = run[i - 1] OBVIOUS
    <3>3. p \in EntryPath /\ Len(p) = i - 1 /\ \A k \in 1..(i - 1) : p[k] = start[k]
      BY <2>2, <3>1, <3>2
    <3>4. start[i] \in Names \ {".", ".."} BY <1>1 DEF EntryPath
    <3>5. run[i] = Append(p, start[i]) BY <1>3, <1>4, <3>1, <3>2, <3>4 DEF Normalised
    <3>6. PICK q : q = Append(p, start[i]) OBVIOUS
    <3>7. /\ q \in EntryPath /\ Len(q) = Len(p) + 1
          /\ (\A k \in 1..Len(p) : q[k] = p[k]) /\ q[Len(p) + 1] = start[i]
      BY <3>3, <3>4, <3>6, AppendProperties DEF EntryPath
    <3>8. Len(q) = i BY <3>3, <3>7
    <3>9. \A k \in 1..i : q[k] = start[k]
      <4> TAKE k \in 1..i
      <4>1. CASE k = i BY <3>3, <3>7, <4>1
      <4>2. CASE k # i
        <5>1. k \in 1..(i - 1) /\ k \in 1..Len(p) BY <3>3, <4>2
        <5> QED BY <3>3, <3>7, <5>1
      <4> QED BY <4>1, <4>2
    <3>10. PICK w : w = <<i, q>> OBVIOUS
    <3>11. w \in Nat \X EntryPath /\ w[1] = i /\ w[2] = q BY <1>2, <3>7, <3>10
    <3>12. w \in S BY <3>8, <3>9, <3>11
    <3> QED BY <3>1, <3>5, <3>6, <3>10, <3>12
  <2>3. f[m] \in S
    <3> HIDE DEF S, f
    <3>1. \A i \in 0..m : f[i] \in S BY <1>2, <2>1, <2>2, StepsStayIn
    <3> QED BY <1>2, <3>1
  <2>4. run[m] \in EntryPath /\ Len(run[m]) = m /\ \A k \in 1..m : run[m][k] = start[k]
    <3>1. f[m] = <<m, run[m]>> BY <1>2
    <3> QED BY <2>3, <3>1
  <2> QED BY <1>1, <2>4, SeqEqual DEF EntryPath
<1>6. PICK norm : norm = [i \in 0..n |-> run[m + i]] OBVIOUS
<1>7. norm[0] = start /\ norm[n] = Normal(both) BY <1>2, <1>4, <1>5, <1>6
<1>8. ASSUME NEW i \in 1..n PROVE norm[i] = Normalised(norm[i - 1], names[i])
  <2>1. /\ m + i \in 1..(m + n) /\ ~(m + i <= m) /\ (m + i) - m = i /\ (m + i) - 1 = m + (i - 1)
        /\ i \in 0..n /\ i - 1 \in 0..n
    BY <1>2
  <2>2. both[m + i] = names[i] BY <1>3, <2>1
  <2>3. run[m + i] = Normalised(run[m + (i - 1)], names[i]) BY <1>4, <2>1, <2>2
  <2> QED BY <1>6, <2>1, <2>3
<1>9. \A i \in 0..n : norm[i] \in EntryPath
  <2> TAKE i \in 0..n
  <2>1. m + i \in 0..(m + n) BY <1>2
  <2> QED BY <1>4, <1>6, <2>1
<1> QED BY <1>1, <1>7, <1>8, <1>9

\* A step of a walk leads from clean paths to clean paths, and never to a link that
\* is to be followed.
LEMMA OneStepIsClean ==
    ASSUME IsDisk(fs, data), NEW follow \in BOOLEAN,
           NEW w \in [at : EntryPath \cup {NoPath}, todo : Seq(Names)]
    PROVE  /\ OneStep(w, follow) \in [at : EntryPath \cup {NoPath}, todo : Seq(Names)]
           /\ follow /\ ~IsLink(w.at) => ~IsLink(OneStep(w, follow).at)
<1>1. PICK at, todo, next : at = w.at /\ todo = w.todo /\ next = OneStep(w, follow) OBVIOUS
<1>2. at \in EntryPath \cup {NoPath} /\ todo \in Seq(Names) BY <1>1
<1>3. <<>> \in EntryPath /\ <<>> \in Seq(Names) /\ ~IsLink(<<>>) BY DEF EntryPath, IsDisk, IsLink
<1>4. CASE todo = <<>> BY <1>1, <1>4 DEF OneStep
<1>5. CASE todo # <<>> /\ ~IsDir(at)
  <2>1. next = [at |-> NoPath, todo |-> <<>>] BY <1>1, <1>5 DEF OneStep
  <2>2. PICK none : none = NoPath OBVIOUS
  <2>3. ~IsLink(none) BY <2>2, NoPathIsNone DEF IsDisk, IsLink
  <2> QED BY <1>1, <1>3, <2>1, <2>2, <2>3
<1>6. CASE todo # <<>> /\ IsDir(at)
  <2>1. PICK name, rest, q : name = Head(todo) /\ rest = Tail(todo) /\ q = Append(at, name) OBVIOUS
  <2>2. name \in Names /\ rest \in Seq(Names) BY <1>2, <1>6, <2>1
  <2>3. at \in EntryPath /\ at \in DOMAIN fs /\ ~IsLink(at) BY <1>6 DEF IsDir, IsLink, IsDisk
  <2>4. CASE name = "."
    <3>1. next = [at |-> at, todo |-> rest] BY <1>1, <1>6, <2>1, <2>4 DEF OneStep
    <3> QED BY <1>1, <2>2, <2>3, <3>1
  <2>5. CASE name = ".."
    <3>1. PICK up : up = IF at = <<>> THEN <<>> ELSE Front(at) OBVIOUS
    <3>2. next = [at |-> up, todo |-> rest] BY <1>1, <1>6, <2>1, <2>5, <3>1 DEF OneStep
    <3>3. up \in EntryPath /\ ~IsLink(up)
      <4>1. at # <<>> => Front(at) \in DOMAIN fs /\ fs[Front(at)].kind = "dir" BY <2>3 DEF IsDisk
      <4> QED BY <1>3, <3>1, <4>1 DEF IsDisk, IsLink
    <3> QED BY <1>1, <2>2, <3>2, <3>3
  <2>6. CASE name \notin {".", ".."}
    <3>1. q \in EntryPath BY <2>1, <2>2, <2>3, <2>6 DEF EntryPath
    <3>2. CASE IsLink(q) /\ (rest # <<>> \/ follow)
      <4>1. next = [at |-> <<>>, todo |-> fs[q].to \o rest]
        BY <1>1, <1>6, <2>1, <2>6, <3>2 DEF OneStep
      <4>2. fs[q].to \in EntryPath BY <3>2 DEF IsLink, IsDisk
      <4>3. PICK to, new : to = fs[q].to /\ new = to \o rest OBVIOUS
      <4>4. to \in Seq(Names) BY <4>2, <4>3 DEF EntryPath
      <4>5. new \in Seq(Names) BY <2>2, <4>3, <4>4
      <4>6. PICK root : root = <<>> OBVIOUS
      <4>7. root \in EntryPath /\ ~IsLink(root) BY <1>3, <4>6
      <4> QED BY <1>1, <4>1, <4>3, <4>5, <4>6, <4>7
    <3>3. CASE ~(IsLink(q) /\ (rest # <<>> \/ follow))
      <4>1. next = [at |-> q, todo |-> rest] BY <1>1, <1>6, <2>1, <2>6, <3>3 DEF OneStep
      <4> QED BY <1>1, <2>2, <3>1, <3>3, <4>1
    <3> QED BY <3>2, <3>3
  <2> QED BY <2>4, <2>5, <2>6
<1> QED BY <1>4, <1>5, <1>6

\* A walk that follows links does not end at one.
LEMMA EndsAtNoLink ==
    ASSUME IsDisk(fs, data), NEW start \in EntryPath, ~IsLink(start), NEW names \in Seq(Names)
    PROVE  ~IsLink(Walk(start, names, TRUE))
<1> DEFINE S == {w \in [at : EntryPath \cup {NoPath}, todo : Seq(Names)] : ~IsLink(w.at)}
<1>1. PICK follow \in BOOLEAN : follow = TRUE OBVIOUS
<1>2. [at |-> start, todo |-> names] \in S OBVIOUS
<1>3. ASSUME NEW w \in S PROVE OneStep(w, follow) \in S BY <1>1, OneStepIsClean
<1>4. PICK end \in S :
         Walk(start, names, follow) = IF Len(names) > PathMax \/ end.todo # <<>> THEN NoPath ELSE end.at
  <2> HIDE DEF S
  <2> QED BY <1>2, <1>3, WalkIsSteps
<1>5. ~IsLink(NoPath) BY NoPathIsNone DEF IsDisk, IsLink
<1>6. ~IsLink(Walk(start, names, follow)) BY <1>4, <1>5
<1> QED BY <1>1, <1>6

\* Once there is nothing to do the walk stays where it is.
LEMMA RunStays ==
    ASSUME NEW run, NEW follow, \A i \in 1..MaxSteps : run[i] = OneStep(run[i - 1], follow),
           NEW k \in 0..MaxSteps, run[k].todo = <<>>
    PROVE  run[MaxSteps] = run[k]
<1>1. PICK n : n = MaxSteps - k OBVIOUS
<1>2. MaxSteps \in Nat /\ k \in Nat /\ n \in Nat /\ MaxSteps = k + n BY <1>1, BoundsAssumption
<1> DEFINE f == [i \in 0..n |-> run[k + i]]
<1>3. f[0] \in {run[k]} BY <1>2
<1>4. ASSUME NEW i \in 1..n, f[i - 1] \in {run[k]} PROVE f[i] \in {run[k]}
  <2>1. k + i \in 1..MaxSteps /\ (k + i) - 1 = k + (i - 1) /\ i \in 0..n /\ i - 1 \in 0..n BY <1>2
  <2>2. run[k + (i - 1)] = run[k] BY <1>4, <2>1
  <2>3. run[k + i] = OneStep(run[k], follow) BY <2>1, <2>2
  <2>4. OneStep(run[k], follow) = run[k] BY DEF OneStep
  <2> QED BY <2>1, <2>3, <2>4
<1>5. f[n] \in {run[k]}
  <2> HIDE DEF f
  <2>1. \A i \in 0..n : f[i] \in {run[k]} BY <1>2, <1>3, <1>4, StepsStayIn
  <2> QED BY <1>2, <2>1
<1> QED BY <1>2, <1>5

\* Where no link and not the root is on the way, the walk leads to what the text
\* of the path becomes, or nowhere.
LEMMA KernelAgrees ==
    ASSUME IsDisk(fs, data), NEW start \in EntryPath, NEW names \in Seq(Names),
           \A k \in 1..Len(names) :
              Walk(start, SubSeq(names, 1, k), TRUE) = Walk(start, SubSeq(names, 1, k), FALSE),
           \A k \in 0..Len(names) : Walk(start, SubSeq(names, 1, k), FALSE) # <<>>
    PROVE  Walk(start, names, FALSE) \in {NoPath, Normal(start \o names)}
<1>1. PICK norm, n : /\ n = Len(names) /\ norm[0] = start
                     /\ \A i \in 1..n : norm[i] = Normalised(norm[i - 1], names[i])
                     /\ \A i \in 0..n : norm[i] \in EntryPath
                     /\ norm[n] = Normal(start \o names)
  BY NormalFrom
<1>2. n \in Nat /\ MaxSteps \in Nat /\ PathMax \in Nat BY <1>1, BoundsAssumption
<1>3. PICK follow \in BOOLEAN : follow = FALSE OBVIOUS
\* The walk over the first m names, when i of them have been taken by their text;
\* and what has to be so for the next one.
<1> DEFINE State(i, m) == [at |-> norm[i], todo |-> SubSeq(names, i + 1, m)]
           Good(i) == /\ IsDir(norm[i])
                      /\ names[i + 1] = ".." => Len(norm[i]) > 1
                      /\ names[i + 1] \notin {".", ".."} => ~IsLink(Append(norm[i], names[i + 1]))
           IsWalk(run) == \A i \in 1..MaxSteps : run[i] = OneStep(run[i - 1], follow)
           Ends(run, m) == IF m > PathMax \/ run[MaxSteps].todo # <<>> THEN NoPath ELSE run[MaxSteps].at
<1>4. ASSUME NEW m \in 0..n, NEW i \in 0..n, i < m
      PROVE  /\ SubSeq(names, i + 1, m) # <<>>
             /\ Head(SubSeq(names, i + 1, m)) = names[i + 1]
             /\ Tail(SubSeq(names, i + 1, m)) = SubSeq(names, (i + 1) + 1, m)
             /\ names[i + 1] \in Names
  <2>1. i + 1 \in 1..n /\ m \in (i + 1)..n /\ i + 1 \in Int /\ m \in Int /\ i + 1 <= m BY <1>2, <1>4
  <2>2. \A k \in (i + 1)..m : names[k] \in Names
    <3> TAKE k \in (i + 1)..m
    <3>1. k \in 1..n BY <1>2, <1>4
    <3> QED BY <1>1, <3>1
  <2>3. PICK s : s = SubSeq(names, i + 1, m) OBVIOUS
  <2>4. Len(s) = m - (i + 1) + 1 BY <2>1, <2>2, <2>3, SubSeqProperties
  <2>5. Len(s) # 0 BY <2>1, <2>4
  <2>6. s # <<>> BY <2>5
  <2>7. Head(s) = names[i + 1] /\ Tail(s) = SubSeq(names, (i + 1) + 1, m)
    BY <1>1, <2>1, <2>3, HeadTailOfSubSeq
  <2>8. names[i + 1] \in Names BY <1>1, <2>1
  <2> QED BY <2>3, <2>6, <2>7, <2>8
<1>5. \A m \in 0..n : SubSeq(names, m + 1, m) = <<>>
  <2> TAKE m \in 0..n
  <2>1. m + 1 \in Int /\ m \in Int /\ m < m + 1 BY <1>2
  <2> QED BY <2>1, SubSeqEmpty
<1>6. ASSUME NEW m \in 0..n, NEW i \in 0..n, i < m, Good(i)
      PROVE  OneStep(State(i, m), follow) = State(i + 1, m)
  <2>1. PICK at, todo, name, rest :
           at = norm[i] /\ todo = SubSeq(names, i + 1, m) /\ name = Head(todo) /\ rest = Tail(todo)
    OBVIOUS
  <2>2. todo # <<>> /\ name = names[i + 1] /\ rest = SubSeq(names, (i + 1) + 1, m) BY <1>4, <1>6, <2>1
  <2>3. norm[i + 1] = Normalised(at, name)
    <3>1. i + 1 \in 1..n /\ (i + 1) - 1 = i BY <1>2, <1>6
    <3> QED BY <1>1, <2>1, <2>2, <3>1
  <2>4. PICK w : w = [at |-> at, todo |-> todo] OBVIOUS
  <2>5. w.at = at /\ w.todo = todo BY <2>4
  <2>6. /\ IsDir(at) /\ (name = ".." => Len(at) > 1)
        /\ name \notin {".", ".."} => ~IsLink(Append(at, name))
    BY <1>6, <2>1, <2>2
  <2>7. at # <<>> \/ ~(Len(at) > 1) BY <1>2
  <2>8. OneStep(w, follow) = [at |-> norm[i + 1], todo |-> rest]
    <3>1. CASE name = "." BY <2>1, <2>2, <2>3, <2>5, <2>6, <3>1 DEF OneStep, Normalised
    <3>2. CASE name = ".." BY <2>1, <2>2, <2>3, <2>5, <2>6, <2>7, <3>2 DEF OneStep, Normalised
    <3>3. CASE name \notin {".", ".."}
      BY <2>1, <2>2, <2>3, <2>5, <2>6, <3>3 DEF OneStep, Normalised
    <3> QED BY <3>1, <3>2, <3>3
  <2> QED BY <2>1, <2>2, <2>4, <2>8
<1>7. ASSUME NEW m \in 0..n
      PROVE  \E run : run[0] = State(0, m) /\ IsWalk(run) /\ Walk(start, SubSeq(names, 1, m), follow) = Ends(run, m)
  <2>1. PICK first, S : /\ first = SubSeq(names, 1, m)
                        /\ S = [at : EntryPath \cup {NoPath}, todo : Seq(Names)]
    OBVIOUS
  <2>2. first \in Seq(Names) /\ Len(first) = m
    <3>1. \A k \in 1..m : names[k] \in Names
      <4> TAKE k \in 1..m
      <4>1. k \in 1..n BY <1>2
      <4> QED BY <1>1, <4>1
    <3>2. 1 \in Int /\ m \in Int BY <1>2
    <3>3. first \in Seq(Names) /\ Len(first) = IF 1 <= m THEN m - 1 + 1 ELSE 0
      BY <2>1, <3>1, <3>2, SubSeqProperties
    <3>4. Len(first) = m BY <1>2, <3>3
    <3> QED BY <3>3, <3>4
  <2>3. [at |-> start, todo |-> first] \in S BY <2>1, <2>2
  <2>4. \A w \in S : OneStep(w, follow) \in S BY <2>1, OneStepIsClean
  <2>5. PICK run : /\ run[0] = [at |-> start, todo |-> first]
                   /\ \A i \in 1..MaxSteps : run[i] = OneStep(run[i - 1], follow)
                   /\ Walk(start, first, follow)
                         = IF Len(first) > PathMax \/ run[MaxSteps].todo # <<>> THEN NoPath ELSE run[MaxSteps].at
    BY <2>3, <2>4, WalkIsRun
  <2>6. State(0, m) = [at |-> start, todo |-> first] BY <1>1, <2>1
  <2> QED BY <2>1, <2>2, <2>5, <2>6
<1> HIDE DEF Good
<1>8. ASSUME NEW m \in 0..n, NEW k \in 0..m, k <= MaxSteps, \A i \in 0..n : i < k => Good(i),
             NEW run, run[0] = State(0, m), IsWalk(run)
      PROVE  run[k] = State(k, m)
  <2> DEFINE S == {<<i, State(i, m)>> : i \in 0..k}
             g == [i \in 0..k |-> <<i, run[i]>>]
  <2>1. k \in Nat BY <1>2
  <2>2. g[0] \in S BY <1>8, <2>1
  <2>3. ASSUME NEW i \in 1..k, g[i - 1] \in S PROVE g[i] \in S
    <3>1. /\ i - 1 \in 0..k /\ i \in 0..k /\ i \in 1..MaxSteps /\ (i - 1) + 1 = i
          /\ i - 1 \in 0..n /\ i - 1 < m /\ i - 1 < k
      BY <1>2, <1>8, <2>1
    <3>2. run[i - 1] = State(i - 1, m) BY <2>3, <3>1
    <3>3. OneStep(State(i - 1, m), follow) = State(i, m) BY <1>6, <1>8, <3>1
    <3>4. run[i] = State(i, m) BY <1>8, <3>1, <3>2, <3>3
    <3> QED BY <3>1, <3>4
  <2>4. g[k] \in S
    <3> HIDE DEF S, g
    <3>1. \A i \in 0..k : g[i] \in S BY <2>1, <2>2, <2>3, StepsStayIn
    <3> QED BY <2>1, <3>1
  <2>5. PICK i \in 0..k : <<k, run[k]>> = <<i, State(i, m)>>
    <3>1. g[k] = <<k, run[k]>> BY <2>1
    <3> QED BY <2>4, <3>1
  <2> QED BY <2>5
<1>9. \A i, m : State(i, m).at = norm[i] /\ State(i, m).todo = SubSeq(names, i + 1, m)
  OBVIOUS
<1> HIDE DEF State
<1>10. 0 \in 0..n /\ n \in 0..n /\ SubSeq(names, 1, n) = names
  <2>1. SubSeq(names, 1, Len(names)) = names BY SubSeqFull
  <2> QED BY <1>1, <1>2, <2>1
<1>11. PICK full : full[0] = State(0, n) /\ IsWalk(full) /\ Walk(start, names, follow) = Ends(full, n)
  BY <1>7, <1>10
\* A walk that still has something to do when it is cut off leads nowhere.
<1>12. ASSUME MaxSteps < n, \A i \in 0..n : i < MaxSteps => Good(i) PROVE Walk(start, names, follow) = NoPath
  <2>1. MaxSteps \in 0..n /\ MaxSteps <= MaxSteps BY <1>2, <1>12
  <2>2. full[MaxSteps] = State(MaxSteps, n) BY <1>8, <1>10, <1>11, <1>12, <2>1
  <2>3. full[MaxSteps].todo # <<>> BY <1>4, <1>10, <1>12, <1>9, <2>1, <2>2
  <2> QED BY <1>11, <2>3
<1>13. CASE \A i \in 0..n : i < n => Good(i)
  <2>1. CASE MaxSteps < n
    <3>1. \A i \in 0..n : i < MaxSteps => Good(i) BY <1>2, <1>13, <2>1
    <3> QED BY <1>3, <1>12, <2>1, <3>1
  <2>2. CASE ~(MaxSteps < n)
    <3>1. n \in 0..MaxSteps /\ n <= MaxSteps BY <1>2, <2>2
    <3>2. full[n] = State(n, n) BY <1>8, <1>10, <1>11, <1>13, <3>1
    <3>3. full[n].todo = <<>> /\ full[n].at = norm[n] BY <1>5, <1>10, <1>9, <3>2
    <3>4. full[MaxSteps] = full[n] BY <1>11, <3>1, <3>3, RunStays
    <3>5. Walk(start, names, follow) \in {NoPath, norm[n]} BY <1>11, <3>3, <3>4
    <3> QED BY <1>1, <1>3, <3>5
  <2> QED BY <2>1, <2>2
<1>14. CASE ~\A i \in 0..n : i < n => Good(i)
  <2>1. PICK j \in 0..n : j < n /\ ~Good(j) /\ \A i \in 0..n : i < j => Good(i)
    <3> DEFINE T == {i \in 0..n : i < n /\ ~Good(i)}
    <3>1. T \subseteq Nat /\ T # {} BY <1>2, <1>14
    <3>2. PICK j \in T : \A i \in T : ~(i < j)
      <4> HIDE DEF T
      <4> QED BY <3>1, LeastNumber
    <3>3. ASSUME NEW i \in 0..n, i < j PROVE Good(i)
      <4>1. i < n BY <1>2, <3>2, <3>3
      <4> QED BY <3>2, <3>3, <4>1
    <3> QED BY <3>2, <3>3
  <2>2. CASE n > PathMax BY <1>3, <1>11, <2>2
  <2>3. CASE MaxSteps <= j
    <3>1. MaxSteps < n /\ \A i \in 0..n : i < MaxSteps => Good(i) BY <1>2, <2>1, <2>3
    <3> QED BY <1>3, <1>12, <3>1
  <2>4. CASE ~(n > PathMax) /\ ~(MaxSteps <= j)
    <3>1. PICK m : m = j + 1 OBVIOUS
    <3>2. /\ m \in 1..n /\ m \in 0..n /\ m \in 1..MaxSteps /\ m \in 0..MaxSteps /\ m - 1 = j
          /\ j \in 0..m /\ j < m /\ j \in 0..n /\ j <= MaxSteps /\ ~(m > PathMax)
      BY <1>2, <2>1, <2>4, <3>1
    <3>3. CASE ~IsDir(norm[j])
      <4>1. full[j] = State(j, n) BY <1>8, <1>10, <1>11, <2>1, <3>2
      <4>2. full[j].at = norm[j] /\ full[j].todo # <<>> BY <1>4, <1>10, <1>9, <2>1, <4>1
      <4>3. full[m] = [at |-> NoPath, todo |-> <<>>] BY <1>11, <3>2, <3>3, <4>2 DEF OneStep
      <4>4. full[m].todo = <<>> /\ full[m].at = NoPath BY <4>3
      <4>5. full[MaxSteps] = full[m] BY <1>11, <3>2, <4>4, RunStays
      <4> QED BY <1>3, <1>11, <4>4, <4>5
    <3>4. CASE IsDir(norm[j])
      <4>1. PICK part : part[0] = State(0, m) /\ IsWalk(part) /\ Walk(start, SubSeq(names, 1, m), follow) = Ends(part, m)
        BY <1>7, <3>2
      <4>2. part[j] = State(j, m) BY <1>8, <2>1, <3>2, <4>1
      <4>3. PICK at, todo, name : at = norm[j] /\ todo = SubSeq(names, j + 1, m) /\ name = names[j + 1] OBVIOUS
      <4>4. todo # <<>> /\ Head(todo) = name /\ Tail(todo) = <<>> BY <1>4, <1>5, <3>1, <3>2, <4>3
      <4>5. part[j].at = at /\ part[j].todo = todo /\ IsDir(at) BY <1>9, <3>4, <4>2, <4>3
      <4>6. part[m] = OneStep(part[j], follow) BY <3>2, <4>1
      <4>7. ASSUME part[m].todo = <<>> PROVE Walk(start, SubSeq(names, 1, m), FALSE) = part[m].at
        <5>1. part[MaxSteps] = part[m] BY <3>2, <4>1, <4>7, RunStays
        <5> QED BY <1>3, <3>2, <4>1, <4>7, <5>1
      <4>8. CASE name = ".." /\ ~(Len(at) > 1)
        <5>1. at \in EntryPath BY <1>1, <4>3
        <5>2. at # <<>> => Front(at) = <<>>
          <6> HAVE at # <<>>
          <6>1. PICK up, l : up = Front(at) /\ l = Len(at) OBVIOUS
          <6>2. up \in Seq(Names \ {".", ".."}) /\ Len(up) = l - 1 /\ l \in Nat
            BY <5>1, <6>1, FrontAndLast DEF EntryPath
          <6>3. Len(up) \in Nat /\ ~(l > 1) BY <4>8, <6>1, <6>2
          <6>4. Len(up) = 0 BY <6>2, <6>3
          <6> QED BY <6>1, <6>2, <6>4, EmptySeq
        <5>3. part[m] = [at |-> <<>>, todo |-> <<>>] BY <4>4, <4>5, <4>6, <4>8, <5>2 DEF OneStep
        <5>4. part[m].todo = <<>> /\ part[m].at = <<>> BY <5>3
        <5>5. Walk(start, SubSeq(names, 1, m), FALSE) = <<>> BY <4>7, <5>4
        <5> QED BY <1>1, <3>2, <5>5
      <4>9. CASE name \notin {".", ".."} /\ IsLink(Append(at, name))
        <5>1. part[m] = [at |-> Append(at, name), todo |-> <<>>]
          BY <1>3, <4>4, <4>5, <4>6, <4>9 DEF OneStep
        <5>2. part[m].todo = <<>> /\ part[m].at = Append(at, name) BY <5>1
        <5>3. Walk(start, SubSeq(names, 1, m), FALSE) = Append(at, name) BY <4>7, <5>2
        <5>4. ~IsLink(start)
          <6>1. IsDir(norm[0])
            <7>1. CASE j = 0 BY <3>4, <7>1
            <7>2. CASE j # 0
              <8>1. 0 < j BY <1>2, <7>2
              <8> QED BY <1>10, <2>1, <8>1 DEF Good
            <7> QED BY <7>1, <7>2
          <6> QED BY <1>1, <6>1 DEF IsDir, IsLink
        <5>5. SubSeq(names, 1, m) \in Seq(Names)
          <6>1. \A k \in 1..m : names[k] \in Names
            <7> TAKE k \in 1..m
            <7>1. k \in 1..n BY <1>2, <3>2
            <7> QED BY <1>1, <7>1
          <6>2. 1 \in Int /\ m \in Int BY <1>2, <3>2
          <6> QED BY <6>1, <6>2, SubSeqProperties
        <5>6. ~IsLink(Walk(start, SubSeq(names, 1, m), TRUE)) BY <5>4, <5>5, EndsAtNoLink
        <5>7. Walk(start, SubSeq(names, 1, m), TRUE) = Walk(start, SubSeq(names, 1, m), FALSE)
          BY <1>1, <3>2
        <5> QED BY <4>9, <5>3, <5>6, <5>7
      <4>10. ~(name = ".." => Len(at) > 1) \/ ~(name \notin {".", ".."} => ~IsLink(Append(at, name)))
        BY <2>1, <3>4, <4>3 DEF Good
      <4> QED BY <4>8, <4>9, <4>10
    <3> QED BY <3>3, <3>4
  <2> QED BY <2>2, <2>3, <2>4
<1> QED BY <1>13, <1>14

-----------------------------------------------------------------------------
(* What the commands do to the tree *)

\* No file has names inside and outside.
Separate(tree) ==
    \A q, r \in DOMAIN tree :
        tree[q].ino = tree[r].ino => (IsValidPath(q) <=> IsValidPath(r))

\* A disk on which links stay inside, nothing is shared with the outside, and
\* inodes are numbered up to n.
GoodTree(tree, texts, n) ==
    /\ IsDisk(tree, texts)
    /\ LinksInside(tree)
    /\ Separate(tree)
    /\ \A q \in DOMAIN tree : tree[q].ino \in 1..n

SameOutside(tree, tree2) ==
    \A q \in DOMAIN tree \cup DOMAIN tree2 :
        ~IsValidPath(q) => q \in DOMAIN tree \cap DOMAIN tree2 /\ tree2[q] = tree[q]

Nodes == [kind : {"dir", "file", "link"}, ino : Nat, to : EntryPath]

\* More texts and more numbers leave a disk as good as it is.
LEMMA GoodWithMore ==
    ASSUME NEW tree, NEW texts, NEW more, DOMAIN texts \subseteq DOMAIN more,
           NEW n \in Nat, NEW m \in Nat, n <= m, GoodTree(tree, texts, n)
    PROVE  GoodTree(tree, more, m)
<1>1. \A i \in 1..n : i \in 1..m OBVIOUS
<1>2. IsDisk(tree, more)
  <2>1. \A q \in DOMAIN tree : tree[q].kind = "file" => tree[q].ino \in DOMAIN more
    BY DEF GoodTree, IsDisk
  <2> QED BY <2>1 DEF GoodTree, IsDisk
<1> QED BY <1>1, <1>2 DEF GoodTree

\* A new entry inside: a file, directory or link of its own, or one more name for
\* what has a name inside.
LEMMA NewEntry ==
    ASSUME NEW tree, NEW texts, NEW n \in Nat, GoodTree(tree, texts, n),
           NEW p \in Inside, p \notin DOMAIN tree, p # <<>>,
           Front(p) \in DOMAIN tree, tree[Front(p)].kind = "dir",
           NEW node \in Nodes,
           node.kind = "file" => node.ino \in DOMAIN texts,
           node.kind = "link" => IsValidPath(node.to),
           node.kind # "link" => node.to = <<>>,
           \/ node.ino = n + 1
           \/ node.kind # "dir" /\ \E a \in DOMAIN tree : IsValidPath(a) /\ node = tree[a]
    PROVE  /\ GoodTree(Put(tree, p, node), texts, n + 1)
           /\ SameOutside(tree, Put(tree, p, node))
<1>1. PICK t : t = Put(tree, p, node) OBVIOUS
<1>2. /\ DOMAIN t = DOMAIN tree \cup {p}
      /\ t[p] = node /\ \A q \in DOMAIN tree : t[q] = tree[q]
  BY <1>1 DEF Put
<1>3. IsValidPath(p) /\ p \in EntryPath BY DEF Inside
<1>4. \A q \in DOMAIN tree : tree[q].ino \in 1..n BY DEF GoodTree
<1>5. \A q \in DOMAIN tree : tree[q].ino = node.ino =>
         tree[q] = node /\ node.kind # "dir" /\ IsValidPath(q)
  <2>1. CASE node.ino = n + 1 BY <1>4, <2>1
  <2>2. CASE node.kind # "dir" /\ \E a \in DOMAIN tree : IsValidPath(a) /\ node = tree[a]
    BY <2>2 DEF GoodTree, IsDisk, Separate
  <2> QED BY <2>1, <2>2
<1>6. IsDisk(t, texts)
  <2>1. <<>> \in DOMAIN t /\ t[<<>>].kind = "dir" BY <1>2 DEF GoodTree, IsDisk
  <2>2. ASSUME NEW q \in DOMAIN t
        PROVE  /\ q \in EntryPath /\ t[q] \in Nodes
               /\ q # <<>> => Front(q) \in DOMAIN t /\ t[Front(q)].kind = "dir"
               /\ t[q].kind = "file" => t[q].ino \in DOMAIN texts
               /\ t[q].kind # "link" => t[q].to = <<>>
    <3>1. CASE q = p BY <1>2, <1>3, <3>1
    <3>2. CASE q # p BY <1>2, <2>2, <3>2 DEF GoodTree, IsDisk, Nodes
    <3> QED BY <3>1, <3>2
  <2>3. ASSUME NEW q \in DOMAIN t, NEW r \in DOMAIN t, t[q].ino = t[r].ino
        PROVE  t[q] = t[r] /\ (t[q].kind = "dir" => q = r)
    <3>1. CASE q # p /\ r # p BY <1>2, <2>3, <3>1 DEF GoodTree, IsDisk
    <3>2. CASE q = p /\ r # p BY <1>2, <1>5, <2>3, <3>2
    <3>3. CASE q # p /\ r = p BY <1>2, <1>5, <2>3, <3>3
    <3>4. CASE q = p /\ r = p BY <3>4
    <3> QED BY <3>1, <3>2, <3>3, <3>4
  <2> QED BY <2>1, <2>2, <2>3 DEF IsDisk, Nodes
<1>7. LinksInside(t) BY <1>2 DEF GoodTree, LinksInside
<1>8. Separate(t)
  <2> SUFFICES ASSUME NEW q \in DOMAIN t, NEW r \in DOMAIN t, t[q].ino = t[r].ino
               PROVE  IsValidPath(q) <=> IsValidPath(r)
    BY DEF Separate
  <2>1. CASE q # p /\ r # p BY <1>2, <2>1 DEF GoodTree, Separate
  <2>2. CASE q = p /\ r # p BY <1>2, <1>3, <1>5, <2>2
  <2>3. CASE q # p /\ r = p BY <1>2, <1>3, <1>5, <2>3
  <2>4. CASE q = p /\ r = p BY <2>4
  <2> QED BY <2>1, <2>2, <2>3, <2>4
<1>9. \A q \in DOMAIN t : t[q].ino \in 1..(n + 1)
  <2>1. node.ino \in 1..(n + 1)
    <3>1. n + 1 \in 1..(n + 1) OBVIOUS
    <3>2. \A i \in 1..n : i \in 1..(n + 1) OBVIOUS
    <3> QED BY <1>4, <3>1, <3>2
  <2>2. \A i \in 1..n : i \in 1..(n + 1) OBVIOUS
  <2> QED BY <1>2, <1>4, <2>1, <2>2
<1>10. SameOutside(tree, t) BY <1>2, <1>3 DEF SameOutside
<1> QED BY <1>1, <1>6, <1>7, <1>8, <1>9, <1>10 DEF GoodTree

\* An entry inside with none below it may be taken away.
LEMMA EntryTakenAway ==
    ASSUME NEW tree, NEW texts, NEW n \in Nat, GoodTree(tree, texts, n),
           NEW a, IsValidPath(a),
           \A q \in DOMAIN tree : q # <<>> => Front(q) # a
    PROVE  /\ GoodTree([q \in DOMAIN tree \ {a} |-> tree[q]], texts, n)
           /\ SameOutside(tree, [q \in DOMAIN tree \ {a} |-> tree[q]])
<1>1. PICK t : t = [q \in DOMAIN tree \ {a} |-> tree[q]] OBVIOUS
<1>2. DOMAIN t = DOMAIN tree \ {a} /\ \A q \in DOMAIN t : q \in DOMAIN tree /\ t[q] = tree[q]
  BY <1>1
<1>3. a # <<>> BY DEF IsValidPath
<1>4. IsDisk(t, texts)
  <2>1. <<>> \in DOMAIN t /\ t[<<>>].kind = "dir" BY <1>2, <1>3 DEF GoodTree, IsDisk
  <2>2. \A q \in DOMAIN t : q # <<>> => Front(q) \in DOMAIN t /\ t[Front(q)].kind = "dir"
    BY <1>2 DEF GoodTree, IsDisk
  <2> QED BY <1>2, <2>1, <2>2 DEF GoodTree, IsDisk
<1>5. LinksInside(t) /\ Separate(t) /\ \A q \in DOMAIN t : t[q].ino \in 1..n
  BY <1>2, TmpIsOutside DEF GoodTree, LinksInside, Separate
<1>6. SameOutside(tree, t) BY <1>2 DEF SameOutside
<1> QED BY <1>1, <1>4, <1>5, <1>6 DEF GoodTree

\* A path below a directory, when the directory moves: where it comes, and back.
LEMMA RebasedThereAndBack ==
    ASSUME NEW a \in EntryPath, NEW b \in EntryPath, NEW q \in EntryPath, IsPrefix(a, q),
           NEW p, p = Rebased(q, a, b)
    PROVE  /\ p \in EntryPath /\ IsPrefix(b, p)
           /\ Rebased(p, b, a) = q
           /\ q = a => p = b
           /\ q # a => /\ p # b /\ p # <<>> /\ q # <<>>
                       /\ Front(q) \in EntryPath /\ IsPrefix(a, Front(q))
                       /\ Front(p) = Rebased(Front(q), a, b)
           /\ a \in Inside => q \in Inside
           /\ b \in Inside => p \in Inside
<1> DEFINE S == Names \ {".", ".."}
<1>1. a \in Seq(S) /\ b \in Seq(S) /\ q \in Seq(S) BY DEF EntryPath
<1>2. PICK r : r = SubSeq(q, Len(a) + 1, Len(q)) OBVIOUS
<1> HIDE DEF S
<1>3. r \in Seq(S) /\ q = a \o r BY <1>1, <1>2, PrefixAndRest
<1>4. p = b \o r BY <1>2 DEF Rebased
<1>5. ASSUME NEW e \in Seq(S)
       PROVE  /\ e \o r \in Seq(S) /\ IsPrefix(e, e \o r)
              /\ SubSeq(e \o r, Len(e) + 1, Len(e \o r)) = r
              /\ r = <<>> => e \o r = e
              /\ r # <<>> => e \o r # <<>> /\ e \o r # e /\ Front(e \o r) = e \o Front(r)
  <2>1. e \o r \in Seq(S) BY <1>3
  <2>2. IsPrefix(e, e \o r) BY <1>3, RestOfConcat
  <2>3. SubSeq(e \o r, Len(e) + 1, Len(e \o r)) = r BY <1>3, RestOfConcat
  <2>4. r = <<>> => e \o r = e BY <1>3, RestOfConcat
  <2>5. r # <<>> => e \o r # <<>> BY <1>3, RestOfConcat
  <2>6. r # <<>> => e \o r # e BY <1>3, RestOfConcat
  <2>7. r # <<>> => Front(e \o r) = e \o Front(r) BY <1>3, RestOfConcat
  <2> QED BY <2>1, <2>2, <2>3, <2>4, <2>5, <2>6, <2>7
<1>6. p \in Seq(S) /\ IsPrefix(b, p) /\ SubSeq(p, Len(b) + 1, Len(p)) = r
  BY <1>1, <1>4, <1>5, Zenon
<1>7. Rebased(p, b, a) = q BY <1>3, <1>6 DEF Rebased
<1>8. ASSUME q = a PROVE p = b
  <2>1. r = <<>> BY <1>1, <1>3, <1>8, <1>5, Zenon
  <2> QED BY <1>1, <1>4, <1>5, <2>1, Zenon
<1>9. ASSUME q # a
      PROVE  /\ p # b /\ p # <<>> /\ q # <<>>
             /\ Front(q) \in Seq(S) /\ IsPrefix(a, Front(q))
             /\ Front(p) = Rebased(Front(q), a, b)
  <2>1. r # <<>> BY <1>1, <1>3, <1>9, <1>5, Zenon
  <2>2. /\ p # b /\ p # <<>> /\ q # <<>>
        /\ Front(q) = a \o Front(r) /\ Front(p) = b \o Front(r)
    BY <1>1, <1>3, <1>4, <1>9, <1>5, <2>1, Zenon
  <2>3. PICK f : f = Front(r) OBVIOUS
  <2>4. f \in Seq(S) BY <1>3, <2>1, <2>3, FrontAndLast
  <2>5. a \o f \in Seq(S) /\ IsPrefix(a, a \o f) /\ SubSeq(a \o f, Len(a) + 1, Len(a \o f)) = f
    BY <1>1, <2>4, RestOfConcat
  <2> QED BY <2>2, <2>3, <2>5 DEF Rebased
<1>10. r \in EntryPath BY <1>3 DEF S, EntryPath
<1>11. a \in Inside => q \in Inside BY <1>3, <1>10, InsideGrows
<1>12. b \in Inside => p \in Inside BY <1>4, <1>10, InsideGrows
<1> QED BY <1>6, <1>7, <1>8, <1>9, <1>11, <1>12 DEF S, EntryPath

\* What is below a directory, and is not the directory, has an entry of the
\* directory on its way.
LEMMA EntryOnTheWay ==
    ASSUME NEW tree, NEW texts, IsDisk(tree, texts),
           NEW b \in EntryPath, NEW q \in DOMAIN tree, IsPrefix(b, q), q # b
    PROVE  \E c \in DOMAIN tree : c # <<>> /\ Front(c) = b
<1> DEFINE S == Names \ {".", ".."}
           D == {c \in DOMAIN tree : IsPrefix(b, c) /\ c # b}
           T == {Len(c) : c \in D}
<1>1. \A c \in DOMAIN tree : c \in Seq(S) /\ Len(c) \in Nat BY DEF IsDisk, EntryPath
<1>2. b \in Seq(S) BY DEF EntryPath
<1>3. PICK m \in T : \A k \in T : ~(k < m)
  <2>1. T \subseteq Nat /\ T # {} BY <1>1
  <2> HIDE DEF T
  <2> QED BY <2>1, LeastNumber
<1>4. PICK c \in D : Len(c) = m BY <1>3
<1> HIDE DEF S
<1>5. c # <<>> /\ IsPrefix(b, Front(c)) BY <1>1, <1>2, <1>4, BelowFront
<1>6. Front(c) \in DOMAIN tree BY <1>4, <1>5 DEF IsDisk
<1>7. Len(Front(c)) = Len(c) - 1 BY <1>1, <1>4, <1>5, FrontAndLast
<1>8. Len(Front(c)) < m
  <2>1. PICK x, y : x = Len(c) /\ y = Len(Front(c)) OBVIOUS
  <2>2. x \in Nat /\ y = x - 1 /\ x = m BY <1>1, <1>4, <1>7, <2>1
  <2>3. y < m BY <2>2
  <2> QED BY <2>1, <2>3
<1>9. Front(c) \notin D BY <1>3, <1>8
<1> QED BY <1>4, <1>5, <1>6, <1>9

\* rename: what was below a is below b, inside as before, and nothing else is
\* different; what was at b, which had nothing below it, is gone.
LEMMA MovedIsGood ==
    ASSUME NEW tree, NEW texts, NEW n \in Nat, GoodTree(tree, texts, n),
           NEW a \in Inside, NEW b \in Inside, ~IsPrefix(a, b), b # <<>>,
           Front(b) \in DOMAIN tree, tree[Front(b)].kind = "dir",
           \A c \in DOMAIN tree : c # <<>> => Front(c) # b
    PROVE  /\ GoodTree(Moved(tree, a, b), texts, n)
           /\ SameOutside(tree, Moved(tree, a, b))
           /\ \A q \in DOMAIN tree :
                 IF IsPrefix(a, q)
                 THEN /\ Rebased(q, a, b) \in DOMAIN Moved(tree, a, b) /\ Rebased(q, a, b) \in Inside
                      /\ Moved(tree, a, b)[Rebased(q, a, b)] = tree[q]
                 ELSE q # b => q \in DOMAIN Moved(tree, a, b) /\ Moved(tree, a, b)[q] = tree[q]
<1>1. PICK t, low, moved : /\ t = Moved(tree, a, b) /\ low = Below(tree, a)
                           /\ moved = {Rebased(q, a, b) : q \in low}
  OBVIOUS
<1>2. /\ DOMAIN t = (DOMAIN tree \ low) \cup moved
      /\ \A q \in DOMAIN t : t[q] = IF q \in moved THEN tree[Rebased(q, b, a)] ELSE tree[q]
  BY <1>1 DEF Moved
<1>3. low \subseteq DOMAIN tree /\ \A q \in DOMAIN tree : q \in low <=> IsPrefix(a, q)
  BY <1>1 DEF Below
<1>4. a \in EntryPath /\ b \in EntryPath /\ IsValidPath(a) /\ IsValidPath(b) BY DEF Inside
<1>5. IsDisk(tree, texts) BY DEF GoodTree
<1>6. \A q \in DOMAIN tree : q \in EntryPath BY <1>5 DEF IsDisk
<1>7. ASSUME NEW q \in low
      PROVE  /\ Rebased(q, a, b) \in moved /\ Rebased(q, a, b) \in Inside
             /\ Rebased(Rebased(q, a, b), b, a) = q /\ q \in Inside
             /\ IsPrefix(b, Rebased(q, a, b))
             /\ q = a => Rebased(q, a, b) = b
             /\ q # a => /\ Rebased(q, a, b) # <<>>
                         /\ Front(q) \in low /\ tree[Front(q)].kind = "dir"
                         /\ Front(Rebased(q, a, b)) = Rebased(Front(q), a, b)
  <2>1. q \in DOMAIN tree /\ q \in EntryPath /\ IsPrefix(a, q) BY <1>3, <1>6
  <2>2. PICK p : p = Rebased(q, a, b) OBVIOUS
  <2>3. /\ p \in Inside /\ q \in Inside /\ Rebased(p, b, a) = q /\ IsPrefix(b, p)
        /\ q = a => p = b
        /\ q # a => /\ p # <<>> /\ q # <<>> /\ IsPrefix(a, Front(q))
                    /\ Front(p) = Rebased(Front(q), a, b)
    BY <1>4, <2>1, <2>2, RebasedThereAndBack
  <2>4. q # a => Front(q) \in DOMAIN tree /\ tree[Front(q)].kind = "dir"
    BY <1>5, <2>1, <2>3 DEF IsDisk
  <2> QED BY <1>1, <1>3, <2>2, <2>3, <2>4
<1>8. \A p \in moved : \E q \in low : p = Rebased(q, a, b) BY <1>1
\* What is below b is what came there.
<1>9. ASSUME NEW q \in DOMAIN tree, IsPrefix(b, q) PROVE q = b
  BY <1>4, <1>5, <1>9, EntryOnTheWay
<1>10. ASSUME NEW q \in DOMAIN tree, q \in moved PROVE q = b
  <2>1. IsPrefix(b, q) BY <1>7, <1>8, <1>10
  <2> QED BY <1>9, <2>1
<1>11. <<>> \notin low /\ <<>> \notin moved
  <2>1. ~IsValidPath(<<>>) BY DEF IsValidPath
  <2> QED BY <1>7, <1>8, <2>1 DEF Inside
\* Where an entry was before: each has one place of its own, inside if it is inside now.
<1>12. PICK was : was = [q \in DOMAIN t |-> IF q \in moved THEN Rebased(q, b, a) ELSE q] OBVIOUS
<1>13. ASSUME NEW q \in DOMAIN t
       PROVE  /\ was[q] \in DOMAIN tree /\ t[q] = tree[was[q]]
              /\ q \in EntryPath /\ (IsValidPath(q) <=> IsValidPath(was[q]))
              /\ IF q \in moved THEN was[q] \in low /\ q = Rebased(was[q], a, b)
                 ELSE was[q] = q /\ q \notin low
  <2>1. CASE q \in moved
    <3>1. PICK o \in low : q = Rebased(o, a, b) BY <1>8, <2>1
    <3>2. Rebased(q, b, a) = o /\ q \in Inside /\ o \in Inside BY <1>7, <3>1
    <3>3. was[q] = o BY <1>12, <2>1, <3>2
    <3> QED BY <1>2, <1>3, <2>1, <3>1, <3>2, <3>3 DEF Inside
  <2>2. CASE q \notin moved BY <1>2, <1>6, <1>12, <2>2
  <2> QED BY <2>1, <2>2
<1>14. ASSUME NEW q \in DOMAIN t, NEW r \in DOMAIN t, was[q] = was[r] PROVE q = r
  BY <1>13, <1>14
<1>15. IsDisk(t, texts)
  <2>1. <<>> \in DOMAIN t /\ t[<<>>].kind = "dir" BY <1>2, <1>5, <1>11 DEF IsDisk
  <2>2. ASSUME NEW q \in DOMAIN t
        PROVE  /\ q \in EntryPath /\ t[q] \in Nodes
               /\ t[q].kind = "file" => t[q].ino \in DOMAIN texts
               /\ t[q].kind # "link" => t[q].to = <<>>
    BY <1>5, <1>13 DEF IsDisk, Nodes
  <2>3. ASSUME NEW q \in DOMAIN t, q # <<>>
        PROVE  Front(q) \in DOMAIN t /\ t[Front(q)].kind = "dir"
    <3>1. CASE q \in moved /\ was[q] = a
      <4>1. q = b BY <1>7, <1>13, <3>1
      <4>2. Front(b) \notin low
        <5>1. ASSUME IsPrefix(a, Front(b)) PROVE FALSE
          BY <1>4, <5>1, AboveFront DEF EntryPath
        <5> QED BY <1>3, <5>1
      <4>3. Front(b) \notin moved
        <5>1. ASSUME Front(b) \in moved PROVE FALSE
          <6>1. Front(b) = b BY <1>10, <5>1
          <6>2. Len(Front(b)) = Len(b) - 1 /\ Len(b) \in Nat BY <1>4, FrontAndLast DEF EntryPath
          <6>3. PICK m : m = Len(b) OBVIOUS
          <6>4. m \in Nat /\ m = m - 1 BY <6>1, <6>2, <6>3
          <6> QED BY <6>4
        <5> QED BY <5>1
      <4> QED BY <1>2, <4>1, <4>2, <4>3
    <3>2. CASE q \in moved /\ was[q] # a
      <4>1. PICK o : o = was[q] OBVIOUS
      <4>2. o \in low /\ q = Rebased(o, a, b) /\ o # a BY <1>13, <3>2, <4>1
      <4>3. Front(o) \in low /\ tree[Front(o)].kind = "dir" /\ Front(q) = Rebased(Front(o), a, b)
        BY <1>7, <4>2
      <4>4. Front(q) \in moved /\ Rebased(Front(q), b, a) = Front(o) BY <1>7, <4>3
      <4> QED BY <1>2, <4>3, <4>4
    <3>3. CASE q \notin moved
      <4>1. q \in DOMAIN tree /\ q \notin low /\ q \in EntryPath BY <1>2, <1>13, <3>3
      <4>2. Front(q) \in DOMAIN tree /\ tree[Front(q)].kind = "dir"
        BY <1>5, <2>3, <4>1 DEF IsDisk
      <4>3. Front(q) \notin low
        <5>1. ASSUME IsPrefix(a, Front(q)) PROVE FALSE
          <6>1. IsPrefix(a, q) BY <1>4, <2>3, <4>1, <5>1, AboveFront DEF EntryPath
          <6> QED BY <1>3, <4>1, <6>1
        <5> QED BY <1>3, <5>1
      <4>4. Front(q) \notin moved BY <1>10, <2>3, <4>1, <4>2
      <4> QED BY <1>2, <4>2, <4>3, <4>4
    <3> QED BY <3>1, <3>2, <3>3
  <2>4. ASSUME NEW q \in DOMAIN t, NEW r \in DOMAIN t, t[q].ino = t[r].ino
        PROVE  t[q] = t[r] /\ (t[q].kind = "dir" => q = r)
    <3>1. /\ was[q] \in DOMAIN tree /\ was[r] \in DOMAIN tree
          /\ t[q] = tree[was[q]] /\ t[r] = tree[was[r]]
      BY <1>13
    <3>2. t[q] = t[r] /\ (t[q].kind = "dir" => was[q] = was[r]) BY <1>5, <2>4, <3>1 DEF IsDisk
    <3> QED BY <1>14, <3>2
  <2> QED BY <2>1, <2>2, <2>3, <2>4 DEF IsDisk, Nodes
<1>16. LinksInside(t)
  <2>1. <<"tmp">> \in DOMAIN tree /\ tree[<<"tmp">>].kind = "dir" BY DEF GoodTree, LinksInside
  <2>2. <<"tmp">> \in DOMAIN t /\ t[<<"tmp">>] = tree[<<"tmp">>]
    <3>1. <<"tmp">> \notin low /\ <<"tmp">> \notin moved BY <1>7, <1>8, TmpIsOutside DEF Inside
    <3> QED BY <1>2, <2>1, <3>1
  <2> QED BY <1>13, <2>1, <2>2 DEF GoodTree, LinksInside
<1>17. Separate(t)
  <2> SUFFICES ASSUME NEW q \in DOMAIN t, NEW r \in DOMAIN t, t[q].ino = t[r].ino
               PROVE  IsValidPath(q) <=> IsValidPath(r)
    BY DEF Separate
  <2>1. IsValidPath(was[q]) <=> IsValidPath(was[r]) BY <1>13 DEF GoodTree, Separate
  <2> QED BY <1>13, <2>1
<1>18. \A q \in DOMAIN t : t[q].ino \in 1..n BY <1>13 DEF GoodTree
<1>19. SameOutside(tree, t)
  <2>1. \A q \in moved : IsValidPath(q) BY <1>7, <1>8 DEF Inside
  <2>2. \A q \in low : IsValidPath(q) BY <1>7 DEF Inside
  <2> QED BY <1>2, <2>1, <2>2 DEF SameOutside
<1>20. ASSUME NEW q \in DOMAIN tree
       PROVE  IF IsPrefix(a, q)
              THEN Rebased(q, a, b) \in DOMAIN t /\ Rebased(q, a, b) \in Inside /\ t[Rebased(q, a, b)] = tree[q]
              ELSE q # b => q \in DOMAIN t /\ t[q] = tree[q]
  <2>1. CASE q \in low BY <1>2, <1>3, <1>7, <2>1
  <2>2. CASE q \notin low /\ q # b BY <1>2, <1>3, <1>10, <2>2
  <2> QED BY <1>3, <2>1, <2>2
<1> QED BY <1>1, <1>15, <1>16, <1>17, <1>18, <1>19, <1>20 DEF GoodTree

\* What is entry by entry the same is as good.
LEMMA GoodIfSame ==
    ASSUME NEW tree, NEW texts, NEW n, GoodTree(tree, texts, n),
           NEW t, DOMAIN t = DOMAIN tree, \A q \in DOMAIN tree : t[q] = tree[q]
    PROVE  GoodTree(t, texts, n) /\ SameOutside(tree, t)
<1>1. IsDisk(t, texts) BY DEF GoodTree, IsDisk
<1>2. LinksInside(t) /\ Separate(t) /\ \A q \in DOMAIN t : t[q].ino \in 1..n
  BY DEF GoodTree, LinksInside, Separate
<1> QED BY <1>1, <1>2 DEF GoodTree, SameOutside

-----------------------------------------------------------------------------
(* The invariant *)

\* The current directory is one, at home or inside, or it was removed.
WhereItIs == cwd = Gone \/ (IsDir(cwd) /\ (cwd = Home \/ cwd \in Inside))

\* Numbers that are given out: a command that is carried out has its own left.
Used == IF shell = "run" THEN OldInodes + typed - 1 ELSE OldInodes + typed

Modes == [1..(OldInodes + MaxLines) -> SUBSET Permissions]

ShellInv ==
    /\ GoodTree(fs, data, Used)
    /\ mode \in Modes
    /\ WhereItIs
    /\ line \in Lines \cup {NoLine}
    /\ typed \in 0..MaxLines
    /\ shell \in {"prompt", "run", "child", "over", "crashed"}
    /\ shell = "run" => typed # 0 /\ cwd # Gone

\* What does not begin like BASE_PATH is as it was.
OutsideKept == \A q \in DOMAIN fs \cup DOMAIN fs' : ~IsValidPath(q) => Kept(q)

\* A step that changes the current directory leads inside, or the directory is gone.
GoesInside == cwd' \in {cwd, Gone} \cup Inside

\* What a command has to do to the disk and the current directory.
Keeps ==
    /\ GoodTree(fs', data', OldInodes + typed)
    /\ mode' \in Modes
    /\ WhereItIs'
    /\ OutsideKept
    /\ GoesInside

\* The numbers while a command is carried out.
LEMMA Numbers ==
    ASSUME ShellInv, shell = "run"
    PROVE  \E n \in Nat :
              /\ GoodTree(fs, data, n)
              /\ Fresh = n + 1 /\ OldInodes + typed = n + 1 /\ n + 1 \in 1..(OldInodes + MaxLines)
              /\ \A i \in 1..n : i \in 1..(OldInodes + MaxLines) /\ i # n + 1
<1>1. OldInodes \in Nat \ {0} /\ MaxLines \in Nat BY BoundsAssumption
<1>2. PICK k, n : k = typed /\ n = OldInodes + k - 1 OBVIOUS
<1>3. k \in 0..MaxLines /\ k # 0 BY <1>2 DEF ShellInv
<1>4. n \in Nat /\ OldInodes + k = n + 1 /\ n + 1 \in 1..(OldInodes + MaxLines)
  BY <1>1, <1>2, <1>3
<1>5. \A i \in 1..n : i \in 1..(OldInodes + MaxLines) /\ i # n + 1 BY <1>1, <1>4
<1>6. GoodTree(fs, data, n) BY <1>2 DEF ShellInv, Used
<1> QED BY <1>2, <1>4, <1>5, <1>6 DEF Fresh

\* A command that leaves the disk alone.
LEMMA DiskLeftAlone ==
    ASSUME ShellInv, shell = "run", UNCHANGED disk, WhereItIs', GoesInside
    PROVE  Keeps
<1>1. PICK n \in Nat : GoodTree(fs, data, n) /\ OldInodes + typed = n + 1 BY Numbers
<1>2. GoodTree(fs, data, n + 1)
  <2>1. PICK tree, texts : tree = fs /\ texts = data OBVIOUS
  <2>2. GoodTree(tree, texts, n + 1) BY <1>1, <2>1, GoodWithMore
  <2> QED BY <2>1, <2>2
<1>3. fs' = fs /\ data' = data /\ mode' = mode BY DEF disk
<1>4. mode' \in Modes BY <1>3 DEF ShellInv
<1>5. OutsideKept BY <1>3 DEF OutsideKept, Kept
<1>6. GoodTree(fs', data', OldInodes + typed) BY <1>1, <1>2, <1>3
<1> QED BY <1>4, <1>5, <1>6 DEF Keeps

\* The path from which a command starts, and its own paths, are clean.
LEMMA PathsAreClean ==
    ASSUME ShellInv, shell = "run"
    PROVE  /\ From \in EntryPath /\ To \in EntryPath
           /\ ConvertToAbsolute(Arg(FALSE, <<"-m">>)) \in EntryPath
<1>1. Base \in Seq(Names)
  <2>1. "tmp" \in Names /\ "test" \in Names BY NamesAssumption
  <2> QED BY <2>1 DEF Base
<1>2. cwd \in Seq(Names)
  <2>1. \A q \in EntryPath : q \in Seq(Names) BY DEF EntryPath
  <2>2. <<>> \in Seq(Names) OBVIOUS
  <2>3. cwd = Home \/ cwd \in Inside BY DEF ShellInv, WhereItIs
  <2> QED BY <2>1, <2>2, <2>3 DEF Home, Inside
<1>3. line.from.names \in Seq(Names) /\ line.to.names \in Seq(Names)
  <2>1. CASE line \in Lines BY <2>1, LinesAssumption
  <2>2. CASE line = NoLine
    <3>1. NoArg.names = <<>> /\ NoLine.from = NoArg /\ NoLine.to = NoArg
      BY DEF NoLine, Line, NoArg, Arg
    <3>2. <<>> \in Seq(Names) OBVIOUS
    <3> QED BY <2>2, <3>1, <3>2
  <2> QED BY <2>1, <2>2 DEF ShellInv
<1>4. ASSUME NEW names \in Seq(Names), NEW absolute
      PROVE  Normal((IF absolute THEN Base ELSE cwd) \o names) \in EntryPath
  <2>1. PICK s : s = (IF absolute THEN Base ELSE cwd) \o names OBVIOUS
  <2>2. s \in Seq(Names) BY <1>1, <1>2, <2>1
  <2> QED BY <2>1, <2>2, NormalIsClean
<1>5. From \in EntryPath /\ To \in EntryPath BY <1>3, <1>4 DEF From, To, ConvertToAbsolute
<1>6. ConvertToAbsolute(Arg(FALSE, <<"-m">>)) \in EntryPath
  <2>1. PICK names : names = <<"-m">> OBVIOUS
  <2>2. names \in Seq(Names)
    <3>1. "-m" \in Names BY NamesAssumption
    <3> QED BY <2>1, <3>1
  <2>3. Normal((IF FALSE THEN Base ELSE cwd) \o names) \in EntryPath BY <1>4, <2>2
  <2>4. Arg(FALSE, names).absolute = FALSE /\ Arg(FALSE, names).names = names BY DEF Arg
  <2> QED BY <2>1, <2>3, <2>4 DEF ConvertToAbsolute
<1> QED BY <1>5, <1>6

\* Where a path leads that the check has let through.
LEMMA LeadsInside ==
    ASSUME ShellInv, shell = "run", NEW p \in EntryPath, IsValidPath(p)
    PROVE  /\ Place(p) = NoPath \/ Place(p) \in Inside
           /\ Target(p) = NoPath \/ (Target(p) \in Inside /\ ~IsLink(Target(p)))
<1>1. p \in Inside BY DEF Inside
<1>2. IsDisk(fs, data) /\ LinksInside(fs) BY DEF ShellInv, GoodTree
<1> QED BY <1>1, <1>2, WalkStaysInside DEF Place, Target

\* NoPath is no entry, and the root is not inside.
LEMMA NotThere ==
    ASSUME ShellInv
    PROVE  NoPath \notin DOMAIN fs /\ Gone \notin DOMAIN fs /\ <<>> \notin Inside /\ Home \notin Inside
           /\ IsDir(Home)
<1>1. \A q \in DOMAIN fs : q \in EntryPath BY DEF ShellInv, GoodTree, IsDisk
<1>2. ~IsValidPath(<<>>) BY DEF IsValidPath
<1>3. IsDir(<<>>) BY DEF ShellInv, GoodTree, IsDisk, IsDir
<1> QED BY <1>1, <1>2, <1>3, NoPathIsNone DEF Inside, Home

-----------------------------------------------------------------------------
(* The commands, one by one *)

\* Usage, help, cat and ls leave the disk and the current directory alone.
LEMMA ReadersKeep ==
    ASSUME ShellInv, shell = "run", UNCHANGED <<disk, cwd>>
    PROVE  Keeps
<1>1. fs' = fs /\ cwd' = cwd /\ UNCHANGED disk BY DEF disk
<1>2. WhereItIs' /\ GoesInside BY <1>1 DEF ShellInv, WhereItIs, IsDir, GoesInside
<1> QED BY <1>1, <1>2, DiskLeftAlone

\* cd goes where the checked path leads, or to BASE_PATH.
LEMMA CdKeeps == ASSUME ShellInv, Cd \/ CdHome PROVE Keeps
<1>1. shell = "run" /\ UNCHANGED disk /\ fs' = fs BY DEF Cd, CdHome, Runs, Has, disk
<1>2. \/ cwd' = cwd
      \/ \E p \in EntryPath : IsValidPath(p) /\ IsDir(Target(p)) /\ cwd' = Target(p)
  <2>1. CASE Cd BY <1>1, <2>1, PathsAreClean DEF Cd
  <2>2. CASE CdHome
    <3>1. Base \in EntryPath /\ IsValidPath(Base) BY BaseIsInside DEF Inside
    <3> QED BY <2>2, <3>1 DEF CdHome
  <2> QED BY <2>1, <2>2
<1>3. WhereItIs' /\ GoesInside
  <2>1. CASE cwd' = cwd BY <1>1, <2>1 DEF ShellInv, WhereItIs, IsDir, GoesInside
  <2>2. ASSUME NEW p \in EntryPath, IsValidPath(p), IsDir(Target(p)), cwd' = Target(p)
        PROVE  WhereItIs' /\ GoesInside
    <3>1. PICK q : q = Target(p) OBVIOUS
    <3>2. q \in DOMAIN fs /\ fs[q].kind = "dir" BY <2>2, <3>1 DEF IsDir
    <3>3. q \in Inside BY <1>1, <2>2, <3>1, <3>2, LeadsInside, NotThere
    <3> QED BY <1>1, <2>2, <3>1, <3>2, <3>3 DEF WhereItIs, IsDir, GoesInside
  <2> QED BY <1>2, <2>1, <2>2
<1> QED BY <1>1, <1>3, DiskLeftAlone

\* A command that makes one entry inside, by a number of its own or as another name.
LEMMA EntryMade ==
    ASSUME ShellInv, shell = "run", NEW q, q \in Inside, Creatable(q), NEW node \in Nodes,
           fs' = With(q, node), UNCHANGED cwd, mode' \in Modes,
           DOMAIN data \subseteq DOMAIN data', node.kind = "file" => node.ino \in DOMAIN data',
           node.kind = "link" => IsValidPath(node.to),
           node.kind # "link" => node.to = <<>>,
           \/ node.ino = Fresh
           \/ node.kind # "dir" /\ \E a \in DOMAIN fs : IsValidPath(a) /\ node = fs[a],
           \A i \in DOMAIN mode : i # Fresh => mode'[i] = mode[i],
           \A i \in DOMAIN data : i # Fresh => data'[i] = data[i]
    PROVE  Keeps
<1>1. PICK n \in Nat : /\ GoodTree(fs, data, n)
                       /\ Fresh = n + 1 /\ OldInodes + typed = n + 1
                       /\ \A i \in 1..n : i \in 1..(OldInodes + MaxLines) /\ i # n + 1
  BY Numbers
<1>2. PICK tree, tree2, texts, texts2, m, m2 :
         tree = fs /\ tree2 = fs' /\ texts = data /\ texts2 = data' /\ m = mode /\ m2 = mode'
  OBVIOUS
<1>3. q \notin DOMAIN tree /\ q # <<>> /\ Front(q) \in DOMAIN tree /\ tree[Front(q)].kind = "dir"
  BY <1>2 DEF Creatable, IsDir
<1>4. tree2 = Put(tree, q, node) BY <1>2 DEF With
<1>5. GoodTree(tree, texts2, n)
  <2>1. GoodTree(tree, texts, n) /\ DOMAIN texts \subseteq DOMAIN texts2 BY <1>1, <1>2
  <2> QED BY <2>1, GoodWithMore
<1>6. /\ node.kind = "file" => node.ino \in DOMAIN texts2
      /\ \/ node.ino = n + 1
         \/ node.kind # "dir" /\ \E a \in DOMAIN tree : IsValidPath(a) /\ node = tree[a]
  BY <1>1, <1>2
<1>7. GoodTree(tree2, texts2, n + 1) /\ SameOutside(tree, tree2)
  BY <1>3, <1>4, <1>5, <1>6, NewEntry
<1>8. WhereItIs'
  <2>1. \A d \in DOMAIN fs : d \in DOMAIN fs' /\ fs'[d] = fs[d] BY <1>2, <1>3, <1>4 DEF Put
  <2> QED BY <2>1 DEF ShellInv, WhereItIs, IsDir
<1>9. OutsideKept
  <2>1. \A d \in DOMAIN fs : fs[d].ino \in 1..n /\ (fs[d].kind = "file" => fs[d].ino \in DOMAIN data)
    BY <1>1 DEF GoodTree, IsDisk
  <2>2. \A d \in DOMAIN fs : fs[d].ino \in DOMAIN mode /\ fs[d].ino # Fresh
    BY <1>1, <2>1 DEF ShellInv, Modes
  <2> QED BY <1>2, <1>7, <2>1, <2>2 DEF OutsideKept, Kept, SameOutside
<1> QED BY <1>1, <1>2, <1>7, <1>8, <1>9 DEF Keeps, GoesInside

\* mkdir(2) makes a directory with a number of its own.
LEMMA MakeDirKeeps ==
    ASSUME ShellInv, shell = "run", NEW p \in EntryPath, NEW bits, bits \subseteq Permissions, MakeDir(p, bits)
    PROVE  Keeps
<1>1. data' = data /\ cwd' = cwd BY DEF MakeDir
<1>2. PICK q : q = Place(p) OBVIOUS
<1>3. CASE IsValidPath(p) /\ Creatable(q)
  <2>1. fs' = With(q, Node("dir", Fresh, <<>>)) /\ mode' = [mode EXCEPT ![Fresh] = bits]
    BY <1>2, <1>3 DEF MakeDir
  <2>2. q \in Inside
    <3>1. q # NoPath BY <1>3 DEF Creatable
    <3> QED BY <1>2, <1>3, <3>1, LeadsInside
  <2>3. mode' \in Modes /\ \A i \in DOMAIN mode : i # Fresh => mode'[i] = mode[i]
    <3>1. mode \in Modes BY DEF ShellInv
    <3> QED BY <2>1, <3>1 DEF Modes
  <2>4. PICK node : node = Node("dir", Fresh, <<>>) OBVIOUS
  <2>5. /\ node \in Nodes /\ node.kind = "dir" /\ node.to = <<>> /\ node.ino = Fresh
    <3>1. Fresh \in Nat BY Numbers
    <3>2. <<>> \in EntryPath BY DEF EntryPath
    <3> QED BY <2>4, <3>1, <3>2 DEF Node, Nodes
  <2> QED BY <1>1, <1>3, <2>1, <2>2, <2>3, <2>4, <2>5, EntryMade
<1>4. CASE ~(IsValidPath(p) /\ Creatable(q))
  <2>1. UNCHANGED <<disk, cwd>> BY <1>1, <1>2, <1>4 DEF MakeDir, disk
  <2> QED BY <2>1, ReadersKeep
<1> QED BY <1>3, <1>4

\* The commands that make directories: with the mode that was given, or the usual
\* one, with or without the umask.
LEMMA MkdirKeeps ==
    ASSUME ShellInv, shell = "run",
           Mkdir \/ MakesDir(From) \/ MakesDir(ConvertToAbsolute(Arg(FALSE, <<"-m">>)))
    PROVE  Keeps
<1>1. CASE Mkdir /\ line.how.octal
  <2>1. PICK p, bits : p = From /\ bits = line.how.mode OBVIOUS
  <2>2. bits \subseteq Permissions
    <3>1. CASE line \in Lines BY <2>1, <3>1, LinesAssumption
    <3>2. CASE line = NoLine
      <4>1. NoLine.how.mode = {} BY DEF NoLine, Line, Octal
      <4> QED BY <2>1, <3>2, <4>1
    <3> QED BY <3>1, <3>2 DEF ShellInv
  <2>3. p \in EntryPath /\ MakeDir(p, bits) BY <1>1, <2>1, PathsAreClean DEF Mkdir
  <2> QED BY <2>2, <2>3, MakeDirKeeps
<1>2. CASE Mkdir /\ ~line.how.octal
  <2>1. UNCHANGED <<disk, cwd>> BY <1>2 DEF Mkdir, Explains
  <2> QED BY <2>1, ReadersKeep
<1>3. ASSUME NEW p \in EntryPath, MakesDir(p) PROVE Keeps
  <2>1. PICK bits : bits = DefaultDirMode \ Umask OBVIOUS
  <2>2. bits \subseteq Permissions BY <2>1 DEF DefaultDirMode, Permissions, Rwx
  <2> QED BY <1>3, <2>1, <2>2, MakeDirKeeps DEF MakesDir
<1> QED BY <1>1, <1>2, <1>3, PathsAreClean

\* An entry inside that has none below it is taken away.
LEMMA EntryGone ==
    ASSUME ShellInv, shell = "run", NEW q, q \in Inside, Children(q) = {},
           fs' = Without(q), cwd' = (IF cwd = q THEN Gone ELSE cwd), UNCHANGED <<data, mode>>
    PROVE  Keeps
<1>1. PICK n \in Nat : GoodTree(fs, data, n) /\ OldInodes + typed = n + 1 BY Numbers
<1>2. PICK tree, tree2, texts : tree = fs /\ tree2 = fs' /\ texts = data OBVIOUS
<1>3. tree2 = [r \in DOMAIN tree \ {q} |-> tree[r]] BY <1>2 DEF Without
<1>4. \A r \in DOMAIN tree : r # <<>> => Front(r) # q BY <1>2 DEF Children
<1>5. GoodTree(tree2, texts, n) /\ SameOutside(tree, tree2)
  <2>1. IsValidPath(q) /\ GoodTree(tree, texts, n) BY <1>1, <1>2 DEF Inside
  <2> QED BY <1>3, <1>4, <2>1, EntryTakenAway
<1>6. GoodTree(tree2, texts, n + 1) BY <1>5, GoodWithMore
<1>7. WhereItIs'
  <2>1. cwd # q /\ cwd \in DOMAIN fs => cwd \in DOMAIN fs' /\ fs'[cwd] = fs[cwd] BY <1>2, <1>3
  <2> QED BY <2>1 DEF ShellInv, WhereItIs, IsDir
<1>8. OutsideKept BY <1>2, <1>5 DEF OutsideKept, Kept, SameOutside
<1>9. mode' \in Modes BY DEF ShellInv
<1> QED BY <1>1, <1>2, <1>6, <1>7, <1>8, <1>9 DEF Keeps, GoesInside

\* Something that is no directory has nothing below it.
LEMMA NothingBelow == ASSUME ShellInv, NEW q, ~IsDir(q) PROVE Children(q) = {}
BY DEF ShellInv, GoodTree, IsDisk, Children, IsDir

\* rmdir removes an empty directory, maybe the current one; rm a file or a link.
LEMMA RemovalsKeep == ASSUME ShellInv, Rmdir \/ Rm PROVE Keeps
<1>1. shell = "run" /\ UNCHANGED <<data, mode>> BY DEF Rmdir, Rm, Runs, Has
<1>2. PICK q : q = Place(From) OBVIOUS
<1>3. ASSUME IsValidPath(From), q \in DOMAIN fs PROVE q \in Inside
  <2>1. q # NoPath BY <1>3, NotThere
  <2> QED BY <1>1, <1>2, <1>3, <2>1, PathsAreClean, LeadsInside
<1>4. \/ UNCHANGED <<disk, cwd>>
      \/ /\ q \in Inside /\ Children(q) = {} /\ fs' = Without(q)
         /\ cwd' = IF cwd = q THEN Gone ELSE cwd
  <2>1. CASE Rmdir
    <3>1. CASE IsValidPath(From) /\ IsDir(q) /\ Children(q) = {}
      <4>1. fs' = Without(q) /\ cwd' = IF cwd = q THEN Gone ELSE cwd BY <1>2, <2>1, <3>1 DEF Rmdir
      <4> QED BY <1>3, <3>1, <4>1 DEF IsDir
    <3>2. CASE ~(IsValidPath(From) /\ IsDir(q) /\ Children(q) = {})
      BY <1>1, <1>2, <2>1, <3>2 DEF Rmdir, disk
    <3> QED BY <3>1, <3>2
  <2>2. CASE Rm
    <3>1. CASE IsValidPath(From) /\ q \in DOMAIN fs /\ ~IsDir(q)
      <4>1. fs' = Without(q) /\ cwd' = cwd BY <1>2, <2>2, <3>1 DEF Rm
      <4>2. Children(q) = {} BY <3>1, NothingBelow
      <4>3. cwd # q BY <3>1, NotThere DEF ShellInv, WhereItIs
      <4> QED BY <1>3, <3>1, <4>1, <4>2, <4>3
    <3>2. CASE ~(IsValidPath(From) /\ q \in DOMAIN fs /\ ~IsDir(q))
      BY <1>1, <1>2, <2>2, <3>2 DEF Rm, disk
    <3> QED BY <3>1, <3>2
  <2> QED BY <2>1, <2>2
<1> QED BY <1>1, <1>4, ReadersKeep, EntryGone

\* ln gives another name to what has one inside.
LEMMA LnKeeps == ASSUME ShellInv, Ln PROVE Keeps
<1>1. shell = "run" /\ UNCHANGED <<data, mode, cwd>> BY DEF Ln, Runs, Has
<1>2. PICK a, b : a = Place(From) /\ b = Place(To) OBVIOUS
<1>3. CASE /\ IsValidPath(From) /\ IsValidPath(To)
           /\ a \in DOMAIN fs /\ ~IsDir(a) /\ Creatable(b)
  <2>1. fs' = With(b, fs[a]) BY <1>2, <1>3 DEF Ln
  <2>2. a \in Inside /\ b \in Inside
    <3>1. a # NoPath /\ b # NoPath BY <1>3, NotThere DEF Creatable
    <3> QED BY <1>1, <1>2, <1>3, <3>1, PathsAreClean, LeadsInside
  <2>3. PICK node : node = fs[a] OBVIOUS
  <2>4. /\ node \in Nodes /\ node.kind # "dir" /\ IsValidPath(a)
        /\ node.kind = "file" => node.ino \in DOMAIN data
        /\ node.kind = "link" => IsValidPath(node.to)
        /\ node.kind # "link" => node.to = <<>>
    BY <1>3, <2>2, <2>3 DEF ShellInv, GoodTree, IsDisk, LinksInside, Nodes, IsDir, Inside
  <2>5. mode' = mode /\ data' = data /\ mode' \in Modes BY <1>1 DEF ShellInv
  <2> QED BY <1>1, <1>3, <2>1, <2>2, <2>3, <2>4, <2>5, EntryMade
<1>4. CASE ~(/\ IsValidPath(From) /\ IsValidPath(To)
             /\ a \in DOMAIN fs /\ ~IsDir(a) /\ Creatable(b))
  <2>1. UNCHANGED <<disk, cwd>> BY <1>1, <1>2, <1>4 DEF Ln, disk
  <2> QED BY <1>1, <2>1, ReadersKeep
<1> QED BY <1>3, <1>4

\* ln -s makes a link to a path that was checked.
LEMMA LnSymbolicKeeps == ASSUME ShellInv, LnSymbolic PROVE Keeps
<1>1. shell = "run" /\ UNCHANGED <<data, mode, cwd>> BY DEF LnSymbolic, Runs, Has
<1>2. PICK b : b = Place(To) OBVIOUS
<1>3. CASE IsValidPath(From) /\ IsValidPath(To) /\ Creatable(b)
  <2>1. fs' = With(b, Node("link", Fresh, From)) BY <1>2, <1>3 DEF LnSymbolic
  <2>2. b \in Inside
    <3>1. b # NoPath BY <1>3 DEF Creatable
    <3> QED BY <1>1, <1>2, <1>3, <3>1, PathsAreClean, LeadsInside
  <2>3. PICK node, from : node = Node("link", Fresh, From) /\ from = From OBVIOUS
  <2>4. /\ node \in Nodes /\ node.kind = "link" /\ node.ino = Fresh /\ IsValidPath(node.to)
    <3>1. Fresh \in Nat BY <1>1, Numbers
    <3>2. from \in EntryPath /\ IsValidPath(from) BY <1>1, <1>3, <2>3, PathsAreClean
    <3>3. node = [kind |-> "link", ino |-> Fresh, to |-> from] BY <2>3 DEF Node
    <3>4. node \in Nodes BY <3>1, <3>2, <3>3 DEF Nodes
    <3>5. node.to = from /\ node.kind = "link" /\ node.ino = Fresh BY <3>3
    <3> QED BY <3>2, <3>4, <3>5
  <2>5. mode' = mode /\ data' = data /\ mode' \in Modes BY <1>1 DEF ShellInv
  <2> QED BY <1>1, <1>3, <2>1, <2>2, <2>3, <2>4, <2>5, EntryMade
<1>4. CASE ~(IsValidPath(From) /\ IsValidPath(To) /\ Creatable(b))
  <2>1. UNCHANGED <<disk, cwd>> BY <1>1, <1>2, <1>4 DEF LnSymbolic, disk
  <2> QED BY <1>1, <2>1, ReadersKeep
<1> QED BY <1>3, <1>4

\* rename moves what is inside to a place inside, and the current directory along.
LEMMA RenameKeeps == ASSUME ShellInv, Rename PROVE Keeps
<1>1. shell = "run" /\ UNCHANGED <<data, mode>> BY DEF Rename, Runs, Has
<1>2. PICK a, b : a = Place(From) /\ b = Place(To) OBVIOUS
<1>3. CASE /\ IsValidPath(From) /\ IsValidPath(To)
           /\ a \in DOMAIN fs /\ ~IsPrefix(a, b)
           /\ \/ Creatable(b)
              \/ b \in DOMAIN fs /\ IsDir(a) /\ IsDir(b) /\ Children(b) = {}
              \/ b \in DOMAIN fs /\ ~IsDir(a) /\ ~IsDir(b) /\ fs[a].ino # fs[b].ino
  <2>1. /\ fs' = Moved(fs, a, b)
        /\ cwd' = IF IsPrefix(a, cwd) THEN Rebased(cwd, a, b) ELSE IF cwd = b THEN Gone ELSE cwd
    BY <1>2, <1>3 DEF Rename
  <2>2. a \in Inside /\ b \in Inside
    <3>1. a # NoPath /\ b # NoPath BY <1>3, NotThere DEF Creatable
    <3> QED BY <1>1, <1>2, <1>3, <3>1, PathsAreClean, LeadsInside
  <2>3. PICK tree, tree2, texts, dir : tree = fs /\ tree2 = fs' /\ texts = data /\ dir = cwd OBVIOUS
  <2>4. PICK n \in Nat : GoodTree(tree, texts, n) /\ OldInodes + typed = n + 1
    BY <1>1, <2>3, Numbers
  <2>5. b # <<>> BY <2>2, NotThere
  <2>6. Front(b) \in DOMAIN tree /\ tree[Front(b)].kind = "dir"
    <3>1. CASE Creatable(b) BY <2>3, <3>1 DEF Creatable, IsDir
    <3>2. CASE b \in DOMAIN fs BY <2>3, <2>4, <2>5, <3>2 DEF GoodTree, IsDisk
    <3> QED BY <1>3, <3>1, <3>2
  <2>7. \A c \in DOMAIN tree : c # <<>> => Front(c) # b
    <3>1. Children(b) = {}
      <4>1. CASE Creatable(b) BY <4>1, NothingBelow DEF Creatable, IsDir
      <4>2. CASE ~IsDir(b) BY <4>2, NothingBelow
      <4> QED BY <1>3, <4>1, <4>2
    <3> QED BY <2>3, <3>1 DEF Children
  <2>8. tree2 = Moved(tree, a, b) BY <2>1, <2>3
  <2>9. /\ GoodTree(tree2, texts, n) /\ SameOutside(tree, tree2)
        /\ \A q \in DOMAIN tree :
              IF IsPrefix(a, q)
              THEN /\ Rebased(q, a, b) \in DOMAIN tree2 /\ Rebased(q, a, b) \in Inside
                   /\ tree2[Rebased(q, a, b)] = tree[q]
              ELSE q # b => q \in DOMAIN tree2 /\ tree2[q] = tree[q]
    <3>1. ~IsPrefix(a, b) BY <1>3
    <3> QED BY <2>2, <2>4, <2>5, <2>6, <2>7, <2>8, <3>1, MovedIsGood
  <2>10. GoodTree(tree2, texts, n + 1) BY <2>9, GoodWithMore
  <2>11. WhereItIs' /\ GoesInside
    <3>1. dir \in DOMAIN tree /\ tree[dir].kind = "dir" /\ (dir = Home \/ dir \in Inside)
      BY <1>1, <2>3 DEF ShellInv, WhereItIs, IsDir
    <3>2. CASE IsPrefix(a, dir)
      <4>1. PICK e : e = Rebased(dir, a, b) OBVIOUS
      <4>2. e \in DOMAIN tree2 /\ e \in Inside /\ tree2[e].kind = "dir"
        BY <2>9, <3>1, <3>2, <4>1
      <4>3. cwd' = e BY <2>1, <2>3, <3>2, <4>1
      <4> QED BY <2>3, <4>2, <4>3 DEF WhereItIs, IsDir, GoesInside
    <3>3. CASE ~IsPrefix(a, dir) /\ dir = b
      <4>1. cwd' = Gone BY <2>1, <2>3, <3>3
      <4> QED BY <4>1 DEF WhereItIs, GoesInside
    <3>4. CASE ~IsPrefix(a, dir) /\ dir # b
      <4>1. cwd' = dir /\ dir \in DOMAIN tree2 /\ tree2[dir].kind = "dir"
        BY <2>1, <2>3, <2>9, <3>1, <3>4
      <4> QED BY <2>3, <3>1, <4>1 DEF WhereItIs, IsDir, GoesInside
    <3> QED BY <3>2, <3>3, <3>4
  <2>12. OutsideKept BY <1>1, <2>3, <2>9 DEF OutsideKept, Kept, SameOutside
  <2>13. mode' \in Modes BY <1>1 DEF ShellInv
  <2> QED BY <1>1, <2>3, <2>4, <2>10, <2>11, <2>12, <2>13 DEF Keeps
<1>4. CASE ~(/\ IsValidPath(From) /\ IsValidPath(To)
             /\ a \in DOMAIN fs /\ ~IsPrefix(a, b)
             /\ \/ Creatable(b)
                \/ b \in DOMAIN fs /\ IsDir(a) /\ IsDir(b) /\ Children(b) = {}
                \/ b \in DOMAIN fs /\ ~IsDir(a) /\ ~IsDir(b) /\ fs[a].ino # fs[b].ino)
  <2>1. UNCHANGED <<disk, cwd>> BY <1>1, <1>2, <1>4 DEF Rename, disk
  <2> QED BY <1>1, <2>1, ReadersKeep
<1> QED BY <1>3, <1>4

\* cp writes into a file inside, under all of its names, or makes one.
LEMMA CpKeeps == ASSUME ShellInv, Cp PROVE Keeps
<1> DEFINE Ino(d) == IF d \in DOMAIN fs THEN fs[d].ino ELSE Fresh
           Text(s, i) == IF IsDir(s) \/ fs[s].ino = i THEN "" ELSE data[fs[s].ino]
           Allowed(s, d) == /\ IsValidPath(From) /\ IsValidPath(To)
                            /\ s \in DOMAIN fs
                            /\ Creatable(d) \/ (d \in DOMAIN fs /\ ~IsDir(d))
<1>1. shell = "run" /\ UNCHANGED cwd BY DEF Cp, Runs, Has
<1>2. PICK src, dst, ino, text :
         src = Target(From) /\ dst = Target(To) /\ ino = Ino(dst) /\ text = Text(src, ino)
  OBVIOUS
<1>3. IF Allowed(src, dst)
      THEN /\ fs' = With(dst, Node("file", ino, <<>>))
           /\ data' = Put(data, ino, text)
           /\ mode' = IF dst \in DOMAIN fs THEN mode ELSE [mode EXCEPT ![ino] = NewFileMode]
      ELSE UNCHANGED disk
  BY <1>2, Zenon DEF Cp
<1>4. CASE Allowed(src, dst)
  <2>1. dst \in Inside /\ ~IsLink(dst)
    <3>1. dst # NoPath BY <1>4, NotThere DEF Creatable
    <3> QED BY <1>1, <1>2, <1>4, <3>1, PathsAreClean, LeadsInside
  <2>2. /\ DOMAIN data' = DOMAIN data \cup {ino}
        /\ \A i \in DOMAIN data : i # ino => data'[i] = data[i]
    BY <1>3, <1>4 DEF Put
  <2>3. PICK node : node = Node("file", ino, <<>>) OBVIOUS
  <2>4. fs' = With(dst, node) BY <1>3, <1>4, <2>3
  <2>5. CASE dst \notin DOMAIN fs
    <3>1. ino = Fresh /\ Creatable(dst) BY <1>2, <1>4, <2>5
    <3>2. mode' = [mode EXCEPT ![Fresh] = NewFileMode] BY <1>3, <1>4, <2>5, <3>1
    <3>3. NewFileMode \subseteq Permissions BY DEF NewFileMode, Permissions
    <3>4. mode' \in Modes /\ \A i \in DOMAIN mode : i # Fresh => mode'[i] = mode[i]
      <4>1. mode \in Modes BY DEF ShellInv
      <4> QED BY <3>2, <3>3, <4>1 DEF Modes
    <3>5. node \in Nodes /\ node.kind = "file" /\ node.ino = Fresh /\ node.to = <<>>
      <4>1. Fresh \in Nat BY <1>1, Numbers
      <4>2. <<>> \in EntryPath BY DEF EntryPath
      <4> QED BY <2>3, <3>1, <4>1, <4>2 DEF Node, Nodes
    <3> QED BY <1>1, <2>1, <2>2, <2>4, <3>1, <3>4, <3>5, EntryMade
  <2>6. CASE dst \in DOMAIN fs
    <3>1. PICK n \in Nat : GoodTree(fs, data, n) /\ OldInodes + typed = n + 1 BY <1>1, Numbers
    <3>2. fs[dst] = node
      <4>1. fs[dst] \in Nodes /\ fs[dst].kind = "file" /\ fs[dst].to = <<>>
        BY <1>4, <2>1, <2>6 DEF ShellInv, GoodTree, IsDisk, Nodes, IsDir, IsLink, Creatable
      <4> QED BY <1>2, <2>3, <2>6, <4>1 DEF Node, Nodes
    <3>3. PICK tree, tree2, texts, texts2 :
             tree = fs /\ tree2 = fs' /\ texts = data /\ texts2 = data'
      OBVIOUS
    <3>4. DOMAIN tree2 = DOMAIN tree /\ \A q \in DOMAIN tree : tree2[q] = tree[q]
      BY <2>4, <2>6, <3>2, <3>3 DEF With, Put
    <3>5. GoodTree(tree, texts2, n + 1)
      <4>1. GoodTree(tree, texts, n) /\ DOMAIN texts \subseteq DOMAIN texts2 BY <2>2, <3>1, <3>3
      <4> QED BY <4>1, GoodWithMore
    <3>6. GoodTree(tree2, texts2, n + 1) BY <3>4, <3>5, GoodIfSame
    <3>7. mode' = mode /\ mode' \in Modes BY <1>3, <1>4, <2>6 DEF ShellInv
    <3>8. WhereItIs' BY <1>1, <3>3, <3>4 DEF ShellInv, WhereItIs, IsDir
    <3>9. OutsideKept
      <4>1. \A q \in DOMAIN fs :
               ~IsValidPath(q) => fs[q].ino # ino /\ (fs[q].kind = "file" => fs[q].ino \in DOMAIN data)
        BY <1>2, <2>1, <2>6, <3>1 DEF GoodTree, IsDisk, Separate, Inside
      <4> QED BY <2>2, <3>3, <3>4, <3>7, <4>1 DEF OutsideKept, Kept
    <3> QED BY <1>1, <3>1, <3>3, <3>6, <3>7, <3>8, <3>9 DEF Keeps, GoesInside
  <2> QED BY <2>5, <2>6
<1>5. CASE ~Allowed(src, dst) BY <1>1, <1>3, <1>5, ReadersKeep
<1> QED BY <1>4, <1>5

\* A mode that is made of letters or of digits is one.
LEMMA FormatIsMode ==
    ASSUME ShellInv, shell = "run", NEW current \in SUBSET Permissions
    PROVE  ChmodFormat(line.how, current) \in SUBSET Permissions
<1>1. PICK how : how = line.how OBVIOUS
<1>2. how.mode \subseteq Permissions /\ how.who \subseteq {"u", "g", "o"} /\ how.perms \subseteq {"r", "w", "x"}
  <2>1. CASE line \in Lines BY <1>1, <2>1, LinesAssumption
  <2>2. CASE line = NoLine
    <3>1. NoLine.how = Octal({}) BY DEF NoLine, Line
    <3>2. Octal({}).mode = {} /\ Octal({}).who = {} /\ Octal({}).perms = {} BY DEF Octal
    <3> QED BY <1>1, <2>2, <3>1, <3>2
  <2> QED BY <2>1, <2>2 DEF ShellInv
<1>3. (IF how.who = {} THEN {"u", "g", "o"} ELSE how.who) \X how.perms \subseteq Permissions
  BY <1>2 DEF Permissions
<1> QED BY <1>1, <1>2, <1>3 DEF ChmodFormat

\* chmod changes the mode of what the checked path leads to.
LEMMA ChmodKeeps == ASSUME ShellInv, Chmod PROVE Keeps
<1>1. shell = "run" /\ UNCHANGED <<fs, data, cwd>> BY DEF Chmod, Runs, Has
<1>2. PICK q : q = Target(From) OBVIOUS
<1>3. CASE q \in DOMAIN fs /\ line.how.op \in {"", "+", "-"} /\ IsValidPath(From)
  <2>1. PICK i, bits : i = fs[q].ino /\ bits = ChmodFormat(line.how, mode[i]) OBVIOUS
  <2>2. mode' = [mode EXCEPT ![i] = bits] BY <1>2, <1>3, <2>1 DEF Chmod
  <2>3. PICK n \in Nat : /\ GoodTree(fs, data, n) /\ OldInodes + typed = n + 1
                         /\ \A k \in 1..n : k \in 1..(OldInodes + MaxLines)
    BY <1>1, Numbers
  <2>4. q \in Inside
    <3>1. q # NoPath BY <1>3, NotThere
    <3> QED BY <1>1, <1>2, <1>3, <3>1, PathsAreClean, LeadsInside
  <2>5. i \in 1..(OldInodes + MaxLines) BY <1>3, <2>1, <2>3 DEF GoodTree
  <2>6. mode' \in Modes
    <3>1. mode \in Modes BY DEF ShellInv
    <3>2. mode[i] \in SUBSET Permissions BY <2>5, <3>1 DEF Modes
    <3>3. bits \in SUBSET Permissions BY <1>1, <2>1, <3>2, FormatIsMode
    <3> QED BY <2>2, <3>1, <3>3 DEF Modes
  <2>7. OutsideKept
    <3>1. \A d \in DOMAIN fs : /\ fs[d].ino \in DOMAIN mode
                               /\ ~IsValidPath(d) => fs[d].ino # i
      BY <1>3, <2>1, <2>3, <2>4 DEF ShellInv, Modes, GoodTree, Separate, Inside
    <3> QED BY <1>1, <2>2, <3>1 DEF OutsideKept, Kept
  <2>8. GoodTree(fs', data', OldInodes + typed)
    <3>1. PICK tree, texts : tree = fs /\ texts = data OBVIOUS
    <3>2. GoodTree(tree, texts, n + 1) BY <2>3, <3>1, GoodWithMore
    <3> QED BY <1>1, <2>3, <3>1, <3>2
  <2>9. WhereItIs' BY <1>1 DEF ShellInv, WhereItIs, IsDir
  <2> QED BY <1>1, <2>6, <2>7, <2>8, <2>9 DEF Keeps, GoesInside
<1>4. CASE ~(q \in DOMAIN fs /\ line.how.op \in {"", "+", "-"} /\ IsValidPath(From))
  <2>1. UNCHANGED <<disk, cwd>> BY <1>1, <1>2, <1>4 DEF Chmod, disk
  <2> QED BY <1>1, <2>1, ReadersKeep
<1> QED BY <1>3, <1>4

-----------------------------------------------------------------------------
(* The steps *)

\* A command has been carried out, or the shell has died of it.
LEMMA CommandDone ==
    ASSUME ShellInv, shell = "run", Keeps, typed' = typed, line' \in {line, NoLine},
           shell' \in {"prompt", "child", "over", "crashed"}
    PROVE  ShellInv' /\ OutsideKept /\ GoesInside
<1>1. PICK n, m : n = OldInodes + typed /\ m = OldInodes + typed' OBVIOUS
<1>2. Used' = m /\ m = n BY <1>1 DEF Used
<1>3. GoodTree(fs, data, Used)' BY <1>1, <1>2 DEF Keeps
<1>4. (mode \in Modes)' /\ WhereItIs' /\ OutsideKept /\ GoesInside BY DEF Keeps, Modes
<1> QED BY <1>3, <1>4 DEF ShellInv

\* The shell does something else than to carry out or read a command.
Idles ==
    /\ shell \in {"prompt", "child"} /\ shell' \in {"prompt", "over", "crashed"}
    /\ UNCHANGED <<disk, cwd, line, typed, shown>>

LEMMA NoCommand == ASSUME ShellInv, Idles PROVE ShellInv' /\ OutsideKept /\ GoesInside
<1> USE DEF Idles
<1>1. fs' = fs /\ data' = data /\ mode' = mode /\ cwd' = cwd BY DEF disk
<1>2. Used' = Used BY DEF Used
<1>3. WhereItIs' BY <1>1 DEF ShellInv, WhereItIs, IsDir
<1> QED BY <1>1, <1>2, <1>3 DEF ShellInv, OutsideKept, Kept, Modes, GoesInside

\* A command is read.
LEMMA LineRead == ASSUME ShellInv, ReadLine PROVE ShellInv' /\ OutsideKept /\ GoesInside
<1>1. fs' = fs /\ data' = data /\ mode' = mode /\ cwd' = cwd BY DEF ReadLine, disk
<1>2. Used' = Used /\ typed' \in 0..MaxLines /\ typed' # 0
  <2>1. PICK k, k2 : k = typed /\ k2 = typed' OBVIOUS
  <2>2. k \in 0..MaxLines /\ k < MaxLines /\ k2 = k + 1 BY <2>1 DEF ReadLine, ShellInv
  <2>3. OldInodes \in Nat /\ MaxLines \in Nat BY BoundsAssumption
  <2>4. OldInodes + k2 - 1 = OldInodes + k /\ k2 \in 0..MaxLines /\ k2 # 0 BY <2>2, <2>3
  <2> QED BY <2>1, <2>4 DEF ReadLine, Used
<1>3. WhereItIs' BY <1>1 DEF ShellInv, WhereItIs, IsDir
<1> QED BY <1>1, <1>2, <1>3 DEF ShellInv, ReadLine, OutsideKept, Kept, Modes, GoesInside

\* What one line makes a program do.
Carries ==
    \/ Explains /\ (line.cmd = "chmod" => Misused)
    \/ Command
    \/ line.cmd # "chmod" /\ (MakesDir(From) \/ MakesDir(ConvertToAbsolute(Arg(FALSE, <<"-m">>))))
    \/ line.cmd # "chmod" /\ Crashes
    \/ line.cmd # "chmod" /\ ShowsListed

\* The steps there are, of whichever program.
LEMMA AnyStep ==
    ASSUME NextOfAll
    PROVE  version' = version /\ (ReadLine \/ Idles \/ (shell = "run" /\ Carries))
<1>1. CASE version = "custom_shell" /\ Next /\ UNCHANGED history
  <2>1. CASE ReadLine BY <1>1, <2>1 DEF history
  <2>2. CASE PromptFails \/ Quit \/ ChildEnds BY <1>1, <2>2 DEF PromptFails, Quit, ChildEnds, Idles, history
  <2>3. CASE Usage BY <1>1, <2>3 DEF Usage, Explains, Carries, history
  <2>4. CASE Command
    BY <1>1, <2>4 DEF Command, Help, Explains, Cd, CdHome, Mkdir, Rmdir, Rm, Cp, Rename, Ln, LnSymbolic, Chmod,
                      Cat, Ls, Run, Runs, Has, Carries, history
  <2> QED BY <1>1, <2>1, <2>2, <2>3, <2>4 DEF Next, Execute
<1>2. CASE (PromptFails \/ PromptOverruns \/ Quit) /\ UNCHANGED history
  BY <1>2 DEF PromptFails, PromptOverruns, Crashes, Quit, Idles, history
<1>3. CASE Ver1Step
  <2>1. CASE Ver1Prompt BY <2>1 DEF Ver1Prompt, Opens
  <2>2. CASE Ver1EmptyLine BY <2>2 DEF Ver1EmptyLine, Opens, Idles, vars
  <2>3. CASE CreateDirectory BY <2>3 DEF CreateDirectory, Leaks, Ver1, Has, Carries, history
  <2>4. CASE DeleteDirectory BY <2>4 DEF DeleteDirectory, Leaks, Ver1, Has, Carries, Command, history
  <2>5. CASE RenameDirectory BY <2>5 DEF RenameDirectory, Leaks, Ver1, Has, Carries, Command, history
  <2>6. CASE MoveDirectory BY <2>6 DEF MoveDirectory, Closes, Ver1, Has, Carries, Command
  <2>7. CASE Ver1Ls BY <2>7 DEF Ver1Ls, Closes, Ver1, Has, Carries
  <2>8. CASE Ver1("help") /\ Leaks /\ Help BY <2>8 DEF Ver1, Has, Leaks, Carries, Command, history
  <2> QED BY <1>3, <2>1, <2>2, <2>3, <2>4, <2>5, <2>6, <2>7, <2>8 DEF Ver1Step
<1>4. CASE Ver2Step
  <2>1. CASE Ver2Prompt BY <2>1 DEF Ver2Prompt, history
  <2>2. CASE Ver2Usage
    <3>1. line.cmd = "chmod" => Misused BY <2>2 DEF Ver2Usage, Ver2Misused, Misused, ReadsOptions
    <3> QED BY <2>2, <3>1 DEF Ver2Usage, Explains, Carries, history
  <2>3. CASE Ver2Mkdir BY <2>3 DEF Ver2Mkdir, Ver2, Has, Carries, history
  <2>4. CASE Ver2Rmdir \/ Ver2Rename \/ Ver2Rm \/ Ver2Chmod \/ Ver2Cat
    BY <2>4 DEF Ver2Rmdir, Ver2Rename, Ver2Rm, Ver2Chmod, Ver2Cat, Ver2, Has, Carries, Command, history
  <2>5. CASE Ver2Cd \/ Ver2Ln BY <2>5 DEF Ver2Cd, Ver2Ln, Ver2, Has, Carries, Command, history
  <2>6. CASE Ver2Ls BY <2>6 DEF Ver2Ls, Ver2, Has, Carries, history
  <2>7. CASE Ver2Cp BY <2>7 DEF Ver2Cp, Ver2, Has, Carries, Command, history
  <2>8. CASE Ver2("help") /\ Help BY <2>8 DEF Ver2, Has, Carries, Command, history
  <2> QED BY <1>4, <2>1, <2>2, <2>3, <2>4, <2>5, <2>6, <2>7, <2>8 DEF Ver2Step
<1> QED BY <1>1, <1>2, <1>3, <1>4 DEF NextOfAll

\* After a line the shell prompts again, waits, or is no more.
LEMMA LineDone ==
    ASSUME Carries
    PROVE  typed' = typed /\ line' \in {line, NoLine} /\ shell' \in {"prompt", "child", "over", "crashed"}
BY DEF Carries, Command, Help, Explains, Cd, CdHome, Mkdir, MakesDir, MakeDir, Rmdir, Rm, Cp, Rename, Ln,
       LnSymbolic, Chmod, Cat, Ls, Run, Runs, Done, Crashes, ShowsListed

\* Every line keeps the invariant, and the outside.
LEMMA CarriesKeeps == ASSUME ShellInv, shell = "run", Carries PROVE Keeps
<1>1. CASE Explains \/ Help \/ Cat \/ Ls \/ Run \/ Crashes \/ ShowsListed
  <2>1. UNCHANGED <<disk, cwd>> BY <1>1 DEF Explains, Help, Cat, Ls, Run, Crashes, ShowsListed
  <2> QED BY <2>1, ReadersKeep
<1>2. CASE Cd \/ CdHome BY <1>2, CdKeeps
<1>3. CASE Mkdir \/ MakesDir(From) \/ MakesDir(ConvertToAbsolute(Arg(FALSE, <<"-m">>))) BY <1>3, MkdirKeeps
<1>4. CASE Rmdir \/ Rm BY <1>4, RemovalsKeep
<1>5. CASE Cp BY <1>5, CpKeeps
<1>6. CASE Rename BY <1>6, RenameKeeps
<1>7. CASE Ln \/ LnSymbolic BY <1>7, LnKeeps, LnSymbolicKeeps
<1>8. CASE Chmod BY <1>8, ChmodKeeps
<1> QED BY <1>1, <1>2, <1>3, <1>4, <1>5, <1>6, <1>7, <1>8 DEF Carries, Command

\* And so does every step.
LEMMA ShellStep == ASSUME ShellInv, NextOfAll PROVE ShellInv' /\ OutsideKept /\ GoesInside
<1>1. CASE ReadLine BY <1>1, LineRead
<1>2. CASE Idles BY <1>2, NoCommand
<1>3. CASE shell = "run" /\ Carries BY <1>3, LineDone, CarriesKeeps, CommandDone
<1> QED BY <1>1, <1>2, <1>3, AnyStep

\* ver1 holds no more directories open than it may, and one at least while a command
\* is carried out whose prompt has opened one; custom_shell has got to BASE_PATH.
Held ==
    /\ version \in Versions /\ dp \in BOOLEAN
    /\ open \in 0..MaxOpen
    /\ version = "ver1" /\ shell = "run" /\ dp => open # 0

GotThere == version = "custom_shell" /\ shell \in {"prompt", "run", "child"} => cwd # Home

InvOfAll == ShellInv /\ Held /\ GotThere

\* The disk at the start is good, with or without BASE_PATH.
LEMMA GoodAtStart == ASSUME DiskAtStart PROVE GoodTree(fs, data, OldInodes) /\ mode \in Modes
<1>1. PICK t \in Trees :
         /\ fs = IF Base \in DOMAIN t.fs THEN t.fs ELSE Put(t.fs, Base, Node("dir", OldInodes, <<>>))
         /\ data = t.data
  BY DEF DiskAtStart
<1>2. PICK tree, texts, n, node :
         /\ tree = t.fs /\ texts = t.data /\ n = OldInodes - 1
         /\ node = Node("dir", OldInodes, <<>>)
  OBVIOUS
<1>3. n \in Nat /\ OldInodes = n + 1 /\ OldInodes \in Nat BY <1>2, BoundsAssumption
<1>4. GoodTree(tree, texts, n) /\ <<"tmp">> \in DOMAIN tree /\ tree[<<"tmp">>].kind = "dir"
  BY <1>2, TreesAssumption DEF GoodTree, LinksInside, Separate
<1>5. GoodTree(fs, data, OldInodes)
  <2>1. CASE Base \in DOMAIN t.fs
    <3>1. GoodTree(tree, texts, n + 1) BY <1>3, <1>4, GoodWithMore
    <3> QED BY <1>1, <1>2, <1>3, <2>1, <3>1
  <2>2. CASE Base \notin DOMAIN t.fs
    <3>1. /\ node \in Nodes /\ node.kind = "dir" /\ node.to = <<>> /\ node.ino = n + 1
      <4>1. <<>> \in EntryPath BY DEF EntryPath
      <4> QED BY <1>2, <1>3, <4>1 DEF Node, Nodes
    <3>2. PICK b : b = Base OBVIOUS
    <3>3. b \in Inside /\ b # <<>> /\ Front(b) \in DOMAIN tree /\ tree[Front(b)].kind = "dir"
      BY <1>4, <3>2, BaseIsInside
    <3>4. GoodTree(Put(tree, b, node), texts, n + 1)
      BY <1>2, <1>3, <1>4, <2>2, <3>1, <3>2, <3>3, NewEntry
    <3> QED BY <1>1, <1>2, <1>3, <2>2, <3>2, <3>4
  <2> QED BY <2>1, <2>2
<1>6. DefaultDirMode \subseteq Permissions BY DEF DefaultDirMode, Permissions, Rwx
<1>7. mode = [i \in 1..(OldInodes + MaxLines) |-> IF i = OldInodes THEN DefaultDirMode \ Umask ELSE DefaultDirMode]
  BY DEF DiskAtStart
<1> QED BY <1>5, <1>6, <1>7 DEF Modes

\* The invariant holds at the start, of whichever program.
LEMMA AtTheStart == InitOfAll => InvOfAll
<1> SUFFICES ASSUME InitOfAll PROVE InvOfAll OBVIOUS
<1>1. DiskAtStart /\ GoodTree(fs, data, OldInodes) /\ mode \in Modes BY GoodAtStart DEF InitOfAll
<1>2. typed = 0 /\ line = NoLine BY <1>1 DEF DiskAtStart
<1>3. shell \in {"prompt", "over"} BY DEF InitOfAll, Init
<1>4. Used = OldInodes
  <2>1. OldInodes \in Nat BY BoundsAssumption
  <2> QED BY <1>2, <1>3, <2>1 DEF Used
<1>5. cwd = Home \/ (cwd = Target(Base) /\ IsDir(Target(Base))) BY DEF InitOfAll, Init
<1>6. WhereItIs /\ (cwd = Home \/ cwd \in Inside)
  <2>1. CASE cwd = Home
    <3>1. IsDir(<<>>) BY <1>1 DEF GoodTree, IsDisk, IsDir
    <3> QED BY <2>1, <3>1 DEF WhereItIs, Home
  <2>2. CASE cwd = Target(Base) /\ IsDir(Target(Base))
    <3>1. IsDisk(fs, data) /\ LinksInside(fs) BY <1>1 DEF GoodTree
    <3>2. PICK q : q = Target(Base) OBVIOUS
    <3>3. q = NoPath \/ q \in Inside BY <3>1, <3>2, BaseIsInside, WalkStaysInside DEF Target
    <3>4. q # NoPath
      <4>1. q \in EntryPath BY <2>2, <3>1, <3>2 DEF IsDisk, IsDir
      <4> QED BY <4>1, NoPathIsNone
    <3> QED BY <2>2, <3>2, <3>3, <3>4 DEF WhereItIs
  <2> QED BY <1>5, <2>1, <2>2
<1>7. ShellInv
  <2>1. 0 \in 0..MaxLines BY BoundsAssumption
  <2> QED BY <1>1, <1>2, <1>3, <1>4, <1>6, <2>1 DEF ShellInv
<1>8. Held
  <2>1. version \in Versions /\ dp = FALSE /\ open = 0 BY DEF InitOfAll
  <2>2. 0 \in 0..MaxOpen BY EarlierAssumption
  <2> QED BY <2>1, <2>2 DEF Held
<1>9. GotThere
  <2>1. CASE cwd = Home
    <3>1. version = "custom_shell" => Init BY DEF InitOfAll
    <3>2. Target(Base) # Home \/ ~IsDir(Target(Base))
      <4>1. IsDisk(fs, data) /\ LinksInside(fs) BY <1>1 DEF GoodTree
      <4>2. PICK q : q = Target(Base) OBVIOUS
      <4>3. q = NoPath \/ q \in Inside BY <4>1, <4>2, BaseIsInside, WalkStaysInside DEF Target
      <4>4. NoPath # Home BY DEF NoPath, Home
      <4> QED BY <1>7, <4>2, <4>3, <4>4, NotThere
    <3> QED BY <2>1, <3>1, <3>2 DEF Init, GotThere
  <2>2. CASE cwd \in Inside BY <1>7, <2>2, NotThere DEF GotThere
  <2> QED BY <1>6, <2>1, <2>2
<1> QED BY <1>7, <1>8, <1>9 DEF InvOfAll

\* No step opens more directories than there may be.
LEMMA HeldStays == ASSUME ShellInv, Held, NextOfAll PROVE Held'
<1>1. MaxOpen \in Nat /\ open \in 0..MaxOpen BY EarlierAssumption DEF Held
<1>2. CASE UNCHANGED history /\ (shell' # "run" \/ version # "ver1") BY <1>2 DEF Held, history
<1>3. CASE version = "ver1" /\ Opens
  <2>1. version' = version /\ dp' = (open < MaxOpen) /\ open' = IF dp' THEN open + 1 ELSE open
    BY <1>3 DEF Opens
  <2>2. dp' \in BOOLEAN BY <2>1
  <2>3. CASE open < MaxOpen
    <3>1. dp' BY <2>1, <2>3, Zenon
    <3>2. open' = open + 1 BY <2>1, <3>1, Zenon
    <3>3. open' \in 0..MaxOpen /\ open' # 0 BY <1>1, <2>3, <3>2
    <3> QED BY <1>3, <2>1, <2>2, <3>3 DEF Held
  <2>4. CASE ~(open < MaxOpen)
    <3>1. ~dp' BY <2>1, <2>4, Zenon
    <3>2. open' = open BY <2>1, <3>1, Zenon
    <3> QED BY <2>1, <2>2, <3>1, <3>2 DEF Held
  <2> QED BY <2>3, <2>4
<1>4. CASE Closes /\ version = "ver1" /\ shell = "run" /\ shell' # "run"
  <2>1. open' = IF dp THEN open - 1 ELSE open BY <1>4 DEF Closes
  <2>2. version' = version /\ dp' = dp BY <1>4 DEF Closes
  <2>3. open' \in 0..MaxOpen
    <3>1. CASE dp BY <1>1, <1>4, <2>1, <3>1 DEF Held
    <3>2. CASE ~dp BY <1>1, <2>1, <3>2
    <3> QED BY <3>1, <3>2
  <2> QED BY <1>4, <2>2, <2>3 DEF Held
<1>5. \/ UNCHANGED history /\ (shell' # "run" \/ version # "ver1")
      \/ version = "ver1" /\ Opens
      \/ Closes /\ version = "ver1" /\ shell = "run" /\ shell' # "run"
  <2>1. CASE version = "custom_shell" /\ UNCHANGED history BY <2>1
  <2>2. CASE (PromptFails \/ PromptOverruns \/ Quit) /\ UNCHANGED history
    BY <2>2 DEF PromptFails, PromptOverruns, Crashes, Quit
  <2>3. CASE Ver1Step
    <3>1. CASE Ver1Prompt \/ Ver1EmptyLine BY <3>1 DEF Ver1Prompt, Ver1EmptyLine
    <3>2. CASE CreateDirectory BY <3>2 DEF CreateDirectory, Leaks, MakesDir, MakeDir, Done, Crashes
    <3>3. CASE DeleteDirectory BY <3>3 DEF DeleteDirectory, Leaks, Rmdir, Runs, Done, Crashes
    <3>4. CASE RenameDirectory BY <3>4 DEF RenameDirectory, Leaks, Rename, Runs, Done, Crashes
    <3>5. CASE MoveDirectory BY <3>5 DEF MoveDirectory, Ver1, Has, Cd, CdHome, Runs, Done
    <3>6. CASE Ver1Ls BY <3>6 DEF Ver1Ls, Ver1, Has, ShowsListed, Done, Crashes
    <3>7. CASE Ver1("help") /\ Leaks /\ Help BY <3>7 DEF Leaks, Help, Explains, Done
    <3> QED BY <2>3, <3>1, <3>2, <3>3, <3>4, <3>5, <3>6, <3>7 DEF Ver1Step
  <2>4. CASE Ver2Step
    <3>1. version = "ver2" /\ UNCHANGED history
      BY <2>4 DEF Ver2Step, Ver2Prompt, Ver2Usage, Ver2Mkdir, Ver2Rmdir, Ver2Rename, Ver2Cd, Ver2Ln,
                  Ver2Rm, Ver2Chmod, Ver2Cat, Ver2Ls, Ver2Cp, Ver2
    <3> QED BY <3>1
  <2> QED BY <2>1, <2>2, <2>3, <2>4 DEF NextOfAll
<1> QED BY <1>2, <1>3, <1>4, <1>5

\* custom_shell does not come back to where it was started.
LEMMA StaysThere == ASSUME ShellInv, GotThere, NextOfAll PROVE GotThere'
<1>1. version' = version /\ shell \in {"prompt", "run", "child"} BY AnyStep DEF ReadLine, Idles
<1>2. cwd' \in {cwd, Gone} \cup Inside BY ShellStep DEF GoesInside
<1>3. Gone # Home BY DEF Gone, Home
<1> QED BY <1>1, <1>2, <1>3, NotThere DEF GotThere

\* Every step of custom_shell and its predecessors keeps the invariant, leaves the
\* outside alone, and does not lead there.
LEMMA StepOfAll ==
    ASSUME InvOfAll, [NextOfAll]_varsOfAll
    PROVE  InvOfAll' /\ [OutsideKept]_vars /\ [GoesInside]_varsOfAll
<1> USE DEF InvOfAll
<1>1. CASE UNCHANGED varsOfAll
  <2>1. UNCHANGED vars /\ UNCHANGED history BY <1>1 DEF varsOfAll
  <2>2. ShellInv' BY <2>1 DEF vars, disk, ShellInv, Used, WhereItIs, IsDir, Modes
  <2>3. Held' /\ GotThere' BY <2>1 DEF vars, history, Held, GotThere
  <2> QED BY <1>1, <2>1, <2>2, <2>3
<1>2. CASE NextOfAll BY <1>2, HeldStays, StaysThere, ShellStep
<1> QED BY <1>1, <1>2

-----------------------------------------------------------------------------
(* The theorems *)

\* Whatever is typed to custom_shell or a predecessor, the invariant holds.
THEOREM InvariantOfAll == SpecOfAll => []InvOfAll
<1>1. InvOfAll /\ [NextOfAll]_varsOfAll => InvOfAll' BY StepOfAll
<1> QED BY <1>1, AtTheStart, PTL DEF SpecOfAll

\* Every entry of the disk stays in a directory and every file keeps its text, and
\* the current directory exists or is known to be gone (main.c:114); ver1 holds no
\* more directories open than its limit (manage_dir.c:77, 92-119, 153).
THEOREM TypeCorrect == SpecOfAll => []TypeOKOfAll
<1>1. InvOfAll => TypeOKOfAll
  <2> SUFFICES ASSUME InvOfAll PROVE TypeOKOfAll OBVIOUS
  <2>1. \A q \in DOMAIN fs : mode[fs[q].ino] \subseteq Permissions
    <3> TAKE q \in DOMAIN fs
    <3>1. fs[q].ino \in 1..Used /\ mode \in Modes BY DEF InvOfAll, ShellInv, GoodTree
    <3>2. \A i \in 1..Used : i \in 1..(OldInodes + MaxLines)
      <4>1. PICK k, u : k = typed /\ u = Used OBVIOUS
      <4>2. k \in 0..MaxLines /\ (u = OldInodes + k - 1 \/ u = OldInodes + k)
        BY <4>1 DEF InvOfAll, ShellInv, Used
      <4>3. \A i \in 1..u : i \in 1..(OldInodes + MaxLines) BY <4>2, BoundsAssumption
      <4> QED BY <4>1, <4>3
    <3> QED BY <3>1, <3>2 DEF Modes
  <2>2. TypeOK BY <2>1 DEF TypeOK, InvOfAll, ShellInv, GoodTree, WhereItIs
  <2> QED BY <2>2 DEF TypeOKOfAll, InvOfAll, Held
<1> QED BY <1>1, InvariantOfAll, PTL

\* The prompt of custom_shell and its ls cut BASE_PATH off only where it is: the
\* current directory and what links hold begin with it (main.c:114-123,
\* cmd_ls.c:36-48).  In a predecessor this is so from the moment it has got to
\* BASE_PATH, and before that it reads beyond the end of its directory.
THEOREM BaseIsCutOffSafely == SpecOfAll => []BaseCanBeCutOff
<1>1. InvOfAll => BaseCanBeCutOff
  BY DEF InvOfAll, ShellInv, GotThere, GoodTree, LinksInside, WhereItIs, Inside, BaseCanBeCutOff, IsLink
<1> QED BY <1>1, InvariantOfAll, PTL

\* No sequence of commands changes, makes or removes anything outside of the paths
\* whose text begins like BASE_PATH, through '..', links, or second names of files
\* (path_utils.c:50-52): what is_valid_path lets through it lets through, /tmp/test2
\* too, but nothing else.
THEOREM ChangesOnlyWhatIsLikeBase == SpecOfAll => ChangesOnlyLikeBase
<1>1. InvOfAll /\ [NextOfAll]_varsOfAll => [\A q \in DOMAIN fs \cup DOMAIN fs' : ~IsValidPath(q) => Kept(q)]_vars
  BY StepOfAll DEF OutsideKept
<1> QED BY <1>1, InvariantOfAll, PTL DEF SpecOfAll, ChangesOnlyLikeBase

\* The text of a path like BASE_PATH has the names of BASE_PATH, if no other name
\* begins like the last of them.
LEMMA BelowBase ==
    ASSUME LikeBase = {"test"}, NEW q, IsValidPath(q)
    PROVE  IsPrefix(Base, q)
<1>1. PICK b : b = Base OBVIOUS
<1>2. Len(b) = 2 /\ b[1] = "tmp" /\ b[2] = "test" BY <1>1 DEF Base
<1>3. Len(q) >= 2 /\ q[1] = "tmp" /\ q[2] = "test" BY DEF IsValidPath
<1>4. SubSeq(b, 1, 2) = [i \in 1..2 |-> b[i]] /\ SubSeq(q, 1, 2) = [i \in 1..2 |-> q[i]]
  OBVIOUS
<1> QED BY <1>1, <1>2, <1>3, <1>4 DEF IsPrefix

\* Where there can be no other name that begins like the last of BASE_PATH, the
\* README is right: nothing outside of /tmp/test is changed (path_utils.c:50-52).
THEOREM ChangesOnlyTestAlone == ASSUME LikeBase = {"test"} PROVE SpecOfAll => ChangesOnlyTest
<1>1. InvOfAll /\ [NextOfAll]_varsOfAll => [\A q \in DOMAIN fs \cup DOMAIN fs' : ~IsPrefix(Base, q) => Kept(q)]_vars
  BY StepOfAll, BelowBase DEF OutsideKept
<1> QED BY <1>1, InvariantOfAll, PTL DEF SpecOfAll, ChangesOnlyTest

\* Who works at a path like BASE_PATH does not get out of there: not by cd and
\* through links, nor when his directory is renamed or removed (cmd_cd.c:27-38,
\* cmd_rename.c:6-35, cmd_rmdir.c:19-27).
THEOREM NobodyGetsOut == SpecOfAll => DoesNotGetOut
<1>1. InvOfAll /\ [NextOfAll]_varsOfAll => [IsValidPath(cwd) => IsValidPath(cwd') \/ cwd' = Gone]_varsOfAll
  BY StepOfAll DEF GoesInside, Inside
<1> QED BY <1>1, InvariantOfAll, PTL DEF SpecOfAll, DoesNotGetOut

\* What a path is made of, and from where it is walked.
LEMMA ArgumentsAreClean ==
    ASSUME ShellInv, cwd # Gone, NEW arg, arg \in Arguments \/ (arg = line.from /\ line \in Lines)
    PROVE  /\ Start(arg) \in EntryPath /\ arg.names \in Seq(Names)
           /\ ConvertToAbsolute(arg) = Normal(Start(arg) \o arg.names)
<1>1. cwd \in EntryPath BY DEF ShellInv, WhereItIs, GoodTree, IsDisk, IsDir
<1>2. Base \in EntryPath BY BaseIsInside DEF Inside
<1>3. arg.names \in Seq(Names) BY LinesAssumption DEF Arguments
<1> QED BY <1>1, <1>2, <1>3 DEF Start, ConvertToAbsolute

\* The conversion of a path and the kernel agree where no link and not the root is
\* on the way (path_utils.c:4-47).
LEMMA StraightAgrees ==
    ASSUME ShellInv, cwd # Gone, NEW arg, arg \in Arguments \/ (arg = line.from /\ line \in Lines), Straight(arg)
    PROVE  /\ Walk(Start(arg), arg.names, FALSE) \in {NoPath, ConvertToAbsolute(arg)}
           /\ arg.names # <<>> => Walk(Start(arg), arg.names, TRUE) = Walk(Start(arg), arg.names, FALSE)
<1>1. PICK start, names : start = Start(arg) /\ names = arg.names OBVIOUS
<1>2. start \in EntryPath /\ names \in Seq(Names) /\ ConvertToAbsolute(arg) = Normal(start \o names)
  BY <1>1, ArgumentsAreClean
<1>3. IsDisk(fs, data) BY DEF ShellInv, GoodTree
<1>4. \A k \in 1..Len(names) :
         Walk(start, SubSeq(names, 1, k), TRUE) = Walk(start, SubSeq(names, 1, k), FALSE)
  BY <1>1 DEF Straight
<1>5. \A k \in 0..Len(names) : Walk(start, SubSeq(names, 1, k), FALSE) # <<>>
  BY <1>1 DEF Straight, Steps
<1>6. Walk(start, names, FALSE) \in {NoPath, Normal(start \o names)}
  BY <1>2, <1>3, <1>4, <1>5, KernelAgrees
<1>7. ASSUME names # <<>> PROVE Walk(start, names, TRUE) = Walk(start, names, FALSE)
  <2>1. Len(names) \in 1..Len(names)
    <3>1. Len(names) \in Nat /\ Len(names) # 0 BY <1>2, <1>7, EmptySeq
    <3> QED BY <3>1
  <2>2. SubSeq(names, 1, Len(names)) = names BY <1>2, SubSeqFull
  <2> QED BY <1>4, <2>1, <2>2
<1> QED BY <1>1, <1>2, <1>6, <1>7

\* The path that a command was given by its text is the one the kernel finds
\* (path_utils.c:4-47), unless a link or the root of the disk is on the way.
THEOREM ResolvesAsTheKernelDoes == SpecOfAll => []ResolvesLikeKernel
<1>1. InvOfAll => ResolvesLikeKernel BY StraightAgrees DEF InvOfAll, ResolvesLikeKernel
<1> QED BY <1>1, InvariantOfAll, PTL

\* What is in a directory inside is inside.
LEMMA ChildrenInside ==
    ASSUME ShellInv, NEW q \in Inside, NEW r \in Children(q) PROVE r \in DOMAIN fs /\ IsValidPath(r)
<1>1. r \in DOMAIN fs /\ r # <<>> /\ Front(r) = q /\ r \in EntryPath
  BY DEF Children, ShellInv, GoodTree, IsDisk
<1>2. Append(Front(r), Last(r)) = r /\ Last(r) \in Names \ {".", ".."} BY <1>1, FrontAndLast DEF EntryPath
<1>3. PICK name, rest : name = Last(r) /\ rest = <<name>> OBVIOUS
<1>4. rest \in EntryPath BY <1>2, <1>3 DEF EntryPath
<1>5. r = q \o rest
  <2>1. q \in Seq(Names \ {".", ".."}) BY DEF Inside, EntryPath
  <2> QED BY <1>1, <1>2, <1>3, <2>1, AppendIsConcat
<1>6. r \in Inside BY <1>4, <1>5, InsideGrows
<1> QED BY <1>1, <1>6 DEF Inside

\* The inodes of files inside.
InodesInside == {fs[q].ino : q \in {r \in DOMAIN fs : IsValidPath(r)}}

\* What the listing of a directory inside shows is inside.
LEMMA ListingInside ==
    ASSUME ShellInv, NEW q \in Inside, NEW S, S \subseteq Children(q)
    PROVE  {fs[r].ino : r \in S} \subseteq InodesInside
<1>1. \A r \in S : r \in DOMAIN fs /\ IsValidPath(r) BY ChildrenInside
<1> QED BY <1>1 DEF InodesInside

\* What cat shows without a link or the root on its way is inside.
LEMMA CatShowsInside ==
    ASSUME ShellInv, Cat, ~line.from.absolute, Straight(line.from)
    PROVE  shown' \subseteq InodesInside
<1>1. PICK arg : arg = line.from OBVIOUS
<1>2. line \in Lines
  <2>1. NoLine.cmd = "" BY DEF NoLine, Line
  <2> QED BY <2>1 DEF Cat, Has, ShellInv
<1>3. cwd # Gone /\ shell = "run" BY DEF Cat, Has, ShellInv
<1>4. arg.names # <<>>
  <2>1. arg \in [absolute : BOOLEAN, names : Seq(Names)] BY <1>1, <1>2, LinesAssumption
  <2>2. arg # NoArg BY <1>1 DEF Cat, Complete
  <2> QED BY <1>1, <2>1, <2>2 DEF NoArg, Arg
<1>5. PICK q : q = Walk(cwd, arg.names, TRUE) OBVIOUS
<1>6. q \in {NoPath, From}
  <2>1. Start(arg) = cwd BY <1>1 DEF Start
  <2>2. /\ Walk(Start(arg), arg.names, FALSE) \in {NoPath, ConvertToAbsolute(arg)}
        /\ arg.names # <<>> => Walk(Start(arg), arg.names, TRUE) = Walk(Start(arg), arg.names, FALSE)
    BY <1>1, <1>2, <1>3, StraightAgrees
  <2> QED BY <1>1, <1>4, <1>5, <2>1, <2>2 DEF From
<1>7. shown' = IF IsValidPath(From) /\ q \in DOMAIN fs /\ ~IsDir(q) THEN {fs[q].ino} ELSE {}
  BY <1>1, <1>5 DEF Cat
<1>8. NoPath \notin DOMAIN fs BY NotThere
<1> QED BY <1>6, <1>7, <1>8 DEF InodesInside

\* What ls shows is inside.
LEMMA LsShowsInside == ASSUME ShellInv, Ls PROVE shown' \subseteq InodesInside
<1>1. ASSUME NEW p \in EntryPath PROVE Listing(p) \subseteq InodesInside
  <2>1. PICK q : q = Target(p) OBVIOUS
  <2>2. CASE IsValidPath(p) /\ IsDir(q)
    <3>1. q # NoPath BY <2>2, NotThere DEF IsDir
    <3>2. q \in Inside BY <2>1, <2>2, <3>1, LeadsInside DEF Ls, Has
    <3>3. Listing(p) = {fs[r].ino : r \in Children(q)} BY <2>1, <2>2 DEF Listing
    <3> QED BY <3>2, <3>3, ListingInside
  <2>3. CASE ~(IsValidPath(p) /\ IsDir(q)) BY <2>1, <2>3 DEF Listing
  <2> QED BY <2>2, <2>3
<1>2. From \in EntryPath /\ To \in EntryPath BY PathsAreClean DEF Ls, Has
<1>3. shown' \subseteq Listing(From) \cup Listing(To) BY DEF Ls
<1> QED BY <1>1, <1>2, <1>3

\* A command shows nothing that is not at a path like BASE_PATH: ls checks where it
\* looks, and so does cat where no link and not the root is on the way
\* (cmd_cat.c:12-20, cmd_ls.c:52-73); what the other uses of cat show is not said.
THEOREM ShowsOnlyWhatIsLikeBase == SpecOfAll => ShowsOnlyLikeBase
<1>1. ASSUME InvOfAll, NextOfAll, shown' # shown, cwd # Home,
             line.cmd = "cat" => ~line.from.absolute /\ Straight(line.from)
      PROVE  shown' \subseteq InodesInside
  <2> ShellInv BY <1>1 DEF InvOfAll
  <2>1. CASE ReadLine BY <2>1 DEF ReadLine
  <2>2. CASE Cat BY <1>1, <2>2, CatShowsInside DEF Cat, Has
  <2>3. CASE Ls BY <2>3, LsShowsInside
  <2>4. CASE shell = "run" /\ ShowsListed
    <3>1. cwd \in Inside BY <1>1, <2>4 DEF ShellInv, WhereItIs
    <3>2. shown' = {fs[q].ino : q \in {r \in Children(cwd) : Target(r) \in DOMAIN fs}}
      BY <2>4 DEF ShowsListed, Listed
    <3> QED BY <3>1, <3>2, ListingInside
  <2>5. Idles => UNCHANGED shown BY DEF Idles
  <2>6. Carries => Cat \/ Ls \/ ShowsListed \/ UNCHANGED shown
    BY DEF Carries, Command, Help, Explains, Cd, CdHome, Mkdir, MakesDir, MakeDir, Rmdir, Rm, Cp, Rename, Ln,
           LnSymbolic, Chmod, Run, Runs, Crashes
  <2> QED BY <1>1, <2>1, <2>2, <2>3, <2>4, <2>5, <2>6, AnyStep
<1>2. InvOfAll /\ [NextOfAll]_varsOfAll =>
         [shown' # shown /\ cwd # Home
          /\ (line.cmd = "cat" => ~line.from.absolute /\ Straight(line.from))
          => shown' \subseteq {fs[q].ino : q \in {r \in DOMAIN fs : IsValidPath(r)}}]_vars
  BY <1>1 DEF varsOfAll, vars, InodesInside
<1> QED BY <1>2, InvariantOfAll, PTL DEF SpecOfAll, ShowsOnlyLikeBase

\* What is asked for with letters is added or taken away, and nothing else.
LEMMA FormatDoesAsAsked ==
    ASSUME NEW how, how.op \in {"+", "-"}, ~how.octal, NEW current, NEW bit \in Permissions
    PROVE  IF Asked(bit, how) THEN bit \in ChmodFormat(how, current) <=> how.op = "+"
           ELSE bit \in ChmodFormat(how, current) <=> bit \in current
<1>1. PICK asked : asked = (IF how.who = {} THEN {"u", "g", "o"} ELSE how.who) \X how.perms
  OBVIOUS
<1>2. bit \in asked <=> Asked(bit, how)
  <2>1. bit = <<bit[1], bit[2]>> /\ bit[1] \in {"u", "g", "o"} BY DEF Permissions
  <2>2. bit \in asked <=>
           bit[1] \in (IF how.who = {} THEN {"u", "g", "o"} ELSE how.who) /\ bit[2] \in how.perms
    BY <1>1, <2>1
  <2> QED BY <2>1, <2>2 DEF Asked
<1>3. ChmodFormat(how, current) = IF how.op = "+" THEN current \cup asked ELSE current \ asked
  BY <1>1 DEF ChmodFormat
<1> QED BY <1>2, <1>3

\* chmod with letters changes what was asked for, of the file to which the path
\* leads, and nothing else (cmd_chmod.c:27-69, 98).
THEOREM ChangesTheModeAsAsked == SpecOfAll => ChmodDoesAsAsked
<1>1. ASSUME InvOfAll, NextOfAll, Has("chmod"), ~Misused, line.how.op \in {"+", "-"},
             NEW i \in Inodes, NEW bit \in Permissions
      PROVE  IF Asked(bit, line.how) /\ IsValidPath(From) /\ Target(From) \in DOMAIN fs
                /\ fs[Target(From)].ino = i
             THEN bit \in mode'[i] <=> line.how.op = "+"
             ELSE bit \in mode'[i] <=> bit \in mode[i]
  <2> ShellInv BY <1>1 DEF InvOfAll
  <2>1. Chmod
    <3>1. line.cmd = "chmod" /\ shell = "run" BY <1>1 DEF Has
    <3>2. Carries BY <1>1, <3>1, AnyStep DEF ReadLine, Idles
    <3>3. Command BY <1>1, <3>1, <3>2 DEF Carries
    <3> QED BY <3>1, <3>3
         DEF Command, Help, Cd, CdHome, Mkdir, Rmdir, Rm, Cp, Rename, Ln, LnSymbolic, Cat, Ls, Run, Runs, Has
  <2>2. ~line.how.octal
    <3>1. NoLine.cmd = "" BY DEF NoLine, Line
    <3>2. line \in Lines BY <1>1, <3>1 DEF Has, ShellInv
    <3> QED BY <1>1, <3>2, LinesAssumption
  <2>3. PICK q, file, how : q = From /\ file = Target(q) /\ how = line.how OBVIOUS
  <2>4. CASE file \in DOMAIN fs /\ IsValidPath(q)
    <3>1. PICK j, bits : j = fs[file].ino /\ bits = ChmodFormat(how, mode[j]) OBVIOUS
    <3>2. mode' = [mode EXCEPT ![j] = bits] BY <1>1, <2>1, <2>3, <2>4, <3>1 DEF Chmod
    <3>3. j \in DOMAIN mode
      <4>1. PICK n \in Nat : GoodTree(fs, data, n) /\ \A k \in 1..n : k \in 1..(OldInodes + MaxLines)
        BY <1>1, Numbers DEF Has
      <4> QED BY <2>4, <3>1, <4>1 DEF GoodTree, ShellInv, Modes
    <3>4. CASE i = j
      <4>1. mode'[i] = ChmodFormat(how, mode[i]) BY <3>1, <3>2, <3>3, <3>4
      <4>2. IF Asked(bit, how) THEN bit \in mode'[i] <=> how.op = "+" ELSE bit \in mode'[i] <=> bit \in mode[i]
        BY <1>1, <2>2, <2>3, <4>1, FormatDoesAsAsked
      <4> QED BY <2>3, <2>4, <3>1, <3>4, <4>2
    <3>5. CASE i # j
      <4>1. mode'[i] = mode[i] BY <3>2, <3>5
      <4> QED BY <2>3, <3>1, <3>5, <4>1
    <3> QED BY <3>4, <3>5
  <2>5. CASE ~(file \in DOMAIN fs /\ IsValidPath(q))
    <3>1. mode' = mode BY <2>1, <2>3, <2>5 DEF Chmod
    <3> QED BY <2>3, <2>5, <3>1
  <2> QED BY <2>4, <2>5
<1>2. InvOfAll /\ [NextOfAll]_varsOfAll =>
         [Has("chmod") /\ ~Misused /\ line.how.op \in {"+", "-"} =>
             \A i \in Inodes, bit \in Permissions :
                 LET file == Target(From) IN
                 IF Asked(bit, line.how) /\ IsValidPath(From) /\ file \in DOMAIN fs /\ fs[file].ino = i
                 THEN bit \in mode'[i] <=> line.how.op = "+"
                 ELSE bit \in mode'[i] <=> bit \in mode[i]]_vars
  BY <1>1 DEF varsOfAll
<1> QED BY <1>2, InvariantOfAll, PTL DEF SpecOfAll, ChmodDoesAsAsked

=============================================================================
