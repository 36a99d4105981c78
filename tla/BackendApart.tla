---------------------------- MODULE BackendApart ----------------------------
(* The commands for which BackendOps keeps what it promises: those whose     *)
(* paths lead through no link, and whose source and destination are apart.   *)
(* Also the invariants by which it keeps them, all through a walk.           *)
EXTENDS BackendOps

\* No link is on the way to p; none is at p or below.
Straight(t, p) == \A q \in DOMAIN t : IsPrefix(q, p) /\ q # p => t[q].kind # "link"
NoLinks(t, p) == \A q \in Below(t, p) : t[q].kind # "link"

\* What a copy reads may hold links and be reached by them; what is moved,
\* changed or written to may not.  A move is not made into itself, a copy not
\* into an entry that its source has, and nothing is put in the place of a
\* directory it is in.
Apart(t, c) ==
    /\ Straight(t, c.dest)
    /\ c.type \notin {Copy, Symlink} => Straight(t, c.src)
    /\ c.type = Chmod /\ c.src \in DOMAIN t => t[c.src].kind # "link"
    /\ c.type \in {Move, Copy} => NoLinks(t, c.dest)
    /\ c.type = Move =>
          /\ NoLinks(t, c.src)
          /\ c.src = c.dest \/ (~IsPrefix(c.src, c.dest) /\ ~IsPrefix(c.dest, c.src))
    /\ c.type = Copy =>
          ~IsPrefix(c.dest, c.src) /\ (IsPrefix(c.src, c.dest) => c.dest \notin DOMAIN t)

ASSUME ApartAssumption == \A c \in Cases : Apart(c[1], c[2])

\* No path that is too long is cut at a slash.
ASSUME UncutAssumption == "cut" \notin Faults

-----------------------------------------------------------------------------
(* While a command runs *)

NotBegun == outcome = "none" /\ stack = <<>> /\ ret = "none" => fs = before

\* Every link was there before.
LinksAreOld ==
    outcome = "none" =>
        \A q \in DOMAIN fs : fs[q].kind = "link" => q \in DOMAIN before /\ before[q] = fs[q]

\* The files of the source, but for those that a read has missed unseen.
Files == {p \in SourceEntries : before[p].kind = "file" /\ ReadWhole(p)}
Kept(p) == Holds(fs, p, before[p])
Whole(p) ==
    IF cmd.type = Copy /\ ModeSet(p) THEN Holds(fs, AtDest(p), before[p])
    ELSE HasData(AtDest(p), before[p].data)

IsFile(p) == p \in DOMAIN fs /\ fs[p].kind = "file"

\* Which calls there are, and where in the source each of them is.
FrameFits(i) ==
    LET f == stack[i] IN
    /\ \/ cmd.type = Delete /\ f.fn = "remove"
       \/ cmd.type = Move /\ f.fn \in {"move", "remove"}
       \/ cmd.type = Copy /\ f.fn = "copy"
    /\ IsPrefix(cmd.src, f.src)
    /\ i = Len(stack) => f.src = cmd.src
    /\ i > 1 => \E n \in Names \ f.left : stack[i - 1].src = Append(f.src, n)
    /\ IF f.fn = "remove" THEN f.at \in {"enter", "tree"}
       ELSE f.at # "tree" /\ f.dest = AtDest(f.src)
    /\ f.fn = "move" /\ f.at \in {"file", "open", "full"} => IsFile(f.src)
    /\ f.at \in {"open", "full"} => IsFile(f.dest)

\* What a call has done so far, and that it still has what it is to do: a file
\* below a directory that is read is in an entry that is not read yet, or in the
\* one that the next call is at, or is whole in its new place.
Progress(i, p) ==
    LET f == stack[i] IN
    /\ f.fn = "remove" => Whole(p)
    /\ f.at = "loop" =>
          IF \E n \in f.left : IsPrefix(Append(f.src, n), p) THEN Kept(p)
          ELSE Whole(p) \/ (i > 1 /\ IsPrefix(stack[i - 1].src, p))
    /\ f.fn # "remove" /\ f.at # "loop" => Kept(p)
    /\ f.at \in {"file", "open", "full"} =>
          p = f.src /\ (cmd.type = Copy => f.mode = before[p].mode)
    /\ f.at = "full" => HasData(AtDest(p), before[p].data)

WalkInv ==
    /\ \A i \in DOMAIN stack : FrameFits(i)
    /\ cmd.type \in {Move, Copy} /\ ret # "err" =>
          \A i \in DOMAIN stack : \A p \in Files : IsPrefix(stack[i].src, p) => Progress(i, p)
    /\ stack # <<>> /\ cmd.type = Move /\ cmd.src = cmd.dest =>
          /\ Len(stack) = 1 /\ Top.at = "enter" /\ Top.fn = "move"
          /\ Len(cmd.src) <= PathMax => cmd.src \notin DOMAIN fs
    /\ ret # "none" => cmd.type \in {Delete, Move, Copy}

\* What the outermost call has done when it returns, and what is then answered.
DoneWhenOk ==
    (stack = <<>> /\ ret = "ok") \/ outcome = "success" =>
        /\ cmd.type = Delete => cmd.src \notin DOMAIN fs
        /\ cmd.type = Move => cmd.src = cmd.dest \/ cmd.src \notin DOMAIN fs
        /\ cmd.type \in {Move, Copy} => \A p \in Files : Whole(p)
        /\ MoveDone

\* The rounds of mkdir's loop try the digits in turn, the first one twice; a digit
\* that has been passed is in use.
MkdirRounds ==
    cmd.type = Mkdir =>
        /\ try.digit = IF try.count \in {0, 11} THEN 0 ELSE try.count - 1
        /\ \A j \in 1..try.digit : Digit(j) \in DOMAIN before

\* Each of the calls s is one name deeper than the one that made it, the outermost
\* is at a path of n names, and the path of a directory that is read fits.
EachDeeper(s, n) ==
    \A i \in 1..Len(s) :
        /\ Len(s[i].src) + i = n + Len(s)
        /\ s[i].at = "loop" => Len(s[i].src) <= PathMax

DepthInv == EachDeeper(stack, Len(cmd.src))

BackendInv ==
    /\ TypeOK /\ NotBegun /\ LinksAreOld /\ WalkInv /\ DoneWhenOk
    /\ OthersUntouched /\ MoveLosesNothing /\ CopyLeavesSource
    /\ MkdirRounds /\ MkdirNumbers /\ SymlinkDone

=============================================================================
