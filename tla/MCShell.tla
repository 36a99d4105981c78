------------------------------ MODULE MCShell ------------------------------
(* Small instances of ShellVersions for TLC: below /tmp/test a file f and a   *)
(* directory d with a file f of its own; beside /tmp/test a file x, a link to *)
(* it and a directory test2; or a file in the place of /tmp/test.             *)
EXTENDS ShellVersions

Dir(i) == Node("dir", i, <<>>)
File(i) == Node("file", i, <<>>)

Outside == (<<>> :> Dir(1)) @@ (<<"tmp">> :> Dir(2)) @@ (<<"tmp", "x">> :> File(3)) @@ (<<"tmp", "test2">> :> Dir(8))
           @@ (<<"tmp", "l">> :> Node("link", 9, <<"tmp", "x">>))
Inside == (Base :> Dir(4)) @@ (Append(Base, "f") :> File(5))
          @@ (Base \o <<"d">> :> Dir(6)) @@ (Base \o <<"d", "f">> :> File(7))
Instead == Base :> File(5)
Data == (3 :> "x") @@ (5 :> "1") @@ (7 :> "2")

\* Without /tmp/test, with it, and with a file in its place.
SomeTrees == {[fs |-> outside @@ Outside, data |-> Data] : outside \in {<<>>, Inside, Instead}}
OneTree == {[fs |-> Inside @@ Outside, data |-> Data]}

AllNames == {"tmp", "test", "test2", "x", "f", "d", "l", "-m", "-s", ".", ".."}
LikeTest == {"test", "test2"}
Dashes == {"-m", "-s"}
Umask027 == {<<"g", "w">>} \cup ({"o"} \X {"r", "w", "x"})

Rel(names) == Arg(FALSE, names)
Root(names) == Arg(TRUE, names)

Here == {Rel(<<"f">>), Rel(<<"d">>), Rel(<<"l">>), Rel(<<"d", "f">>), Root(<<"l">>), Root(<<"d">>)}
Up == {Rel(<<"..">>), Rel(<<"..", "..">>), Rel(<<"..", "x">>), Rel(<<"..", "test2">>),
       Rel(<<"l", "..", "d">>), Rel(<<".">>), Root(<<>>)}

Modes == {Octal(Rwx({"u"})), Symbolic({}, "+", {"x"}), Symbolic({"g", "o"}, "-", {"r", "x"}), Symbolic({"u"}, "?", {"r"})}

None == {Line(c, NoArg, NoArg, Octal({})) : c \in {"help", "cd", "ls", "rmdir", "cp"}}
        \cup {Line("mkdir", NoArg, NoArg, Octal(DefaultDirMode))}
Ones == {Line(c, p, NoArg, Octal({})) : c \in {"cd", "rmdir", "rm"}, p \in Here \cup Up}
        \cup {Line(c, p, NoArg, Octal({})) : c \in {"cat", "ls"}, p \in Up \cup {Rel(<<"l">>), Root(<<"d">>), Rel(<<"d", "f">>)}}
        \cup {Line("mkdir", p, NoArg, Octal(DefaultDirMode)) : p \in Here \cup Up}
        \cup {Line("mkdir -m", Rel(<<"l">>), NoArg, how) : how \in {Octal(Rwx({"u"})), Symbolic({}, "?", {})}}
        \cup {Line("chmod", p, NoArg, how) : p \in Here, how \in Modes}
        \cup {Line("run", p, NoArg, Octal({})) : p \in {Rel(<<"f">>), Rel(<<"..", "x">>)}}
        \cup {Line("rename", Rel(<<"f">>), NoArg, Octal({}))}
Twos == {Line(c, p, q, Octal({})) :
            c \in {"cp", "rename", "ln", "ln -s"}, p \in Here \cup {Rel(<<".">>)}, q \in (Here \ {Root(<<"d">>)}) \cup {Rel(<<"..", "x">>)}}
        \cup {Line("ls", Rel(<<"d">>), Rel(<<"l">>), Octal({})), Line("ln -s", Rel(<<"..">>), Rel(<<"l">>), Octal({}))}

\* An option where a path is expected, a directory with such a name, and too many words.
Odd == {Line("mkdir", Rel(<<"-m">>), NoArg, Octal(DefaultDirMode)), Line("ln", Rel(<<"-s">>), Rel(<<"l">>), Octal({})),
        Line("rename", Rel(<<"f">>), Rel(<<"-s">>), Octal({})), Line("cd", Rel(<<"-m">>), NoArg, Octal({})),
        AndMore(Line("cd", NoArg, NoArg, Octal({})))}
       \cup {AndMore(Line(c, Rel(<<"d">>), NoArg, Octal({}))) : c \in {"cd", "rmdir", "cat"}}
       \cup {AndMore(Line("mkdir", Rel(<<"l">>), NoArg, Octal(DefaultDirMode)))}
       \cup {AndMore(Line(c, Rel(<<"f">>), Rel(<<"l">>), Octal({}))) : c \in {"rename", "ln", "cp"}}
AllLines == None \cup Ones \cup Twos \cup Odd

CatOnly == {Line("cat", p, NoArg, Octal({})) : p \in Here \cup {Root(<<"f">>)}}
           \cup {Line("cd", p, NoArg, Octal({})) : p \in Here \cup Up}

\* What the directory beside /tmp/test invites to.
BesideOnly == {Line(c, p, NoArg, Octal(DefaultDirMode)) :
                  c \in {"cd", "mkdir", "rmdir"}, p \in Here \cup Up \cup {Rel(<<"..", "test2", "d">>)}}

=============================================================================
