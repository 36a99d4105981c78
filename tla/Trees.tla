------------------------------- MODULE Trees -------------------------------
(* Directory trees, functions from paths to nodes: what is below a directory  *)
(* and where it comes when the directory is renamed.                          *)
EXTENDS Naturals, Sequences, SequencesExt, Maps

Below(tree, a) == {q \in DOMAIN tree : IsPrefix(a, q)}

\* The path q, below a, once a is b.
Rebased(q, a, b) == b \o SubSeq(q, Len(a) + 1, Len(q))

\* rename(2) of a to b: what is below moves along.
Moved(tree, a, b) ==
    LET moved == {Rebased(q, a, b) : q \in Below(tree, a)} IN
    [q \in (DOMAIN tree \ Below(tree, a)) \cup moved |->
        IF q \in moved THEN tree[Rebased(q, b, a)] ELSE tree[q]]

=============================================================================
