---------------------------- MODULE MCFileManager ----------------------------
(* Small instances of FileManager for TLC.  Queues of one or two messages    *)
(* stand for the 64 that the default msgmnb of 16384 bytes gives messages of *)
(* 256 bytes: what matters is to reach both limits.                          *)
EXTENDS FileManager, TLC

CONSTANTS b1, b2     \* backends

OneBackend == {b1}
TwoBackends == {b1, b2}

\* Backends are interchangeable; only for runs without liveness.
Symmetry == Permutations(TwoBackends)

\* One operation that reports its failure and one that does not.
LoudAndQuiet == {5, 2}

\* chmod alone does both: without faults it has every outcome that an
\* operation can have.
OnlyChmod == {7}

\* move alone dies of a mangled destination and ends quietly when its command
\* was mangled: with faults it has every outcome.
OnlyMove == {5}

NoFaults == {}
EveryFault == AllFaults

=============================================================================
