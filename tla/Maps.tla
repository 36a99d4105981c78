-------------------------------- MODULE Maps --------------------------------
(* Functions that change, as operators whose definitions can be reasoned     *)
(* about: what a directory tree is after an entry was made in it.            *)

\* f, with y at x.
Put(f, x, y) == [z \in DOMAIN f \cup {x} |-> IF z = x THEN y ELSE f[z]]

\* f, and g wherever f has nothing.
Over(f, g) == [x \in DOMAIN f \cup DOMAIN g |-> IF x \in DOMAIN f THEN f[x] ELSE g[x]]

=============================================================================
