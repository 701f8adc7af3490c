--------------------------- MODULE MCStaticFiles ----------------------------
(* A small and a large file, asked for over TLS and in the clear.              *)
EXTENDS StaticFiles

CONSTANTS small, large, t, u

MCStart == [p \in Path |-> IF p = small THEN 1 ELSE 2]

Ask(p) == [path |-> p, gzip |-> FALSE, head |-> FALSE]

MCRequests == {Ask(small), Ask(large), [Ask(small) EXCEPT !.gzip = TRUE],
               [Ask(large) EXCEPT !.head = TRUE]}

\* The small file is replaced; the large one is cut short in place and written
\* again, or goes away.
MCChanges == {[path |-> small, way |-> "replaced", size |-> 1],
              [path |-> large, way |-> "edited", size |-> 1],
              [path |-> large, way |-> "edited", size |-> 2],
              [path |-> large, way |-> "replaced", size |-> Gone]}
=============================================================================
