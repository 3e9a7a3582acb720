---- MODULE MCFileServer ----
EXTENDS FileServer, TLC

CONSTANTS a, b
N(x) == <<x, 0>>
Two == {a, b}
Either == Permutations(Two)
McBase == [x \in {"long name"} |-> "LONGNA"]
McChunks == [x \in {"long name"} |-> 2]
McZero == <<<<>>, Nobody>>
FilePaths == {<<N("A")>>, <<N("long name")>>, <<N("D"), N("A")>>}
DirPaths == {<<N("D")>>}

\* Volumes the driver itself has written: a directory with a file in it next to
\* a file with a long name; a root directory that is full, with one file of two
\* clusters in it; one on which the machine stopped between the long entries of
\* a name and the short one.
Wrote(v, p, n) == fat16_write(Fresh(v), p, [j \in 1 .. n |-> <<p, Nobody>>]).v
Made(v, p) == fat16_mkdir(Fresh(v), p).v
Empty(v, x) == Wrote(v, <<N(x)>>, 0)
FullRoot ==
  Empty(Empty(Empty(Empty(Empty(Empty(Wrote(Formatted, <<N("A")>>, 3),
    "F1"), "F2"), "F3"), "F4"), "F5"), "F6")
SomeCut == {fat16_write(Fresh(Formatted), <<N("long name")>>, <<<<<<N("long name")>>, Nobody>>>>).log[5]}
SomeVolumes ==
  {FullRoot,
   Wrote(Wrote(Made(Formatted, <<N("D")>>), <<N("D"), N("A")>>, 1), <<N("long name")>>, 1)}
====
