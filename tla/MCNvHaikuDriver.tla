--------------------------- MODULE MCNvHaikuDriver ---------------------------
(* Small instances of NvHaikuDriver for TLC. *)
EXTENDS NvHaikuDriver

\* Each function has its place, a slot and a number in it.
\* A GPU has 32-bit registers, 64-bit memory BARs and an I/O BAR; a bridge or
\* a sound function comes before it or between two of them.
Gpu == [gpu |-> TRUE, place |-> <<1, 0>>, excluded |-> FALSE, family |-> "TU10X", size |-> <<1, 1, 0, 1, 0, 1>>, wide |-> {1, 3}]
BigGpu == [gpu |-> TRUE, place |-> <<2, 0>>, excluded |-> FALSE, family |-> "AD10X", size |-> <<1, 0, 1, 1, 0, 0>>, wide |-> {1, 3}]
NewGpu == [BigGpu EXCEPT !.family = "NULL", !.place = <<1, 0>>, !.excluded = TRUE]
Other == [gpu |-> FALSE, place |-> <<1, 1>>, excluded |-> FALSE, family |-> "NULL", size |-> <<1, 0, 0, 0, 0, 0>>, wide |-> {}]

MCBuses == {<<Other, NewGpu>>, <<Gpu, Other, BigGpu>>, <<Other>>}

\* Four directories that are there or not, with and without files for two chips;
\* one path is too long, one file cannot be read to its end.
Files == [{<<t, c>> : t \in Types, c \in {"ga10x", "tu10x"}} -> {[size |-> 3, read |-> 3]}]
Short == [n \in {<<"gsp", "ga10x">>} |-> [size |-> 3, read |-> 2]]
Directory(found, length, files) == [found |-> found, length |-> length, files |-> files]

MCDataDirectories ==
  [1 .. 4 -> {Directory(FALSE, 5, f) : f \in Files}
     \cup {Directory(TRUE, l, f) : l \in {7, 8}, f \in Files \cup {Short}}]

=============================================================================
