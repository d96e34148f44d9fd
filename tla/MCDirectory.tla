---------------------------- MODULE MCDirectory ----------------------------
(* Small instances of Directory: a name longer than the others, and two names *)
(* with one hash.                                                            *)
EXTENDS Directory

\* The names and the dots are one unit long, but for one name.
MCSize == [n \in Names \cup Dots |-> IF n = "e" THEN 2 ELSE 1]

\* The names have their hashes in alphabetical order; two of them collide.
MCHash == [n \in Names |-> CASE n = "a" -> 2 [] n = "b" -> 4 [] n = "c" -> 6 [] n = "d" -> 6
                              [] n = "e" -> 8 [] n = "f" -> 10 [] n = "g" -> 12]
=============================================================================
