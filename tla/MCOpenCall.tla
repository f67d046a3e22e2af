----------------------------- MODULE MCOpenCall -----------------------------
(***************************************************************************)
(* OpenCall with a word of 256 values: limits of 2 to 4 slots and 16 bytes *)
(* of capacity.  The names are all those of up to four words among some    *)
(* that collide with the extensions the library appends; `a' and the empty *)
(* word make `a.lock' and `.state', both six characters long.              *)
(***************************************************************************)
EXTENDS OpenCall

Alphabet == {"", "a", "tmp", "state", "lock", "sixchr", "b/d", "long"}
Lengths == [w \in Alphabet \cup {"SIXCHR"} |->
              CASE w = "" -> 0 [] w = "a" -> 1 [] w \in {"tmp", "b/d"} -> 3 [] w = "state" -> 5
                [] w = "lock" -> 4 [] w \in {"sixchr", "SIXCHR"} -> 6 [] w = "long" -> 17]
ShortNames == UNION {[1 .. n -> Alphabet] : n \in 1 .. 2}
              \cup {<<"a", "state", "tmp", w>> : w \in Alphabet}
              \cup {<<"a", "state", "tmp", "sixchr", w>> : w \in Alphabet}
One == <<"a">>
=============================================================================
