--------------------------- MODULE MCPersistence ---------------------------
(* Instances of Persistence for TLC: a short map, and a longer one whose   *)
(* strings need escaping.                                                  *)
EXTENDS Persistence

Short == {<<<<"a">>, <<"b">>>>}
Long == {<<<<"a">>, <<" ">>>>, <<<<"n", " ">>, <<"\\", "n">>>>}

ShortAndLong == {Short, Long}

Characters == {"a", "b", "n", " ", "\\"}

Writers == Permutations(Writer)
=============================================================================
