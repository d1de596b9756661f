----------------------------- MODULE MCEmission -----------------------------
(* A small instance of Emission. *)
EXTENDS Emission

MCWidth == [piece \in {"./", "/", "dir", "f", "wide", "sparse0", "cut"} |->
             CASE piece = "./" -> 2 [] piece = "dir" -> 3 [] piece = "wide" -> 5
               [] OTHER -> 1]

MCRoots == {<<>>, <<"./">>, <<"/">>, <<"./", "/">>}
MCRootsAnyOrder == MCRoots \cup {<<"/", "./">>}

MCNames == {<<"f">>, <<"dir", "f">>, <<"dir", "dir", "f">>, <<"wide">>}
MCSparseNames == {<<"dir", "f">>, <<"wide">>}

ASSUME MCSpelled == Spelled(MCRoots, MCNames)
=============================================================================
