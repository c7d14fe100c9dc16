------------------------------ MODULE MCMcJob ------------------------------
(* Small instances of the file jobs of mc: directories A and B, a file f, a directory d. *)
EXTENDS McJob, TLC

ConstOrder == <<"d", "f">>
Tree(nodes) == [p \in Paths |-> IF p \in DOMAIN nodes THEN nodes[p] ELSE None]
Roots == (<<"A">> :> Dir) @@ (<<"B">> :> Dir)
F(x) == File(<<x>>, 1)
Source == Roots @@ (<<"A", "f">> :> File(<<"f1", "f2">>, 1)) @@ (<<"A", "d">> :> Dir) @@ (<<"A", "d", "f">> :> F("df"))

\* A destination that is empty; one with the same names; one where the
\* names are of other kinds; and a link to copy.
ConstTrees ==
    { Tree(Source),
      Tree(Source @@ (<<"B", "f">> :> File(<<"b1", "b2">>, 0)) @@ (<<"B", "d">> :> Dir)
                  @@ (<<"B", "d", "f">> :> F("bdf"))),
      Tree(Source @@ (<<"B", "d">> :> F("bd")) @@ (<<"B", "f">> :> Link(<<"A", "f">>))),
      Tree((<<"A", "f">> :> Link(<<"A", "d", "f">>)) @@ Source @@ (<<"B", "f">> :> F("bf"))) }
ConstHomes == {<<"A">>}
BothHomes == {<<"A">>, <<"B">>}
ConstCwd == <<"A">>
ConstDests == {<<"A">>, <<"B">>, <<"A", "d">>, <<"B", "f">>}
=============================================================================
