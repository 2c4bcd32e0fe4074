----------------------------- MODULE MCRespCodec -----------------------------
(* Small instances of RespCodec for TLC. *)
EXTENDS RespCodec

MCNumeral == (-2 :> "-2") @@ (-1 :> "-1") @@ (0 :> "0") @@ (1 :> "1") @@ (2 :> "2") @@ (3 :> "3") @@ (4 :> "4")

MCTokens == Markers \union {CR, LF, "x", "y"} \union Range(MCNumeral)

Simple(s) == [type |-> "simple", s |-> s]
Err(s) == [type |-> "error", s |-> s]
Int64(n) == [type |-> "integer", n |-> n]

Ok == Simple(<<"x">>)
Inner == ArrayOf(<<Int64(1), Null>>)
\* Data that reads like a line.
Plus == <<"+", "y", CR, LF>>
Nested == ArrayOf(<<Inner, Bulk(Plus), ArrayOf(<<>>)>>)
Set1 == Command(<<"x">>, <<<<"y">>>>)
Mixed == ArrayOf(<<Bulk(<<>>), Int64(1), Err(<<"y">>)>>)

MCValues == {Ok, Inner, Nested, Set1, Mixed, Int64(1), Int64(-1), Null, Err(<<"y">>), Simple(<<>>),
             Bulk(<<>>), Bulk(<<"x">>), Bulk(<<"y">>), Bulk(Plus), ArrayOf(<<>>)}
MCBatches == {<<Ok, Int64(-1), Set1>>, <<Nested, Simple(<<>>)>>, <<Bulk(Plus), Mixed, Null>>}

MCDepth ==
  LET D[v \in MCValues] ==
        IF v.type = "array" /\ v.elems # <<>>
        THEN 1 + Max({D[v.elems[i]] : i \in DOMAIN v.elems}) ELSE 0
  IN  D

\* A null array, a number that is none, negative lengths, a line without a marker, and an
\* array that ends before its elements do.
MCOthers ==
  {Line("*", <<"-1">>) \o Line("+", <<"x">>),
   Line("+", <<"x">>) \o Line(":", <<"x">>) \o Line("+", <<"y">>),
   Line("*", <<"2">>) \o Line("$", <<"-2">>) \o Line("+", <<"y">>),
   Line("*", <<"-2">>), Line("$", <<"x">>), Line("*", <<"1", "2">>), <<"x", CR, LF>>,
   Line("*", <<"2">>) \o Line("+", <<"y">>)}

\* Where items begin: at 1, and where an item ends.
StartsOf(w) ==
  LET IsStart[i \in Ends(w)] ==
        i = 1 \/ \E j \in 1 .. i - 1 : (\E e \in j .. i : IsItem(w, j, e, i)) /\ IsStart[j]
  IN  {i \in Ends(w) : IsStart[i]}
MCItemStarts == [w \in Wires |-> StartsOf(w)]
=============================================================================
