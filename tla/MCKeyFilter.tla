----------------------------- MODULE MCKeyFilter -----------------------------
(* Small instances of KeyFilter for TLC: u16 has three bits. *)
EXTENDS KeyFilter, TLC

R(s, e) == [start |-> s, end |-> e]
Empty == [db |-> <<>>, cmd |-> <<>>, white |-> <<>>, black |-> <<>>, wslot |-> <<>>, bslot |-> <<>>]

\* Ranges that touch, overlap, are in one another, written backwards, or end at the last number.
SomeRanges == {R(0, 1), R(2, 3), R(1, 4), R(5, 7), R(4, 1), R(3, 2), R(6, 7), R(2, 2)}
RangeLists == UNION {[1 .. n -> SomeRanges] : n \in 1 .. 3}

Foo == <<"f", "o", "o">>
Fo == <<"f", "o">>
Bar == <<"b">>
Tagged == <<"b", "{", "f", "}", "}">>
NoTag == <<"{", "}", "f">>
Keys == {Foo, Fo, <<"f">>, <<>>, Bar, Tagged, NoTag, <<"{", "b">>}
PrefixLists == {<<>>, <<Fo>>, <<Foo, Fo>>, <<Bar, Foo>>, <<<<>>>>}

MCConfigs ==
  {[Empty EXCEPT !.wslot = w] : w \in RangeLists}
  \union {[Empty EXCEPT !.bslot = <<R(0, 0)>>, !.wslot = w] : w \in {<<>>, <<R(2, 3), R(0, 1)>>, <<R(7, 7), R(5, 7)>>}}
  \union {[Empty EXCEPT !.db = <<1>>, !.cmd = <<Foo, Fo>>, !.white = w, !.black = b] :
            w \in PrefixLists, b \in PrefixLists}
  \union {[Empty EXCEPT !.white = <<Fo, Bar>>, !.black = <<Foo>>, !.wslot = <<R(0, 1), R(3, 3)>>, !.bslot = <<R(0, 0)>>]}

MCNoRoute == {<<"p">>}
MCRequests ==
  [cmd : {<<"s">>}, db : {0}, key : Keys]
  \union [cmd : {Fo, <<"f">>, <<"p">>, <<"s">>}, db : {0, 1}, key : {NoKey}]
MCAdditions == {R(1, 1), R(7, 3), R(3, 7)}

Hashed == Keys \union {<<"f">>, <<>>}
MCCrc16 == [k \in Hashed |->
  CASE k = Foo -> 0 [] k = Fo -> 1 [] k = <<"f">> -> 2 [] k = Bar -> 3 [] k = <<>> -> 0
    [] OTHER -> 1]
=============================================================================
