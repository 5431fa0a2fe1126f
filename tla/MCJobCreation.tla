--------------------------- MODULE MCJobCreation ---------------------------
(***************************************************************************)
(* Start commands with structures of one or two groups, each with one or   *)
(* two children.                                                           *)
(***************************************************************************)
EXTENDS JobProperties

MCRegistry ==
  [ f144 |-> [datasets |-> <<"time", "value">>, extra |-> <<"ep01">>, meta |-> <<"minimum_value">>, required |-> {}],
    ep01 |-> [datasets |-> <<"connection_status">>, extra |-> <<>>, meta |-> <<>>, required |-> {}],
    hs00 |-> [datasets |-> <<"histograms">>, extra |-> <<>>, meta |-> <<>>, required |-> {<<"shape">>}] ]

Num(n) == [num |-> n]
Arr(s) == [arr |-> s]
Dataset(n, type, v) == [module |-> "dataset", config |-> [name |-> n, dtype |-> type, values |-> v]]
Stream(m, extra) == [module |-> m, config |-> [source |-> "s", topic |-> "t", enable_extra |-> extra]]
Link(ups, target) == [module |-> "link", config |-> [name |-> "l", ups |-> ups, source |-> target]]
Group(n, kids) == [type |-> "group", name |-> n, children |-> kids]
WithAttributes(node, form, ok) ==
  [k \in DOMAIN node \cup {"attributes"} |->
     IF k = "attributes" THEN [form |-> form, items |-> <<<<"NX_class", TRUE>>, <<"units", ok>>>>] ELSE node[k]]

Arrays == {Num(7), Arr(<<Arr(<<Num(1), Num(2), Num(3)>>), Arr(<<Num(4)>>)>>), Arr(<<Num(1), Arr(<<Num(2), Num(3)>>)>>), Arr(<<>>)}
Leafs ==
  {Dataset("d", "int32", v) : v \in Arrays}
    \cup {Dataset("d", "int32", Arr(<<[str |-> "x"]>>)), Dataset("time", "string", Arr(<<[str |-> "x"], Num(1)>>)),
          Dataset("d", "uint8", Arr(<<Num(257), Num(255), Num(-1)>>)), Dataset("d", "int8", Arr(<<Num(128), Num(-128)>>)),
          Dataset("d", "int32", Arr(<<[num |-> 2, frac |-> 5], Num(3)>>)), Dataset("d", "double", [num |-> 2, frac |-> 5]),
          Dataset("d", "complex", Num(1)), [module |-> "dataset", config |-> [name |-> "d"]]}
    \cup {Stream("f144", TRUE), Stream("f144", FALSE), Stream("ep01", TRUE),
          [module |-> "hs00", config |-> [source |-> "s", topic |-> "t", shape |-> <<>>]], Stream("hs00", TRUE),
          [module |-> "f144", config |-> [topic |-> "t"]], Stream("xxxx", TRUE),
          [module |-> "mdat", config |-> [name |-> "start_time"]], Link(1, <<"b", "value">>), [name |-> "nothing"]}
Seconds == {Group("a", <<Stream("f144", FALSE)>>), Group("b", <<Stream("f144", FALSE)>>),
            Group("b", <<[module |-> "mdat", config |-> [name |-> "start_time"]]>>)}
Roots ==
  {<<Group("a", <<l>>), second>> : l \in Leafs, second \in Seconds}
    \cup {<<Group("a", <<Stream("f144", TRUE), l>>), Group("b", <<Stream("f144", FALSE)>>)>> : l \in Leafs}
    \cup {<<WithAttributes(Group("a", body), form, ok), Group("b", <<Group("c", <<Stream("f144", TRUE)>>)>>)>> :
            body \in {<<Stream("f144", TRUE)>>, <<Link(0, <<"value">>)>>}, form \in {"array", "object"}, ok \in BOOLEAN}
    \cup {<<WithAttributes(Group("a", <<>>), "object", FALSE), Group("b", <<Link(0, <<"value">>)>>)>>}
    \cup {<<Group("a", <<Link(1, <<"b", "value">>)>>), Group("a", <<>>), Group("b", <<Stream("f144", TRUE)>>)>>}
    \cup {<<[type |-> "group", name |-> ""], [type |-> "set", name |-> "a"], Group("b", <<Stream("ep01", TRUE)>>)>>}
MCStructures == {[children |-> r] : r \in Roots}
=============================================================================
