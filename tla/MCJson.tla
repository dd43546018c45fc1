------------------------------- MODULE MCJson -------------------------------
(* Values for TLC: simple ones, lists of one and two, lists in lists, and  *)
(* of each kind some that the parser cannot read.                          *)
EXTENDS Json

Strings == {<<"a">>, <<"a", " ">>, <<",", "}">>, <<"]", ":", "1">>}
Numbers == {<<"1">>, <<"1", "0">>}
SimpleValues ==
    {Simple("String", s) : s \in Strings} \cup {Simple("Number", n) : n \in Numbers}
    \cup {Simple("Boolean", True), Simple("Boolean", False), Simple("Null", NullData)}

Names == {<<>>, <<"k">>, <<" ", "k">>}
Lists(V) == {ArrayOf(<<v>>) : v \in V} \cup {ArrayOf(<<v, w>>) : v, w \in V}
Records(V) == UNION {{ObjectOf(f) : f \in [ns -> V]} :
                         ns \in {ns \in SUBSET Names : Cardinality(ns) \in {1, 2}}}

Few == {Simple("String", <<",", "}">>), Simple("Number", <<"1">>), Simple("Boolean", False)}
Nested == {ArrayOf(<<v>>) : v \in Few} \cup {ObjectOf([n \in {<<"k">>} |-> v]) : v \in Few}
          \cup {Simple("Null", NullData)}


\* empty, beginning with a blank, escaped, not digits only, empty lists
Unread ==
    {Simple("String", s) : s \in {<<>>, <<" ", "a">>, <<"a", Quote>>, <<Quote, ",">>,
                                  <<Backslash>>, <<"a", Backslash, "1">>}}
    \cup {Simple("Number", n) : n \in {<<"-", "1">>, <<"1", ".", "0">>}}
    \cup {ArrayOf(<<>>), ObjectOf(<<>>)}
OddNames == {<<Quote>>, <<Backslash, "k">>}

MCValues == SimpleValues \cup Lists(SimpleValues) \cup Records(Few)
            \cup Lists(Nested) \cup Records(Nested)
            \cup Unread \cup Lists(Unread \cup Few)
            \cup {ObjectOf([n \in {k} |-> v]) : k \in Names \cup OddNames,
                                              v \in Unread \cup Few}
MCGaps == {<<>>, <<" ", "\t", "\n">>, <<"\r">>}
=============================================================================
