------------------------------ MODULE MCRouter ------------------------------
(* Paths over two letters: static ones that split each other's keys,        *)
(* parameters at the end, inside, after a prefix and one after another,     *)
(* catch-all routes, and malformed paths.  Requests: every path of up to    *)
(* five characters.                                                         *)
EXTENDS Router

Paths == {
    <<"/">>,
    <<"/", "a">>,
    <<"/", "a", "b">>,
    <<"/", "a", "/">>,
    <<"/", "b", "a">>,
    <<"/", ":", "x">>,
    <<"/", ":", "x", "y">>,
    <<"/", ":", "x", "/", "b">>,
    <<"/", ":", "x", "/", ":", "y">>,
    <<"/", ":", "x", "/", "*", "y">>,
    <<"/", "a", ":", "x">>,
    <<"/", "a", "/", "*", "x">>,
    <<"/", "a", "/", ":", "x", "/">>,
    <<"/", "a", "/", "b", "/", "*", "x">>,
    <<"/", ":", "x", "/", "b", ":", "y">>,
    <<"/", ":", "x", "/">>,
    <<"/", "a", "b", ":", "x">>,
    <<"/", "b", "/", ":", "x", "/", ":", "y">>,
    <<"/", "b", "b">>,
    <<"/", ":">>,
    <<"/", "a", "*", "x">>,
    <<"/", ":", ":", "x">>,
    <<"/", "b", "/", ":", "/", "a">>,
    <<"/", "*", "x", "/", "a">> }
Requested == UNION {{<<"/">> \o s : s \in [1..n -> {"a", "b", "/"}]} : n \in 0..4}
=============================================================================
