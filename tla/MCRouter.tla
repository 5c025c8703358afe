------------------------------ MODULE MCRouter ------------------------------
(***************************************************************************)
(* Router.tla for TLC: routes that share prefixes, wildcards beside static *)
(* children in the same and in different segments, some malformed, and all *)
(* short paths over the same characters.                                   *)
(***************************************************************************)
EXTENDS Router

MCRoute ==
  {<<"/">>, <<"/", "a">>, <<"/", "a", "b">>, <<"/", "a", "/">>, <<"/", "a", "/", "b">>,
   <<"/", ":x">>, <<"/", ":y">>, <<"/", ":x", "/", "b">>, <<"/", ":x", "/", ":y">>,
   <<"/", ":x", "/", "a", "/", "a">>, <<"/", "a", "/", ":y", "/", "b">>,
   <<"/", "a", ":x">>, <<"/", "a", "b", ":x">>, <<"/", "a", "/", ":x">>,
   <<"/", "*z">>, <<"/", "a", "/", "*z">>, <<"/", ":x", "/", "*z">>,
   <<"/", ":x", ":y">>, <<"/", "a", "*z">>, <<"/", "*z", "/", "b">>, <<"/", ":">>}

One == {<<"/">> \o s : s \in {<<>>, <<"a">>, <<"b">>, <<"a", "b">>}}
Two == {s \o t : s, t \in One \ {<<"/", "b">>}}
MCRequest == One \cup Two \cup {<<"/", "a", "/">> \o s \o t : s \in {<<"a">>, <<"b">>}, t \in One}
=============================================================================
