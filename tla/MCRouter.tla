------------------------------ MODULE MCRouter ------------------------------
(* A router mounted in the root at /a, another in it at /, and             *)
(* registrations whose paths overlap: literal beside wildcard, catch-alls  *)
(* above the mount and at it, and one route that has two callbacks.        *)
EXTENDS Router

At(r, path, method) ==
    [router |-> r, path |-> path, method |-> method, callback |-> "first"]

OverlappingEndpoints ==
    {At("root", <<>>, "CatchAllRecursive"), At("root", <<"a">>, "GET"),
     At("root", <<"a", "b">>, "CatchAllHere"), At("root", <<"*", "c">>, "GET"),
     At("root", <<"a">>, "CatchAllRecursive"),
     At("sub", <<"b">>, "GET"), At("sub", <<>>, "CatchAllHere"),
     At("deep", <<"b">>, "PUT"),
     [At("root", <<"a">>, "GET") EXCEPT !.callback = "second"]}

NestedMounts == {[router |-> "root", path |-> <<"a">>, mounted |-> "sub"],
                 [router |-> "sub", path |-> <<>>, mounted |-> "deep"]}

Routes == {<<>>, <<"a">>, <<"b">>, <<"a", "b">>, <<"a", "c">>, <<"b", "c">>}

SomeRequests == {[route |-> route, method |-> method] :
                   route \in Routes, method \in {"GET", "PUT"}}
=============================================================================
