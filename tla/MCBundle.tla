------------------------------- MODULE MCBundle -------------------------------
(* Bundle with a site that has a directory below html/ and two files of the same name, *)
(* a smaller site, and an empty directory.                                             *)
EXTENDS Bundle, TLC

CONSTANTS orig, app, site1, site2, empty

Nested == <<"html", "sub", "index.html">>
Script == <<"html", "app.js">>
Blob == <<"ipfs", "index.html">>

Contents ==
  site1 :> (Index :> "i1" @@ Nested :> "n1" @@ Blob :> "b1")
    @@ site2 :> (Index :> "i2" @@ Script :> "s2")
    @@ empty :> <<>>

Binaries == orig :> "p2p-webapp" @@ app :> "my-app"
Homes == orig :> site1 @@ app :> site2

LexicalOrder ==
  <<<<"app.js">>, Script, Index, Nested, <<"index.html">>, Blob, <<"my-app">>, <<"p2p-webapp">>>>

AllPaths == ToSet(LexicalOrder)

InOrder == [S \in SUBSET AllPaths |-> SelectSeq(LexicalOrder, LAMBDA path : path \in S)]

Strings == {"i1", "n1", "b1", "i2", "s2", Torn, Binary, Corrupt}

Requests ==
  [path : {<<>>, <<"index.html">>, <<"app.js">>, <<"sub">>, <<"sub", "index.html">>,
           <<"route">>, <<"gone.js">>, <<"route", "sub.html">>},
   slash : BOOLEAN]

Symmetric == Permutations(Procs)

Extensionless == {"index.html", "sub", "route", "sub.html"}
===============================================================================
