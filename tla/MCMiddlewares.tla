--------------------------- MODULE MCMiddlewares ---------------------------
(* Instances of Middlewares: chains in the usual order and in others.      *)
EXTENDS Middlewares, TLC

Chain(mws, origins, weak, remove, redirect) ==
  [mws |-> mws, allowOrigins |-> origins, weak |-> weak, remove |-> remove,
   redirect |-> redirect]

MCServers == {
  Chain(<<"cors", "cache-control", "auth", "etag">>, <<>>, FALSE, TRUE, TRUE),
  Chain(<<"trailing-slash", "cors", "conditional-auth", "etag">>, <<"">>, TRUE, FALSE, TRUE),
  Chain(<<"cors", "trailing-slash", "safe-browsing">>, <<"*">>, FALSE, TRUE, TRUE),
  Chain(<<"etag", "compression", "cors", "cache-control">>, <<"", "*">>, FALSE, FALSE, FALSE),
  Chain(<<"cache-control", "compression", "etag", "trailing-slash">>, <<>>, TRUE, FALSE, FALSE),
  Chain(<<"cors">>, <<"http://a">>, FALSE, FALSE, FALSE)}

MCContents == {"first", "second"}

MCUnescape == "a%2f" :> <<<<"a">>, <<"">>>> @@ "a%5c" :> <<<<"a", "">>>> @@ "%2e%2e" :> <<<<"..">>>>

\* /, /a, /a/, /a%2f/, /a%5c/, /a/%2e%2e/ and, with backslashes, /\.. and /a/b\..
MCPaths == {Root, <<"", "a">>, <<"", "a", "">>, <<"", "a%2f", "">>, <<"", "a%5c", "">>,
            <<"", "a", "%2e%2e", "">>, <<"", "", "..">>, <<"", "a", "b", "..">>}

=============================================================================
