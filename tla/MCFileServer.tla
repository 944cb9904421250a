---------------------------- MODULE MCFileServer ----------------------------
(* Small instance of FileServer, and so of WebServer, for TLC: the         *)
(* goroutines are model values.                                            *)
EXTENDS FileServer, TLC

MCNames == {"", "..", "a", "b", "static", "www"}

Site(route, base, spare) == [route |-> route, base |-> base, room |-> spare]

\* Routes /static, a/b/ and /, with files below www/, below /www and anywhere,
\* and a route that ServeFiles refuses.
MCSites == {Site(<<"", "static">>, <<"www", "">>, 2),
            Site(<<"a", "b", "">>, <<"", "www">>, 1),
            Site(Root, <<>>, 2),
            Site(<<"", "..">>, <<>>, 0)}

\* The directory itself, one file of it, one of a directory in it.
MCRests == {<<"">>, <<"a">>, <<"b", "a">>}

=============================================================================
