------------------------------ MODULE UrlPath ------------------------------
(* SanitizeUrlPath (util/uri.go).  A path is the sequence of the parts     *)
(* between its slashes, backslashes included: "/a/" is <<"", "a", "">>.    *)
EXTENDS Integers, SequencesExt

NoName  == ""  \* before the first slash, between two, behind the last
Root    == <<NoName, NoName>>
Invalid == <<"..">>  \* an error, and no path either

EndsWithSlash(path) == Len(path) > 1 /\ path[Len(path)] = NoName

\* One fragment after the ones kept so far.
Keep(frags, frag) ==
  CASE frags = Invalid \/ frag \in {NoName, "."} -> frags
    [] frags # Invalid /\ frag = ".." -> IF frags = <<>> THEN Invalid ELSE Front(frags)
    [] OTHER -> Append(frags, frag)

Fragments(path) == FoldLeft(Keep, <<>>, path)

SanitizeUrlPath(path, trailingSlash) ==
  LET frags == Fragments(path)
      slash == trailingSlash > 0 \/ (trailingSlash = 0 /\ EndsWithSlash(path))
  IN  CASE frags = Invalid -> Invalid
        [] frags = <<>>    -> Root
        [] OTHER           -> <<NoName>> \o frags \o (IF slash THEN <<NoName>> ELSE <<>>)

=============================================================================
