------------------------------ MODULE MCTexts ------------------------------
(***************************************************************************)
(* The lines and the lengths of the texts                                  *)
(***************************************************************************)
EXTENDS Texts

MCLines ==
  {<<"request", "POST", <<"/", "aa", "/", "/">>>>, <<"request", "GET", <<"/">>>>,
   <<"option", "Content-Length", "1">>, <<"option", "Content-Length", "2">>,
   <<"option", "content-length", "3">>, <<"option", "REQUEST_URI_", <<"aa">>>>,
   <<"option", "request_uri_", <<"bb", "/">>>>, <<"other">>, <<"blank">>}

\* In the order of the map
MCNameList ==
  <<"Content-Length", "REQUEST_URI_", "content-length", "request_method_", "request_uri_">>
MCNames == Range(MCNameList)
MCLower(n) ==
  CASE n = "Content-Length" -> "content-length"
    [] n = "REQUEST_URI_" -> "request_uri_"
    [] OTHER -> n
MCBefore(m, n) ==
  \E i, j \in DOMAIN MCNameList : i <= j /\ MCNameList[i] = m /\ MCNameList[j] = n

MCMaxChunks == [m \in Modes |-> CASE m = "structure" -> 5 [] m = "string" -> 4 [] m = "number" -> 5]
=============================================================================
