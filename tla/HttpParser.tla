----------------------------- MODULE HttpParser -----------------------------
(***************************************************************************)
(* http_parser, one object per front_conn, used for every request of the   *)
(* connection in turn.  What is read of a request (the head, and whatever  *)
(* arrived with it) is a sequence of lines, each with its \r\n:            *)
(*   <<"request", method, uri>>  matches the regular expression; the uri   *)
(*                        is a sequence of slashes and names               *)
(*   <<"option", name, value>>  has a colon                                *)
(*   <<"other">>  neither;   <<"blank">>  the empty line                   *)
(* A NUL in the text ends it for parse_request: it may end at any line.    *)
(***************************************************************************)
EXTENDS Integers, Sequences, SequencesExt

CONSTANTS
  Names,         \* what options are called
  Lower(_),      \* iequals: names are equal but for their case if Lower of them is equal
  Before(_, _),  \* the order of std::map, for names that are equal but for their case
  Lines,         \* the lines that arrive
  MaxLines       \* bound: lines of a text

VARIABLES
  header_opts_,  \* a map: names to values
  lines,         \* the text of the request at hand
  ret            \* "none", or what parse_request returned on it

httpVars == <<header_opts_, lines, ret>>

Blank == <<"blank">>

request_method == "request_method_"
request_uri == "request_uri_"
content_length == "Content-Length"

\* What the server asks the parser for
Asked == {content_length, request_method, request_uri}

\* A client may call an option what the parser calls the method or the uri.
ASSUME HttpAssumption ==
  /\ MaxLines \in Nat
  /\ Asked \subseteq Names
  /\ \A m, n \in Asked : Lower(m) = Lower(n) => m = n
  /\ \A S \in SUBSET Names : S # {} /\ IsFiniteSet(S) => \E n \in S : \A m \in S : Before(n, m)
  /\ \A item \in Lines : item[1] = "request" => item[3] \in Seq(STRING)
  /\ \A item \in Lines : item[1] = "option" => item[2] \in Names

\* std::map::insert: a name that is there keeps its value
insert(opts, name, value) ==
  [n \in DOMAIN opts \cup {name} |-> IF n \in DOMAIN opts THEN opts[n] ELSE value]

\* The loop that cuts slashes off the end.  Of a uri of slashes only nothing is
\* left, and the loop then reads the byte in front of the empty string: the high
\* byte of a length or of the size of a heap block, which is 0.
strip_slashes(uri) == SubSeq(uri, 1, Max({0} \cup {k \in DOMAIN uri : uri[k] # "/"}))

insert_line(opts, item) ==
  CASE item[1] = "option" -> insert(opts, item[2], item[3])
    [] item[1] = "request" ->
         insert(insert(opts, request_method, item[2]),
                request_uri, strip_slashes(item[3]))
    [] OTHER -> opts

\* The lines getline reads before the empty one
head_lines(text) ==
  LET blank == CHOOSE i \in 1..Len(text) :
                 text[i] = Blank /\ \A j \in 1..i - 1 : text[j] # Blank
  IN  SubSeq(text, 1, blank - 1)

\* strstr(ptr, "\r\n\r\n")
has_head_end(text) == \E i \in 2..Len(text) : text[i] = Blank

\* header_opts_ before the lines are inserted, not cleared
cleared_never == header_opts_
\* header_opts_.clear().  The body, inserted first, is not used by the server.
cleared == <<>>

\* header_opts_ after i lines of the head
inserted(head) ==
  LET opts[i \in 0..Len(head)] ==
        IF i = 0 THEN cleared ELSE insert_line(opts[i - 1], head[i])
  IN  opts

parse_request ==
  /\ ret = "none"
  /\ IF has_head_end(lines)
     THEN /\ header_opts_' = inserted(head_lines(lines))[Len(head_lines(lines))]
          /\ ret' = "true"
     ELSE /\ ret' = "false"
          /\ UNCHANGED header_opts_
  /\ UNCHANGED lines

Named(name) == {n \in DOMAIN header_opts_ : Lower(n) = Lower(name)}

request_option(name) ==
  IF Named(name) = {} THEN ""
  ELSE header_opts_[CHOOSE n \in Named(name) : \A m \in Named(name) : Before(n, m)]

Arrive ==
  /\ ret = "none" /\ Len(lines) < MaxLines
  /\ \E item \in Lines : lines' = Append(lines, item)
  /\ UNCHANGED <<header_opts_, ret>>

\* The connection goes on to its next request.
NextRequest ==
  /\ ret # "none"
  /\ lines' = <<>> /\ ret' = "none"
  /\ UNCHANGED header_opts_

HttpInit == header_opts_ = <<>> /\ lines = <<>> /\ ret = "none"
HttpNext == Arrive \/ parse_request \/ NextRequest

HttpSpec == HttpInit /\ [][HttpNext]_httpVars

-----------------------------------------------------------------------------

\* The lines in front of the empty line
InHead == {i \in 1..Len(lines) : \A j \in 1..i : lines[j] # Blank}

\* The names a line gives a value to
NamesIn(item) ==
  CASE item[1] = "option" -> {item[2]}
    [] item[1] = "request" -> {request_method, request_uri}
    [] OTHER -> {}

\* The value a line gives to one of them: of a uri, what is left without the
\* slashes at its end
Gives(item, name, value) ==
  CASE item[1] = "option" -> value = item[3]
    [] item[1] = "request" /\ name = request_method -> value = item[2]
    [] item[1] = "request" /\ name = request_uri ->
         \E k \in 0..Len(item[3]) :
           /\ value = SubSeq(item[3], 1, k)
           /\ k # 0 => item[3][k] # "/"
           /\ \A j \in k + 1..Len(item[3]) : item[3][j] = "/"

\* The spellings of a name in this request: the line and the name it has there
Saying(name) ==
  {s \in InHead \X Names : s[2] \in NamesIn(lines[s[1]]) /\ Lower(s[2]) = Lower(name)}

\* What the handlers ask the parser for (front_conn.cpp:132-143, 228) is what
\* this request says and not what an earlier request of the connection said
\* (http_parser.cpp:21): what no line in front of the empty one speaks of is not
\* there, and otherwise the answer is what a line of this request gives.  Of
\* several spellings the first in the order of the map counts, and of the lines
\* that have it the first: with the names a client normally sends, the method and
\* the uri are those of the first request line.
OptionsOfThisRequest ==
  ret = "true" =>
    \A name \in Asked :
      /\ Saying(name) = {} => Named(name) = {}
      /\ Saying(name) # {} =>
           \E s \in Saying(name) :
             /\ \A o \in Saying(name) : Before(s[2], o[2]) /\ (o[2] = s[2] => s[1] <= o[1])
             /\ Gives(lines[s[1]], s[2], request_option(name))
=============================================================================
