------------------------------ MODULE MCUriMatch ------------------------------
(***************************************************************************)
(* Every endpoint and every URI over small alphabets, one character at a   *)
(* time, and what the algorithms of UriMatch promise about them, stated by *)
(* definitions that do not follow the code.                                *)
(***************************************************************************)
EXTENDS UriMatch

CONSTANT Questions  \* what is asked: some of the DOMAIN of Uris

\* The characters of a URI and their largest number, for each question; an
\* endpoint is needed only to match.
Uris == [match  |-> [chars |-> {"a", "b", "/"},                      most |-> 5],
         params |-> [chars |-> {"a", "?", "&", "=", "%3F"},          most |-> 7],
         text   |-> [chars |-> {"a", "?", "&", "=", "+", " "},       most |-> 4]]
EndpointChars == {"a", "/", "*"}
MaxEndpoint == 5

ASSUME QuestionsAssumption == Questions \subseteq DOMAIN Uris

VARIABLES question,  \* one of Questions
          endpoint,  \* a registered endpoint
          uri        \* the URI of a request

vars == <<question, endpoint, uri>>

Init == question \in Questions /\ endpoint = <<>> /\ uri = <<>>

ExtendEndpoint ==
  /\ question = "match" /\ Len(endpoint) < MaxEndpoint
  /\ \E c \in EndpointChars : endpoint' = Append(endpoint, c)
  /\ UNCHANGED <<question, uri>>

ExtendUri ==
  /\ Len(uri) < Uris[question].most
  /\ \E c \in Uris[question].chars : uri' = Append(uri, c)
  /\ UNCHANGED <<question, endpoint>>

Next == ExtendEndpoint \/ ExtendUri

Spec == Init /\ [][Next]_vars

-----------------------------------------------------------------------------
(* Reference definitions.                                                  *)

\* The parts of s between the characters c.
Split(s, c) ==
  LET cuts  == {0, Len(s) + 1} \cup PlacesOf(s, c)
      Cut(n) == CHOOSE i \in cuts : Cardinality({j \in cuts : j < i}) = n - 1
  IN [n \in 1..Occurrences(s, c) + 1 |-> SubSeq(s, Cut(n) + 1, Cut(n + 1) - 1)]

\* The last star of the pattern before its i-th character, 0 if there is none.
LastStar(pattern, i) == Max({0} \cup {k \in PlacesOf(pattern, "*") : k < i})

\* Where the i-th character of the pattern stands in the URI, if after[k] is
\* where what follows the star at k begins.
Place(pattern, after, i) ==
  after[LastStar(pattern, i)] + (i - LastStar(pattern, i) - 1)

\* Each star of the pattern stands for a piece of the URI, each other character
\* for itself, and there is nothing else in the URI.
GlobMatches(pattern, s) ==
  \E after \in [{0} \cup PlacesOf(pattern, "*") -> 1..Len(s) + 1] :
    /\ after[0] = 1
    /\ \A i \in DOMAIN pattern :
         IF pattern[i] = "*" THEN Place(pattern, after, i) <= after[i]
         ELSE Place(pattern, after, i) <= Len(s) /\ s[Place(pattern, after, i)] = pattern[i]
    /\ Place(pattern, after, Len(pattern) + 1) = Len(s) + 1

AdjacentStars(pattern) ==
  \E i \in 1..Len(pattern) - 1 : pattern[i] = "*" /\ pattern[i + 1] = "*"

\* Wild cards that are whole segments of the path, as docs/USER-GUIDE.txt
\* section 9 has them, and a path with the same segments elsewhere.
WholeSegments(pattern, path) ==
  LET p == Split(pattern, "/")
      s == Split(path, "/")
  IN /\ p[1] = <<>> /\ Len(p) = Len(s)
     /\ \A i \in DOMAIN p : p[i] = s[i] \/ p[i] = <<"*">>

StarSegment(pattern, index) ==
  LET p == Split(pattern, "/")
      stars == {i \in DOMAIN p : p[i] = <<"*">>}
  IN CHOOSE i \in stars : Cardinality({j \in stars : j <= i}) = index

\* A query of pairs, and nothing that looks like one in the path.
Pairs(s) ==
  [i \in 1..Occurrences(s, "&") + 1 |->
     LET piece == Split(s, "&")[i]
     IN [key |-> Split(piece, "=")[1], value |-> Split(piece, "=")[2]]]

WellFormed(s) ==
  /\ QueryMark(s) # 0
  /\ LET path  == SubSeq(s, 1, QueryMark(s) - 1)
         query == SubSeq(s, QueryMark(s) + 1, Len(s))
     IN /\ Occurrences(path, "=") = 0 /\ Occurrences(path, "&") = 0
        /\ \A i \in 1..Occurrences(query, "&") + 1 :
             Occurrences(Split(query, "&")[i], "=") = 1
        /\ Len(Pairs(query)) <= MaxParams
        /\ \A i \in DOMAIN Pairs(query) : /\ Len(Pairs(query)[i].key) < MaxKeyLen
                                          /\ Len(Pairs(query)[i].value) < MaxKeyLen

-----------------------------------------------------------------------------
(* Properties.                                                             *)

\* The backtracking of VmRESTMatchEndPointURI finds a match exactly when
\* the wild cards can be replaced by strings that give the URI: no greedy
\* choice is final and the two end-of-string tests agree.  Two stars in a
\* row are left out: there the code wants something for the first of them.
MatchIsGlob ==
  question = "match" /\ ~AdjacentStars(endpoint) =>
    (MatchEndPointURI(endpoint, uri) <=> GlobMatches(endpoint, uri))

\* When every wild card of the endpoint is a segment of its own,
\* VmRESTGetWildCardByIndex returns, for each index, the segment of the
\* path in its place, whatever the other wild cards stand for (an empty
\* segment too).
WildCardIsSegment ==
  question = "match" /\ WholeSegments(endpoint, uri) =>
    \A index \in 1..GetWildCardCount(endpoint) :
      GetWildCardByIndex(endpoint, uri, index)
        = {Split(uri, "/")[StarSegment(endpoint, index)]}

\* Counting '=' and '&' over the whole URI and then cutting the query from
\* the left accepts exactly the well-formed queries and yields their pairs
\* in order: no pair is dropped, merged or taken from the path.
ParamsArePairs ==
  question = "params" /\ Occurrences(uri, "=") > 0 =>
    RequestParams(uri) = IF WellFormed(uri)
                         THEN {Pairs(SubSeq(uri, QueryMark(uri) + 1, Len(uri)))} ELSE {}

\* What a client encodes before it sends it.
Encoded(text) ==
  [i \in DOMAIN text |->
     CASE text[i] = "?" -> "%3F" [] text[i] = "&" -> "%26" [] text[i] = "=" -> "%3D"
       [] text[i] = "+" -> "%2B" [] text[i] = " " -> "+" [] OTHER -> text[i]]

\* A key and a value may hold the very characters that delimit them: the
\* query is cut before it is decoded, so whatever two texts a client sends
\* encoded (here: the halves of uri), VmRESTGetParamsByIndex returns them.
EncodedPairSurvives ==
  question = "text" => \A i \in 1..Len(uri) :
    LET key   == SubSeq(uri, 1, i)
        value == SubSeq(uri, i + 1, Len(uri))
        sent  == <<"/", "?">> \o Encoded(key) \o <<"=">> \o Encoded(value)
    IN Len(key) < MaxKeyLen /\ Len(value) < MaxKeyLen
       => \E params \in RequestParams(sent) :
            GetParamsByIndex(params, 1) = {[key |-> key, value |-> value]}

\* The path of a request survives its query, whatever the query holds: the
\* endpoint is looked up with the decoded text before the '?'.
QueryDoesNotReachPath ==
  question = "text" => \A i \in 1..Len(uri) :
    LET path  == SubSeq(uri, 1, i)
        query == SubSeq(uri, i + 1, Len(uri))
    IN FirstFrom(path, 1, "?") = 0 /\ FirstFrom(path, 1, " ") = 0
       => GetEndPointURIfromRequestURI(
            DecodeEncodedURLString(Encoded(path) \o <<"?">> \o query)) = {path}

=============================================================================
