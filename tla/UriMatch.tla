------------------------------- MODULE UriMatch -------------------------------
(***************************************************************************)
(* The string algorithms of restengine/restProtocolHead.c: matching a      *)
(* registered endpoint with wild cards against the path of a request,      *)
(* finding what a wild card stands for, and splitting the query of a URI   *)
(* into key-value pairs.                                                   *)
(*                                                                         *)
(* A C string is a sequence of characters, a character is a TLA+ string.   *)
(* An escaped character (%3F, %20, ...) is one character of the sequence:  *)
(* which hexadecimal digits stand for which byte is left out.  An operator *)
(* that may fail returns a set: its result as the only element, or the     *)
(* empty set where the code returns an error.                              *)
(***************************************************************************)
EXTENDS Naturals, Sequences, FiniteSets, FiniteSetsExt

CONSTANTS MaxParams,  \* MAX_URL_PARAMS_ARR_SIZE
          MaxKeyLen   \* MAX_KEY_VAL_PARAM_LEN

ASSUME UriLimits == MaxParams \in Nat /\ MaxKeyLen \in Nat

-----------------------------------------------------------------------------
(* strchr and counting.                                                    *)

\* The places of character c in s.
PlacesOf(s, c) == {i \in DOMAIN s : s[i] = c}

Occurrences(s, c) == Cardinality(PlacesOf(s, c))

\* strchr(s + from, c): the first place from which c stands, 0 for NULL.
FirstFrom(s, from, c) ==
  LET later == {i \in PlacesOf(s, c) : i >= from}
  IN IF later = {} THEN 0 ELSE Min(later)

-----------------------------------------------------------------------------
(* Endpoints.                                                              *)

\* Faulty variant of MatchEndPointURI: a star ends where the character
\* behind it first appears, and the search never goes back.
FirstStopMatch(pattern, uri) ==
  LET P == Len(pattern) + 1
      U == Len(uri) + 1
      m[i \in 1..P, j \in 1..U] ==
        \/ i = P /\ j = U
        \/ /\ i < P
           /\ IF j < U /\ pattern[i] = uri[j] THEN m[i + 1, j + 1]
              ELSE /\ pattern[i] = "*"
                   /\ IF j < U /\ (i + 1 = P \/ pattern[i + 1] # uri[j])
                      THEN m[i, j + 1] ELSE m[i + 1, j]
  IN m[1, 1]

\* The recursion of VmRESTMatchEndPointURI: m[<<i, j>>] compares what is left
\* of the pattern from i with what is left of the URI from j.
MatchEndPointURI(pattern, uri) ==
  LET P == Len(pattern) + 1
      U == Len(uri) + 1
      m[at \in (1..P) \X (1..U)] ==
        LET i == at[1]
            j == at[2]
        IN \/ i = P /\ j = U
           \/ /\ i < P
              /\ ~(pattern[i] = "*" /\ i + 1 < P /\ j = U)
              /\ IF j < U /\ pattern[i] = uri[j] THEN m[<<i + 1, j + 1>>]
                 ELSE /\ pattern[i] = "*"
                      /\ m[<<i + 1, j>>] \/ (j < U /\ m[<<i, j + 1>>])
  IN m[<<1, 1>>]

\* Faulty variant of Matches: only the first string is a pattern.
MatchesOneWay(endpoint, uri) == MatchEndPointURI(endpoint, uri)

\* What counts as a match in VmRestEngineGetEndPoint: either string may be
\* the pattern.
Matches(endpoint, uri) ==
  MatchEndPointURI(endpoint, uri) \/ MatchEndPointURI(uri, endpoint)

\* Each escape is one character; these are the ones that matter here.
DecodedCharacter == [c \in {"%3F", "%26", "%3D", "%2B", "+"} |->
  CASE c = "%3F" -> "?" [] c = "%26" -> "&" [] c = "%3D" -> "=" [] c = "%2B" -> "+" [] c = "+" -> " "]

\* Faulty variant of DecodeEncodedURLString: '+' is kept.
DecodeEscapesOnly(s) ==
  [i \in DOMAIN s |-> IF s[i] \in DOMAIN DecodedCharacter \ {"+"}
                      THEN DecodedCharacter[s[i]] ELSE s[i]]

DecodeEncodedURLString(s) ==
  [i \in DOMAIN s |-> IF s[i] \in DOMAIN DecodedCharacter
                      THEN DecodedCharacter[s[i]] ELSE s[i]]

\* Faulty variant of GetEndPointURIfromRequestURI: the last '?' ends the path.
PathToLastMark(uri) ==
  LET path == IF Occurrences(uri, "?") = 0 THEN uri
              ELSE SubSeq(uri, 1, Max(PlacesOf(uri, "?")) - 1)
  IN IF uri = <<>> \/ FirstFrom(path, 1, " ") # 0 THEN {} ELSE {path}

\* The path: everything before the first '?'.  A path may hold no space.
GetEndPointURIfromRequestURI(uri) ==
  LET q    == FirstFrom(uri, 1, "?")
      path == IF q = 0 THEN uri ELSE SubSeq(uri, 1, q - 1)
  IN IF uri = <<>> \/ FirstFrom(path, 1, " ") # 0 THEN {} ELSE {path}

-----------------------------------------------------------------------------
(* Wild cards.                                                             *)

GetWildCardCount(endpoint) == Occurrences(endpoint, "*")

\* The slashes before the index-th '*' of the endpoint.
GetPreSlashIndex(endpoint, index) ==
  Cardinality({i \in PlacesOf(endpoint, "/") :
                 \A j \in 1..i :
                   Cardinality({k \in PlacesOf(endpoint, "*") : k <= j}) # index})

\* Faulty variant of CopyStart: the slash itself is copied.
CopyStartAtSlash(path, preSlash) ==
  LET seen == {i \in DOMAIN path : Cardinality({j \in PlacesOf(path, "/") : j <= i}) = preSlash}
  IN IF seen = {} THEN Len(path) + 1 ELSE Min(seen)

\* Where the copy of VmRESTCopyWCStringByIndex starts: behind the first
\* character at which preSlash slashes have been seen.
CopyStart(path, preSlash) ==
  LET seen == {i \in DOMAIN path : Cardinality({j \in PlacesOf(path, "/") : j <= i}) = preSlash}
  IN IF seen = {} THEN Len(path) + 1 ELSE Min(seen) + 1

CopyWCStringByIndex(path, index, total, preSlash) ==
  LET start == CopyStart(path, preSlash)
      slash == FirstFrom(path, start, "/")
  IN CASE start > Len(path) -> {<<>>}
       [] start <= Len(path) /\ slash # 0 -> {SubSeq(path, start, slash - 1)}
       [] start <= Len(path) /\ slash = 0 /\ index = total -> {SubSeq(path, start, Len(path))}
       [] OTHER -> {}

\* VmRESTGetWildCardByIndex once the endpoint of the path has been found.
GetWildCardByIndex(endpoint, path, index) ==
  IF index > GetWildCardCount(endpoint) THEN {}
  ELSE CopyWCStringByIndex(path, index, GetWildCardCount(endpoint),
                           GetPreSlashIndex(endpoint, index))

-----------------------------------------------------------------------------
(* Parameters.                                                             *)

\* Faulty variant of GetParamsCountInReqURI: the '&' are not counted.
CountEqualSigns(uri) ==
  IF uri = <<>> \/ FirstFrom(uri, 1, " ") # 0 THEN {} ELSE {Occurrences(uri, "=")}

GetParamsCountInReqURI(uri) ==
  LET eqCnt  == Occurrences(uri, "=")
      ampCnt == Occurrences(uri, "&")
  IN IF uri = <<>> \/ FirstFrom(uri, 1, " ") # 0 \/ (eqCnt > 0 /\ ampCnt # eqCnt - 1)
     THEN {} ELSE {eqCnt}

\* The '?' that opens the query, or the first escaped one.
QueryMark(uri) ==
  IF FirstFrom(uri, 1, "?") # 0 THEN FirstFrom(uri, 1, "?") ELSE FirstFrom(uri, 1, "%3F")

\* The text between two delimiters, the second one possibly the end (0).
Between(uri, left, right) ==
  SubSeq(uri, left + 1, IF right = 0 THEN Len(uri) ELSE right - 1)

\* One turn of the loop of VmRestParseParams: the pairs behind the delimiter
\* at key, 0 when there is none, if later[next] are those behind the next one.
PairsBehind(uri, later) ==
  [key \in 0..Len(uri) |->
     LET value == FirstFrom(uri, key, "=")
         next  == FirstFrom(uri, value, "&")
         pair  == [key   |-> Between(uri, key, value),
                   value |-> Between(uri, value, next)]
     IN IF key # 0 /\ value # 0 /\ Len(pair.key) < MaxKeyLen /\ Len(pair.value) < MaxKeyLen
        THEN {<<pair>> \o rest : rest \in later[next]}
        ELSE {}]

ParseParams(uri, paramsCount) ==
  LET pairs[n \in 0..paramsCount] ==
        IF n = 0 THEN [key \in 0..Len(uri) |-> {<<>>}] ELSE PairsBehind(uri, pairs[n - 1])
  IN IF paramsCount > MaxParams THEN {} ELSE pairs[paramsCount][QueryMark(uri)]

\* Steps 5 and 6 of VmRestEngineHandler: the parameters a callback gets.
RequestParams(uri) ==
  UNION {IF n = 0 THEN {<<>>} ELSE ParseParams(uri, n) : n \in GetParamsCountInReqURI(uri)}

GetParamsByIndex(params, index) ==
  IF index \notin DOMAIN params \/ params[index].key = <<>> THEN {}
  ELSE {[key   |-> DecodeEncodedURLString(params[index].key),
         value |-> DecodeEncodedURLString(params[index].value)]}

=============================================================================
