------------------------------ MODULE Matching ------------------------------
(***************************************************************************)
(* How the matchers of an adapter decide about one request (_Matcher._match *)
(* in src/requests_mock/adapter.py, with the request proxy they read,      *)
(* src/requests_mock/request.py): method, URL, query values, headers and   *)
(* the additional matcher, and then the next matcher for the same request. *)
(*                                                                         *)
(* A text is a word, whether it has a capital, and whether that letter is  *)
(* written as a percent escape: lower() does not see what is escaped.      *)
(***************************************************************************)
EXTENDS Integers, Sequences, FiniteSets

CONSTANTS
  Words,     \* words that texts are made of
  Foreign,   \* those with a letter outside ASCII: a URL is sent with it escaped
  Nothing,   \* the word of the empty text
  Slash,     \* the word of the path "/"
  Http,      \* the schemes whose URLs requests normalises
  Values,    \* header values
  Any,       \* requests_mock.ANY, as a method
  Asked,     \* the requests, as the program writes them, and their first matchers
  Later,     \* matchers that may come after one that refused
  MaxTries   \* bound: matchers that see the request

\* The empty text and "/" have no letter; a method, scheme or host has no escapes.
Text == {t \in [word : Words, upper : BOOLEAN, escaped : BOOLEAN] :
           t.word \in {Nothing, Slash} => ~t.upper /\ ~t.escaped}
Name == {t \in Text : ~t.escaped}
Plain(w) == [word |-> w, upper |-> FALSE, escaped |-> FALSE]
Empty == Plain(Nothing)

Matcher ==
  [method     : Name \cup {Any},
   kind       : {"any", "regex", "string", "purl"},  \* what the URL is given as
   scheme     : Name, netloc : Name, path : Text,     \* path: also the pattern
   query      : Seq(Text \X Text),
   complete   : BOOLEAN,                              \* complete_qs
   sensitive  : BOOLEAN,                              \* case_sensitive
   headers    : SUBSET (Text \X Values),
   additional : {"none", "accepts", "rejects", "raises", "not_callable"}]

Request ==
  [method : Name, scheme : Name, netloc : Name, path : Text,
   query  : Seq(Text \X Text),
   headers : SUBSET (Words \X Values)]                \* names ignore case

ASSUME WordsAssumption ==
  /\ {Nothing, Slash} \cup Http \subseteq Words \ Foreign /\ Foreign \subseteq Words
  /\ Nothing # Slash
ASSUME ChoicesAssumption ==
  /\ Asked \subseteq Matcher \X Request /\ Later \subseteq Matcher
  /\ Any \notin Text /\ MaxTries \in Nat

VARIABLES
  matcher,   \* the matcher that is asked
  request,   \* the request, as the program wrote it
  pc,        \* the part of _match that comes next
  left,      \* request_qs: occurrences of each pair that are left
  todo,      \* the matcher's occurrences of each pair still to be removed
  verdict,   \* what _match returned: "match", "no", or "error" if it raised
  tries      \* matchers asked so far

vars == <<matcher, request, pc, left, todo, verdict, tries>>

-----------------------------------------------------------------------------
(* What is done to texts.                                                  *)

Lower(t) == IF t.escaped THEN t ELSE [t EXCEPT !.upper = FALSE]
Folded(t) == IF matcher.sensitive THEN t ELSE Lower(t)

\* requote_uri: escapes of ASCII letters are undone, other letters escaped.
Requoted(t) == [t EXCEPT !.escaped = t.word \in Foreign]

\* parse_qs undoes every escape.
Unquoted(t) == [t EXCEPT !.escaped = FALSE]

OrSlash(t) == IF t = Empty THEN Plain(Slash) ELSE t
Mapped(query, Op(_)) ==
  [i \in 1..Len(query) |-> <<Op(query[i][1]), Op(query[i][2])>>]

\* The URL in request.url: requests normalises those of its own schemes and
\* leaves others, such as mock://, as they are.
Prepared ==
  IF request.scheme.word \in Http
  THEN [request EXCEPT !.path = Requoted(OrSlash(@)), !.query = Mapped(@, Requoted)]
  ELSE request

\* _RequestObjectProxy.path and query: the whole URL is lower-cased first.
RequestPath == OrSlash(Folded(Prepared.path))
RequestPairs == Mapped(Mapped(Prepared.query, Folded), Unquoted)

\* Mutant of MatcherPath: the path of the matcher is not requoted.
MutMatcherPath == Folded(OrSlash(matcher.path))

\* A purl URL is taken as it is, but for lower-casing path and query.
MatcherPath ==
  Folded(IF matcher.kind = "purl" THEN matcher.path ELSE Requoted(OrSlash(matcher.path)))

MatcherName(t) == IF matcher.kind = "purl" THEN t ELSE Lower(t)
MatcherPairs == Mapped(Mapped(matcher.query, Folded), Unquoted)

\* A parsed query as parse_qs gives it: how often each pair occurs.
Pairs == {RequestPairs[i] : i \in 1..Len(request.query)} \cup
         {MatcherPairs[i] : i \in 1..Len(matcher.query)}
Counted(pairs) == [p \in Pairs |-> Cardinality({i \in 1..Len(pairs) : pairs[i] = p})]
MatcherQuery == Counted(MatcherPairs)

\* Mutant of RequestQuery: the proxy's cached request.qs, which the matcher
\* before this one has removed values from.
MutRequestQuery == [p \in Pairs |-> IF p \in DOMAIN left THEN left[p] ELSE 0]

\* "construct our own qs structure as we remove items from it below"
RequestQuery == Counted(RequestPairs)

TypeOK ==
  /\ matcher \in Matcher /\ request \in Request
  /\ pc \in {"method", "url", "query", "headers", "additional", "done"}
  /\ left \in [DOMAIN left -> Nat] /\ todo \in [DOMAIN todo -> Nat]
  /\ pc = "query" => DOMAIN left = Pairs /\ DOMAIN todo = Pairs
  /\ verdict \in {"none", "match", "no", "error"}
  /\ verdict = "none" <=> pc # "done"
  /\ tries \in Nat

-----------------------------------------------------------------------------
Init ==
  /\ \E c \in Asked : matcher = c[1] /\ request = c[2]
  /\ pc = "method" /\ verdict = "none" /\ tries = 1
  /\ left = Counted(RequestPairs) /\ todo = MatcherQuery

Go(label) == pc' = label /\ verdict' = "none"
Return(result) == pc' = "done" /\ verdict' = result

MatchMethod ==
  /\ pc = "method"
  /\ IF \/ matcher.method = Any
        \/ Lower(request.method) = Lower(matcher.method)
     THEN Go("url") ELSE Return("no")
  /\ UNCHANGED <<matcher, request, left, todo, tries>>

\* ANY, or a regular expression, which sees the URL as it is sent.
MatchOther ==
  /\ pc = "url" /\ matcher.kind \in {"any", "regex"}
  /\ IF matcher.kind = "any" \/ Prepared.path = matcher.path
     THEN Go("headers") ELSE Return("no")
  /\ UNCHANGED <<matcher, request, left, todo, tries>>

\* Mutant of Elsewhere: a netloc is looked at only if there is a scheme.
MutElsewhere ==
  /\ matcher.scheme # Empty
  /\ \/ Lower(request.scheme) # MatcherName(matcher.scheme)
     \/ matcher.netloc # Empty /\ Lower(request.netloc) # MatcherName(matcher.netloc)

Elsewhere ==
  \/ matcher.scheme # Empty /\ Lower(request.scheme) # MatcherName(matcher.scheme)
  \/ matcher.netloc # Empty /\ Lower(request.netloc) # MatcherName(matcher.netloc)

MatchPath ==
  /\ pc = "url" /\ matcher.kind \in {"string", "purl"}
  /\ IF Elsewhere \/ RequestPath # MatcherPath
     THEN Return("no") /\ UNCHANGED <<left, todo>>
     ELSE Go("query") /\ left' = RequestQuery /\ todo' = MatcherQuery
  /\ UNCHANGED <<matcher, request, tries>>

\* Mutant of Missing: a pair whose last occurrence is gone is not missed.
MutMissing(p) == left[p] < 0

Missing(p) == left[p] = 0

\* request_qs.get(k, []).remove(v), for a value the matcher still asks for.
RemoveValue(p) ==
  /\ pc = "query" /\ todo[p] > 0
  /\ IF Missing(p)
     THEN Return("no") /\ UNCHANGED <<left, todo>>
     ELSE /\ left' = [left EXCEPT ![p] = @ - 1]
          /\ todo' = [todo EXCEPT ![p] = @ - 1]
          /\ UNCHANGED <<pc, verdict>>
  /\ UNCHANGED <<matcher, request, tries>>

\* Mutant of Surplus: complete_qs looks for pairs the matcher does not name.
MutSurplus == \E p \in Pairs : left[p] > 0 /\ MatcherQuery[p] = 0

Surplus == \E p \in Pairs : left[p] > 0

QueryDone ==
  /\ pc = "query" /\ \A p \in Pairs : todo[p] = 0
  /\ IF matcher.complete /\ Surplus THEN Return("no") ELSE Go("headers")
  /\ UNCHANGED <<matcher, request, left, todo, tries>>

MatchHeaders ==
  /\ pc = "headers"
  /\ IF \A h \in matcher.headers : <<h[1].word, h[2]>> \in request.headers
     THEN Go("additional") ELSE Return("no")
  /\ UNCHANGED <<matcher, request, left, todo, tries>>

MatchAdditional ==
  /\ pc = "additional"
  /\ Return(CASE matcher.additional \in {"none", "accepts"} -> "match"
              [] matcher.additional = "rejects" -> "no"
              [] OTHER -> "error")
  /\ UNCHANGED <<matcher, request, left, todo, tries>>

\* Adapter.send asks the next matcher.
TryNext(m) ==
  /\ pc = "done" /\ verdict = "no" /\ tries < MaxTries
  /\ matcher' = m /\ tries' = tries + 1 /\ Go("method")
  /\ UNCHANGED <<request, left, todo>>

Next ==
  \/ MatchMethod \/ MatchOther \/ MatchPath
  \/ \E p \in Pairs : RemoveValue(p)
  \/ QueryDone \/ MatchHeaders \/ MatchAdditional
  \/ \E m \in Later : TryNext(m)

Spec == Init /\ [][Next]_vars

-----------------------------------------------------------------------------
(* Properties.                                                             *)

\* Two texts of a URL mean the same to this matcher.
Same(t, u) == t.word = u.word /\ (matcher.sensitive => t.upper = u.upper)
SamePair(p, q) == Same(p[1], q[1]) /\ Same(p[2], q[2])
IgnoringCase(t, u) == t.word = u.word

\* Every pair of the matcher's query is a different pair of the request's.
QueryDeclared ==
  LET mine == 1..Len(matcher.query)
      theirs == 1..Len(request.query) IN
  \E f \in [mine -> theirs] :
    /\ \A i \in mine : SamePair(matcher.query[i], request.query[f[i]])
    /\ \A i, j \in mine : f[i] = f[j] => i = j
    /\ matcher.complete => Len(matcher.query) = Len(request.query)

UrlDeclared ==
  CASE matcher.kind = "any"   -> TRUE
    [] matcher.kind = "regex" -> matcher.path = Prepared.path
    [] OTHER ->
         /\ matcher.scheme = Empty \/ IgnoringCase(matcher.scheme, request.scheme)
         /\ matcher.netloc = Empty \/ IgnoringCase(matcher.netloc, request.netloc)
         /\ Same(OrSlash(matcher.path), OrSlash(request.path))
         /\ QueryDeclared

Declared ==
  /\ matcher.method = Any \/ IgnoringCase(matcher.method, request.method)
  /\ UrlDeclared
  /\ \A h \in matcher.headers : <<h[1].word, h[2]>> \in request.headers

\* No text that decides has a letter whose case is hidden in an escape.
TextsOf(query) == {query[i][j] : i \in 1..Len(query), j \in {1, 2}}
Readable ==
  \A t \in {Prepared.path, Requoted(matcher.path)} \cup
           TextsOf(Prepared.query) \cup TextsOf(matcher.query) : ~t.escaped

\* The names of a purl URL are compared as written, with those of the request in
\* lower case, and its empty path is not "/".
PurlAsString ==
  matcher.kind = "purl" =>
    ~matcher.scheme.upper /\ ~matcher.netloc.upper /\ ~matcher.path.escaped
      /\ matcher.path # Empty

\* A matcher accepts the requests the documentation says and no others: method,
\* scheme and host ignore case, path and query as case_sensitive says, "so long as
\* at least those provided form part of the request" (each value as often as it is
\* given) or the whole query with complete_qs, headers by value; whatever matchers
\* were asked before it.  An additional matcher is asked last, and decides.
VerdictIsDeclared ==
  (pc = "done" /\ Readable /\ PurlAsString) =>
    verdict = IF ~Declared THEN "no"
              ELSE CASE matcher.additional \in {"none", "accepts"} -> "match"
                     [] matcher.additional = "rejects" -> "no"
                     [] OTHER -> "error"

\* The loop over the query's values counts: headers are looked at only if the
\* request has each parsed pair at least as often as the matcher, and with
\* complete_qs exactly as often; the loop gives up only if one is too few.
QueryCounted ==
  LET asked == MatcherQuery
      sent == Counted(RequestPairs) IN
  matcher.kind \in {"string", "purl"} =>
    /\ pc \in {"headers", "additional"} =>
         \A p \in Pairs : sent[p] >= asked[p] /\ (matcher.complete => sent[p] = asked[p])
    /\ pc = "query" =>
         \A p \in Pairs : todo[p] > 0 /\ left[p] = 0 => sent[p] < asked[p]

\* "The most simple way to match a request is to register the URL and method that
\* will be requested [...] this response will be retrieved": a matcher of nothing
\* but a URL and a method accepts a request of that method to that URL.
RegisteredUrlMatches ==
  /\ pc = "done" /\ matcher.kind = "string" /\ matcher.headers = {}
  /\ matcher.additional = "none"
  /\ \A part \in {"method", "scheme", "netloc", "path", "query"} :
       matcher[part] = request[part]
  => verdict = "match"
=============================================================================
