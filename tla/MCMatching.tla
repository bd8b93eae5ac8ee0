----------------------------- MODULE MCMatching -----------------------------
(* Instances of Matching for TLC: small sets of matchers and requests that    *)
(* vary the query, or the rest of the URL, or everything but the URL.         *)
EXTENDS Matching

Upper(w) == [Plain(w) EXCEPT !.upper = TRUE]
Escaped(t) == [t EXCEPT !.escaped = TRUE]

MCWords    == {"nothing", "slash", "http", "mock", "host", "get", "post", "a", "b", "e"}
MCForeign  == {"e"}

\* ?a=a, ?A=a, ?a=A, ?a and ?a=b, the capital also as an escape or outside ASCII.
MCPairs == {<<Plain("a"), v>> : v \in {Plain("a"), Upper("a"), Empty}} \cup
           {<<Upper("a"), Plain("a")>>}
MCHidden == {<<Plain("a"), v>> : v \in {Escaped(Upper("a")), Escaped(Plain("a")),
                                        Upper("e"), Plain("e")}}
Queries(pairs, n) == UNION {[1..k -> pairs] : k \in 0..n}

MCPaths == {Empty, Plain("slash"), Plain("a"), Upper("a"), Escaped(Upper("a")),
            Upper("e"), Plain("e")}
Names(w) == {Plain(w), Upper(w)}

BaseMatcher ==
  [method |-> Plain("get"), kind |-> "string", scheme |-> Plain("http"),
   netloc |-> Plain("host"), path |-> Plain("a"), query |-> <<>>,
   complete |-> FALSE, sensitive |-> FALSE, headers |-> {}, additional |-> "none"]
BaseRequest ==
  [method |-> Plain("get"), scheme |-> Plain("http"), netloc |-> Plain("host"),
   path |-> Plain("a"), query |-> <<>>, headers |-> {}]

QueryMatchers ==
  {[BaseMatcher EXCEPT !.query = q, !.complete = c, !.sensitive = s] :
     q \in Queries(MCPairs, 2) \cup Queries(MCHidden, 1), c, s \in BOOLEAN}
UrlMatchers ==
  {[BaseMatcher EXCEPT !.kind = k, !.scheme = n, !.netloc = h, !.path = p, !.sensitive = s] :
     k \in {"string", "purl", "regex"}, n \in {Empty} \cup Names("http"),
     h \in {Empty} \cup Names("host"), p \in MCPaths, s \in BOOLEAN}
OtherMatchers ==
  {[BaseMatcher EXCEPT !.kind = k, !.method = t, !.headers = h, !.additional = a] :
     k \in {"any", "string"}, t \in {Any} \cup Names("get"),
     h \in {{}, {<<Upper("a"), 1>>}, {<<Plain("a"), 1>>, <<Plain("b"), 2>>}},
     a \in {"none", "accepts", "rejects", "raises", "not_callable"}}

QueryRequests ==
  {[BaseRequest EXCEPT !.query = q] : q \in Queries(MCPairs, 3) \cup Queries(MCHidden, 1)}
UrlRequests ==
  {[BaseRequest EXCEPT !.scheme = n, !.netloc = h, !.path = p] :
     n \in Names("http") \cup {Plain("mock")}, h \in Names("host") \cup {Plain("b")},
     p \in MCPaths}
OtherRequests ==
  {[BaseRequest EXCEPT !.method = t, !.headers = h] :
     t \in Names("get") \cup {Plain("post")},
     h \in {{}, {<<"a", 1>>}, {<<"a", 2>>}, {<<"a", 1>>, <<"b", 2>>}}}

MCAsked == QueryMatchers \X QueryRequests \cup UrlMatchers \X UrlRequests
             \cup OtherMatchers \X OtherRequests
MCLater == {[BaseMatcher EXCEPT !.query = q, !.complete = TRUE] :
              q \in {<<>>, <<<<Plain("a"), Plain("a")>>>>}}
=============================================================================
