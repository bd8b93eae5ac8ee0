--------------------------- MODULE MatchingProofs ---------------------------
(* Theorems about Matching, for all values of its constants.               *)
EXTENDS Matching, FiniteSetTheorems, FunctionTheorems, TLAPS

ByLoop == matcher.kind \in {"string", "purl"}
Sent == Counted(RequestPairs)

\* What the loop over the query keeps, and what it has found out when it is left.
LoopCounts ==
  /\ pc = "query" =>
       \A p \in Pairs : left[p] - todo[p] = Sent[p] - MatcherQuery[p]
  /\ pc \in {"headers", "additional"} /\ ByLoop =>
       \A p \in Pairs : Sent[p] >= MatcherQuery[p]
                        /\ (matcher.complete => Sent[p] = MatcherQuery[p])

IInv == TypeOK /\ LoopCounts

-----------------------------------------------------------------------------
(* Queries and how often each pair occurs in them.                         *)

\* Pairs are counted in natural numbers.
LEMMA CountedType ==
  ASSUME NEW pairs, Len(pairs) \in Nat
  PROVE  Counted(pairs) \in [Pairs -> Nat]
<1>1. ASSUME NEW p \in Pairs
      PROVE  Cardinality({i \in 1..Len(pairs) : pairs[i] = p}) \in Nat
  <2>1. IsFiniteSet(1..Len(pairs))
    BY FS_Interval
  <2>2. {i \in 1..Len(pairs) : pairs[i] = p} \in SUBSET (1..Len(pairs))
    OBVIOUS
  <2>3. QED
    BY <2>1, <2>2, FS_Subset, FS_CardinalityType
<1>2. QED
  BY <1>1 DEF Counted

\* Both sides of the loop are counts.
LEMMA CountsType ==
  ASSUME TypeOK
  PROVE  Sent \in [Pairs -> Nat] /\ MatcherQuery \in [Pairs -> Nat]
<1>1. Len(request.query) \in Nat /\ Len(matcher.query) \in Nat
  BY DEF TypeOK, Request, Matcher
<1>2. Prepared.query = request.query \/ Prepared.query = Mapped(request.query, Requoted)
  BY DEF Prepared, TypeOK, Request
<1>3. Len(Prepared.query) \in Nat
  BY <1>1, <1>2 DEF Mapped
<1>4. Len(RequestPairs) \in Nat /\ Len(MatcherPairs) \in Nat
  BY <1>1, <1>3 DEF RequestPairs, MatcherPairs, Mapped
<1>5. QED
  BY <1>4, CountedType DEF Sent, MatcherQuery

\* The counts are those of this matcher and this request.
LEMMA SameCounts ==
  ASSUME matcher' = matcher, request' = request
  PROVE  Pairs' = Pairs /\ Sent' = Sent /\ MatcherQuery' = MatcherQuery
         /\ (ByLoop' <=> ByLoop)
BY DEF Pairs, Sent, MatcherQuery, Counted, RequestPairs, MatcherPairs, Prepared, Mapped,
   Folded, ByLoop

-----------------------------------------------------------------------------
(* Counting and choosing: a sequence has each value at most as often as    *)
(* another exactly if its places can be sent to different places of the    *)
(* other that hold the same.                                               *)

Injective(f, S) == \A x, y \in S : f[x] = f[y] => x = y
Spots(n, a, p) == {i \in 1..n : a[i] = p}
Sends(f, m, a, n, b) ==
  f \in [1..m -> 1..n] /\ Injective(f, 1..m) /\ \A i \in 1..m : a[i] = b[f[i]]

LEMMA SpotsFinite ==
  ASSUME NEW n \in Nat, NEW a, NEW p
  PROVE  IsFiniteSet(Spots(n, a, p)) /\ Cardinality(Spots(n, a, p)) \in Nat
<1>1. IsFiniteSet(1..n) /\ Spots(n, a, p) \in SUBSET (1..n)
  BY FS_Interval DEF Spots
<1>2. QED
  BY <1>1, FS_Subset, FS_CardinalityType

\* A set that is no larger than another fits into it, and the reverse.
LEMMA FewerInject ==
  ASSUME NEW S, NEW T, IsFiniteSet(S), IsFiniteSet(T), Cardinality(S) <= Cardinality(T)
  PROVE  \E h \in [S -> T] : Injective(h, S)
<1> DEFINE k == Cardinality(S)
           l == Cardinality(T)
<1>1. k \in Nat /\ l \in Nat /\ ExistsBijection(1..k, S) /\ ExistsBijection(1..l, T)
  BY FS_CardinalityType
<1>2. ExistsBijection(S, 1..k)
  BY <1>1, Fun_ExistsBijSymmetric
<1>3. PICK f : f \in Bijection(S, 1..k)
  BY <1>2, Fun_ExistsBij
<1>4. PICK g : g \in Bijection(1..l, T)
  BY <1>1, Fun_ExistsBij
<1>5. f \in [S -> 1..k] /\ \A x, y \in S : f[x] = f[y] => x = y
  BY <1>3, Fun_BijectionProperties
<1>6. g \in [1..l -> T] /\ \A x, y \in 1..l : g[x] = g[y] => x = y
  BY <1>4, Fun_BijectionProperties
<1>7. \A i \in 1..k : i \in 1..l
  BY <1>1
<1> DEFINE h == [x \in S |-> g[f[x]]]
<1>8. \A x \in S : f[x] \in 1..l /\ g[f[x]] \in T
  BY <1>5, <1>6, <1>7
<1>9. h \in [S -> T]
  BY <1>8
<1>10. Injective(h, S)
  BY <1>5, <1>6, <1>8 DEF Injective
<1>11. QED
  BY <1>9, <1>10

LEMMA InjectFewer ==
  ASSUME NEW S, NEW T, IsFiniteSet(T), NEW h \in [S -> T], Injective(h, S)
  PROVE  Cardinality(S) <= Cardinality(T)
<1>1. h \in Injection(S, T)
  BY Fun_IsInj DEF Injective
<1>2. QED
  BY <1>1, FS_Injection

\* If no value occurs more often in a than in b, a's places fit b's.
LEMMA CountsSend ==
  ASSUME NEW m \in Nat, NEW a, NEW n \in Nat, NEW b, NEW P, \A i \in 1..m : a[i] \in P,
         \A p \in P : Cardinality(Spots(m, a, p)) <= Cardinality(Spots(n, b, p))
  PROVE  \E f : Sends(f, m, a, n, b)
<1> DEFINE h(p) == CHOOSE h \in [Spots(m, a, p) -> Spots(n, b, p)] : Injective(h, Spots(m, a, p))
           f == [i \in 1..m |-> h(a[i])[i]]
<1>1. ASSUME NEW p \in P
      PROVE  h(p) \in [Spots(m, a, p) -> Spots(n, b, p)] /\ Injective(h(p), Spots(m, a, p))
  <2>1. IsFiniteSet(Spots(m, a, p)) /\ IsFiniteSet(Spots(n, b, p))
    BY SpotsFinite
  <2>2. \E g \in [Spots(m, a, p) -> Spots(n, b, p)] : Injective(g, Spots(m, a, p))
    BY <2>1, FewerInject
  <2>3. QED
    BY <2>2
<1> HIDE DEF h
<1>2. ASSUME NEW i \in 1..m
      PROVE  f[i] \in 1..n /\ a[i] = b[f[i]] /\ f[i] = h(a[i])[i] /\ a[i] \in P
  <2>1. i \in Spots(m, a, a[i]) /\ a[i] \in P /\ f[i] = h(a[i])[i]
    BY DEF Spots
  <2>2. f[i] \in Spots(n, b, a[i])
    BY <1>1, <2>1
  <2>3. QED
    BY <2>1, <2>2 DEF Spots
<1>3. ASSUME NEW i \in 1..m, NEW j \in 1..m, f[i] = f[j]
      PROVE  i = j
  <2>1. a[i] = a[j]
    BY <1>2, <1>3
  <2>2. h(a[i])[i] = h(a[i])[j] /\ a[i] \in P
    BY <1>2, <1>3, <2>1
  <2>3. i \in Spots(m, a, a[i]) /\ j \in Spots(m, a, a[i])
    BY <2>1 DEF Spots
  <2>4. QED
    BY <1>1, <2>2, <2>3 DEF Injective
<1>4. f \in [1..m -> 1..n]
  BY <1>2
<1>5. Sends(f, m, a, n, b)
  <2> HIDE DEF f
  <2> QED BY <1>2, <1>3, <1>4 DEF Sends, Injective
<1>6. QED
  BY <1>5

\* The reverse.
LEMMA SendCounts ==
  ASSUME NEW m \in Nat, NEW a, NEW n \in Nat, NEW b, NEW f, Sends(f, m, a, n, b), NEW p
  PROVE  Cardinality(Spots(m, a, p)) <= Cardinality(Spots(n, b, p))
<1> DEFINE h == [i \in Spots(m, a, p) |-> f[i]]
<1>1. \A i \in Spots(m, a, p) : i \in 1..m /\ f[i] \in Spots(n, b, p)
  BY DEF Sends, Spots
<1>2. h \in [Spots(m, a, p) -> Spots(n, b, p)]
  BY <1>1
<1>3. Injective(h, Spots(m, a, p))
  BY <1>1 DEF Sends, Injective
<1>4. QED
  <2> HIDE DEF h
  <2> QED BY <1>2, <1>3, SpotsFinite, InjectFewer

\* As many places on both sides: then they can be sent back, too.
LEMMA SendBack ==
  ASSUME NEW n \in Nat, NEW a, NEW b, NEW f, Sends(f, n, a, n, b)
  PROVE  \E g : Sends(g, n, b, n, a)
<1>1. IsFiniteSet(1..n)
  BY FS_Interval
<1>2. f \in Injection(1..n, 1..n)
  BY Fun_IsInj DEF Sends, Injective
<1>3. f \in Surjection(1..n, 1..n)
  BY <1>1, <1>2, FS_Injection
<1>4. \A j \in 1..n : \E i \in 1..n : f[i] = j
  <2> DEFINE D == 1..n
  <2> HIDE DEF D
  <2>1. f \in Surjection(D, D)
    BY <1>3 DEF D
  <2>2. \A j \in D : \E i \in D : f[i] = j
    BY <2>1, Fun_SurjectionProperties
  <2>3. QED
    BY <2>2 DEF D
<1> DEFINE g == [j \in 1..n |-> CHOOSE i \in 1..n : f[i] = j]
<1>5. \A j \in 1..n : g[j] \in 1..n /\ f[g[j]] = j
  BY <1>4
<1>6. g \in [1..n -> 1..n]
  BY <1>4
<1>7. \A j \in 1..n : b[j] = a[g[j]]
  <2> HIDE DEF g
  <2> QED BY <1>5 DEF Sends
<1>8. \A j, k \in 1..n : g[j] = g[k] => j = k
  <2> HIDE DEF g
  <2> QED BY <1>5
<1>9. Sends(g, n, b, n, a)
  <2> HIDE DEF g
  <2> QED BY <1>6, <1>7, <1>8 DEF Sends, Injective
<1>10. QED
  BY <1>9

\* Sequences that send their places to each other are equally long.
LEMMA SendLength ==
  ASSUME NEW m \in Nat, NEW a, NEW n \in Nat, NEW b, NEW f, Sends(f, m, a, n, b)
  PROVE  m <= n
<1>1. Cardinality(1..m) = m /\ Cardinality(1..n) = n /\ IsFiniteSet(1..n)
  BY FS_Interval
<1>2. QED
  BY <1>1, InjectFewer DEF Sends

-----------------------------------------------------------------------------
(* The steps.                                                              *)

\* A step to another part of _match keeps the types.
LEMMA GoType ==
  ASSUME TypeOK, UNCHANGED <<matcher, request, left, todo, tries>>,
         \/ \E label \in {"method", "url", "headers", "additional"} : Go(label)
         \/ \E result \in {"match", "no", "error"} : Return(result)
  PROVE  TypeOK'
BY DEF TypeOK, Go, Return

\* The first matcher begins.
LEMMA InitIInv == Init => IInv
<1> SUFFICES ASSUME Init PROVE IInv
  OBVIOUS
<1>1. matcher \in Matcher /\ request \in Request
  BY ChoicesAssumption DEF Init
<1>2. Len(request.query) \in Nat /\ Len(matcher.query) \in Nat
  BY <1>1 DEF Request, Matcher
<1>3. Prepared.query = request.query \/ Prepared.query = Mapped(request.query, Requoted)
  BY <1>1 DEF Prepared, Request
<1>4. Len(Prepared.query) \in Nat
  BY <1>2, <1>3 DEF Mapped
<1>5. Len(RequestPairs) \in Nat /\ Len(MatcherPairs) \in Nat
  BY <1>2, <1>4 DEF RequestPairs, MatcherPairs, Mapped
<1>6. left \in [Pairs -> Nat] /\ todo \in [Pairs -> Nat]
  BY <1>5, CountedType DEF Init, MatcherQuery
<1>7. QED
  BY <1>1, <1>6 DEF Init, IInv, TypeOK, LoopCounts

\* Method, other kinds of URL, headers and the additional matcher leave the counts.
LEMMA PartPreserves ==
  ASSUME IInv, MatchMethod \/ MatchOther \/ MatchHeaders \/ MatchAdditional
  PROVE  IInv'
<1>1. /\ UNCHANGED <<matcher, request, left, todo, tries>>
      /\ \/ \E label \in {"method", "url", "headers", "additional"} : Go(label)
         \/ \E result \in {"match", "no", "error"} : Return(result)
  BY DEF MatchMethod, MatchOther, MatchHeaders, MatchAdditional
<1>2. TypeOK'
  BY <1>1, GoType DEF IInv
<1>3. LoopCounts'
  <2>1. CASE MatchMethod
    BY <2>1 DEF MatchMethod, Go, Return, LoopCounts
  <2>2. CASE MatchOther
    BY <2>2, <1>1, SameCounts DEF MatchOther, Go, Return, LoopCounts, ByLoop
  <2>3. CASE MatchHeaders
    BY <2>3, <1>1, SameCounts DEF MatchHeaders, Go, Return, LoopCounts, IInv
  <2>4. CASE MatchAdditional
    BY <2>4 DEF MatchAdditional, Return, LoopCounts
  <2>5. QED
    BY <2>1, <2>2, <2>3, <2>4
<1>4. QED
  BY <1>2, <1>3 DEF IInv

\* The loop begins with a copy of the request's query.
LEMMA MatchPathPreserves ==
  ASSUME IInv, MatchPath
  PROVE  IInv'
<1>1. matcher' = matcher /\ request' = request /\ tries' = tries
  BY DEF MatchPath
<1>2. CASE Elsewhere \/ RequestPath # MatcherPath
  BY <1>1, <1>2, GoType DEF MatchPath, IInv, Return, LoopCounts
<1>3. CASE ~(Elsewhere \/ RequestPath # MatcherPath)
  <2>1. pc' = "query" /\ verdict' = "none" /\ left' = Sent /\ todo' = MatcherQuery
    BY <1>3 DEF MatchPath, Go, RequestQuery, Sent
  <2>2. Sent \in [Pairs -> Nat] /\ MatcherQuery \in [Pairs -> Nat]
    BY CountsType DEF IInv
  <2>3. TypeOK'
    BY <1>1, <2>1, <2>2, SameCounts DEF IInv, TypeOK
  <2>4. LoopCounts'
    BY <1>1, <2>1, SameCounts DEF LoopCounts
  <2>5. QED
    BY <2>3, <2>4 DEF IInv
<1>4. QED
  BY <1>2, <1>3

\* A pair is removed on both sides.
LEMMA RemoveValuePreserves ==
  ASSUME IInv, NEW p \in Pairs, RemoveValue(p)
  PROVE  IInv'
<1>1. /\ UNCHANGED <<matcher, request, tries>>
      /\ pc = "query" /\ todo[p] > 0
      /\ left \in [Pairs -> Nat] /\ todo \in [Pairs -> Nat]
  BY DEF RemoveValue, IInv, TypeOK
<1>2. CASE Missing(p)
  BY <1>1, <1>2, GoType DEF RemoveValue, IInv, Return, LoopCounts
<1>3. CASE ~Missing(p)
  <2>1. /\ left' = [left EXCEPT ![p] = @ - 1] /\ todo' = [todo EXCEPT ![p] = @ - 1]
        /\ pc' = pc /\ verdict' = verdict /\ left[p] # 0
    BY <1>3 DEF RemoveValue, Missing
  <2>2. left' \in [Pairs -> Nat] /\ todo' \in [Pairs -> Nat]
    BY <1>1, <2>1
  <2>3. TypeOK'
    BY <1>1, <2>1, <2>2, SameCounts DEF IInv, TypeOK
  <2>4. \A q \in Pairs : left'[q] - todo'[q] = left[q] - todo[q]
    BY <1>1, <2>1
  <2>5. LoopCounts'
    BY <1>1, <2>1, <2>4, SameCounts DEF IInv, LoopCounts
  <2>6. QED
    BY <2>3, <2>5 DEF IInv
<1>4. QED
  BY <1>2, <1>3

\* The loop ends with every pair of the matcher found.
LEMMA QueryDonePreserves ==
  ASSUME IInv, QueryDone
  PROVE  IInv'
<1>1. UNCHANGED <<matcher, request, left, todo, tries>>
  BY DEF QueryDone
<1>2. TypeOK'
  BY <1>1, GoType DEF QueryDone, IInv
<1>3. CASE matcher.complete /\ Surplus
  BY <1>2, <1>3 DEF QueryDone, Return, IInv, LoopCounts
<1>4. CASE ~(matcher.complete /\ Surplus)
  <2>1. /\ pc = "query" /\ pc' = "headers"
        /\ \A p \in Pairs : todo[p] = 0 /\ left[p] \in Nat
        /\ matcher.complete => \A p \in Pairs : left[p] = 0
    BY <1>4 DEF QueryDone, Go, Surplus, IInv, TypeOK
  <2>2. Sent \in [Pairs -> Nat] /\ MatcherQuery \in [Pairs -> Nat]
    BY CountsType DEF IInv
  <2>3. \A p \in Pairs : left[p] = Sent[p] - MatcherQuery[p]
    BY <2>1 DEF IInv, LoopCounts
  <2>4. \A p \in Pairs : Sent[p] >= MatcherQuery[p]
                        /\ (matcher.complete => Sent[p] = MatcherQuery[p])
    BY <2>1, <2>2, <2>3
  <2>5. LoopCounts'
    BY <1>1, <2>1, <2>4, SameCounts DEF LoopCounts
  <2>6. QED
    BY <1>2, <2>5 DEF IInv
<1>5. QED
  BY <1>3, <1>4

\* The next matcher begins anew.
LEMMA TryNextPreserves ==
  ASSUME IInv, NEW m \in Later, TryNext(m)
  PROVE  IInv'
BY ChoicesAssumption DEF TryNext, Go, IInv, TypeOK, LoopCounts

\* IInv is inductive.
LEMMA NextIInv == IInv /\ [Next]_vars => IInv'
<1> SUFFICES ASSUME IInv, [Next]_vars PROVE IInv'
  OBVIOUS
<1>1. CASE UNCHANGED vars
  BY <1>1, SameCounts DEF vars, IInv, TypeOK, LoopCounts
<1>2. QED
  BY <1>1, PartPreserves, MatchPathPreserves, RemoveValuePreserves, QueryDonePreserves,
     TryNextPreserves DEF Next

\* Every state is as IInv says.
LEMMA AlwaysIInv == Spec => []IInv
BY InitIInv, NextIInv, PTL DEF Spec

-----------------------------------------------------------------------------
(* Texts that are readable, as the matcher compares them.                  *)

RawText == [word : Words, upper : BOOLEAN, escaped : BOOLEAN]
Form(t) == [word |-> t.word, upper |-> IF matcher.sensitive THEN t.upper ELSE FALSE,
            escaped |-> FALSE]

LEMMA TextEqual ==
  ASSUME NEW t \in RawText, NEW u \in RawText,
         t.word = u.word, t.upper = u.upper, t.escaped = u.escaped
  PROVE  t = u
BY DEF RawText

LEMMA FormType ==
  ASSUME TypeOK, NEW t \in RawText
  PROVE  /\ Form(t) \in RawText
         /\ Form(t).word = t.word /\ Form(t).escaped = FALSE
         /\ Form(t).upper = IF matcher.sensitive THEN t.upper ELSE FALSE
<1>1. matcher.sensitive \in BOOLEAN /\ t.word \in Words /\ t.upper \in BOOLEAN
  BY DEF TypeOK, Matcher, RawText
<1>2. QED
  BY <1>1 DEF Form, RawText

\* Two texts have one form exactly if they mean the same to the matcher.
LEMMA FormSame ==
  ASSUME TypeOK, NEW t \in RawText, NEW u \in RawText
  PROVE  Form(t) = Form(u) <=> Same(t, u)
<1>1. matcher.sensitive \in BOOLEAN
  BY DEF TypeOK, Matcher
<1>2. ASSUME Form(t) = Form(u)
      PROVE  Same(t, u)
  <2>1. t.word = u.word
    BY <1>2, FormType
  <2>2. ASSUME matcher.sensitive
        PROVE  t.upper = u.upper
    <3>1. Form(t).upper = t.upper /\ Form(u).upper = u.upper
      BY <2>2, FormType
    <3>2. QED
      BY <1>2, <3>1
  <2>3. QED
    BY <2>1, <2>2 DEF Same
<1>3. ASSUME Same(t, u)
      PROVE  Form(t) = Form(u)
  <2>1. /\ Form(t) \in RawText /\ Form(u) \in RawText
        /\ Form(t).word = Form(u).word /\ Form(t).escaped = Form(u).escaped
    BY <1>3, FormType DEF Same
  <2>2. Form(t).upper = Form(u).upper
    <3>1. CASE matcher.sensitive
      BY <1>3, <3>1, FormType DEF Same
    <3>2. CASE ~matcher.sensitive
      BY <3>2, FormType
    <3>3. QED
      BY <3>1, <3>2
  <2>3. QED
    BY <2>1, <2>2, TextEqual
<1>4. QED
  BY <1>2, <1>3

\* What is done to a text whose letters can be read.
LEMMA FoldedForm ==
  ASSUME TypeOK, NEW t \in RawText, ~t.escaped
  PROVE  /\ Folded(t) = Form(t) /\ Unquoted(Folded(t)) = Form(t)
         /\ t.word \notin Foreign => Requoted(t) = t
<1>1. matcher.sensitive \in BOOLEAN /\ t.word \in Words /\ t.upper \in BOOLEAN
      /\ t.escaped = FALSE
  BY DEF TypeOK, Matcher, RawText
<1>2. /\ Folded(t) \in RawText /\ Folded(t).word = t.word /\ Folded(t).escaped = FALSE
      /\ Folded(t).upper = IF matcher.sensitive THEN t.upper ELSE FALSE
  BY <1>1 DEF Folded, Lower, RawText
<1>3. Folded(t) = Form(t)
  <2>1. /\ Form(t) \in RawText /\ Form(t).word = Folded(t).word
        /\ Form(t).escaped = Folded(t).escaped /\ Form(t).upper = Folded(t).upper
    BY <1>2, FormType
  <2>2. QED
    BY <1>2, <2>1, TextEqual
<1>4. Unquoted(Folded(t)) = Folded(t)
  <2> DEFINE u == Folded(t)
  <2> HIDE DEF u
  <2>1. u \in RawText /\ u.escaped = FALSE => Unquoted(u) = u
    BY DEF RawText, Unquoted
  <2>2. QED
    BY <1>2, <2>1 DEF u
<1>5. t.word \notin Foreign => Requoted(t) = t
  BY <1>1 DEF Requoted, RawText
<1>6. QED
  BY <1>3, <1>4, <1>5

LEMMA RequotedType ==
  ASSUME NEW t \in RawText
  PROVE  /\ Requoted(t) \in RawText /\ Requoted(t).word = t.word
         /\ Requoted(t).upper = t.upper /\ (Requoted(t).escaped <=> t.word \in Foreign)
<1>1. (t.word \in Foreign) \in BOOLEAN
  OBVIOUS
<1>2. \A b \in BOOLEAN : LET r == [t EXCEPT !.escaped = b] IN
        r \in RawText /\ r.word = t.word /\ r.upper = t.upper /\ r.escaped = b
  BY DEF RawText
<1>3. QED
  BY <1>1, <1>2 DEF Requoted

LEMMA OrSlashType ==
  ASSUME NEW t \in Text
  PROVE  /\ t \in RawText /\ OrSlash(t) \in RawText /\ OrSlash(t).word # Nothing
         /\ OrSlash(t) = t \/ (OrSlash(t) = Plain(Slash) /\ t = Plain(Nothing))
         /\ t.word = Nothing <=> t = Empty
<1>1. Plain(Slash) \in RawText /\ Plain(Slash).word = Slash /\ Slash # Nothing
      /\ Empty \in RawText /\ Empty.word = Nothing
      /\ Empty.upper = FALSE /\ Empty.escaped = FALSE
  BY WordsAssumption DEF Plain, RawText, Empty
<1>2. t \in RawText /\ (t.word = Nothing => t.upper = FALSE /\ t.escaped = FALSE)
  BY DEF Text, RawText
<1>3. t.word = Nothing => t = Empty
  BY <1>1, <1>2, TextEqual
<1>4. QED
  BY <1>1, <1>2, <1>3 DEF OrSlash, Empty

-----------------------------------------------------------------------------
(* The parts of a URL: what _match compares says what is declared of them. *)

LEMMA QueryLengths ==
  ASSUME TypeOK
  PROVE  /\ Len(request.query) \in Nat /\ Len(matcher.query) \in Nat
         /\ Len(Prepared.query) = Len(request.query)
         /\ Len(RequestPairs) = Len(request.query) /\ Len(MatcherPairs) = Len(matcher.query)
<1>1. Len(request.query) \in Nat /\ Len(matcher.query) \in Nat
  BY DEF TypeOK, Request, Matcher
<1>2. Prepared.query = request.query \/ Prepared.query = Mapped(request.query, Requoted)
  BY DEF Prepared, TypeOK, Request
<1>3. Len(Prepared.query) = Len(request.query)
  BY <1>1, <1>2 DEF Mapped
<1>4. QED
  BY <1>1, <1>3 DEF RequestPairs, MatcherPairs, Mapped

\* The texts of a query, once it is parsed.
LEMMA MatcherPairIs ==
  ASSUME TypeOK, Readable, NEW i \in 1..Len(matcher.query)
  PROVE  /\ matcher.query[i][1] \in RawText /\ matcher.query[i][2] \in RawText
         /\ MatcherPairs[i] = <<Form(matcher.query[i][1]), Form(matcher.query[i][2])>>
<1> DEFINE q == matcher.query
<1>1. q \in Seq(Text \X Text) /\ Len(q) \in Nat
  BY DEF TypeOK, Matcher
<1>2. q[i] \in Text \X Text
  BY <1>1
<1>3. q[i][1] \in RawText /\ q[i][2] \in RawText
  BY <1>2 DEF Text, RawText
<1>4. q[i][1] \in TextsOf(q) /\ q[i][2] \in TextsOf(q)
  BY DEF TextsOf
<1>5. ~q[i][1].escaped /\ ~q[i][2].escaped
  BY <1>4 DEF Readable
<1>6. MatcherPairs[i] = <<Unquoted(Folded(q[i][1])), Unquoted(Folded(q[i][2]))>>
  <2>1. i \in 1..Len(q) /\ Len(Mapped(q, Folded)) = Len(q)
    BY <1>1 DEF Mapped
  <2>2. Mapped(q, Folded)[i] = <<Folded(q[i][1]), Folded(q[i][2])>>
    <3> HIDE DEF q
    <3> QED BY <2>1 DEF Mapped
  <2>3. MatcherPairs[i] = <<Unquoted(Mapped(q, Folded)[i][1]), Unquoted(Mapped(q, Folded)[i][2])>>
    BY <2>1 DEF MatcherPairs, Mapped
  <2>4. QED
    BY <2>2, <2>3
<1>7. QED
  BY <1>3, <1>5, <1>6, FoldedForm

LEMMA RequestPairIs ==
  ASSUME TypeOK, Readable, NEW i \in 1..Len(request.query)
  PROVE  /\ request.query[i][1] \in RawText /\ request.query[i][2] \in RawText
         /\ RequestPairs[i] = <<Form(request.query[i][1]), Form(request.query[i][2])>>
<1> DEFINE q == request.query
           r == Prepared.query
<1>1. q \in Seq(Text \X Text) /\ Len(q) \in Nat /\ Len(r) = Len(q)
  BY QueryLengths DEF TypeOK, Request
<1>2. q[i] \in Text \X Text
  BY <1>1
<1>3. q[i][1] \in RawText /\ q[i][2] \in RawText
  BY <1>2 DEF Text, RawText
<1>4. \/ r[i][1] = q[i][1] /\ r[i][2] = q[i][2]
      \/ r[i][1] = Requoted(q[i][1]) /\ r[i][2] = Requoted(q[i][2])
  <2>1. r = q \/ r = Mapped(q, Requoted)
    BY DEF Prepared, TypeOK, Request
  <2>2. QED
    BY <1>1, <2>1 DEF Mapped
<1>5. ASSUME NEW t, t \in {r[i][1], r[i][2]}
      PROVE  ~t.escaped
  <2>1. t \in TextsOf(r)
    BY <1>1, <1>5 DEF TextsOf
  <2>2. QED
    BY <2>1 DEF Readable
<1>6. ASSUME NEW t \in RawText, NEW u, u = t \/ u = Requoted(t), ~u.escaped
      PROVE  Unquoted(Folded(u)) = Form(t)
  <2>1. u \in RawText /\ u.word = t.word /\ u.upper = t.upper
    BY <1>6, RequotedType
  <2>2. Unquoted(Folded(u)) = Form(u)
    BY <1>6, <2>1, FoldedForm
  <2>3. QED
    BY <2>1, <2>2 DEF Form
<1>7. RequestPairs[i] = <<Unquoted(Folded(r[i][1])), Unquoted(Folded(r[i][2]))>>
  <2>1. i \in 1..Len(r) /\ Len(Mapped(r, Folded)) = Len(r)
    BY <1>1 DEF Mapped
  <2>2. Mapped(r, Folded)[i] = <<Folded(r[i][1]), Folded(r[i][2])>>
    <3> HIDE DEF r
    <3> QED BY <2>1 DEF Mapped
  <2>3. RequestPairs[i] = <<Unquoted(Mapped(r, Folded)[i][1]), Unquoted(Mapped(r, Folded)[i][2])>>
    BY <2>1 DEF RequestPairs, Mapped
  <2>4. QED
    BY <2>2, <2>3
<1>8. QED
  <2> HIDE DEF r
  <2> QED BY <1>3, <1>4, <1>5, <1>6, <1>7

\* Pairs are equal when they are parsed exactly if they mean the same.
LEMMA PairsAgree ==
  ASSUME TypeOK, Readable, NEW i \in 1..Len(matcher.query), NEW j \in 1..Len(request.query)
  PROVE  MatcherPairs[i] = RequestPairs[j] <=> SamePair(matcher.query[i], request.query[j])
<1> DEFINE p == matcher.query[i]
           q == request.query[j]
<1>1. /\ p[1] \in RawText /\ p[2] \in RawText /\ q[1] \in RawText /\ q[2] \in RawText
      /\ MatcherPairs[i] = <<Form(p[1]), Form(p[2])>>
      /\ RequestPairs[j] = <<Form(q[1]), Form(q[2])>>
  BY MatcherPairIs, RequestPairIs
<1>2. /\ Form(p[1]) = Form(q[1]) <=> Same(p[1], q[1])
      /\ Form(p[2]) = Form(q[2]) <=> Same(p[2], q[2])
  BY <1>1, FormSame
<1>3. QED
  BY <1>1, <1>2 DEF SamePair

\* The path of the request, and that of the matcher.
LEMMA RequestPathIs ==
  ASSUME TypeOK, Readable
  PROVE  OrSlash(request.path) \in RawText /\ RequestPath = Form(OrSlash(request.path))
<1> DEFINE t == request.path
           p == Prepared.path
<1>1. t \in Text /\ t \in RawText /\ OrSlash(t) \in RawText /\ OrSlash(t).word # Nothing
  BY OrSlashType DEF TypeOK, Request
<1>2. ~p.escaped /\ Empty.word = Nothing
  BY DEF Readable, Empty, Plain
<1>3. CASE request.scheme.word \in Http
  <2>1. p = Requoted(OrSlash(t))
    BY <1>3 DEF Prepared, TypeOK, Request
  <2>2. p \in RawText /\ p.word = OrSlash(t).word /\ p.upper = OrSlash(t).upper
    BY <1>1, <2>1, RequotedType
  <2>3. Folded(p) = Form(p) /\ Form(p) = Form(OrSlash(t)) /\ Form(p).word # Nothing
    <3>1. Folded(p) = Form(p) /\ Form(p).word = p.word
      BY <1>2, <2>2, FoldedForm, FormType
    <3>2. Form(p) = Form(OrSlash(t))
      BY <2>2 DEF Form
    <3>3. QED
      BY <1>1, <2>2, <3>1, <3>2
  <2>4. OrSlash(Form(p)) = Form(p)
    BY <1>2, <2>3 DEF OrSlash
  <2>5. QED
    BY <1>1, <2>3, <2>4 DEF RequestPath
<1>4. CASE request.scheme.word \notin Http
  <2>1. p = t /\ ~t.escaped
    BY <1>2, <1>4 DEF Prepared
  <2>2. Folded(t) = Form(t) /\ Form(t).word = t.word
    BY <1>1, <2>1, FoldedForm, FormType
  <2>3. CASE t = Empty
    <3>1. /\ Plain(Slash) \in RawText /\ Empty \in RawText
          /\ Empty.upper = FALSE /\ Empty.escaped = FALSE /\ Empty.word = Nothing
          /\ Plain(Slash).upper = FALSE /\ Plain(Slash).escaped = FALSE
      BY WordsAssumption DEF Plain, RawText, Empty
    <3>2. Form(Plain(Slash)) = Plain(Slash) /\ Form(Empty) = Empty
      <4>1. ASSUME NEW u \in RawText, u.upper = FALSE, u.escaped = FALSE
            PROVE  Form(u) = u
        <5>1. Form(u) \in RawText /\ Form(u).word = u.word /\ Form(u).escaped = u.escaped
          BY <4>1, FormType
        <5>2. Form(u).upper = u.upper
          BY <4>1, FormType
        <5>3. QED
          BY <5>1, <5>2, TextEqual
      <4>2. QED
        BY <3>1, <4>1
    <3>3. QED
      BY <1>1, <2>1, <2>2, <2>3, <3>2 DEF RequestPath, OrSlash
  <2>4. CASE t # Empty
    <3>1. OrSlash(t) = t
      BY <2>4 DEF OrSlash
    <3>2. OrSlash(Form(t)) = Form(t)
      BY <1>1, <1>2, <2>2, <3>1 DEF OrSlash
    <3>3. QED
      BY <1>1, <2>1, <2>2, <3>1, <3>2 DEF RequestPath
  <2>5. QED
    BY <2>3, <2>4
<1>5. QED
  BY <1>3, <1>4

LEMMA MatcherPathIs ==
  ASSUME TypeOK, Readable, PurlAsString, ByLoop
  PROVE  OrSlash(matcher.path) \in RawText /\ MatcherPath = Form(OrSlash(matcher.path))
<1> DEFINE t == matcher.path
           p == OrSlash(t)
<1>1. /\ t \in RawText /\ p \in RawText /\ p.word # Nothing
      /\ p = t \/ p = Plain(Slash)
  BY OrSlashType DEF TypeOK, Matcher
<1>2. CASE matcher.kind = "purl"
  <2>1. p = t /\ ~t.escaped
    BY <1>2 DEF PurlAsString, OrSlash
  <2>2. QED
    BY <1>1, <1>2, <2>1, FoldedForm DEF MatcherPath
<1>3. CASE matcher.kind # "purl"
  <2>1. t.word \notin Foreign
    BY <1>1, RequotedType DEF Readable
  <2>2. p.word \notin Foreign
    BY <1>1, <2>1, WordsAssumption DEF Plain
  <2>3. /\ Requoted(p) \in RawText /\ Requoted(p).word = p.word
        /\ Requoted(p).upper = p.upper /\ ~Requoted(p).escaped
    BY <1>1, <2>2, RequotedType
  <2>4. Folded(Requoted(p)) = Form(Requoted(p))
    BY <2>3, FoldedForm
  <2>5. Form(Requoted(p)) = Form(p)
    BY <2>3 DEF Form
  <2>6. QED
    BY <1>1, <1>3, <2>4, <2>5 DEF MatcherPath
<1>4. QED
  BY <1>2, <1>3

LEMMA PathsAgree ==
  ASSUME TypeOK, Readable, PurlAsString, ByLoop
  PROVE  RequestPath = MatcherPath <=> Same(OrSlash(matcher.path), OrSlash(request.path))
BY RequestPathIs, MatcherPathIs, FormSame

\* Names, which have no escapes, are equal in lower case exactly if they are the same word.
LEMMA LowerSame ==
  ASSUME NEW t \in Name, NEW u \in Name
  PROVE  /\ Lower(t) = Lower(u) <=> IgnoringCase(t, u)
         /\ ~u.upper => Lower(u) = u
<1>1. ASSUME NEW v \in Name
      PROVE  /\ Lower(v) \in RawText /\ Lower(v).word = v.word /\ Lower(v).upper = FALSE
             /\ Lower(v).escaped = FALSE /\ v \in RawText /\ v.escaped = FALSE
  BY DEF Name, Text, Lower, RawText
<1>2. ASSUME IgnoringCase(t, u)
      PROVE  Lower(t) = Lower(u)
  <2>1. /\ Lower(t) \in RawText /\ Lower(u) \in RawText
        /\ Lower(t).upper = Lower(u).upper /\ Lower(t).escaped = Lower(u).escaped
    BY <1>1
  <2>2. Lower(t).word = Lower(u).word
    BY <1>1, <1>2 DEF IgnoringCase
  <2>3. QED
    BY <2>1, <2>2, TextEqual
<1>3. Lower(t) = Lower(u) => IgnoringCase(t, u)
  BY <1>1 DEF IgnoringCase
<1>4. ~u.upper => Lower(u) = u
  BY <1>1 DEF Lower, RawText
<1>5. QED
  BY <1>2, <1>3, <1>4

LEMMA NamesAgree ==
  ASSUME TypeOK, PurlAsString, ByLoop
  PROVE  ~Elsewhere <=>
           /\ matcher.scheme = Empty \/ IgnoringCase(matcher.scheme, request.scheme)
           /\ matcher.netloc = Empty \/ IgnoringCase(matcher.netloc, request.netloc)
<1>1. /\ matcher.scheme \in Name /\ matcher.netloc \in Name
      /\ request.scheme \in Name /\ request.netloc \in Name
  BY DEF TypeOK, Matcher, Request
<1>2. /\ MatcherName(matcher.scheme) = Lower(matcher.scheme)
      /\ MatcherName(matcher.netloc) = Lower(matcher.netloc)
  BY <1>1, LowerSame DEF MatcherName, PurlAsString
<1>3. /\ Lower(request.scheme) = Lower(matcher.scheme)
            <=> IgnoringCase(matcher.scheme, request.scheme)
      /\ Lower(request.netloc) = Lower(matcher.netloc)
            <=> IgnoringCase(matcher.netloc, request.netloc)
  BY <1>1, LowerSame
<1>4. QED
  BY <1>2, <1>3 DEF Elsewhere

-----------------------------------------------------------------------------
(* The verdict.                                                            *)

\* What _match compares, as it compares it.
RightMethod == matcher.method = Any \/ Lower(request.method) = Lower(matcher.method)
Enough == \A p \in Pairs : /\ Sent[p] >= MatcherQuery[p]
                           /\ matcher.complete => Sent[p] = MatcherQuery[p]
RightUrl ==
  CASE matcher.kind = "any"   -> TRUE
    [] matcher.kind = "regex" -> Prepared.path = matcher.path
    [] OTHER                  -> ~Elsewhere /\ RequestPath = MatcherPath /\ Enough
RightHeaders == \A h \in matcher.headers : <<h[1].word, h[2]>> \in request.headers
Additional ==
  CASE matcher.additional \in {"none", "accepts"} -> "match"
    [] matcher.additional = "rejects" -> "no"
    [] OTHER -> "error"

\* What each part of _match knows from those before it, and what the verdict says.
Decided ==
  /\ pc \in {"url", "query", "headers", "additional"} => RightMethod
  /\ pc = "query" => ByLoop /\ ~Elsewhere /\ RequestPath = MatcherPath
  /\ pc \in {"headers", "additional"} => RightUrl
  /\ pc = "additional" => RightHeaders
  /\ pc = "done" =>
       verdict = IF RightMethod /\ RightUrl /\ RightHeaders THEN Additional ELSE "no"

\* The loop over the query finds out whether the request has enough of every pair.
LEMMA EnoughSends ==
  ASSUME TypeOK
  PROVE  Enough <=> /\ \E f : Sends(f, Len(matcher.query), MatcherPairs,
                                     Len(request.query), RequestPairs)
                    /\ matcher.complete => Len(matcher.query) = Len(request.query)
<1> DEFINE m == Len(matcher.query)
           n == Len(request.query)
           a == MatcherPairs
           b == RequestPairs
<1>1. m \in Nat /\ n \in Nat /\ Len(a) = m /\ Len(b) = n
  BY QueryLengths
<1>2. \A p \in Pairs : /\ MatcherQuery[p] = Cardinality(Spots(m, a, p))
                       /\ Sent[p] = Cardinality(Spots(n, b, p))
  BY <1>1 DEF MatcherQuery, Sent, Counted, Spots
<1>3. (\A i \in 1..m : a[i] \in Pairs) /\ (\A i \in 1..n : b[i] \in Pairs)
  BY DEF Pairs
<1> HIDE DEF m, n, a, b
<1>4. \A p : Cardinality(Spots(m, a, p)) \in Nat /\ Cardinality(Spots(n, b, p)) \in Nat
  BY <1>1, SpotsFinite
<1>5. ASSUME Enough
      PROVE  (\E f : Sends(f, m, a, n, b)) /\ (matcher.complete => m = n)
  <2>1. \A p \in Pairs : Cardinality(Spots(m, a, p)) <= Cardinality(Spots(n, b, p))
    BY <1>2, <1>4, <1>5 DEF Enough
  <2>2. PICK f : Sends(f, m, a, n, b)
    BY <1>1, <1>3, <2>1, CountsSend
  <2>3. ASSUME matcher.complete
        PROVE  m = n
    <3>1. \A p \in Pairs : Cardinality(Spots(n, b, p)) <= Cardinality(Spots(m, a, p))
      BY <1>2, <1>4, <1>5, <2>3 DEF Enough
    <3>2. PICK g : Sends(g, n, b, m, a)
      BY <1>1, <1>3, <3>1, CountsSend
    <3>3. m <= n /\ n <= m
      BY <1>1, <2>2, <3>2, SendLength
    <3>4. QED
      BY <1>1, <3>3
  <2>4. QED
    BY <2>2, <2>3
<1>6. ASSUME NEW f, Sends(f, m, a, n, b), matcher.complete => m = n
      PROVE  Enough
  <2>1. \A p : Cardinality(Spots(m, a, p)) <= Cardinality(Spots(n, b, p))
    BY <1>1, <1>6, SendCounts
  <2>2. ASSUME matcher.complete
        PROVE  \A p : Cardinality(Spots(n, b, p)) <= Cardinality(Spots(m, a, p))
    <3>1. PICK g : Sends(g, n, b, m, a)
      BY <1>1, <1>6, <2>2, SendBack
    <3>2. QED
      BY <1>1, <3>1, SendCounts
  <2>3. QED
    BY <1>2, <1>4, <2>1, <2>2 DEF Enough
<1>7. QED
  BY <1>5, <1>6 DEF m, n, a, b

\* The comparisons say what is declared.
LEMMA RightIsDeclared ==
  ASSUME TypeOK, Readable, PurlAsString
  PROVE  RightMethod /\ RightUrl /\ RightHeaders <=> Declared
<1>1. RightMethod <=> matcher.method = Any \/ IgnoringCase(matcher.method, request.method)
  <2>1. request.method \in Name /\ (matcher.method = Any \/ matcher.method \in Name)
    BY DEF TypeOK, Matcher, Request
  <2>2. QED
    BY <2>1, LowerSame DEF RightMethod, IgnoringCase
<1>2. Enough <=> QueryDeclared
  <2> DEFINE m == Len(matcher.query)
             n == Len(request.query)
  <2>1. Enough <=> /\ \E f : Sends(f, m, MatcherPairs, n, RequestPairs)
                   /\ matcher.complete => m = n
    BY EnoughSends
  <2>2. \A i \in 1..m : \A j \in 1..n :
          MatcherPairs[i] = RequestPairs[j] <=> SamePair(matcher.query[i], request.query[j])
    BY PairsAgree
  <2>3. ASSUME NEW f
        PROVE  Sends(f, m, MatcherPairs, n, RequestPairs) <=>
                 /\ f \in [1..m -> 1..n]
                 /\ \A i \in 1..m : SamePair(matcher.query[i], request.query[f[i]])
                 /\ \A i, j \in 1..m : f[i] = f[j] => i = j
    BY <2>2 DEF Sends, Injective
  <2>4. QED
    BY <2>1, <2>3 DEF QueryDeclared
<1>3. RightUrl <=> UrlDeclared
  <2>1. matcher.kind \in {"any", "regex", "string", "purl"}
    BY DEF TypeOK, Matcher
  <2>2. CASE matcher.kind \in {"any", "regex"}
    BY <2>2 DEF RightUrl, UrlDeclared
  <2>3. CASE matcher.kind \in {"string", "purl"}
    <3>1. RightUrl <=> ~Elsewhere /\ RequestPath = MatcherPath /\ Enough
      BY <2>3 DEF RightUrl
    <3>2. UrlDeclared <=>
            /\ matcher.scheme = Empty \/ IgnoringCase(matcher.scheme, request.scheme)
            /\ matcher.netloc = Empty \/ IgnoringCase(matcher.netloc, request.netloc)
            /\ Same(OrSlash(matcher.path), OrSlash(request.path))
            /\ QueryDeclared
      BY <2>3 DEF UrlDeclared
    <3>3. QED
      BY <1>2, <2>3, <3>1, <3>2, NamesAgree, PathsAgree DEF ByLoop
  <2>4. QED
    BY <2>1, <2>2, <2>3
<1>4. QED
  BY <1>1, <1>3 DEF Declared, RightHeaders

\* The parts say the same of the next state, if it has the same matcher and request.
LEMMA SameRight ==
  ASSUME matcher' = matcher, request' = request
  PROVE  /\ RightMethod' <=> RightMethod
         /\ RightUrl' <=> RightUrl
         /\ RightHeaders' <=> RightHeaders
         /\ Additional' = Additional
         /\ ByLoop' <=> ByLoop
         /\ Elsewhere' <=> Elsewhere
         /\ (RequestPath = MatcherPath)' <=> RequestPath = MatcherPath
<1>1. RequestPath' = RequestPath /\ MatcherPath' = MatcherPath /\ (Elsewhere' <=> Elsewhere)
  BY DEF RequestPath, MatcherPath, Elsewhere, Prepared, Folded, Mapped, MatcherName
<1>2. Enough' <=> Enough
  BY SameCounts DEF Enough
<1>3. Prepared' = Prepared
  BY DEF Prepared, Mapped
<1>4. RightUrl' <=> RightUrl
  BY <1>1, <1>2, <1>3 DEF RightUrl
<1>5. QED
  BY <1>1, <1>4 DEF RightMethod, RightHeaders, Additional, ByLoop

\* Every step keeps Decided.
LEMMA DecidedNext ==
  ASSUME IInv, Decided, [Next]_vars
  PROVE  Decided'
<1>1. ASSUME NEW m \in Later, TryNext(m)
      PROVE  Decided'
  BY <1>1 DEF TryNext, Go, Decided
<1> SUFFICES ASSUME matcher' = matcher, request' = request
             PROVE  Decided'
  BY <1>1 DEF Next, vars, MatchMethod, MatchOther, MatchPath, RemoveValue, QueryDone,
     MatchHeaders, MatchAdditional
<1> DEFINE Given(label, v) ==
      /\ label \in {"url", "query", "headers", "additional"} => RightMethod
      /\ label = "query" => ByLoop /\ ~Elsewhere /\ RequestPath = MatcherPath
      /\ label \in {"headers", "additional"} => RightUrl
      /\ label = "additional" => RightHeaders
      /\ label = "done" => v = IF RightMethod /\ RightUrl /\ RightHeaders THEN Additional ELSE "no"
<1>2. Given(pc', verdict') => Decided'
  BY SameRight DEF Decided
<1>3. Given(pc, verdict)
  BY DEF Decided
<1>4. CASE UNCHANGED vars
  BY <1>2, <1>3, <1>4 DEF vars
<1>5. CASE MatchMethod
  <2>1. IF RightMethod THEN Go("url") ELSE Return("no")
    BY <1>5 DEF MatchMethod, RightMethod
  <2>2. Given(pc', verdict')
    BY <2>1 DEF Go, Return
  <2>3. QED
    BY <1>2, <2>2
<1>6. CASE MatchOther
  <2>1. /\ RightMethod /\ matcher.kind \in {"any", "regex"}
        /\ IF RightUrl THEN Go("headers") ELSE Return("no")
    BY <1>3, <1>6 DEF MatchOther, RightUrl
  <2>2. Given(pc', verdict')
    BY <2>1 DEF Go, Return
  <2>3. QED
    BY <1>2, <2>2
<1>7. CASE MatchPath
  <2>1. RightMethod /\ ByLoop /\ (RightUrl => ~Elsewhere /\ RequestPath = MatcherPath)
    BY <1>3, <1>7 DEF MatchPath, RightUrl, ByLoop
  <2>2. IF Elsewhere \/ RequestPath # MatcherPath THEN Return("no") ELSE Go("query")
    BY <1>7 DEF MatchPath
  <2>3. Given(pc', verdict')
    BY <2>1, <2>2 DEF Go, Return
  <2>4. QED
    BY <1>2, <2>3
<1>8. ByLoop => (RightUrl <=> ~Elsewhere /\ RequestPath = MatcherPath /\ Enough)
  BY DEF RightUrl, ByLoop
<1>9. Sent \in [Pairs -> Nat] /\ MatcherQuery \in [Pairs -> Nat]
  BY CountsType DEF IInv
<1>10. ASSUME NEW p \in Pairs, RemoveValue(p)
       PROVE  Decided'
  <2>1. pc = "query" /\ todo[p] > 0 /\ left[p] \in Nat /\ todo[p] \in Nat
    BY <1>10 DEF RemoveValue, IInv, TypeOK
  <2>2. CASE Missing(p)
    <3>1. left[p] - todo[p] = Sent[p] - MatcherQuery[p] /\ left[p] = 0
      BY <2>1, <2>2 DEF IInv, LoopCounts, Missing
    <3>2. Sent[p] < MatcherQuery[p]
      BY <1>9, <2>1, <3>1
    <3>3. ~Enough
      BY <1>9, <3>2 DEF Enough
    <3>4. Given(pc', verdict')
      BY <1>3, <1>8, <1>10, <2>1, <2>2, <3>3 DEF RemoveValue, Return
    <3>5. QED
      BY <1>2, <3>4
  <2>3. CASE ~Missing(p)
    BY <1>2, <1>3, <1>10, <2>3 DEF RemoveValue
  <2>4. QED
    BY <2>2, <2>3
<1>11. CASE QueryDone
  <2>1. /\ pc = "query" /\ \A p \in Pairs : todo[p] = 0 /\ left[p] \in Nat
        /\ \A p \in Pairs : left[p] - todo[p] = Sent[p] - MatcherQuery[p]
    BY <1>11 DEF QueryDone, IInv, TypeOK, LoopCounts
  <2>2. Enough <=> ~(matcher.complete /\ Surplus)
    <3>1. \A p \in Pairs : Sent[p] >= MatcherQuery[p] /\ (left[p] > 0 <=> Sent[p] # MatcherQuery[p])
      BY <1>9, <2>1
    <3>2. QED
      BY <3>1 DEF Enough, Surplus
  <2>3. IF Enough THEN Go("headers") ELSE Return("no")
    BY <1>11, <2>2 DEF QueryDone
  <2>4. Given(pc', verdict')
    BY <1>3, <1>8, <2>1, <2>3 DEF Go, Return
  <2>5. QED
    BY <1>2, <2>4
<1>12. CASE MatchHeaders
  <2>1. /\ pc = "headers"
        /\ IF RightHeaders THEN Go("additional") ELSE Return("no")
    BY <1>12 DEF MatchHeaders, RightHeaders
  <2>2. Given(pc', verdict')
    BY <1>3, <2>1 DEF Go, Return
  <2>3. QED
    BY <1>2, <2>2
<1>13. CASE MatchAdditional
  <2>1. pc = "additional" /\ Return(Additional)
    BY <1>13 DEF MatchAdditional, Additional
  <2>2. Given(pc', verdict')
    BY <1>3, <2>1 DEF Return
  <2>3. QED
    BY <1>2, <2>2
<1>14. QED
  BY <1>1, <1>4, <1>5, <1>6, <1>7, <1>10, <1>11, <1>12, <1>13 DEF Next

-----------------------------------------------------------------------------
\* Every variable keeps to its type: no pair is removed more often than it occurs.
THEOREM TypeCorrect == Spec => []TypeOK
<1>1. IInv => TypeOK
  BY DEF IInv
<1>2. QED
  BY <1>1, AlwaysIInv, PTL

\* Removing the matcher's values one by one counts them right, for queries of any
\* length, any repetition of values, and any number of matchers asked before.
THEOREM QueryCountedHolds == Spec => []QueryCounted
<1>1. IInv => QueryCounted
  <2> SUFFICES ASSUME IInv PROVE QueryCounted
    OBVIOUS
  <2>1. Sent \in [Pairs -> Nat] /\ MatcherQuery \in [Pairs -> Nat]
    BY CountsType DEF IInv
  <2>2. ASSUME pc = "query", NEW p \in Pairs, todo[p] > 0, left[p] = 0
        PROVE  Sent[p] < MatcherQuery[p]
    <3>1. todo[p] \in Nat /\ left[p] - todo[p] = Sent[p] - MatcherQuery[p]
      BY <2>2 DEF IInv, TypeOK, LoopCounts
    <3>2. QED
      BY <2>1, <2>2, <3>1
  <2>3. QED
    BY <2>2 DEF IInv, LoopCounts, QueryCounted, Sent, ByLoop
<1>2. QED
  BY <1>1, AlwaysIInv, PTL

\* A matcher accepts the requests that are declared and no others, for matchers and
\* requests of any kind whose escapes the code reads alike on both sides (Readable,
\* PurlAsString), with queries of any length, and whatever was asked before: the method, the parts of the URL, the counted query values, the headers and the
\* additional matcher come to what the documentation says of them.
THEOREM VerdictIsDeclaredHolds == Spec => []VerdictIsDeclared
<1>1. Init => Decided
  BY DEF Init, Decided
<1>2. IInv /\ Decided /\ [Next]_vars => Decided'
  BY DecidedNext
<1>3. IInv /\ Decided => VerdictIsDeclared
  <2> SUFFICES ASSUME IInv, Decided, pc = "done", Readable, PurlAsString
               PROVE  verdict = IF ~Declared THEN "no" ELSE Additional
    BY DEF VerdictIsDeclared, Additional
  <2>1. RightMethod /\ RightUrl /\ RightHeaders <=> Declared
    BY RightIsDeclared DEF IInv
  <2>2. QED
    BY <2>1 DEF Decided
<1>4. QED
  BY <1>1, <1>2, <1>3, AlwaysIInv, PTL DEF Spec
=============================================================================
