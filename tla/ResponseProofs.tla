--------------------------- MODULE ResponseProofs ---------------------------
(* Theorems about Response, for all values of its constants.               *)
EXTENDS Response, TLAPS

\* What BodyIsWhole rests on: a response reads its own reader or the registered
\* object, and nothing has been read before there is a response.
ReadersKept ==
  \A i \in Requests :
    /\ uses[i].reader \in {i, Shared}
    /\ uses[i].reader = Shared => IsShared
    /\ ~Made(i) => uses[i].given = 0 /\ readers[i].left = Size
    /\ Whole(i) <= Size
    /\ Made(i) /\ uses[i].reader = i =>
         /\ Whole(i) \in {0, Size}
         /\ ~IsCallback /\ Bodies # {} => Whole(i) = Size

\* What CheckedArgumentsWork rests on: responses come of checked arguments.
ArgumentsChecked ==
  /\ phase = "registered" => args.real \/ ~Invalid
  /\ \A i \in Requests : uses[i].pc # "none" => phase = "registered" /\ ~args.real

IInv == TypeOK /\ ReadersKept /\ ArgumentsChecked /\ ReaderLooksLikeHTTPResponse
          /\ ContextIsFresh /\ CheckedArgumentsWork

-----------------------------------------------------------------------------
\* got bytes move from the reader r to what the program has read of i, and a
\* reader of the library closes if there were none.
Moves(i, r, got) ==
  /\ ~readers[r].closed
  /\ got = 0 => readers[r].left = 0
  /\ readers' = [readers EXCEPT ![r] =
       [left |-> readers[r].left - got, closed |-> Ours(r) /\ got = 0]]
  /\ uses' = [uses EXCEPT ![i].given = @ + got]

\* A read changes nothing, or moves bytes and ends the reader if there were none, or is
\* answered with nothing by a closed reader, which ends it.
LEMMA ReadUpToSteps ==
  ASSUME TypeOK, NEW i \in Requests, NEW n \in Nat, ReadUpTo(i, n), ~raised,
         Ours(uses[i].reader) \/ ~readers[uses[i].reader].closed
  PROVE  /\ raised' = FALSE
         /\ \/ /\ UNCHANGED <<uses, readers>>
               /\ \/ ended' = ended
                  \/ /\ ended' = ended \cup {uses[i].reader}
                     /\ readers[uses[i].reader].closed
            \/ \E got \in 0..readers[uses[i].reader].left :
                 /\ Moves(i, uses[i].reader, got)
                 /\ ended' = IF got = 0 THEN ended \cup {uses[i].reader} ELSE ended
<1> DEFINE r == uses[i].reader
           got == Got(r, n)
<1>1. r \in Requests \cup {Shared} /\ readers[r].left \in Nat
  BY ResponseAssumption DEF TypeOK, Use
<1>2. CASE Silent(r, n)
  BY <1>2 DEF ReadUpTo, Silent
<1>3. CASE ~Silent(r, n)
  <2>1. n # 0 /\ ~readers[r].closed
    BY <1>3 DEF Silent
  <2>2. got \in 0..readers[r].left /\ (got = 0 => readers[r].left = 0)
    BY <1>1, <2>1 DEF Got
  <2>3. /\ readers' = [readers EXCEPT ![r] =
                         [left |-> @.left - got, closed |-> Ours(r) /\ Closes(got)]]
        /\ uses' = [uses EXCEPT ![i].given = @ + got]
        /\ raised' = raised
        /\ ended' = IF got = 0 THEN ended \cup {r} ELSE ended
    BY <1>3, <2>1 DEF ReadUpTo
  <2>4. Moves(i, r, got)
    BY <2>1, <2>2, <2>3, <1>1 DEF Closes, TypeOK, Moves
  <2>5. QED
    <3> HIDE DEF got
    <3> QED BY <2>2, <2>3, <2>4
<1>4. QED
  BY <1>2, <1>3

\* What depends on the arguments alone does not change with the rest.
LEMMA SameArguments ==
  ASSUME args' = args
  PROVE  /\ Bodies' = Bodies /\ IsCallback' = IsCallback /\ IsShared' = IsShared
         /\ (Invalid' <=> Invalid) /\ (OwnJar' <=> OwnJar)
BY DEF Bodies, IsCallback, IsShared, Invalid, WrongType, OwnJar

\* A use that changes within the stages before or after the response is made, and
\* keeps its reader and what it has given, leaves the bodies as they are.
LEMMA BodiesKept ==
  ASSUME IInv, args' = args, readers' = readers,
         \A i \in Requests : /\ uses'[i].reader = uses[i].reader
                             /\ uses'[i].given = uses[i].given
                             /\ Made(i)' <=> Made(i)
  PROVE  ReadersKept'
BY SameArguments DEF IInv, ReadersKept, Whole

\* The initial states are as IInv says.
LEMMA InitIInv == Init => IInv
<1> SUFFICES ASSUME Init PROVE IInv
  OBVIOUS
<1>1. TypeOK
  <2>1. uses \in [Requests -> Use]
    BY ResponseAssumption DEF Init, Use
  <2>2. readers \in [Requests \cup {Shared} -> [left : 0..Size, closed : BOOLEAN]]
    BY ResponseAssumption DEF Init
  <2>3. QED
    BY <2>1, <2>2 DEF Init, TypeOK
<1>2. ReadersKept
  BY ResponseAssumption DEF Init, ReadersKept, Made, Whole
<1>3. QED
  BY <1>1, <1>2 DEF IInv, Init, ArgumentsChecked, ReaderLooksLikeHTTPResponse,
     ContextIsFresh, CheckedArgumentsWork

\* Reading, in one go or by a loop.
LEMMA ReadingPreserves ==
  ASSUME IInv, NEW i \in Requests, NEW n \in Nat, ReadUpTo(i, n), Made(i),
         Ours(uses[i].reader) \/ ~readers[uses[i].reader].closed,
         UNCHANGED <<args, phase, jar, shut>>
  PROVE  IInv'
<1> DEFINE r == uses[i].reader
<1>1. TypeOK /\ ~raised
  BY DEF IInv, ReaderLooksLikeHTTPResponse
<1>2. /\ raised' = FALSE
      /\ \/ /\ UNCHANGED <<uses, readers>>
            /\ ended' = ended \/ (ended' = ended \cup {r} /\ readers[r].closed)
         \/ \E got \in 0..readers[r].left :
              Moves(i, r, got) /\ ended' = IF got = 0 THEN ended \cup {r} ELSE ended
  BY <1>1, ReadUpToSteps
<1>3. CASE /\ UNCHANGED <<uses, readers>>
           /\ ended' = ended \/ (ended' = ended \cup {r} /\ readers[r].closed)
  <2>1. TypeOK' /\ ReadersKept'
    <3>1. r \in Requests \cup {Shared}
      BY <1>1 DEF TypeOK, Use
    <3>2. TypeOK'
      BY <1>1, <1>2, <1>3, <3>1 DEF TypeOK
    <3>3. QED
      BY <1>3, <3>2, BodiesKept DEF Made
  <2>2. ReaderLooksLikeHTTPResponse'
    BY <1>2, <1>3 DEF IInv, ReaderLooksLikeHTTPResponse
  <2>3. QED
    BY <1>3, <2>1, <2>2, SameArguments
    DEF IInv, ArgumentsChecked, ContextIsFresh, CheckedArgumentsWork
<1>4. CASE \E got \in 0..readers[r].left :
             Moves(i, r, got) /\ ended' = IF got = 0 THEN ended \cup {r} ELSE ended
  <2> PICK got \in 0..readers[r].left :
             Moves(i, r, got) /\ ended' = IF got = 0 THEN ended \cup {r} ELSE ended
    BY <1>4
  <2>1. /\ Size \in Nat \ {0} /\ Shared \notin Requests
        /\ r \in {i, Shared} /\ r \in Requests \cup {Shared}
        /\ readers[r].left \in 0..Size /\ uses[i].given \in 0..Size
        /\ uses[i].given + readers[r].left <= Size
    BY <1>1, ResponseAssumption DEF IInv, TypeOK, Use, ReadersKept, Whole
  <2>2. /\ \A j \in Requests : /\ uses'[j].pc = uses[j].pc
                               /\ uses'[j].headers = uses[j].headers
                               /\ uses'[j].cookies = uses[j].cookies
                               /\ uses'[j].reader = uses[j].reader
                               /\ j # i => uses'[j] = uses[j]
        /\ uses'[i].given = uses[i].given + got
        /\ readers'[r] = [left |-> readers[r].left - got, closed |-> Ours(r) /\ got = 0]
        /\ \A q \in Requests \cup {Shared} : q # r => readers'[q] = readers[q]
    BY <1>1, <2>1 DEF TypeOK, Use, Moves
  <2>3. TypeOK'
    <3>1. readers'[r] \in [left : 0..Size, closed : BOOLEAN]
      BY <1>1, <2>1 DEF TypeOK, Ours, Moves
    <3>2. readers' \in [Requests \cup {Shared} -> [left : 0..Size, closed : BOOLEAN]]
      BY <1>1, <2>1, <3>1 DEF TypeOK, Moves
    <3>3. uses' \in [Requests -> Use]
      BY <1>1, <2>1 DEF TypeOK, Use, Moves
    <3>4. QED
      BY <1>1, <1>2, <2>1, <3>2, <3>3 DEF TypeOK
  <2>4. ReadersKept'
    <3> SUFFICES ASSUME NEW j \in Requests
                 PROVE  /\ uses'[j].reader \in {j, Shared}
                        /\ uses'[j].reader = Shared => IsShared'
                        /\ ~Made(j)' => uses'[j].given = 0 /\ readers'[j].left = Size
                        /\ Whole(j)' <= Size
                        /\ Made(j)' /\ uses'[j].reader = j =>
                             /\ Whole(j)' \in {0, Size}
                             /\ ~IsCallback' /\ Bodies' # {} => Whole(j)' = Size
      BY DEF ReadersKept
    <3>1. (Made(j)' <=> Made(j)) /\ IsShared' = IsShared /\ IsCallback' = IsCallback
          /\ Bodies' = Bodies
      BY <2>2 DEF Made, IsShared, IsCallback, Bodies
    <3>2. CASE j = i
      <4>1. uses'[i].reader = r /\ Made(i)'
        BY <2>2, <3>1, <3>2
      <4>2. Whole(i)' = uses[i].given + got + (readers[r].left - got)
        BY <2>2, <4>1 DEF Whole
      <4>3. Whole(i)' = Whole(i)
        BY <2>1, <4>2 DEF Whole
      <4>4. QED
        BY <3>1, <3>2, <4>1, <4>3 DEF IInv, ReadersKept
    <3>3. CASE j # i
      <4>1. uses'[j] = uses[j] /\ uses[j].reader \in {j, Shared}
        BY <2>2, <3>3 DEF IInv, ReadersKept
      <4>2. CASE uses[j].reader # r
        <5>1. readers'[uses[j].reader] = readers[uses[j].reader]
          BY <2>2, <4>1, <4>2
        <5>2. ~Made(j) => readers'[j] = readers[j]
          BY <2>1, <2>2, <3>3
        <5>3. QED
          BY <3>1, <4>1, <5>1, <5>2 DEF IInv, ReadersKept, Whole
      <4>3. CASE uses[j].reader = r
        <5>1. r = Shared
          BY <2>1, <3>3, <4>1, <4>3
        <5>2. readers'[j] = readers[j] /\ uses[j].given \in 0..Size
          BY <1>1, <2>1, <2>2, <5>1 DEF TypeOK, Use
        <5>3. Whole(j)' <= Whole(j)
          BY <2>1, <2>2, <4>1, <4>3, <5>2 DEF Whole
        <5>4. Whole(j) \in Int /\ Whole(j)' \in Int /\ Whole(j) <= Size
          BY <2>1, <2>2, <4>1, <4>3, <5>2 DEF Whole, IInv, ReadersKept
        <5>5. QED
          BY <2>1, <3>1, <4>1, <4>3, <5>1, <5>2, <5>3, <5>4 DEF IInv, ReadersKept
      <4>4. QED
        BY <4>2, <4>3
    <3>4. QED
      BY <3>2, <3>3
  <2>5. ReaderLooksLikeHTTPResponse'
    <3> SUFFICES ASSUME NEW j \in Requests
                 PROVE  /\ readers'[j].closed <=> j \in shut' \cup ended'
                        /\ j \in ended' \ shut' => readers'[j].left = 0
      BY <1>2 DEF ReaderLooksLikeHTTPResponse
    <3>1. /\ readers[j].closed <=> j \in shut \cup ended
          /\ j \in ended \ shut => readers[j].left = 0
      BY DEF IInv, ReaderLooksLikeHTTPResponse
    <3>2. CASE j = r
      <4>1. Ours(r) /\ ~readers[r].closed /\ j \notin shut \cup ended
        BY <2>1, <3>1, <3>2 DEF Ours, Moves
      <4>2. (readers'[j].closed <=> got = 0) /\ readers'[j].left = readers[r].left - got
        <5>1. readers'[r].closed = (Ours(r) /\ got = 0)
              /\ readers'[r].left = readers[r].left - got
          BY <2>2
        <5>2. readers'[r].closed <=> got = 0
          BY <4>1, <5>1, Zenon
        <5>3. QED
          BY <3>2, <5>1, <5>2
      <4>3. QED
        BY <2>1, <3>2, <4>1, <4>2 DEF Moves
    <3>3. CASE j # r
      BY <2>2, <3>1, <3>3
    <3>4. QED
      BY <3>2, <3>3
  <2>6. ArgumentsChecked' /\ ContextIsFresh' /\ CheckedArgumentsWork'
    BY <2>2 DEF IInv, ArgumentsChecked, ContextIsFresh, CheckedArgumentsWork,
       Invalid, WrongType, IsCallback, Bodies
  <2>7. QED
    BY <2>3, <2>4, <2>5, <2>6 DEF IInv
<1>5. QED
  BY <1>2, <1>3, <1>4

-----------------------------------------------------------------------------
(* The other steps.                                                        *)

\* The arguments are checked before the response can be used.
LEMMA RegisterPreserves ==
  ASSUME IInv, Register
  PROVE  IInv'
<1>1. ArgumentsChecked'
  <2>1. args' = args /\ phase' = IF Conflicting \/ (~args.real /\ Invalid)
                                THEN "refused" ELSE "registered"
    BY DEF Register
  <2>2. uses' = uses /\ \A i \in Requests : uses[i].pc = "none"
    BY DEF Register, IInv, ArgumentsChecked
  <2>3. QED
    BY <2>1, <2>2, SameArguments DEF ArgumentsChecked
<1>2. /\ TypeOK' /\ ReadersKept' /\ ReaderLooksLikeHTTPResponse'
      /\ ContextIsFresh' /\ CheckedArgumentsWork'
  BY DEF Register, IInv, TypeOK, ReadersKept, ReaderLooksLikeHTTPResponse, ContextIsFresh,
     CheckedArgumentsWork, Made, Whole, IsShared, IsCallback, Bodies
<1>3. QED
  BY <1>1, <1>2 DEF IInv

\* A context begins with headers that no callback has set.
LEMMA GetResponsePreserves ==
  ASSUME IInv, NEW i \in Requests, GetResponse(i)
  PROVE  IInv'
<1>1. /\ \A j \in Requests : /\ uses'[j].reader = uses[j].reader
                             /\ uses'[j].given = uses[j].given
                             /\ uses'[j].cookies = uses[j].cookies
                             /\ j # i => uses'[j] = uses[j]
      /\ uses'[i].pc = IF "exc" \in args.given \/ args.headers = "unfit"
                        THEN "failed" ELSE "callback"
      /\ uses'[i].headers = {}
  BY DEF GetResponse, IInv, TypeOK, Use, ContextHeaders
<1>2. /\ phase = "registered" /\ ~args.real /\ uses[i].pc = "none"
      /\ UNCHANGED <<args, phase, jar, readers, shut, ended, raised>>
  BY DEF GetResponse
<1>3. TypeOK'
  <2>1. uses' \in [Requests -> Use]
    <3>1. /\ uses' = [uses EXCEPT ![i] = uses'[i]]
          /\ uses'[i] = [uses[i] EXCEPT !.pc = uses'[i].pc, !.headers = {}]
      BY DEF GetResponse, IInv, TypeOK, Use, ContextHeaders
    <3>2. uses'[i] \in Use
      BY <1>1, <3>1 DEF IInv, TypeOK, Use
    <3>3. QED
      BY <3>1, <3>2 DEF IInv, TypeOK
  <2>2. QED
    BY <1>2, <2>1 DEF IInv, TypeOK
<1>4. ReadersKept'
  <2>1. \A j \in Requests : Made(j)' <=> Made(j)
    BY <1>1, <1>2 DEF Made
  <2>2. QED
    BY <1>1, <1>2, <2>1, BodiesKept
<1>5. ContextIsFresh'
  BY <1>1, <1>2 DEF IInv, ContextIsFresh
<1>6. CheckedArgumentsWork'
  <2>1. ~Invalid
    BY <1>2 DEF IInv, ArgumentsChecked
  <2>2. QED
    BY <1>1, <1>2, <2>1, SameArguments DEF IInv, CheckedArgumentsWork, Invalid
<1>7. QED
  BY <1>1, <1>2, <1>3, <1>4, <1>5, <1>6, SameArguments
  DEF IInv, ArgumentsChecked, ReaderLooksLikeHTTPResponse

\* A callback changes the context of its own request, or the registered jar.
LEMMA CallbackPreserves ==
  ASSUME IInv, NEW i \in Requests, SetsHeader(i) \/ SetsCookie(i)
  PROVE  IInv'
<1>1. /\ \A j \in Requests : /\ uses'[j].reader = uses[j].reader
                             /\ uses'[j].given = uses[j].given
                             /\ uses'[j].pc = uses[j].pc
                             /\ j # i => uses'[j] = uses[j]
      /\ uses'[i].headers \subseteq uses[i].headers \cup {i}
      /\ uses'[i].cookies \subseteq uses[i].cookies \cup {i}
      /\ jar' \subseteq jar \cup {i}
      /\ UNCHANGED <<args, phase, readers, shut, ended, raised>>
  BY DEF SetsHeader, SetsCookie, IInv, TypeOK, Use
<1>2. TypeOK'
  <2>1. uses' \in [Requests -> Use]
    <3>1. uses \in [Requests -> Use]
      BY DEF IInv, TypeOK
    <3>2. uses[i].headers \cup {i} \in SUBSET Requests
          /\ uses[i].cookies \cup {i} \in SUBSET Requests
      BY <3>1 DEF Use
    <3>3. CASE SetsHeader(i)
      BY <3>1, <3>2, <3>3 DEF SetsHeader, Use
    <3>4. CASE SetsCookie(i)
      BY <3>1, <3>2, <3>4 DEF SetsCookie, Use
    <3>5. QED
      BY <3>3, <3>4
  <2>2. QED
    BY <1>1, <2>1 DEF IInv, TypeOK
<1>3. ReadersKept'
  BY <1>1, BodiesKept DEF Made
<1>4. ContextIsFresh'
  BY <1>1 DEF IInv, ContextIsFresh
<1>5. QED
  BY <1>1, <1>2, <1>3, <1>4, SameArguments
  DEF IInv, ArgumentsChecked, ReaderLooksLikeHTTPResponse, CheckedArgumentsWork

\* A response that cannot be made.
LEMMA CreateFailsPreserves ==
  ASSUME IInv, NEW i \in Requests, CreateResponse(i, "unusable")
  PROVE  IInv'
<1>1. /\ uses[i].pc = "callback" /\ uses' = [uses EXCEPT ![i].pc = "failed"]
      /\ UNCHANGED <<args, phase, jar, readers, shut, ended, raised>>
      /\ IsCallback \/ Unusable
  BY DEF CreateResponse
<1>2. /\ \A j \in Requests : /\ uses'[j].reader = uses[j].reader
                             /\ uses'[j].given = uses[j].given
                             /\ uses'[j].headers = uses[j].headers
                             /\ uses'[j].cookies = uses[j].cookies
                             /\ j # i => uses'[j] = uses[j]
      /\ uses'[i].pc = "failed"
  BY <1>1 DEF IInv, TypeOK, Use
<1>3. phase = "registered" /\ ~args.real /\ ~Invalid
  BY <1>1 DEF IInv, ArgumentsChecked
<1>4. TypeOK'
  <2>1. [uses[i] EXCEPT !.pc = "failed"] \in Use
    BY DEF IInv, TypeOK, Use
  <2>2. uses' \in [Requests -> Use]
    BY <1>1, <2>1 DEF IInv, TypeOK
  <2>3. QED
    BY <1>1, <2>2 DEF IInv, TypeOK
<1>5. ReadersKept'
  <2>1. \A j \in Requests : Made(j)' <=> Made(j)
    BY <1>1, <1>2 DEF Made
  <2>2. QED
    BY <1>1, <1>2, <2>1, BodiesKept
<1>6. CheckedArgumentsWork'
  <2>1. \/ args.given = {"exc"}
        \/ /\ {"exc", "unknown"} \cap args.given = {}
           /\ \/ IsCallback
              \/ args.form = "unencodable" /\ {"text", "json"} \cap Bodies # {}
              \/ args.form = "wrong" /\ {"content", "text"} \cap Bodies = {}
    BY <1>1, <1>3 DEF Unusable, Invalid, WrongType, Bodies, BodyArgs
  <2>2. QED
    BY <1>1, <1>2, <2>1, SameArguments DEF IInv, CheckedArgumentsWork
<1>7. QED
  BY <1>1, <1>2, <1>3, <1>4, <1>5, <1>6, SameArguments
  DEF IInv, ArgumentsChecked, ReaderLooksLikeHTTPResponse, ContextIsFresh

\* A response is made: it has a reader with the whole body, or nothing to read, or
\* the registered object.
LEMMA CreatePreserves ==
  ASSUME IInv, NEW i \in Requests, NEW returned \in {"body", "nothing"},
         CreateResponse(i, returned)
  PROVE  IInv'
<1> DEFINE reader == IF returned = "nothing" THEN i ELSE Body(i)
<1>1. /\ uses[i].pc = "callback" /\ UNCHANGED <<args, phase, jar, shut, ended, raised>>
      /\ readers' = IF returned = "nothing" THEN [readers EXCEPT ![i].left = 0]
                                            ELSE readers
      /\ ~IsCallback => (returned = "nothing" <=> Bodies = {})
  BY DEF CreateResponse
<1>2. /\ \A j \in Requests : j # i => uses'[j] = uses[j]
      /\ uses'[i].pc = "response"
      /\ uses'[i].reader = reader
      /\ uses'[i].given = uses[i].given
      /\ uses'[i].headers \subseteq uses[i].headers
      /\ uses'[i].cookies = IF OwnJar THEN uses[i].cookies ELSE jar
  BY DEF CreateResponse, IInv, TypeOK, Use
<1>3. uses' = [uses EXCEPT ![i] = uses'[i]]
      /\ uses'[i] = [pc |-> "response", headers |-> uses'[i].headers,
                     cookies |-> uses'[i].cookies, reader |-> reader,
                     given |-> uses[i].given]
  BY DEF CreateResponse, IInv, TypeOK, Use
<1>4. /\ phase = "registered" /\ ~args.real /\ Shared \notin Requests
      /\ Size \in Nat \ {0} /\ reader \in {i, Shared}
      /\ uses[i].given = 0 /\ readers[i].left = Size /\ readers[Shared].left \in 0..Size
  BY <1>1, ResponseAssumption
  DEF IInv, TypeOK, ArgumentsChecked, ReadersKept, Made, Body
<1>5. TypeOK'
  <2>1. uses'[i] \in Use
    BY <1>2, <1>3, <1>4 DEF IInv, TypeOK, Use
  <2>2. readers' \in [Requests \cup {Shared} -> [left : 0..Size, closed : BOOLEAN]]
    BY <1>1, <1>4 DEF IInv, TypeOK
  <2>3. uses' \in [Requests -> Use]
    BY <1>3, <2>1 DEF IInv, TypeOK
  <2>4. QED
    BY <1>1, <2>2, <2>3 DEF IInv, TypeOK
<1>6. ReadersKept'
  <2> SUFFICES ASSUME NEW j \in Requests
               PROVE  /\ uses'[j].reader \in {j, Shared}
                      /\ uses'[j].reader = Shared => IsShared'
                      /\ ~Made(j)' => uses'[j].given = 0 /\ readers'[j].left = Size
                      /\ Whole(j)' <= Size
                      /\ Made(j)' /\ uses'[j].reader = j =>
                           /\ Whole(j)' \in {0, Size}
                           /\ ~IsCallback' /\ Bodies' # {} => Whole(j)' = Size
    BY DEF ReadersKept
  <2>1. IsShared' = IsShared /\ IsCallback' = IsCallback /\ Bodies' = Bodies
    BY <1>1, SameArguments
  <2>2. CASE j # i
    <3>1. uses'[j] = uses[j] /\ uses[j].reader \in {j, Shared}
      BY <1>2, <2>2 DEF IInv, ReadersKept
    <3>2. readers'[uses[j].reader] = readers[uses[j].reader] /\ readers'[j] = readers[j]
      BY <1>1, <1>4, <2>2, <3>1 DEF IInv, TypeOK
    <3>3. QED
      BY <2>1, <3>1, <3>2 DEF IInv, ReadersKept, Whole, Made
  <2>3. CASE j = i /\ returned = "nothing"
    <3>1. uses'[i].reader = i /\ readers'[i].left = 0
      BY <1>1, <1>2, <2>3 DEF IInv, TypeOK
    <3>2. Whole(i)' = 0 /\ Made(i)'
      BY <1>2, <1>4, <3>1 DEF Whole, Made
    <3>3. QED
      BY <1>1, <1>4, <2>1, <2>3, <3>1, <3>2
  <2>4. CASE j = i /\ returned = "body"
    <3>1. uses'[i].reader = (IF IsShared THEN Shared ELSE i) /\ readers' = readers
      BY <1>1, <1>2, <2>4 DEF Body
    <3>2. Whole(i)' = (IF IsShared THEN readers[Shared].left ELSE Size) /\ Made(i)'
      BY <1>2, <1>4, <3>1 DEF Whole, Made
    <3>3. QED
      BY <1>4, <2>1, <2>4, <3>1, <3>2
  <2>5. QED
    BY <2>2, <2>3, <2>4
<1>7. ReaderLooksLikeHTTPResponse'
  <2>1. \A j \in Requests : readers'[j].closed = readers[j].closed
                            /\ (readers[j].left = 0 => readers'[j].left = 0)
    BY <1>1 DEF IInv, TypeOK
  <2>2. QED
    BY <1>1, <2>1 DEF IInv, ReaderLooksLikeHTTPResponse
<1>8. ContextIsFresh'
  BY <1>1, <1>2 DEF IInv, ContextIsFresh, OwnJar
<1>9. ArgumentsChecked' /\ CheckedArgumentsWork'
  BY <1>1, <1>2, <1>4, SameArguments DEF IInv, ArgumentsChecked, CheckedArgumentsWork
<1>10. QED
  BY <1>5, <1>6, <1>7, <1>8, <1>9 DEF IInv

\* The program closes a body.
LEMMA ClosePreserves ==
  ASSUME IInv, NEW i \in Requests, Close(i)
  PROVE  IInv'
<1> DEFINE r == uses[i].reader
<1>1. /\ UNCHANGED <<args, phase, jar, uses, ended, raised>>
      /\ readers' = [readers EXCEPT ![r].closed = TRUE] /\ shut' = shut \cup {r}
      /\ r \in Requests \cup {Shared}
  BY DEF Close, IInv, TypeOK, Use
<1>2. /\ \A q \in Requests \cup {Shared} : /\ readers'[q].left = readers[q].left
                                          /\ q # r => readers'[q] = readers[q]
      /\ readers'[r].closed = TRUE
  BY <1>1 DEF IInv, TypeOK
<1>3. TypeOK'
  BY <1>1 DEF IInv, TypeOK
<1>4. ReadersKept'
  <2>1. \A j \in Requests : uses[j].reader \in Requests \cup {Shared}
    BY DEF IInv, TypeOK, Use
  <2>2. \A j \in Requests : Whole(j)' = Whole(j) /\ (Made(j)' <=> Made(j))
    BY <1>1, <1>2, <2>1 DEF Whole, Made
  <2>3. QED
    BY <1>1, <1>2, <2>2, SameArguments DEF IInv, ReadersKept
<1>5. ReaderLooksLikeHTTPResponse'
  BY <1>1, <1>2 DEF IInv, ReaderLooksLikeHTTPResponse
<1>6. QED
  BY <1>1, <1>3, <1>4, <1>5, SameArguments
  DEF IInv, ArgumentsChecked, ContextIsFresh, CheckedArgumentsWork

\* A loop over a body begins or ends.
LEMMA LoopPreserves ==
  ASSUME IInv, NEW i \in Requests, StartIterating(i) \/ StopIterating(i)
  PROVE  IInv'
<1>1. /\ UNCHANGED <<args, phase, jar, readers, shut, ended, raised>>
      /\ Made(i)
      /\ \E label \in {"response", "iterating"} : uses' = [uses EXCEPT ![i].pc = label]
  BY DEF StartIterating, StopIterating, Made
<1>2. PICK label \in {"response", "iterating"} : uses' = [uses EXCEPT ![i].pc = label]
  BY <1>1
<1>3. /\ \A j \in Requests : /\ uses'[j].reader = uses[j].reader
                             /\ uses'[j].given = uses[j].given
                             /\ uses'[j].headers = uses[j].headers
                             /\ uses'[j].cookies = uses[j].cookies
                             /\ j # i => uses'[j] = uses[j]
      /\ uses'[i].pc = label
  BY <1>2 DEF IInv, TypeOK, Use
<1>4. TypeOK'
  <2>1. [uses[i] EXCEPT !.pc = label] \in Use
    BY DEF IInv, TypeOK, Use
  <2>2. uses' \in [Requests -> Use]
    BY <1>2, <2>1 DEF IInv, TypeOK
  <2>3. QED
    BY <1>1, <2>2 DEF IInv, TypeOK
<1>5. ReadersKept'
  <2>1. \A j \in Requests : Made(j)' <=> Made(j)
    BY <1>1, <1>3 DEF Made
  <2>2. QED
    BY <1>1, <1>3, <2>1, BodiesKept
<1>6. QED
  BY <1>1, <1>3, <1>4, <1>5, SameArguments
  DEF IInv, ArgumentsChecked, ReaderLooksLikeHTTPResponse, ContextIsFresh,
      CheckedArgumentsWork, Made

-----------------------------------------------------------------------------
\* IInv is inductive.
LEMMA NextIInv == IInv /\ [Next]_vars => IInv'
<1> SUFFICES ASSUME IInv, [Next]_vars PROVE IInv'
  OBVIOUS
<1>1. CASE UNCHANGED vars
  BY <1>1, SameArguments
  DEF vars, IInv, TypeOK, ReadersKept, ArgumentsChecked, ReaderLooksLikeHTTPResponse,
      ContextIsFresh, CheckedArgumentsWork, Made, Whole
<1>2. CASE Register
  BY <1>2, RegisterPreserves
<1>3. ASSUME NEW i \in Requests,
             GetResponse(i) \/ SetsHeader(i) \/ SetsCookie(i)
      PROVE  IInv'
  BY <1>3, GetResponsePreserves, CallbackPreserves
<1>4. ASSUME NEW i \in Requests, NEW returned \in {"body", "nothing", "unusable"},
             CreateResponse(i, returned)
      PROVE  IInv'
  BY <1>4, CreateFailsPreserves, CreatePreserves
<1>5. ASSUME NEW i \in Requests, NEW n \in 0..Size + 1, Read(i, n)
      PROVE  IInv'
  <2>1. /\ n \in Nat /\ Made(i) /\ ReadUpTo(i, n)
        /\ Ours(uses[i].reader) \/ ~readers[uses[i].reader].closed
        /\ UNCHANGED <<args, phase, jar, shut>>
    BY <1>5, ResponseAssumption DEF Read, Made
  <2>2. QED
    BY <2>1, ReadingPreserves
<1>6. ASSUME NEW i \in Requests, Close(i) \/ StartIterating(i) \/ StopIterating(i)
      PROVE  IInv'
  BY <1>6, ClosePreserves, LoopPreserves
<1>7. ASSUME NEW i \in Requests, Iterate(i)
      PROVE  IInv'
  <2>1. /\ Size + 1 \in Nat /\ Made(i) /\ ReadUpTo(i, Size + 1)
        /\ ~readers[uses[i].reader].closed
        /\ UNCHANGED <<args, phase, jar, shut>>
    BY <1>7, ResponseAssumption DEF Iterate, Made
  <2>2. QED
    BY <2>1, ReadingPreserves
<1>8. QED
  BY <1>1, <1>2, <1>3, <1>4, <1>5, <1>6, <1>7 DEF Next

\* IInv says what is claimed of bodies and readers.
LEMMA IInvImplies ==
  ASSUME IInv
  PROVE  BodyIsWhole /\ ReaderLooksLikeHTTPResponse
<1>1. \A i \in Requests : ~IsShared => uses[i].reader = i
  BY DEF IInv, ReadersKept
<1>2. BodyIsWhole
  BY <1>1 DEF IInv, ReadersKept, BodyIsWhole
<1>3. QED
  BY <1>2 DEF IInv

\* Every state is as IInv says.
LEMMA AlwaysIInv == Spec => []IInv
BY InitIInv, NextIInv, PTL DEF Spec

\* Every variable keeps to its type: a reader has never given more bytes than it
\* had, and a jar or a context holds nothing but marks of requests.
THEOREM TypeCorrect == Spec => []TypeOK
<1>1. IInv => TypeOK
  BY DEF IInv
<1>2. QED
  BY <1>1, AlwaysIInv, PTL

\* Content, text and json are whole for every request that gets them, for bodies of
\* any size, any number of requests and any order of reading and closing.
THEOREM BodyIsWholeHolds == Spec => []BodyIsWhole
BY IInvImplies, AlwaysIInv, PTL

\* A reader of the library is closed by the program or by the first read that finds no
\* byte, by nothing else and never later, and it never raises.
THEOREM ReaderHolds == Spec => []ReaderLooksLikeHTTPResponse
BY IInvImplies, AlwaysIInv, PTL

\* Contexts of callbacks are not shared.
THEOREM ContextIsFreshHolds == Spec => []ContextIsFresh
<1>1. IInv => ContextIsFresh
  BY DEF IInv
<1>2. QED
  BY <1>1, AlwaysIInv, PTL

\* What registration checks does not fail a request: content and text have the right
\* type, exc stands alone, and every argument is known.
THEOREM CheckedArgumentsWorkHolds == Spec => []CheckedArgumentsWork
<1>1. IInv => CheckedArgumentsWork
  BY DEF IInv
<1>2. QED
  BY <1>1, AlwaysIInv, PTL
=============================================================================
