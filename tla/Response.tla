------------------------------ MODULE Response ------------------------------
(***************************************************************************)
(* The life of one registered response (src/requests_mock/response.py):    *)
(* its arguments are checked when it is registered, each request that gets *)
(* it runs its callback in a context of its own and makes a response, and  *)
(* the program reads the bodies of these responses in any order.  Requests *)
(* overlap: a callback sends requests that get the same response, and an   *)
(* adapter mounted on sessions is used by several threads.                 *)
(***************************************************************************)
EXTENDS Integers, FiniteSets

CONSTANTS
  Requests,  \* the requests that get the response
  Args,      \* argument lists of register_uri that the program may use
  Size       \* length of a body

BodyArgs == {"raw", "body", "content", "text", "json"}  \* _BODY_ARGS
Shared == "registered"   \* the object registered as body or raw

\* A body in the form "wrong" is a str for bytes or bytes for a str, or has no JSON, no
\* read() or no headers; an "unencodable" text has characters that the charset of its
\* headers does not have.  "unfit" headers have no copy(), as None.
Arg ==
  [given   : SUBSET (BodyArgs \cup {"json_encoder", "exc", "unknown"}),
   form    : {"value", "wrong", "unencodable", "callback"},
   headers : {"none", "dict", "unfit"},
   cookies : {"none", "dict", "jar"},
   list    : {"no", "only", "with_others"},   \* given in a response_list
   real    : BOOLEAN]                         \* _real_http

ASSUME ResponseAssumption ==
  /\ Shared \notin Requests
  /\ Args \subseteq Arg
  /\ Size \in Nat \ {0}

VARIABLES
  args,      \* the arguments of the registration
  phase,     \* "new", then "registered" or "refused"
  jar,       \* marks in the registered CookieJar: requests whose callbacks set them
  uses,      \* each request's get_response, and the response it made
  readers,   \* the body of each response, and the shared one
  shut,      \* history variable: readers the program closed
  ended,     \* history variable: readers that had no byte for a read that asked for some
  raised     \* history variable: a library reader raised ValueError

vars == <<args, phase, jar, uses, readers, shut, ended, raised>>

Use ==
  [pc      : {"none", "callback", "response", "iterating", "failed"},
   headers : SUBSET Requests, cookies : SUBSET Requests,
   reader  : Requests \cup {Shared},
   given   : 0..Size]                         \* bytes the program has read from it

TypeOK ==
  /\ args \in Args
  /\ phase \in {"new", "registered", "refused"}
  /\ jar \subseteq Requests
  /\ uses \in [Requests -> Use]
  /\ readers \in [Requests \cup {Shared} -> [left : 0..Size, closed : BOOLEAN]]
  /\ shut \subseteq Requests \cup {Shared}
  /\ ended \subseteq Requests \cup {Shared}
  /\ raised \in BOOLEAN

Bodies == args.given \cap BodyArgs
IsCallback == args.form = "callback" /\ Bodies # {}

\* body and raw are objects of the program, handed to every response.
IsShared == Bodies \cap {"body", "raw"} # {} /\ ~IsCallback

Init ==
  /\ args \in Args
  /\ phase = "new" /\ jar = {} /\ shut = {} /\ ended = {} /\ raised = FALSE
  /\ uses = [i \in Requests |-> [pc |-> "none", headers |-> {}, cookies |-> {},
                                 reader |-> i, given |-> 0]]
  /\ readers = [r \in Requests \cup {Shared} |-> [left |-> Size, closed |-> FALSE]]

-----------------------------------------------------------------------------
(* Registration: register_uri and _MatcherResponse.__init__.               *)

\* register_uri: responses or a list or real_http.
Conflicting ==
  \/ args.list = "with_others"
  \/ args.real /\ \/ args.list = "only"
                  \/ args.given \ {"json_encoder"} # {}
                  \/ args.headers # "none" \/ args.cookies # "none"

\* Mutant of WrongType: json is checked, and content and text are not.
MutWrongType == args.form = "wrong" /\ "json" \in args.given

WrongType == args.form = "wrong" /\ {"content", "text"} \cap args.given # {}

\* What _MatcherResponse and _check_body_arguments refuse.  The types of json, body,
\* raw and headers, and whether a text can be encoded, are not looked at.
Invalid ==
  \/ "exc" \in args.given /\ \/ args.given # {"exc"}
                             \/ args.headers # "none" \/ args.cookies # "none"
  \/ Cardinality(Bodies) > 1
  \/ "unknown" \in args.given
  \/ WrongType

Register ==
  /\ phase = "new"
  /\ phase' = IF Conflicting \/ (~args.real /\ Invalid) THEN "refused" ELSE "registered"
  /\ UNCHANGED <<args, jar, uses, readers, shut, ended, raised>>

-----------------------------------------------------------------------------
(* A request: get_response and create_response.                            *)

\* Mutant of ContextHeaders: the headers are not copied, so callbacks before
\* this one have set them.
MutContextHeaders == UNION {uses[i].headers : i \in Requests}

\* self._params.get('headers', {}).copy(): what no callback has set.  Without a copy()
\* the request fails here.
ContextHeaders == {}

GetResponse(i) ==
  /\ phase = "registered" /\ ~args.real
  /\ uses[i].pc = "none"
  /\ uses' = [uses EXCEPT ![i].pc = IF "exc" \in args.given \/ args.headers = "unfit"
                                    THEN "failed" ELSE "callback",
                          ![i].headers = ContextHeaders]
  /\ UNCHANGED <<args, phase, jar, readers, shut, ended, raised>>

SetsHeader(i) ==
  /\ uses[i].pc = "callback" /\ IsCallback
  /\ uses' = [uses EXCEPT ![i].headers = @ \cup {i}]
  /\ UNCHANGED <<args, phase, jar, readers, shut, ended, raised>>

\* Mutant of OwnJar: a dict is made a jar when it is registered.
MutOwnJar == args.cookies = "none"

\* Without cookies, or with a dict, each request gets a new jar.
OwnJar == args.cookies # "jar"

SetsCookie(i) ==
  /\ uses[i].pc = "callback" /\ IsCallback
  /\ IF OwnJar
     THEN uses' = [uses EXCEPT ![i].cookies = @ \cup {i}] /\ jar' = jar
     ELSE jar' = jar \cup {i} /\ uses' = uses
  /\ UNCHANGED <<args, phase, readers, shut, ended, raised>>

\* Mutant of Body: the bytes are wrapped once.
MutBody(i) == Shared

\* body = _IOReader(content), raw = HTTPResponse(body=body or _IOReader(b''), ...);
\* a callback that gives a body or a raw object makes a new one.
Body(i) == IF IsShared THEN Shared ELSE i

\* The registered body is of no use to create_response, or to requests that reads it:
\* json.dumps, text.encode, raw.headers or the read of a body without read() fails.
Unusable ==
  \/ args.form = "wrong" /\ Bodies # {}
  \/ args.form = "unencodable" /\ {"text", "json"} \cap Bodies # {}

\* _call(...) returned a body, none, or something unusable, and create_response made
\* the response, with its cookies merged in.  The headers of a raw object are its own.
CreateResponse(i, returned) ==
  /\ uses[i].pc = "callback"
  /\ ~IsCallback => returned = IF Bodies = {} THEN "nothing"
                               ELSE IF Unusable THEN "unusable" ELSE "body"
  /\ IF returned = "unusable"
     THEN uses' = [uses EXCEPT ![i].pc = "failed"] /\ readers' = readers
     ELSE LET reader == IF returned = "nothing" THEN i ELSE Body(i) IN
          /\ uses' = [uses EXCEPT
                ![i].pc = "response", ![i].reader = reader,
                ![i].headers = IF "raw" \in Bodies /\ returned # "nothing" THEN {} ELSE @,
                ![i].cookies = IF OwnJar THEN @ ELSE jar]
          /\ readers' = IF returned = "nothing" THEN [readers EXCEPT ![i].left = 0]
                        ELSE readers
  /\ UNCHANGED <<args, phase, jar, shut, ended, raised>>

-----------------------------------------------------------------------------
(* Reading: _IOReader.read, and the loop of urllib3 that calls it.         *)

Ours(r) == r # Shared   \* an _IOReader, not the program's own object

\* Mutant of Silent: a closed reader is read.
MutSilent(r, n) == n = 0

\* Closed, or asked for zero bytes: empty, and nothing changes.
Silent(r, n) == readers[r].closed \/ n = 0

\* Mutants of Closes: zero bytes are the end, or the end does not close.
MutCloses(got) == TRUE
MutNeverCloses(got) == FALSE

Closes(got) == got = 0

\* Mutant of Got: the data do not end.
MutGot(r, n) == n

Got(r, n) == IF n < readers[r].left THEN n ELSE readers[r].left

\* The body of i is read, up to n bytes.
ReadUpTo(i, n) ==
  LET r == uses[i].reader
      got == IF Silent(r, n) THEN 0 ELSE Got(r, n) IN
  /\ ended' = IF n > 0 /\ got = 0 THEN ended \cup {r} ELSE ended
  /\ IF Silent(r, n) THEN UNCHANGED <<uses, readers, raised>>
     ELSE IF readers[r].closed THEN raised' = TRUE /\ UNCHANGED <<uses, readers>>
     ELSE /\ readers' = [readers EXCEPT ![r] =
                           [left |-> @.left - got, closed |-> Ours(r) /\ Closes(got)]]
          /\ uses' = [uses EXCEPT ![i].given = @ + got]
          /\ raised' = raised

Read(i, n) ==
  /\ uses[i].pc = "response"
  /\ Ours(uses[i].reader) \/ ~readers[uses[i].reader].closed
  /\ ReadUpTo(i, n)
  /\ UNCHANGED <<args, phase, jar, shut>>

Close(i) ==
  /\ uses[i].pc = "response"
  /\ readers' = [readers EXCEPT ![uses[i].reader].closed = TRUE]
  /\ shut' = shut \cup {uses[i].reader}
  /\ UNCHANGED <<args, phase, jar, uses, ended, raised>>

\* iter_content(None), on a body of the library.
StartIterating(i) ==
  /\ uses[i].pc = "response" /\ Ours(uses[i].reader)
  /\ uses' = [uses EXCEPT ![i].pc = "iterating"]
  /\ UNCHANGED <<args, phase, jar, readers, shut, ended, raised>>

\* `while not is_fp_closed(fp): fp.read()`
Iterate(i) ==
  /\ uses[i].pc = "iterating" /\ ~readers[uses[i].reader].closed
  /\ ReadUpTo(i, Size + 1)
  /\ UNCHANGED <<args, phase, jar, shut>>

StopIterating(i) ==
  /\ uses[i].pc = "iterating" /\ readers[uses[i].reader].closed
  /\ uses' = [uses EXCEPT ![i].pc = "response"]
  /\ UNCHANGED <<args, phase, jar, readers, shut, ended, raised>>

-----------------------------------------------------------------------------
Next ==
  \/ Register
  \/ \E i \in Requests :
       \/ GetResponse(i) \/ SetsHeader(i) \/ SetsCookie(i)
       \/ \E returned \in {"body", "nothing", "unusable"} : CreateResponse(i, returned)
       \/ \E n \in 0..Size + 1 : Read(i, n)
       \/ Close(i) \/ StartIterating(i) \/ Iterate(i) \/ StopIterating(i)

Spec == Init /\ [][Next]_vars

\* A loop that has begun goes on; nothing else has to happen.
FairSpec == Spec /\ \A i \in Requests : WF_vars(Iterate(i) \/ StopIterating(i))

-----------------------------------------------------------------------------
(* Properties.                                                             *)

Made(i) == uses[i].pc \in {"response", "iterating"}
Whole(i) == uses[i].given + readers[uses[i].reader].left

\* "If the list is exhausted then the last response will continue to be returned",
\* and with its whole body: what the program has read of a response and what it
\* can still read are the registered content, whoever reads the other responses.
\* Only the object registered as body or raw is used up by the first who reads it.
BodyIsWhole ==
  \A i \in Requests : Made(i) =>
    /\ Whole(i) <= Size
    /\ ~IsShared => Whole(i) \in {0, Size}
    /\ ~IsShared /\ ~IsCallback /\ Bodies # {} => Whole(i) = Size

\* "make a BytesIO look like a HTTPResponse": a reader of the library is closed when
\* the program has closed it or a read that asked for bytes got none, and only then;
\* that read is at the end of the data, unless the program closed the reader before;
\* and a closed reader never raises the ValueError of BytesIO.
ReaderLooksLikeHTTPResponse ==
  /\ ~raised
  /\ \A r \in Requests :
       /\ readers[r].closed <=> r \in shut \cup ended
       /\ r \in ended \ shut => readers[r].left = 0

\* A callback's changes to its context are in its own response, and in no other but
\* through a CookieJar that was registered.
ContextIsFresh ==
  \A i \in Requests :
    /\ uses[i].headers \subseteq {i}
    /\ args.cookies # "jar" => uses[i].cookies \subseteq {i}

\* What registration checks does not fail a request later: a request fails for the
\* registered exc alone, for what a callback returns, or for one of the things that
\* nothing checks, which are headers without copy(), a text that its charset cannot
\* encode, and a json, body or raw of the wrong kind.  It does not fail for content or
\* text of a wrong type, for an exc among other arguments or for an unknown argument.
CheckedArgumentsWork ==
  \A i \in Requests : uses[i].pc = "failed" =>
    \/ args.given = {"exc"}
    \/ /\ {"exc", "unknown"} \cap args.given = {}
       /\ \/ IsCallback
          \/ args.headers = "unfit"
          \/ args.form = "unencodable" /\ {"text", "json"} \cap Bodies # {}
          \/ args.form = "wrong" /\ {"content", "text"} \cap Bodies = {}

\* iter_content(None) ends (gh124), also when the response is one of several.
IterationEnds == \A i \in Requests : uses[i].pc = "iterating" ~> uses[i].pc = "response"
=============================================================================
