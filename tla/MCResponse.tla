----------------------------- MODULE MCResponse -----------------------------
(* Instances of Response for TLC.                                             *)
EXTENDS Response

CONSTANTS q1, q2

BaseArg == [given |-> {}, form |-> "value", headers |-> "none", cookies |-> "none",
            list |-> "no", real |-> FALSE]

\* Each body argument in each form, with each kind of cookies.
GoodArgs ==
  {[BaseArg EXCEPT !.given = {b}, !.form = f, !.headers = "dict", !.cookies = k] :
     b \in BodyArgs, f \in {"value", "callback"}, k \in {"none", "dict", "jar"}}

\* Bodies and headers that are of no use to a request, checked or not.
BadArgs ==
  {[BaseArg EXCEPT !.given = {b}, !.form = f] :
     b \in BodyArgs, f \in {"wrong", "unencodable"}} \cup
  {[BaseArg EXCEPT !.given = g, !.form = f, !.headers = "unfit"] :
     g \in {{}, {"text"}, {"exc"}}, f \in {"value", "callback"}}

\* Combinations that are refused, and the ones next to them that are not.
OddArgs ==
  {[BaseArg EXCEPT !.given = g, !.headers = h, !.list = l, !.real = r] :
     g \in {{}, {"exc"}, {"exc", "text"}, {"exc", "json_encoder"}, {"text", "json"},
            {"unknown"}, {"json", "json_encoder"}},
     h \in {"none", "dict"}, l \in {"no", "only", "with_others"}, r \in BOOLEAN}

MCArgs == GoodArgs \cup BadArgs \cup OddArgs
=============================================================================
