---------------------------- MODULE MCLifecycle ----------------------------
(* Instances of Lifecycle for TLC.                                            *)
EXTENDS Lifecycle

CONSTANTS w, x, test, helper, mock

\* Mocker(), and Mocker(kw='mock', real_http=True, case_sensitive=..., adapter=...).
MCDecorators == {[kw |-> None, real_http |-> FALSE, sensitive |-> None, private |-> {}],
                 [kw |-> mock, real_http |-> TRUE, sensitive |-> FALSE,
                  private |-> {"adapter"}]}
=============================================================================
