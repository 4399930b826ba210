--------------------------- MODULE MCWebExecution ---------------------------
EXTENDS WebExecution

MCPlans == {<<"input", "input">>, <<"click", "input">>, <<"click", "verify">>,
            <<"navigate", "input", "verify">>}
=============================================================================
