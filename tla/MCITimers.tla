----------------------------- MODULE MCITimers -----------------------------
(* ITimers for TLC.                                                        *)
EXTENDS ITimers

\* A thread sets a timer of each type, and the real one twice.
MCWorkload ==
    [Thread -> {<<"real", "real">>, <<"prof">>, <<"virtual">>}]
=============================================================================
