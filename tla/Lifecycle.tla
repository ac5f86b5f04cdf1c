----------------------------- MODULE Lifecycle ------------------------------
(* The states of a node and the transitions between them                    *)
(* (kai-os/node/src/lifecycle.rs).                                          *)

\* Mutant: a node that is Degraded may not shut down.
CanTransitionOnlyHealthy(from, to) ==
    <<from, to>> \in {<<"Init", "Boot">>, <<"Boot", "Running">>, <<"Boot", "Shutdown">>,
                      <<"Running", "Degraded">>, <<"Running", "Shutdown">>,
                      <<"Degraded", "Running">>, <<"Shutdown", "Stopped">>}

CanTransition(from, to) ==
    <<from, to>> \in {<<"Init", "Boot">>, <<"Init", "Shutdown">>,
                      <<"Boot", "Running">>, <<"Boot", "Degraded">>,
                      <<"Boot", "Shutdown">>,
                      <<"Running", "Degraded">>, <<"Running", "Shutdown">>,
                      <<"Degraded", "Running">>, <<"Degraded", "Shutdown">>,
                      <<"Shutdown", "Stopped">>}

\* Lifecycle::transition; an illegal transition is an error and changes nothing.
Transition(from, to) == IF CanTransition(from, to) THEN to ELSE from
=============================================================================
