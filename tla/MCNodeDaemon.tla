---------------------------- MODULE MCNodeDaemon ----------------------------
(* Configurations with and without a subsystem that is listed twice.       *)
EXTENDS NodeDaemon

MCConfigs == {<<"consensus", "p2p", "storage">>, <<"consensus", "p2p", "consensus">>}
=============================================================================
