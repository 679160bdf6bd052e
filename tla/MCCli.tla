------------------------------- MODULE MCCli -------------------------------
(***************************************************************************)
(* One program that uses every handler, its reporter, and one thread of    *)
(* the test suites.                                                        *)
(***************************************************************************)
EXTENDS Cli

CONSTANTS c1, a1

MCClients == {c1}
MCAgents == {a1}
MCThreads == (MCClients \X {"main", "rep"}) \cup MCAgents
\* all of them first, then what meets a reporter or an answer left behind
MCTypable(last, ended) ==
    CASE ended = None -> DOMAIN Table
      [] last # None /\ last.policy = "start" ->
            {"show signal", "show signal start", "show signal stop", "exit"}
      [] last # None /\ last.policy = "shell" -> {"show temp"}
      [] OTHER -> {}
MCBudget == [x \in MCClients |-> 2] @@ [x \in MCAgents |-> 1]
MCSendable == {"MIC", "BARE", "SIMPLE", "CAPI", "TEST"}
=============================================================================
