----------------------------- MODULE RemoteJobsMC -----------------------------
(***************************************************************************)
(* Instances of RemoteJobs: one tool call that two threads of the gateway  *)
(* submit, ask for and cancel; an agent that dies and is started again.    *)
(***************************************************************************)
EXTENDS RemoteJobs

CONSTANTS a, client1, client2, agent1

MCJob == {a}
MCClient == {client1, client2}
MCAgent == {agent1}
=============================================================================
