---------------------------- MODULE MCAgentLink -----------------------------
(* Instance of AgentLink for TLC: two tunnels, so that one may outlive the    *)
(* connection it stood for while the next is already there.                  *)
EXTENDS AgentLink
=============================================================================
