----------------------------- MODULE MCMcpSetup -----------------------------
(* The finite domain of mcp_setup_model.py: both roles, both capacities.   *)
EXTENDS McpSetup
MCTicks == {29999, 30000, 30001}
=============================================================================
