----------------------------- MODULE MCMcpOwner -----------------------------
(* The finite domain of mcp_owner_model.py, line 5.                        *)
EXTENDS McpOwner
MCTimes == {29, 30, 31, 39, 40, 49, 50, 59, 60}
=============================================================================
