----------------------------- MODULE MCChatTurn -----------------------------
(* A chat session with a few earlier messages, two turns at a time and a    *)
(* team of two agents, one of which has MCP servers.                        *)
EXTENDS ChatTurn

MCTeam == <<1, 2>>
MCWithMcp == {2}
=============================================================================
