---- MODULE MCAgentLoop ----
(* Small instance of AgentLoop: one tool with a one-piece name, so a name  *)
(* sent twice, in two pieces, is no tool.                                  *)
EXTENDS AgentLoop
CONSTANTS name
MCNames == {name}
MCTools == {<<name>>}
====
