----------------------------- MODULE MCManager -----------------------------
EXTENDS StateManager

\* Beginning "b" registers "c", as CfgPlatform registers FolderSelect.
MCRegisters == [n \in Name |-> IF n = "b" THEN {"c"} ELSE {}]
=============================================================================
