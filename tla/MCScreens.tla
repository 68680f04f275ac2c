----------------------------- MODULE MCScreens -----------------------------
EXTENDS Screens

\* SconfigPlatform:Begin registers the folder panel.
MCRegisters == [n \in Name |-> IF n = "CfgPlatform" THEN {"FolderSelect"} ELSE {}]
=============================================================================
