--------------------------- MODULE MCTerminalShell ---------------------------
(* The window and its jobs alone, over a project that does not change.      *)
EXTENDS TerminalShell

ShellOnly == project = 0 /\ ShellInit

ShellSpec == ShellOnly /\ [][TasksNext \/ WindowNext]_<<project, tvars>>
=============================================================================
