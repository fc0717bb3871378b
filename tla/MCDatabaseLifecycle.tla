------------------------ MODULE MCDatabaseLifecycle ------------------------
(* Two commands, one installation that is upgraded once.                     *)
EXTENDS DatabaseLifecycle

CONSTANTS entry, export

TwoCommands == {entry, export}
=============================================================================
