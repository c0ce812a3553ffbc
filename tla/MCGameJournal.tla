--------------------------- MODULE MCGameJournal ---------------------------
(***************************************************************************)
(* A game of two phases, two worker ids, one of them live at a time or     *)
(* both.                                                                   *)
(***************************************************************************)
EXTENDS GameJournal

MCWorkers == {"host:1", "host:2"}

MCWinners == {"TOWN", "MAFIA"}
=============================================================================
