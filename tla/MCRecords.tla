------------------------------ MODULE MCRecords ------------------------------
(***************************************************************************)
(* A game's rows from the first event to the public, for TLC: the journal  *)
(* of one process that may die, and the streams and pages that show it.    *)
(* Each is explored in a scene of its own, with the other at rest.         *)
(***************************************************************************)
EXTENDS GameJournal, PublicViews, TLC

VARIABLE scene

recordVars == <<scene, vars, viewVars>>

RecordsInit ==
    /\ scene \in {"journal", "views"}
    /\ Init /\ ViewsInit

RecordsNext ==
    /\ UNCHANGED scene
    /\ \/ scene = "journal" /\ Next /\ UNCHANGED viewVars
       \/ scene = "views" /\ ViewsNext /\ UNCHANGED vars

RecordsSpec == RecordsInit /\ [][RecordsNext]_recordVars

\* Every table and every process of the scenes is what its module says.  What is at rest is
\* as it was in the first state of its own scene.
RecordsTypeOK ==
    CASE scene = "journal" -> TypeOK
      [] scene = "views"   -> ViewsTypeOK

BothWorkers == {"host:1", "host:2"}

BothTeams == {"TOWN", "MAFIA"}

Interchangeable == Permutations(Connections)
=============================================================================
