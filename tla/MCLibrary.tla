------------------------------ MODULE MCLibrary ------------------------------
(***************************************************************************)
(* The small concurrent parts of the library on small instances.  They     *)
(* share no state in the code: each behaviour is of one of them, the scene *)
(* it starts with, and the others stay as they are.                        *)
(***************************************************************************)
EXTENDS TLC, MemoryStat, WsServer, ClipboardSync, TaskRuntime, SharedPreference

VARIABLE scene

libraryVars == <<scene, statVars, wsVars, clipVars, runtimeVars, prefVars>>

Scene == {"map", "stat", "server", "clipboard", "runtime", "preference"}

Init ==
    /\ scene \in Scene
    /\ StatInit /\ WsInit /\ ClipInit /\ RuntimeInit /\ PrefInit

Next ==
    \/ /\ scene = "map" /\ MapNext
       /\ UNCHANGED <<scene, alloc_size, used, due, report,
                      wsVars, clipVars, runtimeVars, prefVars>>
    \/ /\ scene = "stat" /\ StatNext
       /\ UNCHANGED <<scene, wsVars, clipVars, runtimeVars, prefVars>>
    \/ /\ scene = "server" /\ WsNext
       /\ UNCHANGED <<scene, statVars, clipVars, runtimeVars, prefVars>>
    \/ /\ scene = "clipboard" /\ ClipNext
       /\ UNCHANGED <<scene, statVars, wsVars, runtimeVars, prefVars>>
    \/ /\ scene = "runtime" /\ RuntimeNext
       /\ UNCHANGED <<scene, statVars, wsVars, clipVars, prefVars>>
    \/ /\ scene = "preference" /\ PrefNext
       /\ UNCHANGED <<scene, statVars, wsVars, clipVars, runtimeVars>>

Spec == Init /\ [][Next]_libraryVars

\* No definition tells one walker or client from another.
Symmetry == Permutations(Walker) \cup Permutations(Client)
=============================================================================
