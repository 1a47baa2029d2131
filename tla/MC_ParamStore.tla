--------------------------- MODULE MC_ParamStore ---------------------------
(***************************************************************************)
(* Without paramfetch, two threads of the API in one process race with a   *)
(* process that generates parameters, or two generating processes race;    *)
(* with paramfetch, a thread of the API reads what it replaces.  The       *)
(* manifest only matters when it is checked.                               *)
(***************************************************************************)
EXTENDS ParamStore

CONSTANTS a1, a2, g1, g2

MC_Threads == {a1, a2, g1, g2}
MC_Process == [t \in MC_Threads |-> CASE t = g1 -> 2 [] t = g2 -> 3 [] OTHER -> 1]
MC_Rng == {g1, g2}

Callers == {t \in MC_Threads : calls[t] = 0}

MC_Init ==
    /\ Init
    /\ ~checking => manifest = {"params", "vk", "srs"}
    /\ \/ fpc = "off" /\ Callers \in {{a1, a2, g1}, {g1, g2}}
       \/ fpc = "check" /\ Callers = {a1}

MC_Spec == MC_Init /\ [][Next]_vars /\ \A t \in Threads : WF_vars(Thread(t))
=============================================================================
