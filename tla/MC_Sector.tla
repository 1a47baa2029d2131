---------------------------- MODULE MC_Sector ----------------------------
(* Bounds for SectorUpdate: the constants are model values and small numbers; *)
(* the tickets are interchangeable.                                           *)
EXTENDS SectorUpdate, TLC

\* Three of the combinations of the settings, with each value of each: sealing on
\* the CPU or the GPU, unsealing on one core or more, and synthetic proofs.
MC_Init == UpdateInit /\ ~(multi /\ synth) /\ gpu = (multi \/ synth)

MC_Spec == MC_Init /\ [][Next]_vars

TicketSymmetry == Permutations(Tickets)
=============================================================================
