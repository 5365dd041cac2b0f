--------------------------- MODULE MCPlanificacion ---------------------------
(* Instances of Planificacion for TLC *)
EXTENDS Turnos, TLC

CONSTANTS c1, c2, esc, arch, boca

(* "finalizar" adds a NULL to "terminados" whenever its DTB has moved, and   *)
(* nothing ever takes a DTB out of "terminados": the lists are cut at the   *)
(* number of scripts.                                                       *)
Cota == /\ \A q \in Colas : Len(cola[q]) <= MaxDTB
        /\ Len(cpu_libres) <= Cardinality(CPUS)
=============================================================================
