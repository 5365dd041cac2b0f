----------------------------- MODULE FunesMemory9 ------------------------------
(***************************************************************************)
(* FM9 as the DAM sees it: MODO_EJECUCION, read from its configuration     *)
(* file, chooses the functions that serve every message                    *)
(* (src/FunesMemory9/FunesMemory9.c).                                      *)
(***************************************************************************)
EXTENDS SegmentacionPaginada

CONSTANT Modos        \* the values of MODO_EJECUCION to start with

ASSUME FunesMemory9Assumption == Modos \subseteq {"SEG", "SPA", "TPI"}

VARIABLE modo         \* MODO_EJECUCION

memoriaFM9 == <<fm9, paginacion, modo>>

FM9TypeOK ==
    /\ SegmentacionTypeOK /\ PaginadaTypeOK
    /\ modo \in Modos

FM9Init ==
    /\ SegmentacionInit /\ PaginadaInit
    /\ modo \in Modos

(* crear_estructuras_esquema has run; interpretar_mensaje_del_diego calls   *)
(* cargar_parte_archivo[MODO_EJECUCION].  The functions of the inverted     *)
(* page table are empty: nobody answers.                                    *)
CargarParteEnMemoria(d, p, datos, total, dir) ==
    /\ "FM9" \notin caidos
    /\ \/ /\ modo = "SEG"
          /\ CargarParte(d, p, datos, total, dir)
          /\ UNCHANGED <<paginacion, caidos>>
       \/ /\ modo = "SPA"
          /\ CargarPartePaginada(d, p, datos, total, dir)
    /\ UNCHANGED modo
=============================================================================
