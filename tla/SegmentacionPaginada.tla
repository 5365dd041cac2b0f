-------------------------- MODULE SegmentacionPaginada --------------------------
(***************************************************************************)
(* FM9 under paged segmentation (src/FunesMemory9/segmentacion_paginada.c):*)
(* the frames that are free, the segment table of every process with the   *)
(* frames of each segment's pages, and what the handler leaves behind.     *)
(* The memory, its lines and the buffers are those of Segmentacion.        *)
(***************************************************************************)
EXTENDS Segmentacion, FiniteSetsExt, SequencesExt

CONSTANTS
    LineasPorPagina,    \* TAMANIO_PAGINA / TAMANIO_MAX_LINEA
    Basura              \* a byte that is not of the file

ASSUME SegmentacionPaginadaAssumption ==
    /\ LineasPorPagina \in Nat \ {0}
    /\ Basura \in Bytes \ {FinDeLinea}

VARIABLES
    marcosLibres,   \* the marks of bitmap_marcos_libres with disponibilidad 0
    paginadas,      \* tablas_de_segmentos; the k-th frame is that of page k
    sueltos,        \* the processes whose buffer was freed and is still listed
    caidos          \* the processes of the system that are down

paginacion == <<marcosLibres, paginadas, sueltos>>

Marcos == 0 .. CantidadLineas \div LineasPorPagina - 1

SegmentoPaginado == [archivo : Paths, limite : Nat, marcos : Seq(Marcos)]

PaginadaTypeOK ==
    /\ marcosLibres \subseteq Marcos
    /\ paginadas \in [Pids -> Seq(SegmentoPaginado)]
    /\ sueltos \subseteq Pids

PaginadaInit ==
    /\ marcosLibres = Marcos
    /\ paginadas = [d \in Pids |-> <<>>]
    /\ sueltos = {}

-----------------------------------------------------------------------------
(* cargar_buffer_archivo.  The entry of a process stays in                  *)
(* archivos_cargandose after its file is loaded, and points to memory that  *)
(* separar_en_lineas freed: what is read there is anything, the old bytes   *)
(* or others.                                                               *)
Buffers(d, datos) ==
    {cargandose[d] \o datos} \cup
    (IF d \in sueltos THEN {[k \in DOMAIN cargandose[d] |-> Basura] \o datos} ELSE {})

Paginas(n) == (n + LineasPorPagina - 1) \div LineasPorPagina

HayMarcos(ls) ==
    /\ marcosLibres # {}
    /\ ~ LineaExcedida(ls)
    /\ Len(ls) <= Cardinality(marcosLibres) * LineasPorPagina

(* Mutant of MarcosAUsar: the bitmap is not looked at *)
MarcosAUsarSinMirar(n) == [k \in 1 .. Paginas(n) |-> k]

(* copiar_archivo_en_marcos_libres counts before it takes: page k goes to   *)
(* the free frame that has k free frames before it, so that the first of    *)
(* them is skipped                                                          *)
MarcosAUsar(n) ==
    [k \in 1 .. Paginas(n) |->
        CHOOSE m \in marcosLibres : Cardinality({x \in marcosLibres : x < m}) = k]

(* Where the handler follows a NULL: the list of free frames is one short,  *)
(* or the process has a table and the file is not in it.                    *)
SigueUnNulo(d, p, n) ==
    /\ n > 0
    /\ \/ Paginas(n) >= Cardinality(marcosLibres)
       \/ /\ paginadas[d] # <<>>
          /\ \A k \in DOMAIN paginadas[d] : paginadas[d][k].archivo # p

(* actualizar_tabla_segmentos_paginados, page after page.  The limit is     *)
(* that of the first page.                                                  *)
TablaTras(d, p, n) ==
    LET suyos == {k \in DOMAIN paginadas[d] : paginadas[d][k].archivo = p}
    IN  IF suyos = {}
        THEN <<[archivo |-> p, limite |-> Min({n, LineasPorPagina}),
                marcos |-> MarcosAUsar(n)]>>
        ELSE [paginadas[d] EXCEPT ![Min(suyos)].marcos = @ \o MarcosAUsar(n)]

(* Mutant of CopiarEnMarcos: every page is copied from the start *)
CopiarEnMarcosSinOffset(ls, n) ==
    [l \in DOMAIN memoria |->
        LET k == SelectInSeq(MarcosAUsar(n), LAMBDA m : m = l \div LineasPorPagina)
            x == (l % LineasPorPagina) + 1
        IN  IF k = 0 THEN memoria[l] ELSE IF x <= n THEN ls[x] ELSE <<Basura>>]

(* A page is copied whole: after the last line comes what follows it in the *)
(* heap.                                                                    *)
CopiarEnMarcos(ls, n) ==
    [l \in DOMAIN memoria |->
        LET k == SelectInSeq(MarcosAUsar(n), LAMBDA m : m = l \div LineasPorPagina)
            x == (k - 1) * LineasPorPagina + (l % LineasPorPagina) + 1
        IN  IF k = 0 THEN memoria[l] ELSE IF x <= n THEN ls[x] ELSE <<Basura>>]

CaeFM9 ==
    /\ caidos' = caidos \cup {"FM9"}
    /\ UNCHANGED <<fm9, paginacion>>

(* cargar_parte_archivo_en_segmento_paginado, which answers dir.  When FM9  *)
(* falls, dir is what the DAM finds in a variable nobody wrote.             *)
CargarPartePaginada(d, p, datos, total, dir) ==
    \/ /\ d \in sueltos                    \* realloc of what was freed
       /\ dir \in {-1, -2}
       /\ CaeFM9
    \/ \E b \in Buffers(d, datos) :
        LET ls == Lineas(b)
            n  == Len(ls)
        IN  \/ /\ Len(b) < total
               /\ dir = 0
               /\ cargandose' = [cargandose EXCEPT ![d] = b]
               /\ sueltos' = sueltos \ {d}
               /\ UNCHANGED <<huecos, tablas, memoria, marcosLibres, paginadas, caidos>>
            \/ /\ Len(b) >= total /\ ~ HayMarcos(ls)
               /\ dir = -1
               /\ cargandose' = [cargandose EXCEPT ![d] = b]
               /\ sueltos' = IF marcosLibres = {} \/ LineaExcedida(ls)
                             THEN sueltos \ {d} ELSE sueltos \cup {d}
               /\ UNCHANGED <<huecos, tablas, memoria, marcosLibres, paginadas, caidos>>
            \/ /\ Len(b) >= total /\ HayMarcos(ls) /\ SigueUnNulo(d, p, n)
               /\ dir \in {-1, -2}
               /\ CaeFM9
            \/ /\ Len(b) >= total /\ HayMarcos(ls) /\ ~ SigueUnNulo(d, p, n)
               /\ dir = IF n = 0 THEN -1 ELSE 0
               /\ cargandose' = [cargandose EXCEPT ![d] = b]
               /\ sueltos' = sueltos \cup {d}
               /\ IF n = 0 THEN UNCHANGED <<memoria, marcosLibres, paginadas>>
                  ELSE /\ memoria' = CopiarEnMarcos(ls, n)
                       /\ marcosLibres' = marcosLibres \ ToSet(MarcosAUsar(n))
                       /\ paginadas' = [paginadas EXCEPT ![d] = TablaTras(d, p, n)]
               /\ UNCHANGED <<huecos, tablas, caidos>>

(* What the console's dump shows of segment s: the lines of its pages, one  *)
(* page after another                                                       *)
LineasDelSegmento(s) ==
    [x \in 1 .. Len(s.marcos) * LineasPorPagina |->
        memoria[s.marcos[(x - 1) \div LineasPorPagina + 1] * LineasPorPagina
                  + ((x - 1) % LineasPorPagina)]]
=============================================================================
