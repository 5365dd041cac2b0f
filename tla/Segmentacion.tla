----------------------------- MODULE Segmentacion ------------------------------
(***************************************************************************)
(* FM9, the memory process, under pure segmentation                        *)
(* (src/FunesMemory9/segmentacion_pura.c): the list of holes, the segment  *)
(* table of every process, the buffers of the files being loaded and the   *)
(* physical memory, line by line.  One thread serves every socket, so each *)
(* handler is one step.                                                    *)
(***************************************************************************)
EXTENDS Integers, Sequences, FiniteSets

CONSTANTS
    Pids, Paths,
    Bytes,              \* what a file is made of, FinDeLinea among them
    FinDeLinea,
    CantidadLineas,     \* TAMANIO_MEMORIA / TAMANIO_MAX_LINEA
    TamanioMaxLinea,    \* TAMANIO_MAX_LINEA
    Vacio,              \* a line of memory nobody has written
    Nulo,               \* HuboProblemaConLaLineaParaCpu
    Fuera               \* what lies outside the physical memory

ASSUME SegmentacionAssumption ==
    /\ FinDeLinea \in Bytes
    /\ CantidadLineas \in Nat \ {0} /\ TamanioMaxLinea \in Nat \ {0}

VARIABLES
    huecos,        \* lista_de_huecos
    tablas,        \* tablas_de_segmentos; <<>>: the process has no table
    cargandose,    \* archivos_cargandose; <<>>: no file of the process
    memoria        \* MEMORIA_FISICA

fm9 == <<huecos, tablas, cargandose, memoria>>

Hueco    == [base : Int, limite : Nat]
Segmento == [base : Int, limite : Nat, archivo : Paths]

SegmentacionTypeOK ==
    /\ huecos \in Seq(Hueco)
    /\ tablas \in [Pids -> Seq(Segmento)]
    /\ cargandose \in [Pids -> Seq(Bytes)]
    /\ memoria \in [0 .. CantidadLineas - 1 -> Seq(Bytes) \cup {Vacio}]

SegmentacionInit ==
    /\ huecos = <<[base |-> 0, limite |-> CantidadLineas]>>
    /\ tablas = [d \in Pids |-> <<>>]
    /\ cargandose = [d \in Pids |-> <<>>]
    /\ memoria = [l \in 0 .. CantidadLineas - 1 |-> Vacio]

-----------------------------------------------------------------------------
(* separar_en_lineas.  string_split drops the empty lines.                  *)
Lineas(b) ==
    LET corta(r, c) ==
            IF c # FinDeLinea THEN [r EXCEPT !.actual = Append(@, c)]
            ELSE IF r.actual = <<>> THEN r
            ELSE [hechas |-> Append(r.hechas, r.actual), actual |-> <<>>]
        hasta[k \in 0 .. Len(b)] ==
            IF k = 0 THEN [hechas |-> <<>>, actual |-> <<>>]
            ELSE corta(hasta[k - 1], b[k])
    IN  corta(hasta[Len(b)], FinDeLinea).hechas

LineaExcedida(ls) == \E k \in DOMAIN ls : Len(ls[k]) + 1 > TamanioMaxLinea

(* tomar_hueco: the list is never longer than one hole, because no segment  *)
(* is ever released, so sorting it changes nothing                          *)
HuecoElegido == Head(huecos)

(* Mutant of HayLugar: the size of the hole is not looked at *)
HayLugarSinMedir(ls) == huecos # <<>> /\ ~ LineaExcedida(ls)

(* the tests of cargar_parte_archivo_en_segmento *)
HayLugar(ls) == /\ huecos # <<>>
                /\ ~ LineaExcedida(ls)
                /\ Len(ls) <= HuecoElegido.limite

(* Mutant of HuecosTras: the size of the hole is not reduced *)
HuecosTrasSinAchicar(n) ==
    IF n = HuecoElegido.limite THEN Tail(huecos)
    ELSE [huecos EXCEPT ![1].base = @ + n]

(* actualizar_info_tabla_de_huecos *)
HuecosTras(n) ==
    IF n = HuecoElegido.limite THEN Tail(huecos)
    ELSE [huecos EXCEPT ![1] = [base |-> @.base + n, limite |-> @.limite - n]]

(* the base of the new entry, computed from the hole after its update: a    *)
(* hole that was removed has kept its base                                  *)
NuevaBase(n) ==
    IF n = HuecoElegido.limite THEN HuecoElegido.base - n ELSE HuecoElegido.base

(* Mutant of BufferTrasCargar: the buffer of the process stays *)
BufferTrasCargarQueda(d, b) == [cargandose EXCEPT ![d] = b]

(* borrar_info_archivo_cargandose *)
BufferTrasCargar(d, b) == [cargandose EXCEPT ![d] = <<>>]

(* cargar_parte_archivo_en_segmento, which answers dir.  The errors leave   *)
(* the buffer of the process behind.                                        *)
CargarParte(d, p, datos, total, dir) ==
    LET b  == cargandose[d] \o datos       \* cargar_buffer_archivo
        ls == Lineas(b)
        n  == Len(ls)
    IN  \/ /\ Len(b) < total
           /\ dir = 0
           /\ cargandose' = [cargandose EXCEPT ![d] = b]
           /\ UNCHANGED <<huecos, tablas, memoria>>
        \/ /\ Len(b) >= total /\ ~ HayLugar(ls)
           /\ dir = -1
           /\ cargandose' = [cargandose EXCEPT ![d] = b]
           /\ UNCHANGED <<huecos, tablas, memoria>>
        \/ /\ Len(b) >= total /\ HayLugar(ls)
           /\ dir = Len(tablas[d])
           /\ memoria' = [l \in DOMAIN memoria |->
                             IF l - HuecoElegido.base \in 0 .. n - 1
                             THEN ls[l - HuecoElegido.base + 1]
                             ELSE memoria[l]]
           /\ huecos' = HuecosTras(n)
           /\ tablas' = [tablas EXCEPT ![d] =
                            Append(@, [base |-> NuevaBase(n), limite |-> n,
                                       archivo |-> p])]
           /\ cargandose' = BufferTrasCargar(d, b)

(* darle_una_linea_al_cpu_segmentacion_pura: the line pc, counted from 1,   *)
(* of the first segment of that name                                        *)
LineaParaElCPU(d, p, pc) ==
    LET suyos == {k \in DOMAIN tablas[d] : tablas[d][k].archivo = p}
        s     == tablas[d][CHOOSE k \in suyos : \A j \in suyos : k <= j]
    IN  IF suyos = {} THEN Nulo
        ELSE IF pc > s.limite THEN Nulo
        ELSE IF s.base + pc - 1 \in DOMAIN memoria THEN memoria[s.base + pc - 1]
        ELSE Fuera
=============================================================================
