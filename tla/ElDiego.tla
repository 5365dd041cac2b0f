------------------------------- MODULE ElDiego -------------------------------
(***************************************************************************)
(* "El Diego", the DAM process (src/DAM/src/ConexionesEntrantes.c), as the *)
(* scheduler sees it: a single thread that takes one request of one CPU    *)
(* at a time, acknowledges it to the CPU, works with MDJ and FM9, and      *)
(* sends SAFA exactly one answer.  What it does with MDJ and FM9 is        *)
(* reduced to what can come out of it.                                     *)
(***************************************************************************)
EXTENDS Red

VARIABLE dam     \* where the thread is, and the answer it will give

(* "respuesta" has the shape of an answer even while none is pending *)
DamTypeOK == dam \in [en : {"select", "carga", "informa", "colgado"},
                      respuesta : RespuestaDAM]

Respuesta(op, res, r) == [op |-> op, res |-> res, id |-> r.id, path |-> r.path]

DamInit == dam = [en |-> "select",
                  respuesta |-> [op |-> "AbrirPath", res |-> "NoFinalizado",
                                 id |-> 1, path |-> Escriptorio]]

Toma(c, tipo) == /\ dam.en = "select"
                 /\ Hay(cpuADam, c)
                 /\ Head(cpuADam[c]).tipo = tipo
                 /\ cpuADam' = Recibir(cpuADam, c)

(* Mutant of OperacionAbrirPath: SAFA is not told of a missing path *)
OperacionAbrirPathSinAviso(c) ==
    /\ Toma(c, "AbrirPathParaProceso")
    /\ damACpu' = Enviar(damACpu, c, "Ejecutandose")
    /\ \E en \in {"carga", "select"} :
          dam' = [en |-> en,
                  respuesta |-> Respuesta("AbrirPath", "NoFinalizado",
                                          Head(cpuADam[c]))]
    /\ UNCHANGED <<safaACpu, cpuASafa, damASafa>>

(* operacion_abrir_path: acknowledge, then ask MDJ whether the path exists *)
OperacionAbrirPath(c) ==
    /\ Toma(c, "AbrirPathParaProceso")
    /\ damACpu' = Enviar(damACpu, c, "Ejecutandose")
    /\ \E en \in {"carga", "informa"} :
          dam' = [en |-> en,
                  respuesta |-> Respuesta("AbrirPath", "NoFinalizado",
                                          Head(cpuADam[c]))]
    /\ UNCHANGED <<safaACpu, cpuASafa, damASafa>>

(* tratar_validez_archivo: the file goes to FM9, which may have no room *)
CargarEnFM9(FM9_colgado) ==
    /\ dam.en = "carga"
    /\ ~ FM9_colgado
    /\ \E res \in Resultado :
          dam' = [en |-> "informa", respuesta |-> [dam.respuesta EXCEPT !.res = res]]
    /\ UNCHANGED red

(* operacion_crear_archivo: the request is received through an             *)
(* uninitialised pointer; the process goes on, or never answers again.     *)
OperacionCrearArchivo(c) ==
    /\ Toma(c, "CrearLineasEnArchivo")
    /\ \/ /\ dam' = [dam EXCEPT !.en = "colgado"]
          /\ UNCHANGED damACpu
       \/ /\ damACpu' = Enviar(damACpu, c, "Ejecutandose")
          /\ \E res \in Resultado :
                dam' = [en |-> "informa",
                        respuesta |-> Respuesta("CrearLineasEnArchivo", res,
                                                Head(cpuADam[c]))]
    /\ UNCHANGED <<safaACpu, cpuASafa, damASafa>>

(* operacion_eliminar_archivo and operacion_flush_archivo: the request is  *)
(* shorter than what recv waits for.                                       *)
OperacionIncompleta(c) ==
    /\ \/ Toma(c, "EliminarArchivoDeDisco")
       \/ Toma(c, "FlushDeArchivoADisco")
    /\ dam' = [dam EXCEPT !.en = "colgado"]
    /\ UNCHANGED <<safaACpu, cpuASafa, damACpu, damASafa>>

(* informar_operacion_..._exitosa / _erronea *)
InformarASafa ==
    /\ dam.en = "informa"
    /\ damASafa' = Append(damASafa, dam.respuesta)
    /\ dam' = [dam EXCEPT !.en = "select"]
    /\ UNCHANGED <<safaACpu, cpuASafa, cpuADam, damACpu>>
=============================================================================
