--------------------------------- MODULE Cpu ---------------------------------
(***************************************************************************)
(* A CPU process (src/CPU/CPUmain.c): one thread that receives a DTB from  *)
(* SAFA and either performs the "dummy" operation (ask the DAM to load the *)
(* script) or runs up to QUANTUM sentences of the script, read one by one  *)
(* from FM9.  Nothing stops the quantum loop early: a sentence that asks   *)
(* SAFA to block or abort the DTB is followed by the next sentence.        *)
(* FM9 serves every connection in turn, so the two requests that make it   *)
(* wait for bytes nobody sends stop it for everybody (FM9_colgado).        *)
(***************************************************************************)
EXTENDS Red

CONSTANTS
    QUANTUM,      \* configSAFA.quantum, carried by every DTB
    Sentencias    \* the kinds of sentence the scripts contain

ASSUME CpuAssumption ==
    /\ QUANTUM \in Nat \ {0}
    /\ Sentencias \subseteq {"concentrar", "abrir", "crear", "borrar", "flush",
                             "asignar", "close", "wait", "signal", "fin",
                             "noAbierto"}

VARIABLES
    cpu,          \* what each CPU is doing, and its copy of the DTB
    FM9_colgado

EstadoCPU == [en       : {"espera", "dummy", "lee", "esperaDAM", "colgada"},
              dtb      : DTB \cup {NULO},
              abiertos : SUBSET Path,
              resto    : 0 .. QUANTUM]

CpuTypeOK == /\ cpu \in [CPUS -> EstadoCPU]
             /\ \A c \in CPUS : cpu[c].en \in {"dummy", "lee", "esperaDAM"} =>
                                  cpu[c].dtb \in DTB
             /\ \A c \in CPUS : cpu[c].en \in {"lee", "esperaDAM"} =>
                                  cpu[c].resto >= 1
             /\ FM9_colgado \in BOOLEAN

Libre == [en |-> "espera", dtb |-> NULO, abiertos |-> {}, resto |-> 0]

CpuInit == /\ cpu = [c \in CPUS |-> Libre]
           /\ FM9_colgado = FALSE

-----------------------------------------------------------------------------
AvisarSAFA(c, tipo) ==
    cpuASafa' = Enviar(cpuASafa, c, [tipo |-> tipo, id |-> cpu[c].dtb])

PedirADAM(c, tipo, i, path) ==
    cpuADam' = Enviar(cpuADam, c, [tipo |-> tipo, id |-> i, path |-> path])

(* the end of one turn of the quantum loop *)
Sigue(c) ==
    \/ cpu[c].resto = 1 /\ cpu' = [cpu EXCEPT ![c] = Libre]
    \/ /\ cpu[c].resto > 1
       /\ cpu' = [cpu EXCEPT ![c] = [cpu[c] EXCEPT !.en = "lee",
                                                   !.resto = cpu[c].resto - 1]]

Pasar(c, en) == cpu' = [cpu EXCEPT ![c].en = en]

-----------------------------------------------------------------------------
(* recibir_dtb_y_delegar, iniciar_operacion_dummy.  A message with fewer   *)
(* files than it announces leaves the CPU waiting for the rest.            *)
RecibirDTB(c) ==
    /\ cpu[c].en = "espera"
    /\ Hay(safaACpu, c)
    /\ safaACpu' = Recibir(safaACpu, c)
    /\ LET m == Head(safaACpu[c])
           d == [en |-> "lee", dtb |-> m.id, abiertos |-> ToSet(m.archivos),
                 resto |-> QUANTUM]
       IN  \/ /\ Len(m.archivos) < m.cantidad
              /\ cpu' = [cpu EXCEPT ![c] = [d EXCEPT !.en = "colgada"]]
              /\ UNCHANGED cpuADam
           \/ /\ Len(m.archivos) = m.cantidad /\ m.ini = 0
              /\ cpu' = [cpu EXCEPT ![c] = [d EXCEPT !.en = "dummy"]]
              /\ PedirADAM(c, "AbrirPathParaProceso", m.id, Escriptorio)
           \/ /\ Len(m.archivos) = m.cantidad /\ m.ini = 1
              /\ cpu' = [cpu EXCEPT ![c] = d]
              /\ UNCHANGED cpuADam
    /\ UNCHANGED <<FM9_colgado, cpuASafa, damACpu, damASafa>>

(* the DAM has started: desalojar_dtb *)
DesalojarDummy(c) ==
    /\ cpu[c].en = "dummy"
    /\ Hay(damACpu, c)
    /\ damACpu' = Recibir(damACpu, c)
    /\ AvisarSAFA(c, "BloquearDTB")
    /\ cpu' = [cpu EXCEPT ![c] = Libre]
    /\ UNCHANGED <<FM9_colgado, safaACpu, cpuADam, damASafa>>

(* the same acknowledgement inside the quantum loop *)
DesalojarDTB(c) ==
    /\ cpu[c].en = "esperaDAM"
    /\ Hay(damACpu, c)
    /\ damACpu' = Recibir(damACpu, c)
    /\ AvisarSAFA(c, "BloquearDTB")
    /\ Sigue(c)
    /\ UNCHANGED <<FM9_colgado, safaACpu, cpuADam, damASafa>>

-----------------------------------------------------------------------------
(* One turn of proceder_con_lectura_escriptorio: FM9 delivers a sentence    *)
(* and the CPU runs it.                                                     *)
Lee(c, s) == /\ cpu[c].en = "lee"
             /\ s \in Sentencias
             /\ ~ FM9_colgado

(* CONCENTRAR, and ABRIR of a file that is already open *)
Concentrar(c) ==
    /\ \/ Lee(c, "concentrar")
       \/ Lee(c, "abrir") /\ cpu[c].abiertos # {}
    /\ Sigue(c)
    /\ UNCHANGED <<FM9_colgado, red>>

Abrir(c, path) ==
    /\ Lee(c, "abrir")
    /\ path \notin cpu[c].abiertos
    /\ PedirADAM(c, "AbrirPathParaProceso", cpu[c].dtb, path)
    /\ Pasar(c, "esperaDAM")
    /\ UNCHANGED <<FM9_colgado, safaACpu, cpuASafa, damACpu, damASafa>>

Crear(c, path) ==
    /\ Lee(c, "crear")
    /\ PedirADAM(c, "CrearLineasEnArchivo", cpu[c].dtb, path)
    /\ Pasar(c, "esperaDAM")
    /\ UNCHANGED <<FM9_colgado, safaACpu, cpuASafa, damACpu, damASafa>>

(* BORRAR, and FLUSH of an open file: the request reaches the DAM short *)
Borrar(c, path) ==
    /\ \/ /\ Lee(c, "borrar")
          /\ PedirADAM(c, "EliminarArchivoDeDisco", cpu[c].dtb, path)
       \/ /\ Lee(c, "flush") /\ path \in cpu[c].abiertos
          /\ PedirADAM(c, "FlushDeArchivoADisco", cpu[c].dtb, path)
    /\ Pasar(c, "esperaDAM")
    /\ UNCHANGED <<FM9_colgado, safaACpu, cpuASafa, damACpu, damASafa>>

(* ASIGNAR, FLUSH or CLOSE of a file that is not open, and an ASIGNAR that  *)
(* FM9 refuses: informar_a_safa_que_aborte_DTB                              *)
AbortarSentencia(c) ==
    /\ Lee(c, "noAbierto")
    /\ AvisarSAFA(c, "AbortarDTB")
    /\ Sigue(c)
    /\ UNCHANGED <<FM9_colgado, safaACpu, cpuADam, damACpu, damASafa>>

(* WAIT: whatever SAFA does with the request, no answer ever comes back *)
RetenerRecurso(c) ==
    /\ Lee(c, "wait")
    /\ AvisarSAFA(c, "RetenerRecurso")
    /\ Pasar(c, "colgada")
    /\ UNCHANGED <<FM9_colgado, safaACpu, cpuADam, damACpu, damASafa>>

LiberarRecurso(c) ==
    /\ Lee(c, "signal")
    /\ AvisarSAFA(c, "LiberarRecurso")
    /\ Sigue(c)
    /\ UNCHANGED <<FM9_colgado, safaACpu, cpuADam, damACpu, damASafa>>

(* ASIGNAR of an open file: FM9 writes the line and does not answer.        *)
(* CLOSE of an open file, and the end of the script: FM9 itself waits.      *)
EsperarAFM9(c) ==
    /\ \/ /\ Lee(c, "asignar") /\ cpu[c].abiertos # {}
          /\ UNCHANGED FM9_colgado
       \/ /\ \/ Lee(c, "close") /\ cpu[c].abiertos # {}
             \/ Lee(c, "fin")
          /\ FM9_colgado' = TRUE
    /\ Pasar(c, "colgada")
    /\ UNCHANGED red
=============================================================================
