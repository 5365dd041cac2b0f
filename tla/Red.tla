--------------------------------- MODULE Red ---------------------------------
(***************************************************************************)
(* The TCP connections between the processes that schedule scripts (SAFA,  *)
(* the CPUs and "El Diego", the DAM), at the level of whole protocol       *)
(* messages: one FIFO per direction of each connection.  Two connections   *)
(* are never ordered with respect to each other, which is where most of    *)
(* the interesting interleavings of the system come from.                  *)
(***************************************************************************)
EXTENDS Naturals, Sequences, FiniteSets, SequencesExt

CONSTANTS
    CPUS,         \* the CPU processes
    MaxDTB,       \* bound: how many scripts the operator submits
    Archivos,     \* the paths a script may open
    Escriptorio   \* the path of the script itself (one name stands for all)

(* the CPUs are processes, and as many as connect to SAFA *)
ASSUME RedAssumption ==
    /\ IsFiniteSet(CPUS)
    /\ MaxDTB \in Nat \ {0}
    /\ Escriptorio \notin Archivos

DTB  == 1 .. MaxDTB
NULO == 0                       \* a NULL tp_DTB
Path == Archivos \cup {Escriptorio}

(* prot_enviar_SAFA_CPU_DTB announces "cantidad" open files and then sends *)
(* the elements of "archivos", which may be fewer.                         *)
MensajeDTB == [id : DTB, ini : {0, 1}, cantidad : Nat, archivos : Seq(Path)]

MensajeCPU == [tipo : {"BloquearDTB", "AbortarDTB",
                       "RetenerRecurso", "LiberarRecurso"},
               id   : DTB]

PedidoDAM == [tipo : {"AbrirPathParaProceso", "CrearLineasEnArchivo",
                      "EliminarArchivoDeDisco", "FlushDeArchivoADisco"},
              id   : DTB,
              path : Path]

Resultado == {"FinalizadoOk", "NoFinalizado"}

RespuestaDAM == [op   : {"AbrirPath", "CrearLineasEnArchivo",
                         "EliminarArchivoDeDisco", "FlushDeArchivoADisco"},
                 res  : Resultado,
                 id   : DTB,
                 path : Path]

VARIABLES
    safaACpu,     \* [CPUS -> Seq(MensajeDTB)]
    cpuASafa,     \* [CPUS -> Seq(MensajeCPU)]
    cpuADam,      \* [CPUS -> Seq(PedidoDAM)]
    damACpu,      \* [CPUS -> Seq({"Ejecutandose"})]
    damASafa      \* Seq(RespuestaDAM)

red == <<safaACpu, cpuASafa, cpuADam, damACpu, damASafa>>

RedTypeOK ==
    /\ safaACpu \in [CPUS -> Seq(MensajeDTB)]
    /\ cpuASafa \in [CPUS -> Seq(MensajeCPU)]
    /\ cpuADam  \in [CPUS -> Seq(PedidoDAM)]
    /\ damACpu  \in [CPUS -> Seq({"Ejecutandose"})]
    /\ damASafa \in Seq(RespuestaDAM)

RedInit ==
    /\ safaACpu = [c \in CPUS |-> <<>>]
    /\ cpuASafa = [c \in CPUS |-> <<>>]
    /\ cpuADam  = [c \in CPUS |-> <<>>]
    /\ damACpu  = [c \in CPUS |-> <<>>]
    /\ damASafa = <<>>

-----------------------------------------------------------------------------
(* A full header-plus-body send appends to one connection; a receive takes *)
(* the oldest message of one connection.                                   *)
Enviar(canal, c, m) == [canal EXCEPT ![c] = Append(@, m)]
Recibir(canal, c)   == [canal EXCEPT ![c] = Tail(@)]
Hay(canal, c)       == canal[c] # <<>>
=============================================================================
