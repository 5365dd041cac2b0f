-------------------------------- MODULE Sistema --------------------------------
(***************************************************************************)
(* The five programs together: in which order they connect and greet each  *)
(* other (ElDiego.c, CPUmain.c, escuchar() of SAFA, comunicarse_con_dam()  *)
(* of FM9, the listener of MDJ), what each does when another ends, and     *)
(* between the two the transfers of Transferencia.  A server takes its     *)
(* clients one at a time and waits for the greeting of the one it took.    *)
(***************************************************************************)
EXTENDS Transferencia

CONSTANTS
    Cpus,
    Nadie,
    Primera,          \* bound: the process and the file of an early opening
    MaxMuertes        \* bound: processes ended from outside

ASSUME SistemaAssumption ==
    /\ MaxMuertes \in Nat /\ Nadie \notin Cpus /\ Primera \in Pids \X Paths
    /\ Cpus \cap {"MDJ", "FM9", "SAFA", "DAM"} = {}

VARIABLES
    lanzados,      \* the processes started so far
    paso,          \* which of its steps a client is at
    cola,          \* the clients connected to a server and not accepted
    servidor,      \* what MDJ and FM9 are doing with their sockets
    cuenta,        \* the CPUs SAFA has a thread for
    conocidas,     \* lista_fd_maestra of the DAM
    saludando,     \* the CPU whose greeting the DAM waits for
    muertes

sistema == <<lanzados, paso, cola, servidor, cuenta, conocidas, saludando, muertes>>

todo == <<vars, sistema>>

Clientes   == Cpus \cup {"DAM"}
Servidores == {"MDJ", "FM9", "SAFA", "DAM"}

(* Mutant of PasosDelDAM: the CPUs are served while SAFA has not answered *)
PasosDelDAMSinEsperarASAFA ==
    << <<"conecta", "MDJ">>,  <<"saluda", "MDJ">>,
       <<"conecta", "FM9">>,  <<"saluda", "FM9">>,
       <<"conecta", "SAFA">>, <<"listo">> >>

(* main() of the DAM: comunicarse_con_file_system, ..._memoria, ..._safa *)
PasosDelDAM ==
    << <<"conecta", "MDJ">>,  <<"saluda", "MDJ">>,
       <<"conecta", "FM9">>,  <<"saluda", "FM9">>,
       <<"conecta", "SAFA">>, <<"saluda", "SAFA">>, <<"listo">> >>

(* Mutant of PasosDeLaCPU: the connections in another order *)
PasosDeLaCPUConFM9Antes ==
    << <<"conecta", "SAFA">>, <<"conecta", "FM9">>, <<"conecta", "DAM">>,
       <<"saluda", "SAFA">>,  <<"saluda", "DAM">>, <<"listo">> >>

(* main() of the CPU: the three connections, then realizar_handshakes *)
PasosDeLaCPU ==
    << <<"conecta", "SAFA">>, <<"conecta", "DAM">>, <<"conecta", "FM9">>,
       <<"saluda", "SAFA">>,  <<"saluda", "DAM">>, <<"listo">> >>

En(p) == IF p = "DAM" THEN PasosDelDAM[paso[p]] ELSE PasosDeLaCPU[paso[p]]

Vivo(p)  == p \in lanzados \ caidos
Listo(p) == En(p) = <<"listo">>

(* The DAM listens to the CPUs after its three greetings; MDJ and FM9 keep  *)
(* their socket open after taking the DAM.                                  *)
Escucha(s) ==
    \/ Vivo(s) /\ (s = "DAM" => Listo("DAM"))
    \/ s = "FM9" /\ servidor["FM9"] = "relanzado"

SistemaTypeOK ==
    /\ TypeOK
    /\ caidos \subseteq lanzados
    /\ lanzados \subseteq Servidores \cup Cpus
    /\ paso \in [Clientes -> 1 .. 7]
    /\ cola \in [Servidores -> Seq(Clientes)]
    /\ servidor \in [{"MDJ", "FM9"} ->
                        {"escucha", "sirve", "trabado", "relanzado", "caido"}]
    /\ cuenta \subseteq Cpus /\ conocidas \subseteq Cpus
    /\ saludando \in Cpus \cup {Nadie}
    /\ muertes \in 0 .. MaxMuertes

SistemaInit ==
    /\ Init
    /\ lanzados = {}
    /\ paso = [p \in Clientes |-> 1]
    /\ cola = [s \in Servidores |-> <<>>]
    /\ servidor = [s \in {"MDJ", "FM9"} |-> "escucha"]
    /\ cuenta = {} /\ conocidas = {} /\ saludando = Nadie
    /\ muertes = 0

-----------------------------------------------------------------------------
(* Bounds.  What FM9 holds does not matter to how the processes start and   *)
(* end: they are started before a file is asked for, and ended before one   *)
(* is open and with an FM9 that can load it; a file is opened before all    *)
(* have settled, and the rest of the transfers come after.  The operator of *)
(* MDJ matters to the fragments, whatever the mode that takes them.         *)
Temprano == abiertos = {} /\ consola = 0

MuertesPosibles == IF modo = "SEG" THEN MaxMuertes ELSE 0

Calma == /\ lanzados = Servidores \cup Cpus /\ caidos = {}
         /\ \A p \in Clientes : Listo(p)
         /\ saludando = Nadie /\ \A s \in Servidores : cola[s] = <<>>

(* the processes are alike: the first to open a file is Primera's *)
EnTurno(d, p) ==
    \/ Temprano /\ Primera = <<d, p>>
    \/ Calma /\ (d = Primera[1] \/ dtb[Primera[1]] # "listo"
                                \/ abiertos # {})

(* p ends: its sockets are closed, those it had not accepted too *)
Cae(p) ==
    /\ caidos' = caidos \cup {p}
    /\ cola' = IF p \in Servidores THEN [cola EXCEPT ![p] = <<>>] ELSE cola
    /\ dam' = IF p = "DAM" THEN DamLibre ELSE dam

datos == <<memoriaFM9, archivos, consola, dtb, abiertos, manchados>>

Lanzar(p) ==
    /\ Temprano /\ dam.en = "libre"
    /\ p \notin lanzados
    /\ lanzados' = lanzados \cup {p}
    /\ UNCHANGED <<vars, paso, cola, servidor, cuenta, conocidas, saludando, muertes>>

(* exit, SIGINT or the end of the terminal *)
Matar(p) ==
    /\ Temprano
    /\ muertes < MuertesPosibles
    /\ Vivo(p) /\ p # "MDJ"
    /\ muertes' = muertes + 1
    /\ Cae(p)
    /\ UNCHANGED <<datos, lanzados, paso, servidor, cuenta, conocidas, saludando>>

(* FM9 is started again while the DAM keeps its connection to the one that  *)
(* ended.  (Before the DAM connects, it is a late start.)                   *)
Relanzar ==
    /\ Temprano
    /\ "FM9" \in caidos /\ servidor["FM9"] \in {"escucha", "sirve"}
    /\ "DAM" \in lanzados /\ paso["DAM"] > 4
    /\ servidor' = [servidor EXCEPT !["FM9"] = "relanzado"]
    /\ UNCHANGED <<vars, lanzados, paso, cola, cuenta, conocidas, saludando, muertes>>

-----------------------------------------------------------------------------
(* The clients *)

(* conectarseA, conectar_...: a refused client ends *)
Conectar(p) ==
    /\ Vivo(p) /\ En(p)[1] = "conecta"
    /\ LET s == En(p)[2]
       IN  \/ /\ Escucha(s)
              /\ cola' = [cola EXCEPT ![s] = Append(@, p)]
              /\ paso' = [paso EXCEPT ![p] = @ + 1]
              /\ UNCHANGED <<caidos, dam>>
           \/ /\ ~ Escucha(s)
              /\ Cae(p)
              /\ UNCHANGED paso
    /\ UNCHANGED <<datos, lanzados, servidor, cuenta, conocidas, saludando, muertes>>

(* enviarHandshake to a server that ended: procesoRecibido is what the      *)
(* stack held, perhaps the expected one                                     *)
SaludoPerdido(p) ==
    /\ Vivo(p) /\ En(p)[1] = "saluda" /\ En(p)[2] \in caidos
    /\ \/ Cae(p) /\ UNCHANGED paso
       \/ paso' = [paso EXCEPT ![p] = @ + 1] /\ UNCHANGED <<caidos, cola, dam>>
    /\ UNCHANGED <<datos, lanzados, servidor, cuenta, conocidas, saludando, muertes>>

(* the answer to a greeting, which nobody reads when the client has ended *)
Respondido(p) == paso' = IF p \in caidos THEN paso ELSE [paso EXCEPT ![p] = @ + 1]

(* A CPU without SAFA takes what it does not receive for a DTB, which       *)
(* validar_dtb may refuse                                                   *)
CpuSinSafa(c) ==
    /\ Vivo(c) /\ Listo(c) /\ "SAFA" \in caidos
    /\ Temprano
    /\ Cae(c)
    /\ UNCHANGED <<datos, lanzados, paso, servidor, cuenta, conocidas, saludando, muertes>>

-----------------------------------------------------------------------------
(* MDJ: one accept in its life, and a thread that waits for itself after    *)
(* the end of the DAM                                                       *)
AceptarMDJ ==
    /\ Vivo("MDJ") /\ servidor["MDJ"] = "escucha" /\ cola["MDJ"] # <<>>
    /\ servidor' = [servidor EXCEPT !["MDJ"] = "sirve"]
    /\ cola' = [cola EXCEPT !["MDJ"] = Tail(@)]
    /\ Respondido(Head(cola["MDJ"]))
    /\ UNCHANGED <<vars, lanzados, cuenta, conocidas, saludando, muertes>>

NotarMDJ ==
    /\ servidor["MDJ"] = "sirve" /\ "DAM" \in caidos
    /\ servidor' = [servidor EXCEPT !["MDJ"] = "trabado"]
    /\ UNCHANGED <<vars, lanzados, paso, cola, cuenta, conocidas, saludando, muertes>>

(* comunicarse_con_dam: the first client is greeted as the DAM *)
AceptarFM9 ==
    /\ Vivo("FM9") /\ cola["FM9"] # <<>> /\ servidor["FM9"] = "escucha"
    /\ Head(cola["FM9"]) = "DAM"
    /\ servidor' = [servidor EXCEPT !["FM9"] = "sirve"]
    /\ cola' = [cola EXCEPT !["FM9"] = Tail(@)]
    /\ Respondido("DAM")
    /\ UNCHANGED <<vars, lanzados, cuenta, conocidas, saludando, muertes>>

(* atender_nuevo_cpu, without greetings *)
AtenderCpuFM9 ==
    /\ Vivo("FM9") /\ cola["FM9"] # <<>> /\ servidor["FM9"] = "sirve"
    /\ cola' = [cola EXCEPT !["FM9"] = Tail(@)]
    /\ UNCHANGED <<vars, lanzados, paso, servidor, cuenta, conocidas, saludando, muertes>>

(* A CPU in place of the DAM: FM9 waits for its greeting, which is its      *)
(* first request or its end, and finishes                                   *)
TomarCpuPorDAM ==
    /\ cola["FM9"] # <<>> /\ servidor["FM9"] \in {"escucha", "relanzado"}
    /\ LET c == Head(cola["FM9"])
       IN  c \in Cpus /\ (c \in caidos \/ Listo(c))
    /\ caidos' = caidos \cup {"FM9"}
    /\ cola' = [cola EXCEPT !["FM9"] = <<>>]
    /\ servidor' = [servidor EXCEPT !["FM9"] = "caido"]
    /\ UNCHANGED <<datos, dam, lanzados, paso, cuenta, conocidas, saludando, muertes>>

(* cabecera_es_invalida_dam: FM9 ends with the DAM *)
NotarFM9 ==
    /\ Vivo("FM9") /\ servidor["FM9"] = "sirve" /\ "DAM" \in caidos
    /\ Cae("FM9")
    /\ UNCHANGED <<datos, lanzados, paso, servidor, cuenta, conocidas, saludando, muertes>>

PasoFM9 == AceptarFM9 \/ AtenderCpuFM9 \/ TomarCpuPorDAM \/ NotarFM9

(* Mutant of Saludo: the end of a client is not seen *)
SaludoSolo(p, s) == En(p) = <<"saluda", s>>

(* what recv() waits for: the greeting, or the end of the client *)
Saludo(p, s) == p \in caidos \/ En(p) = <<"saluda", s>>

(* escuchar(): a thread for every client that greets as a CPU, and for one  *)
(* that ended before it greeted, perhaps                                    *)
AceptarSAFA ==
    /\ Vivo("SAFA") /\ cola["SAFA"] # <<>>
    /\ LET p == Head(cola["SAFA"])
       IN  /\ Saludo(p, "SAFA")
           /\ cuenta' \in {cuenta, cuenta \cup ({p} \cap Cpus)}
           /\ p \in Cpus /\ En(p) = <<"saluda", "SAFA">> => p \in cuenta'
           /\ Respondido(p)
    /\ cola' = [cola EXCEPT !["SAFA"] = Tail(@)]
    /\ UNCHANGED <<vars, lanzados, servidor, conocidas, saludando, muertes>>

-----------------------------------------------------------------------------
(* The select of the DAM, crear_hilos_conexiones_entrantes *)

Ocioso == /\ Vivo("DAM") /\ Listo("DAM")
          /\ dam.en = "libre" /\ saludando = Nadie

AceptarCpu ==
    /\ Ocioso /\ cola["DAM"] # <<>>
    /\ saludando' = Head(cola["DAM"])
    /\ conocidas' = conocidas \cup {Head(cola["DAM"])}
    /\ cola' = [cola EXCEPT !["DAM"] = Tail(@)]
    /\ UNCHANGED <<vars, lanzados, paso, servidor, cuenta, muertes>>

(* realizar_handshake_con_cpu; the greeting of a CPU that ended may look    *)
(* right                                                                    *)
SaludarCpu ==
    /\ Vivo("DAM") /\ saludando # Nadie
    /\ Saludo(saludando, "DAM")
    /\ saludando' = Nadie
    /\ Respondido(saludando)
    /\ \/ UNCHANGED <<caidos, cola, dam>>
       \/ saludando \in caidos /\ Cae("DAM")
    /\ UNCHANGED <<datos, lanzados, servidor, cuenta, conocidas, muertes>>

(* Mutant of NotarCpu: only the connection is closed *)
NotarCpuSeguir ==
    /\ Ocioso /\ conocidas \cap caidos # {}
    /\ conocidas' = conocidas \ caidos
    /\ UNCHANGED <<vars, lanzados, paso, cola, servidor, cuenta, saludando, muertes>>

(* loguear_y_cerrar_comunicacion_erronea_con_CPU: the DAM ends with the     *)
(* first CPU that does                                                      *)
NotarCpu ==
    /\ Ocioso /\ conocidas \cap caidos # {}
    /\ Cae("DAM")
    /\ UNCHANGED <<datos, lanzados, paso, servidor, cuenta, conocidas, saludando, muertes>>

-----------------------------------------------------------------------------
(* SAFA hands a process to a CPU, whose first sentence opens a file *)
Despachar(c, d, p) ==
    /\ EnTurno(d, p)
    /\ Vivo("SAFA") /\ c \in cuenta
    /\ Vivo(c) /\ Listo(c) /\ c \in conocidas
    /\ Ocioso
    /\ AbrirPath(d, p)
    /\ UNCHANGED sistema

(* SAFA writes a DTB to a CPU that ended, and takes no notice of SIGPIPE *)
DespacharACaida ==
    /\ Temprano
    /\ Vivo("SAFA") /\ cuenta \cap caidos # {}
    /\ \E d \in Pids : dtb[d] = "listo"
    /\ Cae("SAFA")
    /\ UNCHANGED <<datos, lanzados, paso, servidor, cuenta, conocidas, saludando, muertes>>

(* the steps of a transfer; the DAM may end in them, and FM9 *)
Transferir ==
    /\ PasoDAM
    /\ cola' = [s \in Servidores |-> IF s \in caidos' \ caidos THEN <<>> ELSE cola[s]]
    /\ UNCHANGED <<lanzados, paso, servidor, cuenta, conocidas, saludando, muertes>>

EscribirEnMDJ(p) ==
    /\ Calma /\ modo = "SEG"
    /\ Consola(p)
    /\ UNCHANGED sistema

HiloDelDAM == \/ Conectar("DAM") \/ SaludoPerdido("DAM")
              \/ AceptarCpu \/ SaludarCpu \/ NotarCpu \/ Transferir

SistemaNext ==
    \/ \E p \in Servidores \cup Cpus : Lanzar(p) \/ Matar(p)
    \/ Relanzar
    \/ \E c \in Cpus : Conectar(c) \/ SaludoPerdido(c) \/ CpuSinSafa(c)
    \/ AceptarMDJ \/ NotarMDJ \/ PasoFM9 \/ AceptarSAFA
    \/ HiloDelDAM
    \/ \E c \in Cpus, d \in Pids, p \in Paths : Despachar(c, d, p)
    \/ DespacharACaida
    \/ \E p \in Paths : EscribirEnMDJ(p)

SistemaSpec ==
    /\ SistemaInit /\ [][SistemaNext]_todo
    /\ WF_todo(HiloDelDAM)
    /\ \A c \in Cpus : WF_todo(Conectar(c) \/ SaludoPerdido(c))
    /\ WF_todo(AceptarMDJ \/ NotarMDJ)
    /\ WF_todo(PasoFM9)
    /\ WF_todo(AceptarSAFA)

-----------------------------------------------------------------------------
(* FM9 takes the first client for the DAM without asking.  No CPU can be    *)
(* that client, in whatever order the programs are started: a CPU reaches   *)
(* FM9 after it reached the DAM, which listens when FM9 has greeted it.     *)
(* (An FM9 started again under a running DAM is the exception.)             *)
NingunaCpuPorDAM ==
    servidor["FM9"] = "escucha" => ToSet(cola["FM9"]) \subseteq {"DAM"}

(* A DAM that takes CPUs has been greeted by each of the others that still  *)
(* runs, and a CPU that takes processes is known to SAFA and to the DAM.    *)
Presentados ==
    /\ Escucha("DAM") =>
         /\ servidor["MDJ"] = "sirve"
         /\ Vivo("FM9") => servidor["FM9"] = "sirve"
         /\ "DAM" \notin ToSet(cola["SAFA"])
    /\ \A c \in Cpus : Vivo(c) /\ Listo(c) =>
         /\ Vivo("SAFA") => c \in cuenta
         /\ Vivo("DAM") => c \in conocidas

(* Everybody who waits for a greeting gets it or ends, although SAFA and    *)
(* the DAM each wait for one client at a time and a client greets one only  *)
(* after the other: some time after each start all have settled.  Unless    *)
(* FM9 is the one that never answers, and the DAM waits for it.             *)
Asentados == \A p \in Clientes \cap lanzados : p \in caidos \/ Listo(p)

ArranqueTermina == (modo # "TPI" /\ ~ Asentados) ~> Asentados

(* The end of a CPU the DAM knows ends the DAM, and the end of the DAM ends *)
(* FM9.                                                                     *)
CaidaEnCadena ==
    (conocidas \cap caidos # {} /\ modo # "TPI")
        ~> ({"DAM", "FM9"} \subseteq caidos)
-----------------------------------------------------------------------------
(* The inductive invariant of the connections, for SistemaProofs.  It needs *)
(* nothing of what a transfer carries.                                      *)
ConexionesOK ==
    /\ caidos \subseteq lanzados /\ "MDJ" \notin caidos
    /\ lanzados \subseteq Servidores \cup Cpus
    /\ paso \in [Clientes -> 1 .. 7] /\ \A c \in Cpus : paso[c] <= 6
    /\ cola \in [Servidores -> Seq(Clientes)] /\ cola["DAM"] \in Seq(Cpus)
    /\ servidor \in [{"MDJ", "FM9"} ->
                        {"escucha", "sirve", "trabado", "relanzado", "caido"}]
    /\ servidor["MDJ"] \in {"escucha", "sirve", "trabado"}
    /\ servidor["FM9"] # "trabado"
    /\ cuenta \subseteq Cpus /\ conocidas \subseteq Cpus
    /\ saludando \in Cpus \cup {Nadie}
    /\ muertes \in 0 .. MaxMuertes

(* A transfer needs a DAM that has done its greetings *)
TransferenciaConDAM == dam.en # "libre" => Vivo("DAM") /\ Listo("DAM")

(* What the step of the DAM says of the two servers that take it once *)
DAMSaludado ==
    /\ paso["DAM"] > 2 => servidor["MDJ"] # "escucha"
    /\ paso["DAM"] = 1 => servidor["MDJ"] = "escucha"
    /\ paso["DAM"] > 4 => "FM9" \in lanzados
    /\ servidor["MDJ"] = "trabado" => "DAM" \in caidos
    /\ servidor["FM9"] = "escucha" => paso["DAM"] <= 4 \/ "FM9" \in caidos
    /\ servidor["FM9"] # "escucha" => paso["DAM"] >= 4
    /\ servidor["FM9"] = "relanzado" => paso["DAM"] > 4
    /\ servidor["FM9"] \in {"relanzado", "caido"} => "FM9" \in caidos

(* Who is in a queue is at the step that follows its connection, once; and  *)
(* nobody is in the queue of a server that has not started or has ended.    *)
ColasOK ==
    /\ cola["MDJ"] \in {<<>>, <<"DAM">>}
    /\ cola["MDJ"] # <<>> => paso["DAM"] = 2
    /\ "DAM" \in ToSet(cola["FM9"]) => paso["DAM"] = 4
    /\ servidor["FM9"] = "escucha" => cola["FM9"] \in {<<>>, <<"DAM">>}
    /\ "DAM" \in ToSet(cola["SAFA"]) => paso["DAM"] = 6
    /\ \A c \in Cpus : c \in ToSet(cola["SAFA"]) => paso[c] \in 2 .. 4
    /\ IsInjective(cola["SAFA"])
    /\ \A s \in Servidores : s \notin lanzados => cola[s] = <<>>
    /\ "SAFA" \in caidos => cola["SAFA"] = <<>>
    /\ "FM9" \in caidos /\ servidor["FM9"] # "relanzado" => cola["FM9"] = <<>>

(* What the step of a CPU says of the DAM and of SAFA *)
CpusSaludadas ==
    /\ \A c \in Cpus :
          /\ paso[c] > 2 => Listo("DAM")
          /\ paso[c] > 4 => c \in cuenta \/ "SAFA" \in caidos
          /\ paso[c] > 5 => c \in conocidas \/ "DAM" \in caidos
    /\ saludando # Nadie => saludando \in conocidas

InvConexiones ==
    ConexionesOK /\ TransferenciaConDAM /\ DAMSaludado /\ ColasOK /\ CpusSaludadas
=============================================================================
