---------------------------- MODULE Planificacion ----------------------------
(***************************************************************************)
(* The scheduling of scripts: SAFA, its operator, the CPUs and the DAM,    *)
(* composed over their connections.  When SAFA dies every connection       *)
(* closes and nothing modelled here goes on.                               *)
(***************************************************************************)
EXTENDS Safa, Cpu, ElDiego

vars == <<safa, cpu, FM9_colgado, dam, red>>

Init == RedInit /\ SafaInit /\ CpuInit /\ DamInit

TypeOK == RedTypeOK /\ SafaTypeOK /\ CpuTypeOK /\ DamTypeOK

-----------------------------------------------------------------------------
HiloCPU(c) ==       \* the thread of SAFA that serves CPU c
    \/ BloquearDTB(c) \/ AbortarDTB(c) \/ PedirRecurso(c)
    \/ CrearRecurso(c) \/ AnotarDummy(c) \/ AgregarBloqueado(c)
    \/ AgregarTerminado(c) \/ LiberarCPU(c)

HiloDMA == OperacionNoFinalizada \/ AbrirPathFinalizadoOk \/ OperacionFinalizadaOk

HiloPLP == PLPDespierta \/ PLPGrado \/ PLPDecide \/ PLPToma \/ PLPAgrega

HiloPCP == \/ PCPDespierta \/ PCPRevisa \/ PCPElige \/ PCPBusca
           \/ PCPDespacha \/ PCPQuita \/ PCPAgrega

Conexion == \/ AceptarDAM /\ UNCHANGED red
            \/ ArrancarHiloDMA /\ UNCHANGED red
            \/ \E c \in CPUS : \/ AceptarCPU(c) /\ UNCHANGED red
                               \/ ConectarCPU(c) /\ UNCHANGED red
                               \/ PasarSafaOperativo(c) /\ UNCHANGED red

Consola == \/ EjecutarEscriptorio
           \/ \E i \in DTB : FinalizarBusca(i)
           \/ FinalizarEspera \/ FinalizarDTB

PasoSafa == \/ Conexion \/ Consola \/ HiloDMA \/ HiloPLP \/ HiloPCP
            \/ \E c \in CPUS : HiloCPU(c)

PasoCPU(c) == \/ RecibirDTB(c) \/ DesalojarDummy(c) \/ DesalojarDTB(c)

SentenciaCPU(c) ==
    \/ Concentrar(c) \/ AbortarSentencia(c) \/ RetenerRecurso(c)
    \/ LiberarRecurso(c) \/ EsperarAFM9(c)
    \/ \E p \in Archivos : Abrir(c, p) \/ Crear(c, p) \/ Borrar(c, p)

Atiende(c) == \/ OperacionAbrirPath(c) \/ OperacionCrearArchivo(c)
              \/ OperacionIncompleta(c)

PasoDAM == \/ CargarEnFM9(FM9_colgado) \/ InformarASafa
           \/ \E c \in CPUS : Atiende(c)

Next == /\ ~ caida
        /\ \/ PasoSafa /\ UNCHANGED <<cpu, FM9_colgado, dam>>
           \/ \E c \in CPUS : PasoCPU(c) /\ UNCHANGED <<safa, dam>>
           \/ \E c \in CPUS : SentenciaCPU(c) /\ UNCHANGED <<safa, dam>>
           \/ PasoDAM /\ UNCHANGED <<safa, cpu, FM9_colgado>>

Spec == Init /\ [][Next]_vars
(* Fairness.  Every thread of SAFA is an OS thread that blocks only in the *)
(* steps modelled; the DAM's select loop serves every ready connection in  *)
(* each pass, hence strong fairness per CPU; a CPU runs on except between  *)
(* sentences, where it sleeps for (int)RETARDO, a pointer: no fairness on  *)
(* SentenciaCPU.  None on the operator, nor on new connections.            *)
Safa(A)   == ~ caida /\ A /\ UNCHANGED <<cpu, FM9_colgado, dam>>
DeCPU(A)  == ~ caida /\ A /\ UNCHANGED <<safa, dam>>
DeDAM(A)  == ~ caida /\ A /\ UNCHANGED <<safa, cpu, FM9_colgado>>

FairSpec ==
    /\ Spec
    /\ WF_vars(Safa(HiloDMA)) /\ WF_vars(Safa(HiloPLP)) /\ WF_vars(Safa(HiloPCP))
    /\ WF_vars(Safa(ArrancarHiloDMA /\ UNCHANGED red))
    /\ WF_vars(DeDAM(CargarEnFM9(FM9_colgado))) /\ WF_vars(DeDAM(InformarASafa))
    /\ \A c \in CPUS :
         /\ WF_vars(Safa(HiloCPU(c)))
         /\ WF_vars(Safa((ConectarCPU(c) \/ PasarSafaOperativo(c)) /\ UNCHANGED red))
         /\ WF_vars(DeCPU(PasoCPU(c)))
         /\ SF_vars(DeDAM(Atiende(c)))

-----------------------------------------------------------------------------
Dummies == {i \in DTB : iniGDT[i] = 0}

(* At most one DTB is the dummy (iniGDT = 0) at any moment, and hayDummy    *)
(* counts it: what funcionesSafa.c:662-664 promises ("siendo el unico DTB   *)
(* que contenga este flag con dicho valor"), although the PLP tests the     *)
(* counter long before it sets the flag and CPU threads clear it without a  *)
(* lock.                                                                    *)
DummyUnico == /\ \A i, j \in Dummies : i = j
              /\ hayDummy = IF Dummies = {} THEN 0 ELSE 1

(* The inductive form of DummyUnico: between the PLP's test of hayDummy and  *)
(* its writing it, nobody makes a dummy.                                    *)
TomaSinDummy == plp.en = "toma" => hayDummy = 0

(* The PCP takes the head of cpu_libres without the mutex and several steps *)
(* after planificar saw one there: it is never an empty list.               *)
DespachaConCPU == pcp.en \in {"elige", "busca", "despacha"} => cpu_libres # <<>>

InvDummy == TypeOK /\ DummyUnico /\ TomaSinDummy /\ DespachaConCPU

(* The unprotected ++hayDummy of the PLP and --hayDummy of the CPU threads  *)
(* never race: while a CPU thread is about to write the counter, neither    *)
(* the PLP nor another CPU thread is.                                       *)
EscribeHayDummy(c) == com[c].en = "anota" /\ iniGDT[com[c].dtb] = 0

PLPSinCarrera == \A c \in CPUS : EscribeHayDummy(c) => plp.en # "toma"

ContadorSinCarrera ==
    /\ PLPSinCarrera
    /\ \A c, d \in CPUS : EscribeHayDummy(c) /\ EscribeHayDummy(d) => c = d

(* A DTB message always carries as many files as it announces, so the CPU   *)
(* never loses its place in the stream: prot_enviar_SAFA_CPU_DTB is right   *)
(* only for tables of at most one file, and only the order of blocking,     *)
(* answering and dispatching keeps every table that short.                  *)
MensajeBienFormado ==
    \A c \in CPUS : \A k \in DOMAIN safaACpu[c] :
        Len(safaACpu[c][k].archivos) = safaACpu[c][k].cantidad

(* The places a DTB can be in: the six lists, and the hands of the threads  *)
(* that take it out of one list and put it in another.                      *)
Lugares == ({"cola"} \X Colas) \cup ({"com"} \X CPUS)
             \cup {<<"plp", "plp">>, <<"pcp", "pcp">>}

EnHiloCPU(i, c) == com[c].en \in {"anota", "bloquea", "termina"} /\ com[c].dtb = i

Esta(i, lugar) ==
    \/ lugar[1] = "cola" /\ En(i, lugar[2])
    \/ lugar[1] = "com" /\ EnHiloCPU(i, lugar[2])
    \/ lugar[1] = "plp" /\ plp.en = "agrega" /\ plp.dtb = i
    \/ lugar[1] = "pcp" /\ pcp.en = "agrega" /\ pcp.dtb = i

SinRepetir(s) == \A j, k \in DOMAIN s : s[j] = s[k] /\ s[j] # NULO => j = k

(* Every DTB the operator submitted is in exactly one place: one entry of   *)
(* one scheduling list, or the hands of the thread that is moving it.       *)
EnUnSoloLugar ==
    /\ \A q \in Colas : SinRepetir(cola[q])
    /\ \A i \in 1 .. id - 1 :
          \E lugar \in Lugares :
             Esta(i, lugar) /\ \A r \in Lugares \ {lugar} : ~ Esta(i, r)

(* list_remove(listos, 0) after the send takes out the very DTB that was    *)
(* sent: the PCP reads the head, searches it, sends it and only then        *)
(* removes "the head", with other threads adding and removing meanwhile.    *)
QuitaElDespachado ==
    pcp.en = "quita" => /\ cola["listos"] # <<>>
                        /\ Head(cola["listos"]) = pcp.dtb

(* No two CPUs run the same DTB at once. *)
Corre(c) == cpu[c].en \in {"dummy", "lee", "esperaDAM"}

UnaCPUPorDTB ==
    \A c, d \in CPUS :
        Corre(c) /\ Corre(d) /\ cpu[c].dtb = cpu[d].dtb => c = d

(* SAFA finds a NULL where it expects a DTB only when a message overtakes   *)
(* the bookkeeping it refers to: the DAM's answer comes while the block its *)
(* CPU asks for is still on the way, or a CPU reports on a DTB that the PCP *)
(* has sent and not yet put in "ejecutando".  No other order of steps kills *)
(* SAFA (resource requests apart).                                          *)
PorBloquearEn(c, i) ==
    \/ cpu[c].en \in {"dummy", "esperaDAM"} /\ cpu[c].dtb = i
    \/ com[c].en \in {"anota", "bloquea"} /\ com[c].dtb = i
    \/ \E k \in DOMAIN cpuASafa[c] :
          cpuASafa[c][k] = [tipo |-> "BloquearDTB", id |-> i]

PorBloquear(i) == \E c \in CPUS : PorBloquearEn(c, i)

Informado(i) == \E c \in CPUS : Hay(cpuASafa, c) /\ Head(cpuASafa[c]).id = i

AbortaNulo(c) == com[c].en \in {"termina", "libera"} /\ com[c].dtb = NULO

PideRecurso(c) ==
    \/ com[c].en = "recibeRecurso"
    \/ /\ Hay(cpuASafa, c)
       /\ Head(cpuASafa[c]).tipo \in {"RetenerRecurso", "LiberarRecurso"}

CaidaSoloPorAdelanto ==
    [][caida' \/ (\E c \in CPUS : AbortaNulo(c)') =>
         \/ damASafa # <<>> /\ damASafa' = Tail(damASafa) /\ PorBloquear(Head(damASafa).id)
         \/ pcp.en \in {"quita", "agrega"} /\ Informado(pcp.dtb)
         \/ \E c \in CPUS : AbortaNulo(c) \/ PideRecurso(c)]_vars

-----------------------------------------------------------------------------
(* Liveness, under FairSpec *)

(* A wake-up that finds the PCP waiting, something ready and a CPU free is  *)
(* a dispatch.  (One wake-up is one dispatch, and two before the PCP runs   *)
(* are one: nothing says it is enough.)                                     *)
PCPAtiende == (/\ pausaPCP /\ pcp.en = "pausa"
               /\ cola["listos"] # <<>> /\ cpu_libres # <<>>)
                 ~> (pcp.en = "despacha" \/ caida)

(* A request a CPU sent reaches SAFA as an answer, whatever the other CPUs  *)
(* ask of the single-threaded DAM, unless the DAM, FM9 or SAFA stops.       *)
Detenido == dam.en = "colgado" \/ FM9_colgado \/ caida

PedidoAtendido ==
    \A c \in CPUS : Hay(cpuADam, c) ~> damASafa # <<>> \/ Detenido

(* A blocked DTB whose answer is on its way leaves "bloqueados". *)
RespuestaEntregada ==
    \A i \in DTB :
        (En(i, "bloqueados") /\ \E k \in DOMAIN damASafa : damASafa[k].id = i)
          ~> ~ En(i, "bloqueados") \/ caida

-----------------------------------------------------------------------------
(* What comments of the code say and the code does not do *)

(* funcionesSafa.c:404, "si es la primera cpu que se conecta se pasa a      *)
(* operativo": once a CPU is connected and no thread is still checking,     *)
(* SAFA is OPERATIVO.                                                       *)
OperativoConLaPrimeraCPU ==
    (/\ \E c \in CPUS : com[c].en \notin {"fuera", "conecta", "verifica"}
     /\ \A c \in CPUS : com[c].en # "verifica") => estadoSAFA = "OPERATIVO"

(* funcionesSafa.c:658-660, a new process waits in NEW "para que el PLP lo  *)
(* administre cuando lo permita el grado de multiprogramacion": the DTBs    *)
(* admitted and not finished, the dummy apart, are at most GRADO.           *)
Admitidos == {i \in 1 .. id - 1 : ~ En(i, "nuevos") /\ ~ En(i, "terminados")}

GradoRespetado == Cardinality(Admitidos \ Dummies) <= GRADO

(* The same comment, its other half: a new process does not stay in NEW     *)
(* for ever while the degree allows it and there is no dummy.               *)
PuedeAdmitir(i) == En(i, "nuevos") /\ HayGrado /\ hayDummy = 0 /\ ~ caida

NuevoAdmitido == \A i \in DTB : ~ <>[]PuedeAdmitir(i)

(* funcionesSafa.c:763-764, "Si el G.DT se encuentra en la cola EXEC se     *)
(* debera esperar a terminar la operacion actual, para luego moverlo a la   *)
(* cola EXIT": no CPU is running the DTB that the console moves.            *)
FinalizarEsperaLaOperacion ==
    [][con.en = "remueve" /\ con.de = "ejecutando" /\ con'.en = "lista"
         => \A c \in CPUS : ~ (Corre(c) /\ cpu[c].dtb = con.dtb)]_vars

(* funcionesSafa.c:1206, BOAF gives "Priorizacion de aquellos DTB que       *)
(* tengan abiertos archivos de equipos grandes": while one of those is      *)
(* ready, no other DTB is chosen.                                           *)
PrioridadBOAF ==
    [][ALGORITMO = "BOAF" /\ pcp.en = "elige" /\ pcp'.en = "busca"
         /\ (\E i \in ToSet(cola["listos"]) : tieneEquipoGrande(tabla[i]))
         => tieneEquipoGrande(tabla[pcp'.dtb])]_vars
=============================================================================
