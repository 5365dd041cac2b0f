--------------------------------- MODULE Safa --------------------------------
(***************************************************************************)
(* SAFA, the scheduler process (src/SAFA).  Its threads are the console,   *)
(* the long-term scheduler (PLP), the short-term scheduler (PCP), the      *)
(* listener, one thread for the DAM and one per connected CPU.  A list     *)
(* operation of so-commons is one atomic step; between two of them any     *)
(* other thread may run.  mutexDePausaDePlanificacion and mutexDePausaPCP  *)
(* are locked by the threads that wait and unlocked by the ones that wake  *)
(* them: binary semaphores, TRUE meaning "unlocked".                       *)
(* A NULL dereference kills the process: "caida".                          *)
(***************************************************************************)
EXTENDS Red

CONSTANTS
    GRADO,          \* configSAFA.grado_multiprogramacion
    ALGORITMO,      \* algoritmo_planificacion
    Comandos,       \* the console commands the operator uses
    EquipoGrande    \* the paths whose name contains "Boca"

ASSUME SafaAssumption ==
    /\ GRADO \in Nat
    /\ ALGORITMO \in {"RR", "VRR", "BOAF"}
    /\ Comandos \subseteq {"ejecutar", "finalizar"}
    /\ EquipoGrande \subseteq Archivos

Colas == {"nuevos", "listos", "ejecutando", "bloqueados", "terminados",
          "auxVirtualRR"}

VARIABLES
    estadoSAFA, DAM_conectado,
    id,               \* the next id_GDT
    iniGDT, tabla,    \* fields of each t_DTB: iniGDT, tabla_dir_archivos
    cola,             \* the six scheduling lists, by name
    hayDummy,
    cpu_libres, cpu_ejecutando,
    dtbConEqGrandeAbierto,
    pausaPLP, pausaPCP,
    hiloDMA,          \* the thread of funcionHiloComDMA
    com,              \* the thread of funcionHiloComCPU of each CPU
    plp, pcp, con,    \* where the other threads are, and the DTB they hold
    caida

datosDTB == <<id, iniGDT, tabla>>
cpus     == <<cpu_libres, cpu_ejecutando>>
pausas   == <<pausaPLP, pausaPCP>>
estado   == <<estadoSAFA, DAM_conectado>>
hilos    == <<hiloDMA, com, plp, pcp, con>>
safa     == <<estado, datosDTB, cola, hayDummy, cpus, dtbConEqGrandeAbierto,
              pausas, hilos, caida>>

EnHilo == [en : {"fuera", "conecta", "verifica", "espera", "anota",
                 "bloquea", "termina", "libera", "recibeRecurso"},
           dtb : DTB \cup {NULO}]

EnPLP == [en  : {"pausa", "grado", "decide", "toma", "agrega"},
          dtb : DTB \cup {NULO}]

EnPCP == [en  : {"pausa", "revisa", "elige", "busca", "despacha", "quita",
                 "agrega"},
          dtb : DTB \cup {NULO}]

EnConsola == [en  : {"lista", "espera", "remueve"},
              dtb : DTB \cup {NULO}, de : Colas]

(* a NULL may end up in "terminados", and nowhere else *)
ColasOK(colas) ==
    /\ colas \in [Colas -> Seq(DTB \cup {NULO})]
    /\ \A q \in Colas \ {"terminados"} : colas[q] \in Seq(DTB)

(* a thread that blocks a DTB has one *)
ComOK(f) ==
    /\ f \in [CPUS -> EnHilo]
    /\ \A c \in CPUS : f[c].en \in {"anota", "bloquea"} => f[c].dtb \in DTB

SafaTypeOK ==
    /\ estadoSAFA \in {"CORRUPTO", "OPERATIVO"}
    /\ DAM_conectado \in BOOLEAN
    /\ id \in 1 .. MaxDTB + 1
    /\ iniGDT \in [DTB -> {0, 1}]
    /\ tabla \in [DTB -> Seq(Path)]
    /\ ColasOK(cola)
    /\ hayDummy \in {0, 1}
    /\ cpu_libres \in Seq(CPUS)
    /\ cpu_ejecutando \subseteq CPUS
    /\ dtbConEqGrandeAbierto \in Seq(DTB)
    /\ pausaPLP \in BOOLEAN /\ pausaPCP \in BOOLEAN
    /\ hiloDMA \in {"inexistente", "creado", "atiende"}
    /\ ComOK(com)
    /\ plp \in EnPLP /\ (plp.en = "agrega" => plp.dtb \in DTB)
    /\ pcp \in EnPCP
    /\ pcp.en \in {"busca", "quita", "agrega"} => pcp.dtb \in DTB
    /\ con \in EnConsola /\ (con.en # "lista" => con.dtb \in DTB)
    /\ caida \in BOOLEAN

SafaInit ==
    /\ estadoSAFA = "CORRUPTO" /\ DAM_conectado = FALSE
    /\ id = 1
    /\ iniGDT = [i \in DTB |-> 1]
    /\ tabla = [i \in DTB |-> <<>>]
    /\ cola = [q \in Colas |-> <<>>]
    /\ hayDummy = 0
    /\ cpu_libres = <<>> /\ cpu_ejecutando = {}
    /\ dtbConEqGrandeAbierto = <<>>
    /\ pausaPLP = FALSE /\ pausaPCP = FALSE
    /\ hiloDMA = "inexistente"
    /\ com = [c \in CPUS |-> [en |-> "fuera", dtb |-> NULO]]
    /\ plp = [en |-> "pausa", dtb |-> NULO]
    /\ pcp = [en |-> "pausa", dtb |-> NULO]
    /\ con = [en |-> "lista", dtb |-> NULO, de |-> "nuevos"]
    /\ caida = FALSE

-----------------------------------------------------------------------------
(* so-commons lists *)
En(i, q) == i \in ToSet(cola[q])

(* list_remove_by_condition on id_GDT: the first match, or nothing *)
Sacar(q, i) == [cola EXCEPT ![q] = RemoveFirst(@, i)]

(* list_add at the end of q *)
Agregar(colas, q, i) == [colas EXCEPT ![q] = Append(@, i)]

(* Mutant of Mover: list_find in place of list_remove_by_condition *)
MoverSinSacar(i, q, r) == Agregar(cola, r, i)

(* list_remove_by_condition from one list, list_add to another *)
Mover(i, q, r) == Agregar(Sacar(q, i), r, i)

Caer == /\ caida' = TRUE
        /\ UNCHANGED <<estado, datosDTB, cola, hayDummy, cpus,
                       dtbConEqGrandeAbierto, pausas, hilos>>

-----------------------------------------------------------------------------
(* escuchar: the listener accepts the DAM, then CPUs.  A CPU reaches SAFA's *)
(* handshake only after the DAM listens, that is, after the DAM's own.      *)
AceptarDAM ==
    /\ hiloDMA = "inexistente"
    /\ hiloDMA' = "creado"
    /\ UNCHANGED <<estado, datosDTB, cola, hayDummy, cpus,
                   dtbConEqGrandeAbierto, pausas, com, plp, pcp, con, caida>>

AceptarCPU(c) ==
    /\ hiloDMA # "inexistente"
    /\ com[c].en = "fuera"
    /\ com' = [com EXCEPT ![c].en = "conecta"]
    /\ UNCHANGED <<estado, datosDTB, cola, hayDummy, cpus,
                   dtbConEqGrandeAbierto, pausas, hiloDMA, plp, pcp, con,
                   caida>>

ArrancarHiloDMA ==
    /\ hiloDMA = "creado"
    /\ hiloDMA' = "atiende"
    /\ DAM_conectado' = TRUE
    /\ UNCHANGED <<estadoSAFA, datosDTB, cola, hayDummy, cpus,
                   dtbConEqGrandeAbierto, pausas, com, plp, pcp, con, caida>>

-----------------------------------------------------------------------------
(* funcionHiloComCPU, the thread that serves CPU c *)
ConectarCPU(c) ==
    /\ com[c].en = "conecta"
    /\ cpu_libres' = Append(cpu_libres, c)
    /\ com' = [com EXCEPT ![c].en = "verifica"]
    /\ UNCHANGED <<estado, datosDTB, cola, hayDummy, cpu_ejecutando,
                   dtbConEqGrandeAbierto, pausas, hiloDMA, plp, pcp, con,
                   caida>>

PasarSafaOperativo(c) ==
    /\ com[c].en = "verifica"
    /\ com' = [com EXCEPT ![c].en = "espera"]
    /\ estadoSAFA' = IF /\ Len(cpu_libres) = 1 /\ cpu_ejecutando = {}
                        /\ DAM_conectado
                     THEN "OPERATIVO" ELSE estadoSAFA
    /\ UNCHANGED <<DAM_conectado, datosDTB, cola, hayDummy, cpus,
                   dtbConEqGrandeAbierto, pausas, hiloDMA, plp, pcp, con,
                   caida>>

Recibe(c, tipos) == /\ com[c].en = "espera"
                    /\ Hay(cpuASafa, c)
                    /\ Head(cpuASafa[c]).tipo \in tipos
                    /\ cpuASafa' = Recibir(cpuASafa, c)
                    /\ UNCHANGED <<safaACpu, cpuADam, damACpu, damASafa>>

(* BloquearDTB: out of "ejecutando"; the DTB it dereferences next is NULL  *)
(* when another thread took it away first.                                 *)
BloquearDTB(c) ==
    /\ Recibe(c, {"BloquearDTB"})
    /\ LET i == Head(cpuASafa[c]).id
       IN  \/ /\ ~ En(i, "ejecutando")
              /\ Caer
           \/ /\ En(i, "ejecutando")
              /\ cola' = Sacar("ejecutando", i)
              /\ com' = [com EXCEPT ![c] = [en |-> "anota", dtb |-> i]]
              /\ UNCHANGED <<estado, datosDTB, hayDummy, cpus,
                             dtbConEqGrandeAbierto, pausas, hiloDMA, plp, pcp,
                             con, caida>>

(* the dummy stops being one when it blocks: no lock protects hayDummy *)
AnotarDummy(c) ==
    /\ com[c].en = "anota"
    /\ LET i == com[c].dtb
       IN  /\ iniGDT' = [iniGDT EXCEPT ![i] = 1]
           /\ hayDummy' = IF iniGDT[i] = 0 THEN hayDummy - 1 ELSE hayDummy
    /\ com' = [com EXCEPT ![c].en = "bloquea"]
    /\ UNCHANGED <<estado, id, tabla, cola, cpus, dtbConEqGrandeAbierto,
                   pausas, hiloDMA, plp, pcp, con, caida, red>>

(* Mutant of AgregarBloqueado: the DTB goes back to "listos" *)
AgregarBloqueadoEnListos(c) ==
    /\ com[c].en = "bloquea"
    /\ cola' = Agregar(cola, "listos", com[c].dtb)
    /\ com' = [com EXCEPT ![c].en = "libera"]
    /\ UNCHANGED <<estado, datosDTB, hayDummy, cpus, dtbConEqGrandeAbierto,
                   pausas, hiloDMA, plp, pcp, con, caida, red>>

AgregarBloqueado(c) ==
    /\ com[c].en = "bloquea"
    /\ cola' = Agregar(cola, "bloqueados", com[c].dtb)
    /\ com' = [com EXCEPT ![c].en = "libera"]
    /\ UNCHANGED <<estado, datosDTB, hayDummy, cpus, dtbConEqGrandeAbierto,
                   pausas, hiloDMA, plp, pcp, con, caida, red>>

AbortarDTB(c) ==
    /\ Recibe(c, {"AbortarDTB"})
    /\ LET i == Head(cpuASafa[c]).id
       IN  /\ cola' = Sacar("ejecutando", i)
           /\ com' = [com EXCEPT ![c] =
                        [en |-> "termina",
                         dtb |-> IF En(i, "ejecutando") THEN i ELSE NULO]]
    /\ UNCHANGED <<estado, datosDTB, hayDummy, cpus, dtbConEqGrandeAbierto,
                   pausas, hiloDMA, plp, pcp, con, caida>>

AgregarTerminado(c) ==
    /\ com[c].en = "termina"
    /\ cola' = Agregar(cola, "terminados", com[c].dtb)
    /\ com' = [com EXCEPT ![c].en = "libera"]
    /\ UNCHANGED <<estado, datosDTB, hayDummy, cpus, dtbConEqGrandeAbierto,
                   pausas, hiloDMA, plp, pcp, con, caida, red>>

(* the CPU is free again; the last log line dereferences the DTB *)
LiberarCPU(c) ==
    /\ com[c].en = "libera"
    /\ cpu_libres' = Append(cpu_libres, c)
    /\ com' = [com EXCEPT ![c] = [en |-> "espera", dtb |-> NULO]]
    /\ caida' = (com[c].dtb = NULO)
    /\ UNCHANGED <<estado, datosDTB, cola, hayDummy, cpu_ejecutando,
                   dtbConEqGrandeAbierto, pausas, hiloDMA, plp, pcp, con, red>>

(* RetenerRecurso / LiberarRecurso: the message is 4 bytes short and is    *)
(* received through uninitialised pointers, so the thread either dies at   *)
(* once or sleeps in recv; more bytes wake it up to strcpy(NULL, ...).     *)
PedirRecurso(c) ==
    /\ Recibe(c, {"RetenerRecurso", "LiberarRecurso"})
    /\ \/ Caer
       \/ /\ com' = [com EXCEPT ![c].en = "recibeRecurso"]
          /\ UNCHANGED <<estado, datosDTB, cola, hayDummy, cpus,
                         dtbConEqGrandeAbierto, pausas, hiloDMA, plp, pcp,
                         con, caida>>

CrearRecurso(c) ==
    /\ com[c].en = "recibeRecurso"
    /\ Hay(cpuASafa, c)
    /\ Caer
    /\ UNCHANGED red

-----------------------------------------------------------------------------
(* funcionHiloComDMA, the thread that serves the DAM.  The DTB moves from  *)
(* "bloqueados" to its new list in one step: no other thread can tell the  *)
(* moment in between from the one after it.                                *)
RecibeDAM == /\ hiloDMA = "atiende"
             /\ damASafa # <<>>
             /\ damASafa' = Tail(damASafa)
             /\ UNCHANGED <<safaACpu, cpuASafa, cpuADam, damACpu>>

ColaListos == IF ALGORITMO = "VRR" THEN "auxVirtualRR" ELSE "listos"

(* Mutant of OperacionNoFinalizada: the answer is read and dropped *)
OperacionNoFinalizadaIgnorada ==
    /\ RecibeDAM
    /\ Head(damASafa).res = "NoFinalizado"
    /\ UNCHANGED safa

(* every ...NoFinalizado: to "terminados", a NULL when it was not blocked *)
OperacionNoFinalizada ==
    /\ RecibeDAM
    /\ Head(damASafa).res = "NoFinalizado"
    /\ LET i == Head(damASafa).id
       IN  cola' = IF En(i, "bloqueados")
                   THEN Mover(i, "bloqueados", "terminados")
                   ELSE Agregar(cola, "terminados", NULO)
    /\ UNCHANGED <<estado, datosDTB, hayDummy, cpus, dtbConEqGrandeAbierto,
                   pausas, hilos, caida>>

tieneEquipoGrande(archivos) == ToSet(archivos) \cap EquipoGrande # {}

(* list_any_satisfy: TRUE when the DTB IS in the list *)
noEstaEnLista(i) == i \in ToSet(dtbConEqGrandeAbierto)

AbrirPathFinalizadoOk ==
    /\ RecibeDAM
    /\ Head(damASafa).op = "AbrirPath" /\ Head(damASafa).res = "FinalizadoOk"
    /\ LET m == Head(damASafa)
           i == m.id
       IN  \/ /\ ~ En(i, "bloqueados")
              /\ Caer
           \/ /\ En(i, "bloqueados")
              /\ tabla' = [tabla EXCEPT ![i] = Append(@, m.path)]
              /\ dtbConEqGrandeAbierto' =
                   IF /\ ALGORITMO = "BOAF"
                      /\ tieneEquipoGrande(tabla'[i])
                      /\ noEstaEnLista(i)
                   THEN Append(dtbConEqGrandeAbierto, i)
                   ELSE dtbConEqGrandeAbierto
              /\ cola' = Mover(i, "bloqueados", ColaListos)
              /\ pausaPCP' = TRUE
              /\ UNCHANGED <<estado, id, iniGDT, hayDummy, cpus, pausaPLP,
                             hilos, caida>>

(* Flush, Crear and Eliminar ...FinalizadoOk: ready again, PCP not woken *)
OperacionFinalizadaOk ==
    /\ RecibeDAM
    /\ Head(damASafa).op # "AbrirPath" /\ Head(damASafa).res = "FinalizadoOk"
    /\ LET i == Head(damASafa).id
       IN  \/ /\ ~ En(i, "bloqueados")
              /\ Caer
           \/ /\ En(i, "bloqueados")
              /\ cola' = Mover(i, "bloqueados", ColaListos)
              /\ UNCHANGED <<estado, datosDTB, hayDummy, cpus,
                             dtbConEqGrandeAbierto, pausas, hilos, caida>>

-----------------------------------------------------------------------------
(* funcionHiloPLP and planificar_PLP *)
PLPDespierta ==
    /\ plp.en = "pausa" /\ pausaPLP
    /\ pausaPLP' = FALSE
    /\ plp' = [plp EXCEPT !.en = "grado"]
    /\ UNCHANGED <<estado, datosDTB, cola, hayDummy, cpus,
                   dtbConEqGrandeAbierto, pausaPCP, hiloDMA, com, pcp, con,
                   caida, red>>

(* nuevos + ejecutando + bloqueados - hayDummy < grado, over the integers *)
HayGrado == Len(cola["nuevos"]) + Len(cola["ejecutando"])
              + Len(cola["bloqueados"]) < GRADO + hayDummy

PLPGrado ==
    /\ plp.en = "grado"
    /\ plp' = [plp EXCEPT !.en = IF HayGrado THEN "decide" ELSE "pausa"]
    /\ UNCHANGED <<estado, datosDTB, cola, hayDummy, cpus,
                   dtbConEqGrandeAbierto, pausas, hiloDMA, com, pcp, con,
                   caida, red>>

(* Mutant of PLPDecide: admits without looking at hayDummy *)
PLPDecideSinDummy ==
    /\ plp.en = "decide"
    /\ cola["nuevos"] # <<>>
    /\ plp' = [plp EXCEPT !.en = "toma"]
    /\ UNCHANGED <<estado, datosDTB, cola, hayDummy, cpus,
                   dtbConEqGrandeAbierto, pausas, hiloDMA, com, pcp, con,
                   caida, red>>

PLPDecide ==
    /\ plp.en = "decide"
    /\ \/ /\ cola["nuevos"] # <<>> /\ hayDummy = 0
          /\ plp' = [plp EXCEPT !.en = "toma"]
          /\ UNCHANGED pausaPCP
       \/ /\ cola["nuevos"] = <<>> \/ hayDummy # 0
          /\ plp' = [plp EXCEPT !.en = "pausa"]
          /\ pausaPCP' = TRUE
    /\ UNCHANGED <<estado, datosDTB, cola, hayDummy, cpus,
                   dtbConEqGrandeAbierto, pausaPLP, hiloDMA, com, pcp, con,
                   caida, red>>

(* pop "nuevos" (the console may have emptied it: NULL), make it the dummy *)
PLPToma ==
    /\ plp.en = "toma"
    /\ \/ /\ cola["nuevos"] = <<>>
          /\ Caer
       \/ /\ cola["nuevos"] # <<>>
          /\ LET i == Head(cola["nuevos"])
             IN  /\ plp' = [en |-> "agrega", dtb |-> i]
                 /\ iniGDT' = [iniGDT EXCEPT ![i] = 0]
          /\ cola' = [cola EXCEPT !["nuevos"] = Tail(@)]
          /\ hayDummy' = hayDummy + 1
          /\ UNCHANGED <<estado, id, tabla, cpus, dtbConEqGrandeAbierto,
                         pausas, hiloDMA, com, pcp, con, caida>>
    /\ UNCHANGED red

PLPAgrega ==
    /\ plp.en = "agrega"
    /\ cola' = Agregar(cola, "listos", plp.dtb)
    /\ pausaPCP' = TRUE
    /\ plp' = [en |-> "pausa", dtb |-> NULO]
    /\ UNCHANGED <<estado, datosDTB, hayDummy, cpus, dtbConEqGrandeAbierto,
                   pausaPLP, hiloDMA, com, pcp, con, caida, red>>

-----------------------------------------------------------------------------
(* funcionHiloPlanif and planificar: at most one dispatch per wake-up *)
PCPDespierta ==
    /\ pcp.en = "pausa" /\ pausaPCP
    /\ pausaPCP' = FALSE
    /\ pcp' = [pcp EXCEPT !.en = "revisa"]
    /\ UNCHANGED <<estado, datosDTB, cola, hayDummy, cpus,
                   dtbConEqGrandeAbierto, pausaPLP, hiloDMA, com, plp, con,
                   caida, red>>

(* Mutant of PCPRevisa: cpu_libres > 1 in place of > 0 *)
PCPRevisaUnaDeMas ==
    /\ pcp.en = "revisa"
    /\ pcp' = [pcp EXCEPT !.en = IF /\ cola["listos"] # <<>>
                                    /\ Len(cpu_libres) > 1
                                 THEN "elige" ELSE "pausa"]
    /\ UNCHANGED <<estado, datosDTB, cola, hayDummy, cpus,
                   dtbConEqGrandeAbierto, pausas, hiloDMA, com, plp, con,
                   caida, red>>

(* Mutant of PCPRevisa: does not look at cpu_libres *)
PCPRevisaSinCPU ==
    /\ pcp.en = "revisa"
    /\ pcp' = [pcp EXCEPT !.en = IF cola["listos"] # <<>>
                                 THEN "elige" ELSE "pausa"]
    /\ UNCHANGED <<estado, datosDTB, cola, hayDummy, cpus,
                   dtbConEqGrandeAbierto, pausas, hiloDMA, com, plp, con,
                   caida, red>>

PCPRevisa ==
    /\ pcp.en = "revisa"
    /\ pcp' = [pcp EXCEPT !.en = IF /\ cola["listos"] # <<>>
                                    /\ cpu_libres # <<>>
                                 THEN "elige" ELSE "pausa"]
    /\ UNCHANGED <<estado, datosDTB, cola, hayDummy, cpus,
                   dtbConEqGrandeAbierto, pausas, hiloDMA, com, plp, con,
                   caida, red>>

(* Mutant of ListaAPlanificar: the last of "listos" first *)
ListaAPlanificarAlReves == Reverse(cola["listos"])

(* proximoDTBAPlanificar: the list whose first DTB runs next *)
ListaAPlanificar ==
    IF ALGORITMO = "VRR" /\ cola["auxVirtualRR"] # <<>>
    THEN cola["auxVirtualRR"]
    ELSE IF ALGORITMO = "BOAF" /\ dtbConEqGrandeAbierto # <<>>
         THEN dtbConEqGrandeAbierto
         ELSE cola["listos"]

PCPElige ==
    /\ pcp.en = "elige"
    /\ \/ /\ ListaAPlanificar = <<>>
          /\ Caer
       \/ /\ ListaAPlanificar # <<>>
          /\ pcp' = [en |-> "busca", dtb |-> Head(ListaAPlanificar)]
          /\ dtbConEqGrandeAbierto' =            \* obtenerPrimerIdConEG
               IF ALGORITMO = "BOAF" /\ dtbConEqGrandeAbierto # <<>>
               THEN Append(dtbConEqGrandeAbierto, Head(dtbConEqGrandeAbierto))
               ELSE dtbConEqGrandeAbierto
          /\ UNCHANGED <<estado, datosDTB, cola, hayDummy, cpus, pausas,
                         hiloDMA, com, plp, con, caida>>
    /\ UNCHANGED red

(* buscarDTBPorId: in auxVirtualRR whenever that list is not empty *)
PCPBusca ==
    /\ pcp.en = "busca"
    /\ LET q == IF cola["auxVirtualRR"] # <<>> THEN "auxVirtualRR" ELSE "listos"
       IN  pcp' = [en |-> "despacha",
                   dtb |-> IF En(pcp.dtb, q) THEN pcp.dtb ELSE NULO]
    /\ UNCHANGED <<estado, datosDTB, cola, hayDummy, cpus,
                   dtbConEqGrandeAbierto, pausas, hiloDMA, com, plp, con,
                   caida, red>>

(* prot_enviar_SAFA_CPU_DTB empties the list it iterates over: with n      *)
(* files it announces n, sends the first half (rounded up) and keeps the   *)
(* rest.                                                                   *)
Enviados(n) == (n + 1) \div 2

(* Mutant of Restantes: list_get in place of list_remove *)
RestantesTodos(archivos) == archivos

Restantes(archivos) == SubSeq(archivos, Enviados(Len(archivos)) + 1, Len(archivos))

PCPDespacha ==
    /\ pcp.en = "despacha"
    /\ \/ /\ pcp.dtb = NULO
          /\ Caer
          /\ UNCHANGED red
       \/ /\ pcp.dtb # NULO
          /\ LET i == pcp.dtb
                 c == Head(cpu_libres)
                 n == Len(tabla[i])
             IN  /\ cpu_libres' = Tail(cpu_libres)
                 /\ cpu_ejecutando' = cpu_ejecutando \cup {c}
                 /\ safaACpu' = Enviar(safaACpu, c,
                      [id |-> i, ini |-> iniGDT[i], cantidad |-> n,
                       archivos |-> SubSeq(tabla[i], 1, Enviados(n))])
                 /\ tabla' = [tabla EXCEPT ![i] = Restantes(@)]
          /\ pcp' = [pcp EXCEPT !.en = "quita"]
          /\ UNCHANGED <<estado, id, iniGDT, cola, hayDummy,
                         dtbConEqGrandeAbierto, pausas, hiloDMA, com, plp,
                         con, caida, cpuASafa, cpuADam, damACpu, damASafa>>

(* Mutant of PCPQuita: the DTB stays in "listos" *)
PCPQuitaNada ==
    /\ pcp.en = "quita"
    /\ pcp' = [pcp EXCEPT !.en = "agrega"]
    /\ UNCHANGED <<estado, datosDTB, cola, hayDummy, cpus,
                   dtbConEqGrandeAbierto, pausas, hiloDMA, com, plp, con,
                   caida, red>>

(* list_remove(listos, 0), whichever DTB is there by now; removing from an *)
(* empty so-commons list dereferences a NULL head or does nothing.         *)
PCPQuita ==
    /\ pcp.en = "quita"
    /\ \/ /\ cola["listos"] = <<>>
          /\ Caer
       \/ /\ cola' = [cola EXCEPT !["listos"] = IF @ = <<>> THEN @ ELSE Tail(@)]
          /\ pcp' = [pcp EXCEPT !.en = "agrega"]
          /\ UNCHANGED <<estado, datosDTB, hayDummy, cpus,
                         dtbConEqGrandeAbierto, pausas, hiloDMA, com, plp,
                         con, caida>>
    /\ UNCHANGED red

PCPAgrega ==
    /\ pcp.en = "agrega"
    /\ cola' = Agregar(cola, "ejecutando", pcp.dtb)
    /\ pcp' = [en |-> "pausa", dtb |-> NULO]
    /\ UNCHANGED <<estado, datosDTB, hayDummy, cpus, dtbConEqGrandeAbierto,
                   pausas, hiloDMA, com, plp, con, caida, red>>

-----------------------------------------------------------------------------
(* funcionHiloConsola *)
EjecutarEscriptorio ==
    /\ con.en = "lista" /\ "ejecutar" \in Comandos
    /\ estadoSAFA = "OPERATIVO"
    /\ id <= MaxDTB                             \* bound
    /\ id' = id + 1                             \* crear_DTB: ini 1, no files
    /\ cola' = Agregar(cola, "nuevos", id)
    /\ pausaPLP' = TRUE
    /\ UNCHANGED <<estado, iniGDT, tabla, hayDummy, cpus,
                   dtbConEqGrandeAbierto, pausaPCP, hilos, caida, red>>

(* buscar_DTB_Por_ID looks through the lists in this order, and through a  *)
(* NULL of "terminados" if it meets one before the DTB.                    *)
OrdenDeBusqueda == <<"ejecutando", "nuevos", "listos", "bloqueados",
                     "terminados", "auxVirtualRR">>

Topa(i, k) == \E j \in 1 .. Len(cola[OrdenDeBusqueda[k]]) :
                 cola[OrdenDeBusqueda[k]][j] \in {i, NULO}

BuscaHasta(i, k) == /\ k \in DOMAIN OrdenDeBusqueda
                    /\ Topa(i, k)
                    /\ \A l \in 1 .. k - 1 : ~ Topa(i, l)

PrimeroEnTerminados(i) ==
    SelectSeq(cola["terminados"], LAMBDA e : e \in {i, NULO})[1]

FinalizarBusca(i) ==
    /\ con.en = "lista" /\ "finalizar" \in Comandos
    /\ \E k \in DOMAIN OrdenDeBusqueda :
          /\ BuscaHasta(i, k)
          /\ LET q == OrdenDeBusqueda[k]
             IN  \/ /\ q = "terminados" /\ PrimeroEnTerminados(i) = NULO
                    /\ Caer
                 \/ /\ q # "terminados"
                    /\ con' = [en |-> IF q = "ejecutando" THEN "espera"
                                      ELSE "remueve",
                               dtb |-> i, de |-> q]
                    /\ UNCHANGED <<estado, datosDTB, cola, hayDummy, cpus,
                                   dtbConEqGrandeAbierto, pausas, hiloDMA,
                                   com, plp, pcp, caida>>
    /\ UNCHANGED red

(* pase_DTB_de_EJECUTANDO_a_FINALIZADO: loops until the DTB is executing *)
FinalizarEspera ==
    /\ con.en = "espera"
    /\ En(con.dtb, "ejecutando")
    /\ con' = [con EXCEPT !.en = "remueve"]
    /\ UNCHANGED <<estado, datosDTB, cola, hayDummy, cpus,
                   dtbConEqGrandeAbierto, pausas, hiloDMA, com, plp, pcp,
                   caida, red>>

(* finalizarDTB: takes no list lock, and adds the NULL it may have found *)
FinalizarDTB ==
    /\ con.en = "remueve"
    /\ cola' = IF En(con.dtb, con.de)
               THEN Mover(con.dtb, con.de, "terminados")
               ELSE Agregar(cola, "terminados", NULO)
    /\ con' = [con EXCEPT !.en = "lista", !.dtb = NULO]
    /\ UNCHANGED <<estado, datosDTB, hayDummy, cpus, dtbConEqGrandeAbierto,
                   pausas, hiloDMA, com, plp, pcp, caida, red>>
=============================================================================
