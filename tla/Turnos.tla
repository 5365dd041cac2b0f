-------------------------------- MODULE Turnos ---------------------------------
(***************************************************************************)
(* Why the scheduler keeps its promises: the inductive invariants behind    *)
(* the properties of Planificacion and its refinement of CicloDeScript.     *)
(* They hold when the operator does not finish scripts by hand, the         *)
(* algorithm is not VRR and, from InvTurnos on, a turn is one sentence:     *)
(* otherwise a list loses a DTB that another thread is working on, or a CPU *)
(* answers more than once for one turn.                                     *)
(***************************************************************************)
EXTENDS CicloPlanificacion

-----------------------------------------------------------------------------
(* Where each DTB is, for every quantum *)

Existe(i) == i \in 1 .. id - 1

Ninguno(i) == \A lugar \in Lugares : ~ Esta(i, lugar)

(* The PCP works on the head of "listos" from the choice to the removal:    *)
(* nobody else takes a DTB out of it.                                       *)
PCPConElPrimero ==
    /\ pcp.en = "elige" => cola["listos"] # <<>>
    /\ pcp.en \in {"busca", "despacha", "quita"} =>
         cola["listos"] # <<>> /\ Head(cola["listos"]) = pcp.dtb

(* The list of VRR is not used, and neither is the one of BOAF: a DTB is     *)
(* added to it only if it already is there.                                  *)
ListasSinUso == cola["auxVirtualRR"] = <<>> /\ dtbConEqGrandeAbierto = <<>>

(* A DTB has a file to announce, and only one, while it is ready and has not *)
(* been sent.                                                                *)
TablaCorta ==
    \A i \in DTB : tabla[i] # <<>> =>
        /\ Len(tabla[i]) = 1
        /\ En(i, "listos")
        /\ ~ (pcp.en = "quita" /\ pcp.dtb = i)

InvLugar ==
    /\ InvDummy
    /\ con.en = "lista"
    /\ EnUnSoloLugar
    /\ \A i \in DTB : ~ Existe(i) => Ninguno(i)
    /\ PCPConElPrimero
    /\ ListasSinUso
    /\ TablaCorta
    /\ MensajeBienFormado

-----------------------------------------------------------------------------
(* One turn at a time, when a turn is one sentence *)

(* a message of "canal" of CPU c carries the id of DTB i *)
Trae(canal, c, i) == \E k \in DOMAIN canal[c] : canal[c][k].id = i

(* the turn of CPU c is about DTB i *)
Lleva(c, i) == \/ Trae(safaACpu, c, i)
               \/ Corre(c) /\ cpu[c].dtb = i
               \/ Trae(cpuASafa, c, i)
               \/ EnHiloCPU(i, c)

Ocupado(c) == com[c].en \notin {"verifica", "espera"}

(* The turn of a CPU is in one stage at a time, and at most one message of   *)
(* it is on the way: free, sent, running, reported, being attended.          *)
UnaVuelta ==
    \A c \in CPUS :
        /\ Len(safaACpu[c]) <= 1 /\ Len(cpuASafa[c]) <= 1
        /\ c \in ToSet(cpu_libres) =>
             ~ Hay(safaACpu, c) /\ ~ Corre(c) /\ ~ Hay(cpuASafa, c) /\ ~ Ocupado(c)
        /\ Hay(safaACpu, c) => ~ Corre(c) /\ ~ Hay(cpuASafa, c) /\ ~ Ocupado(c)
        /\ Corre(c) => ~ Hay(cpuASafa, c) /\ ~ Ocupado(c)
        /\ Hay(cpuASafa, c) => ~ Ocupado(c)

LibresDistintas ==
    \A j, k \in DOMAIN cpu_libres : cpu_libres[j] = cpu_libres[k] => j = k

(* A DTB is in the turn of one CPU at most, and then SAFA has it in the      *)
(* hands of that CPU's thread, in "ejecutando", or on its way there.         *)
Saliendo(i) == pcp.en \in {"quita", "agrega"} /\ pcp.dtb = i

UnTurno ==
    \A i \in DTB : \A c \in CPUS : Lleva(c, i) =>
        /\ \A d \in CPUS : Lleva(d, i) => c = d
        /\ EnHiloCPU(i, c) \/ En(i, "ejecutando") \/ Saliendo(i)

(* A CPU that asks the DAM waits until the DAM takes its request. *)
EsperaAlDAM(c) == cpu[c].en \in {"dummy", "esperaDAM"}

UnPedido ==
    \A c \in CPUS :
        /\ Len(cpuADam[c]) <= 1 /\ Len(damACpu[c]) <= 1
        /\ Hay(damACpu, c) => EsperaAlDAM(c)
        /\ Hay(cpuADam, c) => /\ EsperaAlDAM(c)
                              /\ ~ Hay(damACpu, c)
                              /\ Head(cpuADam[c]).id = cpu[c].dtb

(* The DAM works on one request of a DTB at a time, and its answer finds the *)
(* DTB blocked, or about to be.                                              *)
EnElDAM(i) == dam.en \in {"carga", "informa"} /\ dam.respuesta.id = i

Respondido(i) == \E k \in DOMAIN damASafa : damASafa[k].id = i

Pendiente(i) == \E c \in CPUS : Trae(cpuADam, c, i)

UnaRespuesta ==
    /\ \A j, k \in DOMAIN damASafa : damASafa[j].id = damASafa[k].id => j = k
    /\ \A i \in DTB :
         /\ ~ (EnElDAM(i) /\ Respondido(i))
         /\ Pendiente(i) => ~ EnElDAM(i) /\ ~ Respondido(i)
         /\ EnElDAM(i) \/ Respondido(i) \/ Pendiente(i) =>
              PorBloquear(i) \/ En(i, "bloqueados")

(* Who is the dummy, as the messages and the CPUs have it: the flag that     *)
(* travels is the flag SAFA has, and only a DTB that waits for its first     *)
(* turn, or is in it, has it at 0.                                           *)
BanderaAlDia ==
    /\ \A c \in CPUS :
         /\ \A k \in DOMAIN safaACpu[c] : safaACpu[c][k].ini = iniGDT[safaACpu[c][k].id]
         /\ cpu[c].en \in {"lee", "esperaDAM"} => iniGDT[cpu[c].dtb] = 1
         /\ com[c].en \in {"bloquea", "termina"} /\ com[c].dtb # NULO =>
              iniGDT[com[c].dtb] = 1
         /\ \A k \in DOMAIN cpuASafa[c] :
              cpuASafa[c][k].tipo # "BloquearDTB" => iniGDT[cpuASafa[c][k].id] = 1
    /\ \A i \in DTB :
         \/ ~ Existe(i)
         \/ \E q \in {"nuevos", "bloqueados", "terminados"} : En(i, q)
         => iniGDT[i] = 1

(* The PLP decides to take a script while one waits in "nuevos", and nobody  *)
(* else takes it.                                                            *)
PLPConUno == plp.en = "toma" => cola["nuevos"] # <<>>

UnTurnoPorVez == /\ UnaVuelta /\ LibresDistintas /\ UnTurno
                 /\ UnPedido /\ UnaRespuesta /\ BanderaAlDia

(* The inductive invariant: one turn at a time until SAFA dies. *)
InvTurnos ==
    /\ InvLugar
    /\ PLPConUno
    /\ UnaCPUPorDTB
    /\ ~ caida => UnTurnoPorVez
=============================================================================
