-------------------------- MODULE CicloPlanificacion ---------------------------
(***************************************************************************)
(* Planificacion implements CicloDeScript.  The phase of a script is read  *)
(* off the lists of SAFA, the threads that hold it, the CPUs and the       *)
(* messages on their way, together.                                        *)
(***************************************************************************)
EXTENDS Planificacion

Contestado(i) == \/ dam.en = "informa" /\ dam.respuesta.id = i
                 \/ \E k \in DOMAIN damASafa : damASafa[k].id = i

Pide(i) == \/ dam.en = "carga" /\ dam.respuesta.id = i
           \/ \E c \in CPUS : \E k \in DOMAIN cpuADam[c] : cpuADam[c][k].id = i

EnCPU(i) == \E c \in CPUS :
              \/ cpu[c].en = "lee" /\ cpu[c].dtb = i
              \/ \E k \in DOMAIN safaACpu[c] : safaACpu[c][k].id = i

Aborta(i) == \E c \in CPUS :
               \/ com[c].en = "termina" /\ com[c].dtb = i
               \/ \E k \in DOMAIN cpuASafa[c] :
                     cpuASafa[c][k] = [tipo |-> "AbortarDTB", id |-> i]

(* listo, and not the one the PCP has sent and is about to remove *)
EsperaTurno(i) == /\ \/ En(i, "listos") \/ En(i, "auxVirtualRR")
                     \/ plp.en = "agrega" /\ plp.dtb = i
                  /\ ~ (pcp.en = "quita" /\ pcp.dtb = i)

Fase(i) == CASE i >= id             -> "sinCrear"
             [] En(i, "nuevos")     -> "nuevo"
             [] En(i, "terminados") -> "fin"
             [] Contestado(i)       -> "contestado"
             [] Pide(i)             -> "pide"
             [] EnCPU(i)            -> "corre"
             [] Aborta(i)           -> "aborta"
             [] EsperaTurno(i)      -> "listo"
             [] OTHER               -> "perdido"

Ciclo == INSTANCE CicloDeScript WITH
            Scripts      <- DTB,
            Procesadores <- Cardinality(CPUS),
            fase         <- [i \in DTB |-> Fase(i)],
            primera      <- Dummies

(* Every step of SAFA's threads, the CPUs and the DAM is a step of the life *)
(* of one script, or none: the script the operator submitted is never ready *)
(* while it runs or waits, never asks twice in a run, and comes back only   *)
(* with the answer to what it asked, in every order of the messages.        *)
CicloCumplido == Ciclo!CicloSpec
=============================================================================
