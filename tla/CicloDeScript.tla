----------------------------- MODULE CicloDeScript -----------------------------
(***************************************************************************)
(* What the scheduler of SAFA promises to a script, whatever its threads,  *)
(* lists and messages do: the script is admitted once, and its first run   *)
(* is the only first run; it runs on one CPU at a time; it asks the DAM    *)
(* for one thing per run; and it is ready again, or ends, only with the    *)
(* answer.  The program may also lose sight of a script, and then the      *)
(* script is never ready again.                                            *)
(***************************************************************************)
EXTENDS Naturals, FiniteSets

CONSTANTS Scripts, Procesadores      \* how many CPUs there are

VARIABLES
    fase,        \* where each script is in its life
    primera      \* the scripts in their first run, which only asks for the file

ciclo == <<fase, primera>>

CicloInit == /\ fase = [i \in Scripts |-> "sinCrear"]
             /\ primera = {}

Pasa(i, de, a) == fase[i] = de /\ fase' = [fase EXCEPT ![i] = a]

Crear(i) == Pasa(i, "sinCrear", "nuevo") /\ UNCHANGED primera

Admitir(i) == /\ primera = {}
              /\ Pasa(i, "nuevo", "listo")
              /\ primera' = {i}

Despachar(i) == /\ Cardinality({j \in Scripts : fase[j] = "corre"}) < Procesadores
                /\ Pasa(i, "listo", "corre")
                /\ UNCHANGED primera

(* a run asks the DAM, ends with an error, or ends without a word *)
Correr(i) ==
    /\ \/ Pasa(i, "corre", "pide")
       \/ i \notin primera /\ Pasa(i, "corre", "aborta")
       \/ i \notin primera /\ Pasa(i, "corre", "perdido")
    /\ UNCHANGED primera

(* the first run is over when SAFA hears that the script waits *)
Presentar(i) == /\ i \in primera
                /\ fase[i] \in {"pide", "contestado", "perdido"}
                /\ primera' = {}
                /\ UNCHANGED fase

Contestar(i) == Pasa(i, "pide", "contestado") /\ UNCHANGED primera

(* with the answer the script is ready again, or ends *)
Reanudar(i) == i \notin primera /\ Pasa(i, "contestado", "listo") /\ UNCHANGED primera

Terminar(i) == /\ Pasa(i, "contestado", "fin") \/ Pasa(i, "aborta", "fin")
               /\ i \notin primera
               /\ UNCHANGED primera

(* the DAM stops, or SAFA does not find the script an answer is for *)
Perder(i) == /\ \E de \in {"pide", "contestado", "aborta"} : Pasa(i, de, "perdido")
             /\ UNCHANGED primera

CicloNext == \E i \in Scripts :
    \/ Crear(i) \/ Admitir(i) \/ Despachar(i) \/ Correr(i) \/ Presentar(i)
    \/ Contestar(i) \/ Reanudar(i) \/ Terminar(i) \/ Perder(i)

CicloSpec == CicloInit /\ [][CicloNext]_ciclo
=============================================================================
