---------------------------- MODULE ReservaDeBloques ----------------------------
(***************************************************************************)
(* What MDJ promises about blocks, whatever its threads do and whenever it *)
(* is stopped: a block is free, reserved by the operation in progress, of  *)
(* one file, or lost.  A file gets all the blocks of a write at once or    *)
(* none; it gives blocks back one by one; an operation abandons what it    *)
(* reserved only when no block is free; and one stop costs, at most, the   *)
(* blocks reserved and one file.                                           *)
(***************************************************************************)
EXTENDS Naturals

CONSTANTS Bloques, Paths

VARIABLES
    archivo,      \* [Paths -> SUBSET Bloques], the blocks of each file
    tramite,      \* the blocks reserved by the operation in progress
    perdidos,     \* marked in the bitmap, of nobody
    paradas,      \* how many times it was stopped
    roto          \* the promise no longer holds

vars == <<archivo, tramite, perdidos, paradas, roto>>

DeArchivos == UNION {archivo[p] : p \in Paths}
Libres     == Bloques \ (DeArchivos \cup tramite \cup perdidos)

Init ==
    /\ archivo = [p \in Paths |-> {}]
    /\ tramite = {} /\ perdidos = {} /\ paradas = 0 /\ roto = FALSE

Reservar ==
    /\ \E b \in Libres : tramite' = tramite \cup {b}
    /\ UNCHANGED <<archivo, perdidos, paradas>>

Confirmar ==
    /\ \E p \in Paths : archivo' = [archivo EXCEPT ![p] = @ \cup tramite]
    /\ tramite' = {}
    /\ UNCHANGED <<perdidos, paradas>>

Abandonar ==
    /\ Libres = {}
    /\ tramite' = {}
    /\ perdidos' = perdidos \cup tramite
    /\ UNCHANGED <<archivo, paradas>>

Soltar ==
    /\ \E p \in Paths : \E b \in archivo[p] :
          archivo' = [archivo EXCEPT ![p] = @ \ {b}]
    /\ UNCHANGED <<tramite, perdidos, paradas>>

Parada ==
    /\ \E Q \in SUBSET Paths, B \in SUBSET Libres :
          /\ \A p, q \in Q : p = q
          /\ archivo' = [p \in Paths |-> IF p \in Q THEN {} ELSE archivo[p]]
          /\ perdidos' = UNION ({perdidos, tramite, B} \cup {archivo[p] : p \in Q})
    /\ tramite' = {}
    /\ paradas' = paradas + 1

Romper == roto' = TRUE

Next == \/ Romper
        \/ /\ Reservar \/ Confirmar \/ Abandonar \/ Soltar \/ Parada
           /\ UNCHANGED roto

Spec == Init /\ [][Next]_vars
=============================================================================
