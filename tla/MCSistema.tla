------------------------------- MODULE MCSistema -------------------------------
(* Instance of Sistema for TLC, on the messages of Protocolo *)
EXTENDS Mensajeria, MCTransferencia

CONSTANTS c1, c2, nadie

ElScript == <<d1, script>>

Ascii == "a" :> 97 @@ "b" :> 98 @@ "c" :> 99 @@ "e" :> 101 @@ "g" :> 103
         @@ "h" :> 104 @@ "\n" :> 10 @@ "?" :> 63

Ids == d1 :> 1 @@ d2 :> 300

Rutas == script :> <<47, 115>> @@ corto :> <<47, 99>> @@ roto :> <<47>>
=============================================================================
