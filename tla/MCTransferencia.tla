---------------------------- MODULE MCTransferencia ----------------------------
(* Instances of Transferencia for TLC *)
EXTENDS Transferencia, TLC

CONSTANTS script, corto, roto, d1, d2, nada, nulo, fuera, noExiste

EnMDJ == script :> <<"a", "\n", "b", "\n", "c">>     \* three fragments
         @@ corto :> <<"e", "\n">>                   \* one
         @@ roto  :> <<"g">>                         \* cannot be read

Linea == <<"\n", "h">>

Barra == "\n"

Caracteres == {"a", "b", "c", "e", "g", "h", "\n", "?"}
=============================================================================
