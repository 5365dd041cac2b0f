------------------------------ MODULE Mensajeria -------------------------------
(***************************************************************************)
(* The transfers of Transferencia on the messages of Protocolo: which      *)
(* bytes the DAM, MDJ and FM9 write for each of their steps, and whether   *)
(* the other side reads the values the step is about.                      *)
(***************************************************************************)
EXTENDS Sistema, Protocolo

CONSTANTS
    Codigo,          \* [Bytes -> 1 .. 255]
    Numero,          \* [Pids -> Nat], the pid of each process
    Nombre           \* [Paths -> Seq(1 .. 255)], the characters of each path

ASSUME MensajeriaAssumption ==
    /\ Codigo \in [Bytes -> 1 .. 255]
    /\ Numero \in [Pids -> Nat]
    /\ Nombre \in [Paths -> Seq(1 .. 255)]

DatosObtenidos == 11        \* a value of enum MENSAJES

(* MDJ announces the size it was asked for: past the end of the file there  *)
(* are zeros                                                                *)
Completo(b, n) == b \o [k \in 1 .. n - Len(b) |-> 0]

EnBytes(b) == [k \in DOMAIN b |-> Codigo[b[k]]]

(* v is sent and w is read, to the last byte *)
Llega(m, v, w) ==
    Recibido(m, Enviado(m, v, 0)) = [campos |-> w, resto |-> <<>>, estado |-> "entero"]

(* pedir_datos_a_Mdj *)
ObtenerDatosDelDAM == <<Nombre[dam.path], dam.offset, dam.bytes>>

(* obtenerDatosDeDMA, when it found the bytes *)
DatosDeMDJ(b) == <<DatosObtenidos, b, dam.parte.total>>

(* cargar_datos_en_Fm9: the offset counts what FM9 already took *)
CargarEnMemoriaDelDAM(b) ==
    <<Numero[dam.pid], Nombre[dam.path], b,
      dam.offset - dam.parte.size, dam.bytes, dam.parte.total>>

(* informar_operacion_abrir_exitosa, ..._erronea *)
RespuestaParaSAFA == <<Nombre[dam.path], Numero[dam.pid], dam.direccion>>

(* Every step of a transfer writes messages that the other program reads    *)
(* with the values of that step, to the last byte, so that the connection   *)
(* is left at the start of the next header: although sizes are announced    *)
(* before the bytes, with their '\0' or without it, and a connection out of *)
(* step would stay so.  The bytes reach the DAM as MDJ has them, and FM9 as *)
(* a string that ends where the file does.                                  *)
MensajesDelDAM ==
    /\ dam.en = "pide" => Llega("obtenerDatos", ObtenerDatosDelDAM, ObtenerDatosDelDAM)
    /\ dam.en \in {"carga", "ultima"} /\ dam.parte.size > 0 =>
         LET leido   == EnBytes(dam.parte.datos)
             enviado == Completo(leido, dam.parte.size)
         IN  /\ Llega("datosObtenidos", DatosDeMDJ(enviado), DatosDeMDJ(enviado))
             /\ Llega("cargarEnMemoria", CargarEnMemoriaDelDAM(enviado),
                                         CargarEnMemoriaDelDAM(leido))
    /\ dam.en \in {"informa", "falla"} =>
         Llega("datosEnMemoria", RespuestaParaSAFA, RespuestaParaSAFA)
=============================================================================
