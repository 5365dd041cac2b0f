------------------------------ MODULE ServidorMdj -------------------------------
(***************************************************************************)
(* The threads of MDJ around its file system: the one that listens to the  *)
(* DAM and starts a thread per request, that thread, and the shell of the  *)
(* console (ls, cd, cat, md5), with the three mutexes they add to          *)
(* mutexSistemaDeArchivos.  The work on files is that of Mdj.              *)
(***************************************************************************)
EXTENDS Mdj

VARIABLES
    escucha,      \* funcionHiloComunicacionConElDMA
    canal,        \* mutexUsoDelCanalDeComunicacionDelDMA is locked
    noTocar,      \* mutexNoTocarArchivos is locked
    pedido,       \* the thread of a request, hiloDePedidoDeDMA
    shell,        \* the command of the console
    dam           \* the other end of the connection, which asks and waits

hilos == <<escucha, canal, noTocar, pedido, shell, dam>>
todo  == <<vars, hilos>>

Sentado == [en |-> "libre", path |-> CHOOSE p \in Paths : TRUE, md |-> NoExiste]

(* The types, and: a thread of request exists only while the channel is     *)
(* locked for it, and it locks the files from its second step on.           *)
ServidorTypeOK ==
    /\ TypeOK
    /\ escucha \in {"acepta", "canal", "lee"}
    /\ canal \in BOOLEAN /\ noTocar \in BOOLEAN
    /\ pedido \in {"ninguno", "llega", "opera", "trabaja", "longitud",
                   "responde", "suelta", "sueltaCanal"}
    /\ shell \in [en : {"libre", "pide", "longitud", "datos", "atascada"},
                  path : Paths, md : Metadata]
    /\ dam \in {"afuera", "libre", "espera", "ido"}
    /\ pedido # "ninguno" => canal
    /\ pedido \notin {"ninguno", "llega", "sueltaCanal"} => noTocar

ServidorInit ==
    /\ Init
    /\ escucha = "acepta" /\ dam = "afuera"
    /\ canal = FALSE /\ noTocar = FALSE
    /\ pedido = "ninguno" /\ shell = Sentado

-----------------------------------------------------------------------------
(* The thread that listens.  It accepts one connection in its life.         *)
Aceptar ==
    /\ vivo /\ escucha = "acepta" /\ dam = "afuera"
    /\ escucha' = "canal" /\ dam' = "libre"
    /\ UNCHANGED <<vars, canal, noTocar, pedido, shell>>

(* Mutant of TomarCanal: the mutex is not taken *)
TomarCanalSinEsperar ==
    /\ vivo /\ escucha = "canal"
    /\ canal' = TRUE /\ escucha' = "lee"
    /\ UNCHANGED <<vars, noTocar, pedido, shell, dam>>

TomarCanal ==
    /\ vivo /\ escucha = "canal" /\ ~ canal
    /\ canal' = TRUE /\ escucha' = "lee"
    /\ UNCHANGED <<vars, noTocar, pedido, shell, dam>>

(* The header of a request starts its thread, which will unlock the channel *)
(* and meanwhile owns the socket.  An end of file starts nobody: the next   *)
(* turn of the loop waits for the mutex this one left locked.               *)
LeerCabecera ==
    /\ vivo /\ escucha = "lee"
    /\ \/ dam = "espera" /\ pedido' = "llega"
       \/ dam = "ido" /\ UNCHANGED pedido
    /\ escucha' = "canal"
    /\ UNCHANGED <<vars, canal, noTocar, shell, dam>>

PasoEscucha == Aceptar \/ TomarCanal \/ LeerCabecera

-----------------------------------------------------------------------------
(* The thread of a request: the handlers ...DeDMA.  Its first lock covers   *)
(* the rest of the message, the operation, the answer and the delay.        *)
RecibirPedido ==
    /\ vivo /\ pedido = "llega" /\ ~ noTocar
    /\ noTocar' = TRUE /\ pedido' = "opera"
    /\ UNCHANGED <<vars, escucha, canal, shell, dam>>

(* the operations that write: crearArchivo, borrarArchivo, guardarDatos *)
EmpezarTrabajo ==
    /\ pedido = "opera"
    /\ \/ \E p \in Paths : CrearArchivo("dma", p) \/ BorrarArchivo("dma", p)
       \/ \E p \in Paths, r \in Rangos : GuardarDatos("dma", p, r[1], r[2])
    /\ pedido' = "trabaja"
    /\ UNCHANGED <<escucha, canal, noTocar, shell, dam>>

(* those that only look (validarArchivo; one that meets no file, or meets   *)
(* the one to create), and obtenerDatos, which is followed by               *)
(* obtenerLongigutDelArchivo under a lock of its own                        *)
Mirar ==
    /\ vivo /\ pedido = "opera" /\ ~ mutex
    /\ pedido' \in {"responde", "longitud"}
    /\ UNCHANGED <<vars, escucha, canal, noTocar, shell, dam>>

ObtenerDatosDMA ==
    /\ pedido = "opera"
    /\ \E p \in Paths : ObtenerDatos("dma", p)
    /\ UNCHANGED hilos

LongitudDMA ==
    /\ vivo /\ pedido = "longitud" /\ ~ mutex
    /\ pedido' = "responde"
    /\ UNCHANGED <<vars, escucha, canal, noTocar, shell, dam>>

(* a step in the middle of an operation of h *)
Avanzar(h) ==
    \/ \E n \in Tamanios : EscribirVacia(h, n)
    \/ SoltarDeNuevo(h) \/ EscribirBloque(h) \/ BuscarBloque(h)
    \/ ReservarBloque(h) \/ SinEspacio(h) \/ TerminarGuardar(h)
    \/ EscribirMetadata(h) \/ BorrarBloque(h) \/ QuitarMetadata(h)

Trabajar ==
    /\ pedido = "trabaja"
    /\ Avanzar("dma")
    /\ pedido' = IF hilo'["dma"].en = "libre" THEN "responde" ELSE "trabaja"
    /\ UNCHANGED <<escucha, canal, noTocar, shell, dam>>

(* The answer lets the DAM go on, and ask again, before the locks are free. *)
Responder ==
    /\ vivo /\ pedido = "responde"
    /\ pedido' = "suelta" /\ dam' = "libre"
    /\ UNCHANGED <<vars, escucha, canal, noTocar, shell>>

(* Mutant of Soltar: mutexNoTocarArchivos stays locked *)
SoltarSoloElCanal ==
    /\ vivo
    /\ \/ pedido = "suelta" /\ pedido' = "sueltaCanal" /\ UNCHANGED <<noTocar, canal>>
       \/ pedido = "sueltaCanal" /\ pedido' = "ninguno" /\ canal' = FALSE /\ UNCHANGED noTocar
    /\ UNCHANGED <<vars, escucha, shell, dam>>

(* Mutant of Soltar: the channel is unlocked first *)
SoltarAlReves ==
    /\ vivo
    /\ \/ /\ pedido = "suelta"
          /\ pedido' = "sueltaCanal" /\ canal' = FALSE
          /\ UNCHANGED noTocar
       \/ /\ pedido = "sueltaCanal"
          /\ pedido' = "ninguno" /\ noTocar' = FALSE
          /\ UNCHANGED canal
    /\ UNCHANGED <<vars, escucha, shell, dam>>

Soltar ==
    /\ vivo
    /\ \/ /\ pedido = "suelta"
          /\ pedido' = "sueltaCanal" /\ noTocar' = FALSE
          /\ UNCHANGED canal
       \/ /\ pedido = "sueltaCanal"
          /\ pedido' = "ninguno" /\ canal' = FALSE
          /\ UNCHANGED noTocar
    /\ UNCHANGED <<vars, escucha, shell, dam>>

PasoPedido == \/ RecibirPedido \/ EmpezarTrabajo \/ Mirar \/ ObtenerDatosDMA
              \/ LongitudDMA \/ Trabajar \/ Responder \/ Soltar

-----------------------------------------------------------------------------
(* The console *)
EnElPrompt == vivo /\ shell.en = "libre" /\ hilo["consola"].en = "libre"

(* CrearArchivo, BorrarArchivo, GuardarDatos and ObtenerDatos take only     *)
(* mutexSistemaDeArchivos.                                                  *)
ComandoDeArchivos ==
    /\ EnElPrompt
    /\ \/ \E p \in Paths : \/ CrearArchivo("consola", p)
                           \/ BorrarArchivo("consola", p)
                           \/ ObtenerDatos("consola", p)
       \/ \E p \in Paths, r \in Rangos : GuardarDatos("consola", p, r[1], r[2])
    /\ UNCHANGED hilos

SeguirComando == Avanzar("consola") /\ UNCHANGED hilos

(* funcionDeConsolacat, generarMD5: mutexNoTocarArchivos is held over the    *)
(* length of the file and its data, each under mutexSistemaDeArchivos.      *)
Cat(p) ==
    /\ EnElPrompt
    /\ shell' = [Sentado EXCEPT !.en = "pide", !.path = p]
    /\ UNCHANGED <<vars, escucha, canal, noTocar, pedido, dam>>

(* Mutant of CatReserva: without the lock *)
CatSinReservar ==
    /\ vivo /\ shell.en = "pide"
    /\ shell' = [shell EXCEPT !.en = "longitud"]
    /\ UNCHANGED <<vars, escucha, canal, noTocar, pedido, dam>>

CatReserva ==
    /\ vivo /\ shell.en = "pide" /\ ~ noTocar
    /\ noTocar' = TRUE
    /\ shell' = [shell EXCEPT !.en = "longitud"]
    /\ UNCHANGED <<vars, escucha, canal, pedido, dam>>

CatLongitud ==
    /\ vivo /\ shell.en = "longitud" /\ ~ mutex
    /\ shell' = [shell EXCEPT !.en = "datos", !.md = metadata[shell.path]]
    /\ UNCHANGED <<vars, escucha, canal, noTocar, pedido, dam>>

CatDatos ==
    /\ vivo /\ shell.en = "datos" /\ ~ mutex
    /\ \/ /\ metadata[shell.path].estado = "ilegible"
          /\ Caer /\ UNCHANGED hilos
       \/ /\ metadata[shell.path].estado # "ilegible"
          /\ shell' = Sentado /\ noTocar' = FALSE
          /\ UNCHANGED <<vars, escucha, canal, pedido, dam>>

(* Mutant of LsConParametro: the lock taken twice is that of the files *)
LsConParametroNoTocar ==
    /\ EnElPrompt /\ ~ noTocar
    /\ noTocar' = TRUE
    /\ shell' = [Sentado EXCEPT !.en = "atascada"]
    /\ UNCHANGED <<vars, escucha, canal, pedido, dam>>

(* listarDirectorioConParametro: mutexPath, which only the console uses, is *)
(* locked again where it should be unlocked                                 *)
LsConParametro ==
    /\ EnElPrompt
    /\ shell' = [Sentado EXCEPT !.en = "atascada"]
    /\ UNCHANGED <<vars, escucha, canal, noTocar, pedido, dam>>

PasoConsola == SeguirComando \/ CatReserva \/ CatLongitud \/ CatDatos

-----------------------------------------------------------------------------
(* The DAM: one request at a time, and it leaves when a CPU leaves it.      *)
Pedir == /\ vivo /\ dam = "libre" /\ dam' = "espera"
         /\ UNCHANGED <<vars, escucha, canal, noTocar, pedido, shell>>

Irse  == /\ vivo /\ dam = "libre" /\ dam' = "ido"
         /\ UNCHANGED <<vars, escucha, canal, noTocar, pedido, shell>>

(* A kill, at any moment; exit needs a console that reads commands. *)
PararServidor ==
    /\ Parar
    /\ shell.en # "libre" => disco' = disco
    /\ UNCHANGED hilos

LevantarServidor ==
    /\ Levantar
    /\ escucha' = "acepta" /\ dam' = "afuera"
    /\ canal' = FALSE /\ noTocar' = FALSE
    /\ pedido' = "ninguno" /\ shell' = Sentado

ServidorNext ==
    \/ PasoEscucha \/ PasoPedido \/ PasoConsola
    \/ ComandoDeArchivos \/ LsConParametro
    \/ \E p \in Paths : Cat(p)
    \/ Pedir \/ Irse
    \/ PararServidor \/ LevantarServidor

ServidorSpec == ServidorInit /\ [][ServidorNext]_todo
-----------------------------------------------------------------------------
(* One thread at a time reads the connection with the DAM: the header of    *)
(* the next request is never read while the rest of one is on its way.      *)
UnLectorDelSocket ==
    vivo /\ pedido = "llega" => escucha # "lee"

(* cat and md5 print data of the version whose length they measured,        *)
(* although the two are read under different locks: nobody writes or        *)
(* deletes the file in between.                                             *)
LecturaDeUnaVersion ==
    vivo /\ shell.en = "datos" => metadata[shell.path] = shell.md

(* Whatever the console is doing, and even when ls has left it waiting for  *)
(* itself, the DAM that waits for an answer has a thread that can move.     *)
DAMConSalida ==
    vivo /\ dam = "espera" => ENABLED (PasoEscucha \/ PasoPedido \/ PasoConsola)

(* A command of the console is stuck for ever in one way only, ls with a    *)
(* parameter: the locks it shares with the requests are always given back.  *)
ConsolaConSalida ==
    (/\ vivo
     /\ shell.en \in {"pide", "longitud", "datos"} \/ hilo["consola"].en # "libre")
    => ENABLED (PasoPedido \/ PasoConsola)

(* The inductive invariant: who has which lock.  The channel is with the    *)
(* thread that listens or with that of a request, the files with a request  *)
(* or with the shell, and only who has them started an operation.           *)
CandadosOK ==
    /\ ServidorTypeOK
    /\ escucha = "lee" => canal /\ pedido = "ninguno"
    /\ shell.en \in {"longitud", "datos"} =>
         noTocar /\ pedido \in {"ninguno", "llega", "sueltaCanal"}
    /\ hilo["dma"].en # "libre" => pedido = "trabaja"
    /\ shell.en # "libre" => hilo["consola"].en = "libre"

InvServidor == InvMdj /\ CandadosOK /\ LecturaDeUnaVersion
=============================================================================
