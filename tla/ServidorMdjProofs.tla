--------------------------- MODULE ServidorMdjProofs ---------------------------
(***************************************************************************)
(* Proofs about ServidorMdj, for every set of paths, every number and size *)
(* of blocks and every bound on stops: that it is an Mdj, so that what is  *)
(* proved of the blocks holds of the server; the locks around the file     *)
(* system; and that it keeps the promise of ReservaDeBloques.              *)
(***************************************************************************)
EXTENDS ServidorMdj, MdjReservaProofs

(* Every thread that takes a step is one of Mdj's. *)
LEMMA AvanzarOperacion ==
    ASSUME NEW h \in Hilos, Avanzar(h)
    PROVE  Operacion(h) /\ vivo /\ hilo[h].en # "libre"
<1>1. Operacion(h)
  BY DEF Avanzar, Operacion
<1>2. vivo /\ hilo[h].en # "libre"
  BY DEF Avanzar, EscribirVacia, SoltarDeNuevo, EscribirBloque, BuscarBloque,
         Recorre, ReservarBloque, SinEspacio, TerminarGuardar, EscribirMetadata,
         BorrarBloque, QuitarMetadata
<1> QED
  BY <1>1, <1>2

LEMMA EmpezarOperacion ==
    ASSUME EmpezarTrabajo
    PROVE  Operacion("dma") /\ vivo /\ hilo["dma"].en = "libre"
<1>1. Operacion("dma")
  BY DEF EmpezarTrabajo, Operacion
<1>2. Puede("dma")
  BY DEF EmpezarTrabajo, CrearArchivo, BorrarArchivo, GuardarDatos
<1> QED
  BY <1>1, <1>2 DEF Puede

LEMMA ComandoOperacion ==
    ASSUME ComandoDeArchivos
    PROVE  Operacion("consola") /\ EnElPrompt /\ UNCHANGED hilos
  BY DEF ComandoDeArchivos, Operacion

(* An operation changes only what its own thread does. *)
LEMMA SoloElSuyo ==
    ASSUME InvMdj, NEW h \in Hilos, Operacion(h)
    PROVE  \A g \in Hilos \ {h} : hilo'[g] = hilo[g]
<1>1. (UNCHANGED hilo) \/ (\E t : Sigue(h, t))
  BY DEF Operacion, CrearArchivo, BorrarArchivo, ObtenerDatos, Caer,
         GuardarDatos, EscribirVacia, SoltarDeNuevo, EscribirBloque,
         BuscarBloque, ReservarBloque, SinEspacio, TerminarGuardar,
         EscribirMetadata, BorrarBloque, QuitarMetadata, Termina
<1> QED
  BY <1>1 DEF Sigue, InvMdj, FormaOK, TypeOK

(* A command of the shell that died reading was obtenerDatos. *)
LEMMA CatDatosDeMdj ==
    ASSUME CandadosOK, CatDatos
    PROVE  (UNCHANGED vars) \/ (Operacion("consola") /\ UNCHANGED hilos /\ Caer)
<1>1. CASE UNCHANGED vars
  BY <1>1 DEF vars
<1>2. CASE /\ metadata[shell.path].estado = "ilegible"
           /\ Caer /\ UNCHANGED hilos
  <2>1. shell.path \in Paths /\ hilo["consola"].en = "libre"
    BY DEF CandadosOK, ServidorTypeOK, CatDatos
  <2>2. ObtenerDatos("consola", shell.path)
    BY <1>2, <2>1 DEF CatDatos, ObtenerDatos, Puede
  <2> QED
    BY <1>2, <2>1, <2>2 DEF Operacion
<1> QED
  BY <1>1, <1>2 DEF CatDatos

(* A step of the server is a step of its file system, or leaves it alone. *)
LEMMA PasoDeMdj == CandadosOK /\ [ServidorNext]_todo => [Next]_vars
<1> SUFFICES ASSUME CandadosOK, [ServidorNext]_todo PROVE [Next]_vars
  OBVIOUS
<1>1. CASE UNCHANGED todo
  BY <1>1 DEF todo
<1>2. CASE PasoEscucha
  BY <1>2 DEF PasoEscucha, Aceptar, TomarCanal, LeerCabecera
<1>3. CASE PasoPedido
  <2>1. CASE EmpezarTrabajo
    BY <2>1, EmpezarOperacion DEF Next, Hilos
  <2>2. CASE Trabajar
    BY <2>2, AvanzarOperacion DEF Trabajar, Next, Hilos
  <2>3. CASE ObtenerDatosDMA
    BY <2>3 DEF ObtenerDatosDMA, Operacion, Next, Hilos
  <2>4. CASE RecibirPedido \/ Mirar \/ LongitudDMA \/ Responder \/ Soltar
    BY <2>4 DEF RecibirPedido, Mirar, LongitudDMA, Responder, Soltar
  <2> QED
    BY <1>3, <2>1, <2>2, <2>3, <2>4 DEF PasoPedido
<1>4. CASE PasoConsola
  <2>1. CASE SeguirComando
    BY <2>1, AvanzarOperacion DEF SeguirComando, Next, Hilos
  <2>2. CASE CatReserva \/ CatLongitud
    BY <2>2 DEF CatReserva, CatLongitud
  <2>3. CASE CatDatos
    BY <2>3, CatDatosDeMdj DEF Next, Hilos
  <2> QED
    BY <1>4, <2>1, <2>2, <2>3 DEF PasoConsola
<1>5. CASE ComandoDeArchivos
  BY <1>5, ComandoOperacion DEF Next, Hilos
<1>6. CASE \/ LsConParametro \/ Pedir \/ Irse \/ \E p \in Paths : Cat(p)
  BY <1>6 DEF LsConParametro, Pedir, Irse, Cat
<1>7. CASE PararServidor \/ LevantarServidor
  BY <1>7 DEF PararServidor, LevantarServidor, Next
<1> QED
  BY <1>1, <1>2, <1>3, <1>4, <1>5, <1>6, <1>7 DEF ServidorNext

-----------------------------------------------------------------------------
(* The locks.                                                               *)

LEMMA SentadoOK ==
    /\ Sentado \in [en : {"libre", "pide", "longitud", "datos", "atascada"},
                    path : Paths, md : Metadata]
    /\ Sentado.en = "libre"
<1>1. (CHOOSE p \in Paths : TRUE) \in Paths
  BY MdjAssumption
<1> QED
  BY <1>1, OciosoOK DEF Sentado

LEMMA EscuchaCandados ==
    ASSUME CandadosOK, TypeOK', PasoEscucha
    PROVE  CandadosOK'
  BY DEF CandadosOK, ServidorTypeOK, PasoEscucha, Aceptar, TomarCanal,
         LeerCabecera, vars

LEMMA PedidoCandados ==
    ASSUME InvMdj, CandadosOK, TypeOK', PasoPedido
    PROVE  CandadosOK'
<1>1. CASE EmpezarTrabajo
  <2>1. hilo'["consola"] = hilo["consola"]
    BY <1>1, EmpezarOperacion, SoloElSuyo DEF Hilos
  <2> QED
    BY <1>1, <2>1 DEF EmpezarTrabajo, CandadosOK, ServidorTypeOK
<1>2. CASE Trabajar
  <2>1. hilo'["consola"] = hilo["consola"]
    BY <1>2, AvanzarOperacion, SoloElSuyo DEF Hilos, Trabajar
  <2> QED
    BY <1>2, <2>1 DEF Trabajar, CandadosOK, ServidorTypeOK
<1>3. CASE ObtenerDatosDMA
  BY <1>3 DEF ObtenerDatosDMA, ObtenerDatos, Caer, hilos, CandadosOK, ServidorTypeOK
<1>4. CASE RecibirPedido \/ Mirar \/ LongitudDMA \/ Responder \/ Soltar
  BY <1>4 DEF RecibirPedido, Mirar, LongitudDMA, Responder, Soltar, vars,
              CandadosOK, ServidorTypeOK
<1> QED
  BY <1>1, <1>2, <1>3, <1>4 DEF PasoPedido

LEMMA ConsolaCandados ==
    ASSUME InvMdj, CandadosOK, TypeOK',
           \/ PasoConsola \/ ComandoDeArchivos \/ LsConParametro
           \/ \E p \in Paths : Cat(p)
    PROVE  CandadosOK'
<1>1. CASE SeguirComando \/ ComandoDeArchivos
  <2>1. hilo'["dma"] = hilo["dma"] /\ shell.en = "libre" /\ UNCHANGED hilos
    BY <1>1, AvanzarOperacion, ComandoOperacion, SoloElSuyo
    DEF SeguirComando, EnElPrompt, Hilos, CandadosOK
  <2> QED
    BY <2>1 DEF hilos, CandadosOK, ServidorTypeOK
<1>2. CASE CatReserva
  <2>1. shell' \in [en : {"libre", "pide", "longitud", "datos", "atascada"},
                    path : Paths, md : Metadata] /\ shell'.en = "longitud"
    BY <1>2 DEF CatReserva, CandadosOK, ServidorTypeOK
  <2> QED
    BY <1>2, <2>1 DEF CatReserva, vars, CandadosOK, ServidorTypeOK
<1>3. CASE CatLongitud
  <2>1. metadata[shell.path] \in Metadata
    BY DEF CandadosOK, ServidorTypeOK, TypeOK
  <2>2. shell' \in [en : {"libre", "pide", "longitud", "datos", "atascada"},
                    path : Paths, md : Metadata] /\ shell'.en = "datos"
    BY <1>3, <2>1 DEF CatLongitud, CandadosOK, ServidorTypeOK
  <2> QED
    BY <1>3, <2>2 DEF CatLongitud, vars, CandadosOK, ServidorTypeOK
<1>4. CASE CatDatos
  <2>1. CASE Caer /\ UNCHANGED hilos
    BY <2>1 DEF Caer, hilos, CandadosOK, ServidorTypeOK
  <2>2. CASE shell' = Sentado /\ noTocar' = FALSE
             /\ UNCHANGED <<vars, escucha, canal, pedido, dam>>
    BY <1>4, <2>2, SentadoOK DEF CatDatos, vars, CandadosOK, ServidorTypeOK
  <2> QED
    BY <1>4, <2>1, <2>2 DEF CatDatos
<1>5. ASSUME NEW p \in Paths, NEW en \in {"pide", "atascada"}, EnElPrompt,
             shell' = [Sentado EXCEPT !.en = en, !.path = p] \/
             shell' = [Sentado EXCEPT !.en = en],
             UNCHANGED <<vars, escucha, canal, noTocar, pedido, dam>>
      PROVE  CandadosOK'
  <2>1. shell' \in [en : {"libre", "pide", "longitud", "datos", "atascada"},
                    path : Paths, md : Metadata] /\ shell'.en = en
    BY <1>5, SentadoOK
  <2> QED
    BY <1>5, <2>1 DEF EnElPrompt, vars, CandadosOK, ServidorTypeOK
<1>6. CASE LsConParametro
  BY <1>5, <1>6, MdjAssumption DEF LsConParametro
<1>7. CASE \E p \in Paths : Cat(p)
  BY <1>5, <1>7 DEF Cat
<1> QED
  BY <1>1, <1>2, <1>3, <1>4, <1>6, <1>7 DEF PasoConsola

LEMMA PasoCandados ==
    ASSUME InvMdj, CandadosOK, TypeOK', [ServidorNext]_todo
    PROVE  CandadosOK'
<1>1. CASE (UNCHANGED todo) \/ Pedir \/ Irse
  BY <1>1 DEF todo, hilos, vars, Pedir, Irse, CandadosOK, ServidorTypeOK
<1>2. CASE PararServidor
  BY <1>2 DEF PararServidor, Parar, hilos, CandadosOK, ServidorTypeOK
<1>3. CASE LevantarServidor
  <2>1. \A h \in Hilos : hilo'[h].en = "libre"
    BY <1>3 DEF LevantarServidor, Levantar, Ocioso
  <2> QED
    BY <1>3, <2>1, SentadoOK DEF LevantarServidor, Hilos, CandadosOK, ServidorTypeOK
<1> QED
  BY <1>1, <1>2, <1>3, EscuchaCandados, PedidoCandados, ConsolaCandados
  DEF ServidorNext

(* A shell that measured a file keeps everybody off it. *)
LEMMA PasoLectura ==
    ASSUME InvServidor, [ServidorNext]_todo
    PROVE  LecturaDeUnaVersion'
<1>1. CandadosOK /\ LecturaDeUnaVersion /\ InvMdj
  BY DEF InvServidor
<1>2. CASE UNCHANGED <<metadata, shell>> /\ (vivo' => vivo)
  BY <1>1, <1>2 DEF LecturaDeUnaVersion
<1>3. CASE shell'.en # "datos"
  BY <1>3 DEF LecturaDeUnaVersion
<1>4. CASE (UNCHANGED todo) \/ Pedir \/ Irse \/ PararServidor
  BY <1>2, <1>4 DEF todo, hilos, vars, Pedir, Irse, PararServidor, Parar
<1>5. CASE LevantarServidor
  BY <1>3, <1>5, SentadoOK DEF LevantarServidor
<1>6. CASE PasoEscucha
  BY <1>2, <1>6 DEF PasoEscucha, Aceptar, TomarCanal, LeerCabecera, vars
<1>7. CASE PasoPedido
  <2>1. CASE EmpezarTrabajo \/ Trabajar
    <3>1. shell.en # "datos" /\ shell' = shell
      BY <1>1, <2>1 DEF EmpezarTrabajo, Trabajar, CandadosOK
    <3> QED
      BY <1>3, <3>1
  <2>2. CASE ObtenerDatosDMA
    BY <1>2, <2>2 DEF ObtenerDatosDMA, ObtenerDatos, Caer, hilos
  <2>3. CASE RecibirPedido \/ Mirar \/ LongitudDMA \/ Responder \/ Soltar
    BY <1>2, <2>3 DEF RecibirPedido, Mirar, LongitudDMA, Responder, Soltar, vars
  <2> QED
    BY <1>7, <2>1, <2>2, <2>3 DEF PasoPedido
<1>8. CASE SeguirComando \/ ComandoDeArchivos
  <2>1. shell.en # "datos" /\ shell' = shell
    BY <1>1, <1>8, AvanzarOperacion, ComandoOperacion
    DEF SeguirComando, EnElPrompt, hilos, Hilos, CandadosOK
  <2> QED
    BY <1>3, <2>1
<1>9. CASE CatReserva
  <2>1. shell'.en = "longitud"
    BY <1>1, <1>9 DEF CatReserva, CandadosOK, ServidorTypeOK
  <2> QED
    BY <1>3, <2>1
<1>10. CASE CatLongitud
  BY <1>1, <1>10 DEF CatLongitud, vars, CandadosOK, ServidorTypeOK, LecturaDeUnaVersion
<1>11. CASE CatDatos
  <2>1. CASE Caer
    BY <1>3, <2>1 DEF Caer, LecturaDeUnaVersion
  <2>2. CASE shell' = Sentado
    BY <1>3, <2>2, SentadoOK
  <2> QED
    BY <1>11, <2>1, <2>2 DEF CatDatos
<1>12. CASE LsConParametro \/ \E p \in Paths : Cat(p)
  <2>1. shell'.en \in {"atascada", "pide"}
    BY <1>12, SentadoOK DEF LsConParametro, Cat
  <2> QED
    BY <1>3, <2>1
<1> QED
  BY <1>4, <1>5, <1>6, <1>7, <1>8, <1>9, <1>10, <1>11, <1>12
  DEF ServidorNext, PasoConsola

LEMMA ServidorInitInv == ServidorInit => InvServidor
<1> SUFFICES ASSUME ServidorInit PROVE InvServidor
  OBVIOUS
<1>1. InvMdj
  BY InitInv DEF ServidorInit
<1>2. TypeOK
  BY <1>1 DEF InvMdj, FormaOK
<1>3. \A h \in Hilos : hilo[h].en = "libre"
  BY DEF ServidorInit, Init, Ocioso
<1>4. CandadosOK
  BY <1>2, <1>3, SentadoOK DEF ServidorInit, CandadosOK, ServidorTypeOK, Hilos
<1>5. LecturaDeUnaVersion
  BY SentadoOK DEF ServidorInit, LecturaDeUnaVersion
<1> QED
  BY <1>1, <1>4, <1>5 DEF InvServidor

LEMMA ServidorPasoInv == InvServidor /\ [ServidorNext]_todo => InvServidor'
<1> SUFFICES ASSUME InvServidor, [ServidorNext]_todo PROVE InvServidor'
  OBVIOUS
<1>1. InvMdj'
  BY PasoDeMdj, PasoInv DEF InvServidor
<1>2. TypeOK'
  BY <1>1 DEF InvMdj, FormaOK
<1> QED
  BY <1>1, <1>2, PasoCandados, PasoLectura DEF InvServidor

(* Whoever has mutexUsoDelCanalDeComunicacionDelDMA, mutexNoTocarArchivos   *)
(* or mutexSistemaDeArchivos, and what each lock keeps still, in every      *)
(* interleaving of the listener, the request, the shell and the stops.      *)
THEOREM InvarianteDelServidor == ServidorSpec => []InvServidor
  BY ServidorInitInv, ServidorPasoInv, PTL DEF ServidorSpec

(* The threads of MDJ do with files only what Mdj does: what is proved of   *)
(* Mdj's behaviours is proved of the server's.                              *)
THEOREM ServidorEsMdj == ServidorSpec => Spec
<1>1. ServidorInit => Init
  BY DEF ServidorInit
<1>2. InvServidor => CandadosOK
  BY DEF InvServidor
<1> QED
  BY <1>1, <1>2, PasoDeMdj, InvarianteDelServidor, PTL DEF ServidorSpec, Spec

(* Every variable of the server keeps its type, a thread of request exists  *)
(* only while the channel is locked for it, and the files are locked from   *)
(* its second step on.                                                      *)
THEOREM TiposDelServidor == ServidorSpec => []ServidorTypeOK
<1>1. InvServidor => ServidorTypeOK
  BY DEF InvServidor, CandadosOK
<1> QED
  BY <1>1, InvarianteDelServidor, PTL

(* The header of a request is never read while the rest of another is on    *)
(* its way to the thread that owns the socket.                              *)
THEOREM UnLector == ServidorSpec => []UnLectorDelSocket
<1>1. InvServidor => UnLectorDelSocket
  BY DEF InvServidor, CandadosOK, UnLectorDelSocket
<1> QED
  BY <1>1, InvarianteDelServidor, PTL

(* cat and md5 print data of the version whose length they measured.        *)
THEOREM UnaVersion == ServidorSpec => []LecturaDeUnaVersion
<1>1. InvServidor => LecturaDeUnaVersion
  BY DEF InvServidor
<1> QED
  BY <1>1, InvarianteDelServidor, PTL

(* With all its threads and locks, the server shares no block between       *)
(* files, keeps marked the blocks in use, and loses or leaves short no file *)
(* but in the ways Mdj says.                                                *)
THEOREM BloquesDelServidor ==
    ServidorSpec => /\ []BloquesSinCompartir /\ []OcupadosEnDisco
                    /\ SinFugas /\ EscrituraCubierta
  BY ServidorEsMdj, SinCompartir, Ocupados, NoPierdeBloques, EscrituraCompleta, PTL

(* The server, its console included, keeps the promise of ReservaDeBloques. *)
THEOREM ServidorReservaBloques == ServidorSpec => ReservaDeBloquesCumplida
  BY ServidorEsMdj, MdjReservaBloques, PTL

=============================================================================
