--------------------------- MODULE MdjReservaProofs ----------------------------
(***************************************************************************)
(* Mdj implements ReservaDeBloques: every step of the file system is, on   *)
(* the blocks of its files, one of the abstract steps or none.             *)
(***************************************************************************)
EXTENDS MdjProofs

(* The blocks of an operation in progress, by the parts of its list. *)
LEMMA Partes ==
    ASSUME NEW t \in Trabajo, t.total <= Len(t.md.bloques)
    PROVE  /\ ToSet(t.md.bloques) = Viejos(t) \cup Nuevos(t)
           /\ ToSet(t.md.bloques) \subseteq Bloques
           /\ IsInjective(t.md.bloques) => Viejos(t) \cap Nuevos(t) = {}
           /\ Len(t.md.bloques) = t.total => Nuevos(t) = {}
<1> DEFINE s == t.md.bloques
<1>1. /\ s \in Seq(Bloques) /\ t.total \in Nat /\ Len(s) \in Nat
      /\ DOMAIN s = 1 .. Len(s)
  BY DEF Trabajo, Metadata
<1>2. ToSet(s) \subseteq Bloques
  BY <1>1 DEF ToSet
<1>3. 1 .. Len(s) = (1 .. t.total) \cup (t.total + 1 .. Len(s))
  BY <1>1
<1>4. ToSet(s) = Viejos(t) \cup Nuevos(t)
  BY <1>1, <1>3 DEF ToSet, Viejos, Nuevos
<1>5. ASSUME IsInjective(s), NEW b \in Viejos(t), b \in Nuevos(t) PROVE FALSE
  <2>1. PICK j \in 1 .. t.total : b = s[j]
    BY <1>5 DEF Viejos
  <2>2. PICK k \in t.total + 1 .. Len(s) : b = s[k]
    BY <1>5 DEF Nuevos
  <2>3. j \in DOMAIN s /\ k \in DOMAIN s /\ j # k
    BY <1>1, <1>3
  <2> QED
    BY <1>5, <2>1, <2>2, <2>3 DEF IsInjective
<1>6. ASSUME Len(s) = t.total PROVE Nuevos(t) = {}
  <2>1. t.total + 1 .. Len(s) = {}
    BY <1>1, <1>6
  <2> QED
    BY <2>1 DEF Nuevos
<1> QED
  BY <1>2, <1>4, <1>5, <1>6

(* What ReservaDeBloques sees when nobody writes: the files as their        *)
(* metadata says.                                                           *)
VistaQuieta ==
    (\A h \in Hilos : ~ (vivo /\ Crece(h))) =>
        /\ BloquesEnTramite = {}
        /\ \A p \in Paths : BloquesDeArchivo(p) =
              IF vivo /\ Borrando(p) THEN De(p) \cap bitmap ELSE De(p)

(* And when one thread does: its file as it was, and what it has reserved. *)
VistaDeUno ==
    \A h \in Hilos :
        (FormaOK /\ vivo /\ Crece(h) /\ \A g \in Hilos \ {h} : ~ Trabaja(g)) =>
            /\ BloquesEnTramite = Nuevos(hilo[h])
            /\ BloquesDeArchivo(hilo[h].path) = De(hilo[h].path) \cup Viejos(hilo[h])
            /\ \A p \in Paths \ {hilo[h].path} : BloquesDeArchivo(p) = De(p)

LEMMA VistaQuietaOK == VistaQuieta
  BY DEF VistaQuieta, BloquesEnTramite, BloquesDeArchivo

LEMMA VistaDeUnoOK == VistaDeUno
<1> SUFFICES ASSUME FormaOK, vivo, NEW h \in Hilos, Crece(h),
                    \A g \in Hilos \ {h} : ~ Trabaja(g)
             PROVE  /\ BloquesEnTramite = Nuevos(hilo[h])
                    /\ BloquesDeArchivo(hilo[h].path) = De(hilo[h].path) \cup Viejos(hilo[h])
                    /\ \A p \in Paths \ {hilo[h].path} : BloquesDeArchivo(p) = De(p)
  BY DEF VistaDeUno
<1>1. /\ hilo[h] \in Trabajo /\ hilo[h].total <= Len(hilo[h].md.bloques)
  BY DEF FormaOK, TypeOK, LazoOK, Crece
<1>2. Viejos(hilo[h]) \subseteq Bloques /\ Nuevos(hilo[h]) \subseteq Bloques
  BY <1>1, Partes
<1>3. \A g \in Hilos : Crece(g) => g = h
  BY DEF Crece, Trabaja
<1>4. \A p \in Paths : ~ Borrando(p)
  BY DEF Borrando, Crece, Trabaja
<1>5. hilo[h].path \in Paths
  BY <1>1 DEF Trabajo
<1>6. BloquesEnTramite = Nuevos(hilo[h])
  BY <1>2, <1>3 DEF BloquesEnTramite
<1>7. \A p \in Paths \ {hilo[h].path} : BloquesDeArchivo(p) = De(p)
  BY <1>3, <1>4 DEF BloquesDeArchivo
<1>8. BloquesDeArchivo(hilo[h].path) = De(hilo[h].path) \cup Viejos(hilo[h])
  <2>1. {b \in Bloques : \E g \in Hilos : vivo /\ Crece(g)
                             /\ hilo[g].path = hilo[h].path /\ b \in Viejos(hilo[g])}
           = Viejos(hilo[h])
    BY <1>2, <1>3
  <2> QED
    BY <1>4, <1>5, <2>1 DEF BloquesDeArchivo
<1> QED
  BY <1>6, <1>7, <1>8

LEMMA VistaDespues == VistaQuieta' /\ VistaDeUno'
  BY VistaQuietaOK, VistaDeUnoOK, PTL

(* Nothing that ReservaDeBloques sees has changed. *)
LEMMA Tartamudeo ==
    ASSUME \A p \in Paths : BloquesDeArchivo(p)' = BloquesDeArchivo(p),
           BloquesEnTramite' = BloquesEnTramite, Marcados' = Marcados,
           paradas' = paradas, Sano' = Sano
    PROVE  UNCHANGED Reserva!vars
<1>1. [p \in Paths |-> BloquesDeArchivo(p)]' = [p \in Paths |-> BloquesDeArchivo(p)]
  OBVIOUS
<1>2. (UNION {BloquesDeArchivo(p) : p \in Paths})'
         = UNION {BloquesDeArchivo(p) : p \in Paths}
  OBVIOUS
<1>3. EnUso' = EnUso
  BY <1>2 DEF EnUso
<1> QED
  BY <1>1, <1>3 DEF Reserva!vars

-----------------------------------------------------------------------------
(* The steps that do not show.                                              *)
Igual == /\ \A p \in Paths : BloquesDeArchivo(p)' = BloquesDeArchivo(p)
         /\ BloquesEnTramite' = BloquesEnTramite
         /\ Marcados' = Marcados

(* The threads that have no blocks in their hands. *)
Manos == {"guarda", "reserva", "metadata", "borra"}

(* Before and after, nobody works on blocks. *)
LEMMA NadieConBloques ==
    ASSUME \A h \in Hilos : hilo[h].en \notin Manos, \A h \in Hilos : hilo'[h].en \notin Manos,
           \A p \in Paths : De(p)' = De(p), Marcados' = Marcados
    PROVE  Igual
<1>1. /\ BloquesEnTramite = {} /\ \A p \in Paths : BloquesDeArchivo(p) = De(p)
  BY VistaQuietaOK DEF VistaQuieta, Crece, Borrando, Manos
<1>2. /\ BloquesEnTramite' = {} /\ \A p \in Paths : BloquesDeArchivo(p)' = De(p)'
  BY VistaDespues DEF VistaQuieta, Crece, Borrando, Manos
<1> QED
  BY <1>1, <1>2 DEF Igual

(* Nobody worked on blocks, and one thread starts guardarDatos. *)
LEMMA EmpiezaAGuardar ==
    ASSUME \A g \in Hilos : hilo[g].en \notin Manos,
           FormaOK', vivo', NEW h \in Hilos, \A g \in Hilos \ {h} : ~ Trabaja(g)',
           hilo'[h].en = "guarda",
           hilo'[h].total = Len(hilo'[h].md.bloques),
           NEW p \in Paths, hilo'[h].path = p,
           hilo'[h].md.bloques = metadata'[p].bloques,
           \A q \in Paths : De(q)' = De(q), Marcados' = Marcados
    PROVE  Igual
<1> DEFINE t == hilo'[h]
<1>1. /\ BloquesEnTramite = {} /\ \A q \in Paths : BloquesDeArchivo(q) = De(q)
  BY VistaQuietaOK DEF VistaQuieta, Crece, Borrando, Manos
<1>2. t \in Trabajo /\ t.total \in Nat
  BY DEF FormaOK, TypeOK, Trabajo
<1>3. t.total <= Len(t.md.bloques)
  BY <1>2
<1>4. Nuevos(t) = {} /\ Viejos(t) \subseteq ToSet(t.md.bloques)
  BY <1>2, <1>3, Partes
<1>5. /\ BloquesEnTramite' = Nuevos(t)
      /\ BloquesDeArchivo(p)' = De(p)' \cup Viejos(t)
      /\ \A q \in Paths \ {p} : BloquesDeArchivo(q)' = De(q)'
  BY VistaDespues DEF VistaDeUno, Crece
<1>6. De(p)' = ToSet(t.md.bloques)
  BY DEF De
<1>7. \A q \in Paths : BloquesDeArchivo(q)' = De(q)'
  BY <1>4, <1>5, <1>6
<1> QED
  BY <1>1, <1>4, <1>5, <1>7 DEF Igual

(* guardarDatos goes on, with the list it has. *)
LEMMA SigueGuardando ==
    ASSUME FormaOK, FormaOK', vivo, vivo', NEW h \in Hilos,
           \A g \in Hilos \ {h} : (~ Trabaja(g)) /\ (~ Trabaja(g)'),
           Crece(h), Crece(h)', NEW p \in Paths, hilo[h].path = p, hilo'[h].path = p,
           hilo'[h].total = hilo[h].total,
           hilo'[h].md.bloques = hilo[h].md.bloques,
           De(p)' \cup Viejos(hilo[h]) = De(p) \cup Viejos(hilo[h]),
           \A q \in Paths \ {p} : De(q)' = De(q), Marcados' = Marcados
    PROVE  Igual
<1>1. /\ BloquesEnTramite = Nuevos(hilo[h])
      /\ BloquesDeArchivo(p) = De(p) \cup Viejos(hilo[h])
      /\ \A q \in Paths \ {p} : BloquesDeArchivo(q) = De(q)
  BY VistaDeUnoOK DEF VistaDeUno
<1>2. /\ BloquesEnTramite' = Nuevos(hilo'[h])
      /\ BloquesDeArchivo(p)' = De(p)' \cup Viejos(hilo'[h])
      /\ \A q \in Paths \ {p} : BloquesDeArchivo(q)' = De(q)'
  BY VistaDespues DEF VistaDeUno
<1>3. Nuevos(hilo'[h]) = Nuevos(hilo[h]) /\ Viejos(hilo'[h]) = Viejos(hilo[h])
  BY DEF Nuevos, Viejos
<1> QED
  BY <1>1, <1>2, <1>3 DEF Igual

(* The thread that takes a step, and the others, before and after it. *)
LEMMA DeHilo ==
    ASSUME InvMdj, Sano, vivo, NEW h \in Hilos, Operacion(h),
           ~ mutex \/ Trabaja(h)
    PROVE  /\ \A g \in Hilos \ {h} : hilo'[g] = hilo[g] /\ hilo[g].en \notin Manos
           /\ \A g \in Hilos \ {h} : (~ Trabaja(g)) /\ (~ Trabaja(g)')
<1>1. (UNCHANGED hilo) \/ (\E t : Sigue(h, t))
  BY DEF Operacion, CrearArchivo, BorrarArchivo, ObtenerDatos, Caer,
         GuardarDatos, EscribirVacia, SoltarDeNuevo, EscribirBloque,
         BuscarBloque, ReservarBloque, SinEspacio, TerminarGuardar,
         EscribirMetadata, BorrarBloque, QuitarMetadata, Termina
<1>2. \A g \in Hilos \ {h} : hilo'[g] = hilo[g]
  BY <1>1, Alcanza DEF Sigue
<1> QED
  BY <1>2, SoloUno DEF Trabaja, Manos

LEMMA CrearArchivoVista ==
    ASSUME InvMdj, Sano, NEW h \in Hilos, NEW p \in Paths, CrearArchivo(h, p)
    PROVE  Igual
<1>1. /\ vivo /\ vivo' /\ ~ mutex /\ hilo[h].en = "libre" /\ bitmap' = bitmap
      /\ metadata[p].estado = "noExiste" /\ FormaOK /\ Operacion(h)
  BY DEF CrearArchivo, Puede, InvMdj, Operacion
<1>2. hilo'[h].en = "crea" /\ metadata' = [metadata EXCEPT ![p] = Ilegible]
  BY <1>1, Alcanza DEF CrearArchivo, Sigue, Ocioso
<1>3. De(p) = {} /\ De(p)' = {}
  BY <1>1, <1>2, Alcanza, SinBloques, MetadataVacia, SinLista DEF De, Legible
<1>4. \A q \in Paths : De(q)' = De(q)
  BY <1>1, <1>2, <1>3, Alcanza DEF De
<1> QED
  BY <1>1, <1>2, <1>4, DeHilo, NadieConBloques DEF Marcados, Manos

LEMMA EscribirVaciaVista ==
    ASSUME InvMdj, InvMdj', Sano, NEW h \in Hilos, NEW n \in Tamanios, EscribirVacia(h, n)
    PROVE  Igual
<1> DEFINE p == hilo[h].path
<1>1. /\ vivo /\ vivo' /\ Trabaja(h) /\ hilo[h].en = "crea" /\ bitmap' = bitmap
      /\ FormaOK' /\ Operacion(h) /\ p \in Paths
      /\ metadata[p] = Ilegible /\ metadata' = [metadata EXCEPT ![p] = Vacia]
  BY Alcanza DEF EscribirVacia, Trabaja, InvMdj, Operacion, CopiaFiel, Trabajo
<1>2. PICK q \in Paths : q = hilo[h].path
  BY <1>1
<1>3. metadata'[q] = Vacia /\ \A r \in Paths \ {q} : metadata'[r] = metadata[r]
  BY <1>1, <1>2, Alcanza
<1>4. De(q) = {} /\ De(q)' = {}
  BY <1>1, <1>2, <1>3, MetadataVacia, SinLista DEF De
<1>5. \A r \in Paths : De(r)' = De(r)
  BY <1>3, <1>4 DEF De
<1>6. Marcados' = Marcados /\ \A g \in Hilos : hilo[g].en \notin Manos
  BY <1>1, DeHilo DEF Marcados, Manos
<1>7. CASE Sigue(h, Guarda(q, Vacia, 0, n))
  <2>1. hilo'[h] = Guarda(q, Vacia, 0, n)
    BY <1>1, <1>7, Alcanza DEF Sigue
  <2>2. /\ hilo'[h].en = "guarda" /\ hilo'[h].path = q /\ hilo'[h].md = Vacia
        /\ hilo'[h].total = Len(hilo'[h].md.bloques)
    BY <2>1 DEF Guarda
  <2> QED
    BY <1>1, <1>3, <1>5, <1>6, <2>2, DeHilo, EmpiezaAGuardar
<1>8. ASSUME NEW en \in {"libre", "sueltaDeNuevo"}, Sigue(h, [Ocioso EXCEPT !.en = en])
      PROVE  Igual
  <2>1. hilo'[h].en = en
    BY <1>1, <1>8, Alcanza DEF Sigue, Ocioso
  <2>2. \A g \in Hilos : hilo'[g].en \notin Manos
    BY <1>1, <2>1, DeHilo DEF Manos
  <2> QED
    BY <1>5, <1>6, <2>2, NadieConBloques
<1> QED
  BY <1>2, <1>7, <1>8 DEF EscribirVacia

LEMMA SoltarDeNuevoVista ==
    ASSUME InvMdj, Sano, Sano', NEW h \in Hilos, SoltarDeNuevo(h)
    PROVE  Igual
<1>1. /\ vivo /\ vivo' /\ ~ mutex /\ hilo[h].en = "sueltaDeNuevo"
      /\ UNCHANGED <<metadata, bitmap>> /\ Operacion(h)
  BY DEF SoltarDeNuevo, Sano, Operacion
<1>2. hilo'[h].en = "libre"
  BY <1>1, Alcanza DEF SoltarDeNuevo, Termina, Sigue, Ocioso
<1>3. \A q \in Paths : De(q)' = De(q)
  BY <1>1 DEF De
<1> QED
  BY <1>1, <1>2, <1>3, DeHilo, NadieConBloques DEF Marcados, Manos

(* Who starts guardarDatos finds the file as its metadata says. *)
LEMMA ViejosSonDelArchivo ==
    ASSUME InvMdj, Sano, vivo, NEW h \in Hilos, hilo[h].en \in {"guarda", "reserva"}
    PROVE  Viejos(hilo[h]) = De(hilo[h].path)
<1>1. /\ metadata[hilo[h].path].bloques \in Seq(Bloques)
  BY Alcanza DEF Trabajo, Metadata
<1>2. /\ hilo[h].total = Len(metadata[hilo[h].path].bloques)
      /\ \A k \in 1 .. hilo[h].total :
            hilo[h].md.bloques[k] = metadata[hilo[h].path].bloques[k]
  BY Alcanza DEF CopiaFiel
<1>3. 1 .. hilo[h].total = DOMAIN metadata[hilo[h].path].bloques
  BY <1>1, <1>2
<1>4. Viejos(hilo[h]) = {metadata[hilo[h].path].bloques[k] : k \in 1 .. hilo[h].total}
  BY <1>2 DEF Viejos
<1> QED
  BY <1>3, <1>4 DEF De, ToSet

LEMMA CaerVista ==
    ASSUME InvMdj, Sano, vivo, Caer, \A h \in Hilos : ~ Trabaja(h),
           NEW p \in Paths, metadata[p].estado = "ilegible"
    PROVE  Igual
<1>1. bitmap = disco
  BY DEF InvMdj, IlegibleConDuenio, Trabaja
<1>2. \A h \in Hilos : hilo[h].en \notin Manos /\ hilo'[h].en \notin Manos
  BY DEF Trabaja, Manos, Caer
<1>3. \A q \in Paths : De(q)' = De(q)
  BY DEF Caer, De
<1>4. Marcados' = Marcados
  BY <1>1 DEF Caer, Marcados
<1> QED
  BY <1>2, <1>3, <1>4, NadieConBloques

LEMMA GuardarDatosVista ==
    ASSUME InvMdj, InvMdj', Sano, NEW h \in Hilos, NEW p \in Paths,
           NEW r \in Rangos, GuardarDatos(h, p, r[1], r[2])
    PROVE  Igual
<1>1. /\ vivo /\ ~ mutex /\ hilo[h].en = "libre" /\ Operacion(h) /\ FormaOK'
      /\ \A g \in Hilos : ~ Trabaja(g)
  BY SoloUno DEF GuardarDatos, Puede, Operacion, InvMdj, Trabaja
<1>2. CASE metadata[p].estado = "ilegible" /\ Caer
  BY <1>1, <1>2, CaerVista
<1>3. CASE metadata[p].estado # "ilegible"
  <2>1. /\ Sigue(h, Guarda(p, metadata[p], r[1], r[2]))
        /\ UNCHANGED <<metadata, bitmap, disco, vivo>>
    BY <1>3 DEF GuardarDatos
  <2>2. hilo'[h] = Guarda(p, metadata[p], r[1], r[2])
    BY <1>1, <2>1, Alcanza DEF Sigue
  <2>3. /\ hilo'[h].en = "guarda" /\ hilo'[h].path = p /\ hilo'[h].md = metadata'[p]
        /\ hilo'[h].total = Len(hilo'[h].md.bloques)
    BY <2>1, <2>2 DEF Guarda
  <2>4. (\A q \in Paths : De(q)' = De(q)) /\ Marcados' = Marcados
    BY <2>1 DEF De, Marcados
  <2>5. \A g \in Hilos : hilo[g].en \notin Manos
    BY <1>1 DEF Trabaja, Manos
  <2>6. \A g \in Hilos \ {h} : ~ Trabaja(g)'
    BY <1>1, DeHilo
  <2>7. hilo'[h].md.bloques = metadata'[p].bloques /\ vivo'
    BY <1>1, <2>1, <2>3
  <2> QED
    BY <1>1, <2>3, <2>4, <2>5, <2>6, <2>7, EmpiezaAGuardar
<1> QED
  BY <1>2, <1>3 DEF GuardarDatos

LEMMA BloqueVista ==
    ASSUME InvMdj, InvMdj', Sano, NEW h \in Hilos, EscribirBloque(h) \/ BuscarBloque(h)
    PROVE  Igual
<1>1. /\ vivo /\ vivo' /\ Trabaja(h) /\ Crece(h) /\ Operacion(h)
      /\ FormaOK /\ FormaOK' /\ UNCHANGED <<metadata, bitmap>>
  BY DEF EscribirBloque, BuscarBloque, Recorre, Trabaja, Crece, Operacion, InvMdj
<1>2. /\ hilo'[h].en \in {"guarda", "reserva"} /\ hilo'[h].path = hilo[h].path
      /\ hilo'[h].md = hilo[h].md /\ hilo'[h].total = hilo[h].total
  BY <1>1, Alcanza DEF EscribirBloque, BuscarBloque, Recorre, Sigue, Trabajo
<1>3. PICK p \in Paths : p = hilo[h].path
  BY <1>1, Alcanza DEF Trabajo
<1>4. (\A q \in Paths : De(q)' = De(q)) /\ Marcados' = Marcados
  BY <1>1 DEF De, Marcados
<1>5. Crece(h)' /\ \A g \in Hilos \ {h} : (~ Trabaja(g)) /\ (~ Trabaja(g)')
  BY <1>1, <1>2, DeHilo DEF Crece
<1> QED
  BY <1>1, <1>2, <1>3, <1>4, <1>5, SigueGuardando

LEMMA TerminarGuardarVista ==
    ASSUME InvMdj, InvMdj', Sano, NEW h \in Hilos, TerminarGuardar(h)
    PROVE  Igual
<1>1. /\ vivo /\ vivo' /\ Trabaja(h) /\ Crece(h) /\ Operacion(h)
      /\ FormaOK /\ FormaOK' /\ bitmap' = bitmap /\ hilo[h].en = "guarda"
  BY DEF TerminarGuardar, Trabaja, Crece, Operacion, InvMdj
<1>2. PICK p \in Paths : p = hilo[h].path
  BY <1>1, Alcanza DEF Trabajo
<1>3. /\ \A g \in Hilos \ {h} : hilo'[g] = hilo[g] /\ hilo[g].en \notin Manos
      /\ \A g \in Hilos \ {h} : (~ Trabaja(g)) /\ (~ Trabaja(g)')
      /\ Marcados' = Marcados
  BY <1>1, DeHilo DEF Marcados
<1>4. Viejos(hilo[h]) = De(p)
  BY <1>1, <1>2, ViejosSonDelArchivo
<1>5. hilo[h] \in Trabajo /\ hilo[h].total <= Len(hilo[h].md.bloques)
  BY <1>1, Alcanza DEF LazoOK
<1>6. CASE Len(hilo[h].md.bloques) = hilo[h].total /\ Termina(h) /\ UNCHANGED metadata
  <2>1. Nuevos(hilo[h]) = {}
    BY <1>5, <1>6, Partes
  <2>2. /\ BloquesEnTramite = {} /\ BloquesDeArchivo(p) = De(p)
        /\ \A q \in Paths \ {p} : BloquesDeArchivo(q) = De(q)
    BY <1>1, <1>2, <1>3, <1>4, <2>1, VistaDeUnoOK DEF VistaDeUno
  <2>3. hilo'[h].en = "libre"
    BY <1>1, <1>6, Alcanza DEF Termina, Sigue, Ocioso
  <2>4. /\ BloquesEnTramite' = {}
        /\ \A q \in Paths : BloquesDeArchivo(q)' = De(q)'
    BY <1>3, <2>3, VistaDespues DEF VistaQuieta, Crece, Borrando, Manos
  <2>5. \A q \in Paths : De(q)' = De(q)
    BY <1>6 DEF De
  <2> QED
    BY <1>3, <2>2, <2>4, <2>5 DEF Igual
<1>7. CASE /\ Sigue(h, [hilo[h] EXCEPT !.en = "metadata",
                                      !.md.tamanio = Max({@, hilo[h].hasta})])
           /\ metadata' = [metadata EXCEPT ![hilo[h].path] = Ilegible]
  <2>1. /\ hilo'[h].en = "metadata" /\ hilo'[h].path = p
        /\ hilo'[h].total = hilo[h].total
        /\ hilo'[h].md.bloques = hilo[h].md.bloques
    BY <1>1, <1>2, <1>5, <1>7, Alcanza DEF Sigue, Trabajo, Metadata
  <2>2. De(p)' = {} /\ \A q \in Paths \ {p} : De(q)' = De(q)
    BY <1>1, <1>2, <1>7, Alcanza, MetadataVacia, SinLista DEF De
  <2>3. Crece(h)'
    BY <2>1 DEF Crece
  <2> QED
    BY <1>1, <1>2, <1>3, <1>4, <2>1, <2>2, <2>3, SigueGuardando
<1> QED
  BY <1>5, <1>6, <1>7 DEF TerminarGuardar

LEMMA BorrarArchivoVista ==
    ASSUME InvMdj, Sano, NEW h \in Hilos, NEW p \in Paths, BorrarArchivo(h, p)
    PROVE  Igual
<1>1. /\ vivo /\ ~ mutex /\ hilo[h].en = "libre" /\ Operacion(h)
      /\ \A g \in Hilos : ~ Trabaja(g)
  BY SoloUno DEF BorrarArchivo, Puede, Operacion, InvMdj, Trabaja
<1>2. CASE metadata[p].estado = "ilegible" /\ Caer
  BY <1>1, <1>2, CaerVista
<1>3. CASE metadata[p].estado # "ilegible"
  <2>1. /\ Sigue(h, [Ocioso EXCEPT !.en = "borra", !.path = p, !.md = metadata[p]])
        /\ UNCHANGED <<metadata, bitmap, disco, vivo>>
    BY <1>3 DEF BorrarArchivo
  <2>2. hilo'[h].en = "borra"
    BY <1>1, <2>1, Alcanza DEF Sigue, Ocioso
  <2>3. \A g \in Hilos : (~ Crece(g)) /\ (~ Crece(g)')
    BY <1>1, <2>2, DeHilo DEF Crece, Trabaja, Manos
  <2>4. \A q \in Paths : De(q) \subseteq bitmap /\ ~ Borrando(q)
    BY <1>1, Alcanza DEF OcupadosEnDisco, Borrando, Trabaja
  <2>5. \A q \in Paths : De(q)' = De(q) /\ De(q)' \cap bitmap' = De(q)
    BY <2>1, <2>4 DEF De
  <2>6. BloquesEnTramite = {} /\ \A q \in Paths : BloquesDeArchivo(q) = De(q)
    BY <2>3, <2>4, VistaQuietaOK DEF VistaQuieta
  <2>7. BloquesEnTramite' = {} /\ \A q \in Paths : BloquesDeArchivo(q)' = De(q)
    BY <2>3, <2>5, VistaDespues DEF VistaQuieta
  <2> QED
    BY <2>1, <2>6, <2>7 DEF Igual, Marcados
<1> QED
  BY <1>2, <1>3 DEF BorrarArchivo

(* The thread that deletes has freed the first blocks of its file. *)
LEMMA QuedanPorBorrar ==
    ASSUME InvMdj, Sano, vivo, NEW h \in Hilos, hilo[h].en = "borra"
    PROVE  /\ BloquesEnTramite = {}
           /\ hilo[h].path \in Paths /\ hilo[h].md = metadata[hilo[h].path]
           /\ BloquesDeArchivo(hilo[h].path) = De(hilo[h].path) \cap bitmap
           /\ \A q \in Paths \ {hilo[h].path} :
                 BloquesDeArchivo(q) = De(q) /\ De(q) \subseteq bitmap
           /\ \A k \in DOMAIN hilo[h].md.bloques :
                 hilo[h].md.bloques[k] \in bitmap <=> k > hilo[h].i
<1>1. Trabaja(h) /\ Borrando(hilo[h].path)
  BY DEF Trabaja, Borrando
<1>2. \A g \in Hilos \ {h} : ~ Trabaja(g)
  BY <1>1, SoloUno
<1>3. \A g \in Hilos : ~ Crece(g)
  BY <1>2 DEF Crece, Trabaja
<1>4. \A q \in Paths \ {hilo[h].path} : ~ Borrando(q)
  BY <1>2, NadieMasBorra
<1>5. hilo[h].path \in Paths /\ CopiaFiel(hilo[h])
  BY Alcanza DEF Trabajo
<1>6. \A q \in Paths \ {hilo[h].path} : De(q) \subseteq bitmap
  BY <1>4, Alcanza DEF OcupadosEnDisco
<1>7. /\ BloquesEnTramite = {}
      /\ \A q \in Paths : BloquesDeArchivo(q) =
            IF vivo /\ Borrando(q) THEN De(q) \cap bitmap ELSE De(q)
  BY <1>3, VistaQuietaOK DEF VistaQuieta
<1> QED
  BY <1>1, <1>4, <1>5, <1>6, <1>7 DEF CopiaFiel

LEMMA QuitarMetadataVista ==
    ASSUME InvMdj, Sano, NEW h \in Hilos, QuitarMetadata(h)
    PROVE  Igual
<1>1. /\ vivo /\ vivo' /\ Trabaja(h) /\ hilo[h].en = "borra" /\ Operacion(h)
      /\ bitmap' = bitmap
  BY DEF QuitarMetadata, Trabaja, Operacion
<1>2. PICK p \in Paths : p = hilo[h].path
  BY <1>1, Alcanza DEF Trabajo
<1>3. De(p) \cap bitmap = {}
  <2>1. /\ hilo[h].i \in Nat /\ metadata[p].bloques \in Seq(Bloques)
        /\ hilo[h].md = metadata[p] /\ hilo[h].i >= Len(metadata[p].bloques)
    BY <1>1, <1>2, QuedanPorBorrar, Alcanza DEF QuitarMetadata, Trabajo, Metadata
  <2>2. \A k \in DOMAIN metadata[p].bloques : metadata[p].bloques[k] \notin bitmap
    BY <1>1, <1>2, <2>1, QuedanPorBorrar
  <2> QED
    BY <2>2 DEF De, ToSet
<1>4. /\ metadata'[p] = NoExiste
      /\ \A q \in Paths \ {p} : metadata'[q] = metadata[q]
  BY <1>1, <1>2, Alcanza DEF QuitarMetadata
<1>5. De(p)' = {} /\ \A q \in Paths \ {p} : De(q)' = De(q)
  BY <1>4, SinLista DEF De, NoExiste
<1>6. hilo'[h].en = "libre"
  BY <1>1, Alcanza DEF QuitarMetadata, Termina, Sigue, Ocioso
<1>7. /\ BloquesEnTramite' = {}
      /\ \A q \in Paths : BloquesDeArchivo(q)' = De(q)'
  BY <1>1, <1>6, DeHilo, VistaDespues DEF VistaQuieta, Crece, Borrando, Manos
<1>8. /\ BloquesEnTramite = {} /\ BloquesDeArchivo(p) = {}
      /\ \A q \in Paths \ {p} : BloquesDeArchivo(q) = De(q)
  BY <1>1, <1>2, <1>3, QuedanPorBorrar
<1> QED
  BY <1>1, <1>5, <1>7, <1>8 DEF Igual, Marcados

LEMMA LevantarVista ==
    ASSUME Levantar
    PROVE  Igual
<1>1. /\ ~ vivo /\ UNCHANGED <<metadata, disco>> /\ bitmap' = disco /\ vivo'
      /\ \A h \in Hilos : hilo'[h].en = "libre"
  BY DEF Levantar, Ocioso
<1>2. \A q \in Paths : De(q)' = De(q)
  BY <1>1 DEF De
<1>3. BloquesEnTramite = {} /\ \A q \in Paths : BloquesDeArchivo(q) = De(q)
  BY <1>1, VistaQuietaOK DEF VistaQuieta
<1>4. BloquesEnTramite' = {} /\ \A q \in Paths : BloquesDeArchivo(q)' = De(q)'
  BY <1>1, VistaDespues DEF VistaQuieta, Crece, Borrando
<1> QED
  BY <1>1, <1>2, <1>3, <1>4 DEF Igual, Marcados

-----------------------------------------------------------------------------
(* The steps that show.                                                     *)

(* The blocks in use are those of a file or of the operation in progress. *)
VistaEnUso ==
    \A b : b \in EnUso <=> (b \in BloquesEnTramite
                              \/ \E p \in Paths : b \in BloquesDeArchivo(p))

LEMMA VistaEnUsoOK == VistaEnUso
<1>1. \A b : b \in UNION {BloquesDeArchivo(p) : p \in Paths}
               <=> \E p \in Paths : b \in BloquesDeArchivo(p)
  OBVIOUS
<1> QED
  BY <1>1 DEF VistaEnUso, EnUso

LEMMA VistaEnUsoDespues == VistaEnUso'
  BY VistaEnUsoOK, PTL

(* The free blocks of ReservaDeBloques are those that nobody has and that   *)
(* are not marked.                                                          *)
LEMMA LibresDeReserva == Reserva!Libres = Bloques \ (Marcados \cup EnUso)
<1>1. Reserva!DeArchivos = UNION {BloquesDeArchivo(p) : p \in Paths}
  BY DEF Reserva!DeArchivos
<1> QED
  BY <1>1 DEF Reserva!Libres, EnUso

LEMMA EnUsoMarcado ==
    ASSUME InvMdj, Sano, vivo
    PROVE  EnUso \subseteq bitmap
<1>1. ASSUME NEW h \in Hilos, Crece(h)
      PROVE  Viejos(hilo[h]) \cup Nuevos(hilo[h]) \subseteq bitmap
  <2>1. /\ hilo[h] \in Trabajo /\ hilo[h].total <= Len(hilo[h].md.bloques)
        /\ ToSet(hilo[h].md.bloques) \subseteq bitmap
    BY <1>1, Alcanza DEF Crece, LazoOK, CopiaFiel
  <2> QED
    BY <2>1, Partes
<1>2. BloquesEnTramite \subseteq bitmap
  BY <1>1 DEF BloquesEnTramite
<1>3. ASSUME NEW p \in Paths PROVE BloquesDeArchivo(p) \subseteq bitmap
  <2>1. CASE Borrando(p)
    BY <2>1 DEF BloquesDeArchivo
  <2>2. CASE ~ Borrando(p)
    <3>1. De(p) \subseteq bitmap
      BY <2>2, Alcanza DEF InvMdj, OcupadosEnDisco
    <3> QED
      BY <1>1, <2>2, <3>1 DEF BloquesDeArchivo
  <2> QED
    BY <2>1, <2>2
<1> QED
  BY <1>2, <1>3, VistaEnUsoOK DEF VistaEnUso

LEMMA ReservarEsReservar ==
    ASSUME InvMdj, InvMdj', Sano, NEW h \in Hilos, ReservarBloque(h)
    PROVE  Reserva!Reservar
<1> DEFINE t == hilo[h]
           b == t.bloque
           s == t.md.bloques
<1>1. /\ vivo /\ vivo' /\ Trabaja(h) /\ Crece(h) /\ Operacion(h) /\ t.en = "reserva"
      /\ FormaOK /\ FormaOK' /\ UNCHANGED <<metadata, paradas>>
      /\ bitmap' = bitmap \cup {b}
  BY DEF ReservarBloque, Trabaja, Crece, Operacion, InvMdj
<1>2. PICK p \in Paths : p = hilo[h].path
  BY <1>1, Alcanza DEF Trabajo
<1>3. /\ t \in Trabajo /\ t.total \in Nat /\ t.total <= Len(s) /\ s \in Seq(Bloques)
      /\ Len(s) \in Nat /\ b \in Bloques /\ b \notin bitmap
      /\ IsInjective(s) /\ ToSet(s) \subseteq bitmap
  BY <1>1, Alcanza DEF LazoOK, CopiaFiel, Trabajo, Metadata
<1>4. /\ hilo'[h].en = "guarda" /\ hilo'[h].path = p /\ hilo'[h].total = t.total
      /\ hilo'[h].md.bloques = Append(s, b)
  BY <1>1, <1>2, Alcanza DEF ReservarBloque, Sigue, Trabajo, Metadata
<1>5. /\ Len(Append(s, b)) = Len(s) + 1 /\ Append(s, b)[Len(s) + 1] = b
      /\ \A k \in 1 .. Len(s) : Append(s, b)[k] = s[k]
  BY <1>3
<1>6. Viejos(hilo'[h]) = Viejos(t)
  BY <1>3, <1>4, <1>5 DEF Viejos
<1>7. Nuevos(hilo'[h]) = Nuevos(t) \cup {b}
  <2>1. t.total + 1 .. Len(s) + 1 = (t.total + 1 .. Len(s)) \cup {Len(s) + 1}
    BY <1>3
  <2>2. \A k \in t.total + 1 .. Len(s) : k \in 1 .. Len(s)
    BY <1>3
  <2>3. Nuevos(hilo'[h]) = {Append(s, b)[k] : k \in t.total + 1 .. Len(s) + 1}
    BY <1>4, <1>5 DEF Nuevos
  <2>4. Nuevos(t) = {Append(s, b)[k] : k \in t.total + 1 .. Len(s)}
    BY <1>5, <2>2 DEF Nuevos
  <2> DEFINE F == Append(s, b)
             A == t.total + 1 .. Len(s)
             n == Len(s) + 1
  <2>5. F[n] = b
    BY <1>5
  <2> HIDE DEF F, A, n
  <2>6. {F[k] : k \in A \cup {n}} = {F[k] : k \in A} \cup {b}
    BY <2>5
  <2> QED
    BY <2>1, <2>3, <2>4, <2>6 DEF F, A, n
<1>8. Crece(h)' /\ \A g \in Hilos \ {h} : (~ Trabaja(g)) /\ (~ Trabaja(g)')
  BY <1>1, <1>4, DeHilo DEF Crece
<1>9. \A q \in Paths : De(q)' = De(q)
  BY <1>1 DEF De
<1>10. /\ BloquesEnTramite = Nuevos(t)
       /\ BloquesDeArchivo(p) = De(p) \cup Viejos(t)
       /\ \A q \in Paths \ {p} : BloquesDeArchivo(q) = De(q)
  BY <1>1, <1>2, <1>8, VistaDeUnoOK DEF VistaDeUno
<1>11. /\ BloquesEnTramite' = Nuevos(hilo'[h])
       /\ BloquesDeArchivo(p)' = De(p)' \cup Viejos(hilo'[h])
       /\ \A q \in Paths \ {p} : BloquesDeArchivo(q)' = De(q)'
  BY <1>1, <1>4, <1>8, VistaDespues DEF VistaDeUno
<1>12. \A q \in Paths : BloquesDeArchivo(q)' = BloquesDeArchivo(q)
  BY <1>6, <1>9, <1>10, <1>11
<1>13. BloquesEnTramite' = BloquesEnTramite \cup {b}
  BY <1>7, <1>10, <1>11
<1>14. EnUso \subseteq bitmap
  BY <1>1, EnUsoMarcado
<1>15. EnUso' = EnUso \cup {b}
  BY <1>12, <1>13, VistaEnUsoOK, VistaEnUsoDespues DEF VistaEnUso
<1>16. Marcados = bitmap /\ Marcados' = bitmap \cup {b}
  BY <1>1 DEF Marcados
<1>17. (Marcados \ EnUso)' = Marcados \ EnUso
  BY <1>3, <1>15, <1>16
<1>18. b \in Reserva!Libres
  BY <1>3, <1>14, <1>16, LibresDeReserva
<1>19. [q \in Paths |-> BloquesDeArchivo(q)]' = [q \in Paths |-> BloquesDeArchivo(q)]
  BY <1>12
<1> QED
  BY <1>1, <1>13, <1>17, <1>18, <1>19 DEF Reserva!Reservar

(* The blocks of a write are nobody else's. *)
LEMMA DeNadieMas ==
    ASSUME InvMdj, Sano, vivo, NEW h \in Hilos, Crece(h)
    PROVE  /\ hilo[h].path \in Paths /\ hilo[h] \in Trabajo
           /\ ToSet(hilo[h].md.bloques) = Viejos(hilo[h]) \cup Nuevos(hilo[h])
           /\ Viejos(hilo[h]) \cap Nuevos(hilo[h]) = {}
           /\ \A q \in Paths \ {hilo[h].path} :
                 (Viejos(hilo[h]) \cup Nuevos(hilo[h])) \cap De(q) = {}
           /\ BloquesEnTramite = Nuevos(hilo[h])
           /\ BloquesDeArchivo(hilo[h].path) = De(hilo[h].path) \cup Viejos(hilo[h])
           /\ \A q \in Paths \ {hilo[h].path} : BloquesDeArchivo(q) = De(q)
           /\ hilo[h].en \in {"guarda", "reserva"} => Viejos(hilo[h]) = De(hilo[h].path)
           /\ hilo[h].en = "metadata" => De(hilo[h].path) = {}
<1>1. /\ hilo[h].path \in Paths /\ hilo[h] \in Trabajo
      /\ hilo[h].total <= Len(hilo[h].md.bloques) /\ IsInjective(hilo[h].md.bloques)
      /\ \A q \in Paths \ {hilo[h].path} : ToSet(hilo[h].md.bloques) \cap De(q) = {}
      /\ hilo[h].en = "metadata" => metadata[hilo[h].path] = Ilegible
  BY Alcanza DEF Crece, CopiaFiel, LazoOK, Trabajo
<1>2. /\ ToSet(hilo[h].md.bloques) = Viejos(hilo[h]) \cup Nuevos(hilo[h])
      /\ Viejos(hilo[h]) \cap Nuevos(hilo[h]) = {}
  BY <1>1, Partes
<1>3. FormaOK /\ \A g \in Hilos \ {h} : ~ Trabaja(g)
  BY SoloUno DEF InvMdj, Crece, Trabaja
<1>4. /\ BloquesEnTramite = Nuevos(hilo[h])
      /\ BloquesDeArchivo(hilo[h].path) = De(hilo[h].path) \cup Viejos(hilo[h])
      /\ \A q \in Paths \ {hilo[h].path} : BloquesDeArchivo(q) = De(q)
  BY <1>3, VistaDeUnoOK DEF VistaDeUno
<1>5. hilo[h].en = "metadata" => De(hilo[h].path) = {}
  BY <1>1, MetadataVacia, SinLista DEF De
<1> QED
  BY <1>1, <1>2, <1>4, <1>5, ViejosSonDelArchivo

LEMMA EscribirMetadataEsConfirmar ==
    ASSUME InvMdj, InvMdj', Sano, NEW h \in Hilos, EscribirMetadata(h)
    PROVE  Reserva!Confirmar
<1>1. /\ vivo /\ vivo' /\ Trabaja(h) /\ Crece(h) /\ Operacion(h)
      /\ hilo[h].en = "metadata" /\ bitmap' = bitmap /\ paradas' = paradas
  BY DEF EscribirMetadata, Trabaja, Crece, Operacion
<1>2. PICK p \in Paths : p = hilo[h].path
  BY <1>1, DeNadieMas
<1>3. /\ metadata'[p] = hilo[h].md
      /\ \A q \in Paths \ {p} : metadata'[q] = metadata[q]
  BY <1>1, <1>2, Alcanza DEF EscribirMetadata
<1>4. De(p)' = ToSet(hilo[h].md.bloques) /\ \A q \in Paths \ {p} : De(q)' = De(q)
  BY <1>3 DEF De
<1>5. hilo'[h].en = "libre"
  BY <1>1, Alcanza DEF EscribirMetadata, Termina, Sigue, Ocioso
<1>6. /\ BloquesEnTramite' = {}
      /\ \A q \in Paths : BloquesDeArchivo(q)' = De(q)'
  BY <1>1, <1>5, DeHilo, VistaDespues DEF VistaQuieta, Crece, Borrando, Manos
<1>7. /\ BloquesDeArchivo(p)' = BloquesDeArchivo(p) \cup BloquesEnTramite
      /\ \A q \in Paths \ {p} : BloquesDeArchivo(q)' = BloquesDeArchivo(q)
  BY <1>1, <1>2, <1>4, <1>6, DeNadieMas
<1>8. EnUso' = EnUso
  BY <1>6, <1>7, VistaEnUsoOK, VistaEnUsoDespues DEF VistaEnUso
<1>9. (Marcados \ EnUso)' = Marcados \ EnUso
  BY <1>1, <1>8 DEF Marcados
<1>10. [q \in Paths |-> BloquesDeArchivo(q)]' =
         [[q \in Paths |-> BloquesDeArchivo(q)] EXCEPT ![p] = @ \cup BloquesEnTramite]
  BY <1>7
<1> QED
  BY <1>1, <1>6, <1>9, <1>10 DEF Reserva!Confirmar

LEMMA SinEspacioEsAbandonar ==
    ASSUME InvMdj, InvMdj', Sano, NEW h \in Hilos, SinEspacio(h)
    PROVE  Reserva!Abandonar
<1>1. /\ vivo /\ vivo' /\ Trabaja(h) /\ Crece(h) /\ Operacion(h) /\ Bloques \subseteq bitmap
      /\ hilo[h].en = "guarda" /\ UNCHANGED <<metadata, bitmap, paradas>>
  BY DEF SinEspacio, Recorre, Trabaja, Crece, Operacion, Libres
<1>2. PICK p \in Paths : p = hilo[h].path
  BY <1>1, DeNadieMas
<1>3. \A q \in Paths : De(q)' = De(q)
  BY <1>1 DEF De
<1>4. hilo'[h].en = "libre"
  BY <1>1, Alcanza DEF SinEspacio, Termina, Sigue, Ocioso
<1>5. /\ BloquesEnTramite' = {}
      /\ \A q \in Paths : BloquesDeArchivo(q)' = De(q)'
  BY <1>1, <1>4, DeHilo, VistaDespues DEF VistaQuieta, Crece, Borrando, Manos
<1>6. /\ \A q \in Paths : BloquesDeArchivo(q) = De(q)
      /\ \A q \in Paths : BloquesEnTramite \cap De(q) = {}
  <2>1. /\ BloquesEnTramite = Nuevos(hilo[h]) /\ Viejos(hilo[h]) = De(p)
        /\ Viejos(hilo[h]) \cap Nuevos(hilo[h]) = {}
        /\ BloquesDeArchivo(p) = De(p) \cup Viejos(hilo[h])
    BY <1>1, <1>2, DeNadieMas
  <2>2. /\ \A q \in Paths \ {p} : BloquesDeArchivo(q) = De(q)
        /\ \A q \in Paths \ {p} : Nuevos(hilo[h]) \cap De(q) = {}
    BY <1>1, <1>2, DeNadieMas
  <2> QED
    BY <2>1, <2>2
<1>7. EnUso' = EnUso \ BloquesEnTramite
  BY <1>3, <1>5, <1>6, VistaEnUsoOK, VistaEnUsoDespues DEF VistaEnUso
<1>8. EnUso \subseteq bitmap /\ BloquesEnTramite \subseteq EnUso
  BY <1>1, EnUsoMarcado DEF EnUso
<1>9. Marcados = bitmap /\ Marcados' = bitmap
  BY <1>1 DEF Marcados
<1>10. (Marcados \ EnUso)' = (Marcados \ EnUso) \cup BloquesEnTramite
  BY <1>7, <1>8, <1>9
<1>11. Reserva!Libres = {}
  BY <1>1, <1>9, LibresDeReserva
<1>12. [q \in Paths |-> BloquesDeArchivo(q)]' = [q \in Paths |-> BloquesDeArchivo(q)]
  BY <1>3, <1>5, <1>6
<1> QED
  BY <1>1, <1>5, <1>10, <1>11, <1>12 DEF Reserva!Abandonar

LEMMA BorrarBloqueEsSoltar ==
    ASSUME InvMdj, InvMdj', Sano, NEW h \in Hilos, BorrarBloque(h)
    PROVE  Reserva!Soltar
<1> DEFINE b == hilo[h].md.bloques[hilo[h].i + 1]
<1>1. /\ vivo /\ vivo' /\ Trabaja(h) /\ Operacion(h) /\ hilo[h].en = "borra"
      /\ UNCHANGED <<metadata, paradas>> /\ bitmap' = bitmap \ {b}
      /\ hilo[h].i < Len(hilo[h].md.bloques)
  BY DEF BorrarBloque, Trabaja, Operacion
<1>2. PICK p \in Paths : p = hilo[h].path
  BY <1>1, QuedanPorBorrar
<1>3. b \in De(p) /\ b \in bitmap
  <2>1. /\ hilo[h].i \in Nat /\ hilo[h].md.bloques \in Seq(Bloques)
        /\ hilo[h].md = metadata[p]
        /\ \A k \in DOMAIN hilo[h].md.bloques :
              hilo[h].md.bloques[k] \in bitmap <=> k > hilo[h].i
    BY <1>1, <1>2, QuedanPorBorrar, Alcanza DEF Trabajo, Metadata
  <2>2. hilo[h].i + 1 \in DOMAIN hilo[h].md.bloques /\ hilo[h].i + 1 > hilo[h].i
    BY <1>1, <2>1
  <2> QED
    BY <2>1, <2>2 DEF De, ToSet
<1> HIDE DEF b
<1>4. \A q \in Paths \ {p} : b \notin De(q)
  BY <1>1, <1>3, Alcanza DEF BloquesSinCompartir
<1>5. \A q \in Paths : De(q)' = De(q)
  BY <1>1 DEF De
<1>6. hilo'[h].en = "borra" /\ hilo'[h].path = p
  BY <1>1, <1>2, Alcanza DEF BorrarBloque, Sigue, Trabajo
<1>7. /\ BloquesEnTramite' = {}
      /\ BloquesDeArchivo(p)' = De(p)' \cap bitmap'
      /\ \A q \in Paths \ {p} : BloquesDeArchivo(q)' = De(q)'
  BY <1>1, <1>6, DeHilo, VistaDespues DEF VistaQuieta, Crece, Borrando, Manos
<1>8. /\ BloquesEnTramite = {}
      /\ BloquesDeArchivo(p) = De(p) \cap bitmap
      /\ \A q \in Paths \ {p} : BloquesDeArchivo(q) = De(q)
  BY <1>1, <1>2, QuedanPorBorrar
<1>9. /\ b \in BloquesDeArchivo(p)
      /\ BloquesDeArchivo(p)' = BloquesDeArchivo(p) \ {b}
      /\ \A q \in Paths \ {p} : BloquesDeArchivo(q)' = BloquesDeArchivo(q)
  BY <1>1, <1>3, <1>5, <1>7, <1>8
<1>10. EnUso' = EnUso \ {b} /\ b \in EnUso
  BY <1>4, <1>7, <1>8, <1>9, VistaEnUsoOK, VistaEnUsoDespues DEF VistaEnUso
<1>11. (Marcados \ EnUso)' = Marcados \ EnUso
  BY <1>1, <1>10 DEF Marcados
<1>12. [q \in Paths |-> BloquesDeArchivo(q)]' =
         [[q \in Paths |-> BloquesDeArchivo(q)] EXCEPT ![p] = @ \ {b}]
  BY <1>9
<1> QED
  BY <1>1, <1>7, <1>8, <1>9, <1>11, <1>12 DEF Reserva!Soltar

LEMMA ParadaCon ==
    ASSUME NEW Q \in SUBSET Paths, NEW B \in SUBSET Reserva!Libres, \A p, q \in Q : p = q,
           [q \in Paths |-> BloquesDeArchivo(q)]' =
             [q \in Paths |-> IF q \in Q THEN {} ELSE [r \in Paths |-> BloquesDeArchivo(r)][q]],
           (Marcados \ EnUso)' = UNION ({Marcados \ EnUso, BloquesEnTramite, B}
             \cup {[r \in Paths |-> BloquesDeArchivo(r)][q] : q \in Q}),
           BloquesEnTramite' = {}, paradas' = paradas + 1
    PROVE  Reserva!Parada
<1>1. \E R \in SUBSET Paths, C \in SUBSET Reserva!Libres :
         /\ \A p, q \in R : p = q
         /\ [q \in Paths |-> BloquesDeArchivo(q)]' =
               [q \in Paths |-> IF q \in R THEN {} ELSE [r \in Paths |-> BloquesDeArchivo(r)][q]]
         /\ (Marcados \ EnUso)' = UNION ({Marcados \ EnUso, BloquesEnTramite, C}
               \cup {[r \in Paths |-> BloquesDeArchivo(r)][q] : q \in R})
  <2> WITNESS Q \in SUBSET Paths, B \in SUBSET Reserva!Libres
  <2> QED
    OBVIOUS
<1> QED
  BY <1>1 DEF Reserva!Parada

(* A stop: the files stay with what their metadata says.  The one whose     *)
(* metadata was being written is left with nothing.                         *)
LEMMA PararEsParada ==
    ASSUME InvMdj, Sano, Sano', Parar
    PROVE  Reserva!Parada
<1> DEFINE B == disco' \ bitmap
<1>1. /\ vivo /\ ~ vivo' /\ paradas' = paradas + 1 /\ UNCHANGED <<metadata, bitmap, hilo>>
      /\ bitmap \subseteq disco' /\ disco' \subseteq Bloques
      /\ \A h \in Hilos : hilo[h].en # "borra"
  BY Alcanza DEF Parar, Sano, InvMdj, FormaOK, TypeOK, ArchivosOK
<1>2. /\ BloquesEnTramite' = {} /\ \A q \in Paths : BloquesDeArchivo(q)' = De(q)
  BY <1>1, VistaDespues DEF VistaQuieta, De
<1>3. Marcados = bitmap /\ Marcados' = disco'
  BY <1>1 DEF Marcados
<1>4. EnUso \subseteq bitmap /\ B \in SUBSET Reserva!Libres
  BY <1>1, <1>3, EnUsoMarcado, LibresDeReserva
<1>5. \A b : b \in EnUso' <=> \E q \in Paths : b \in De(q)
  BY <1>2, VistaEnUsoDespues DEF VistaEnUso
<1>6. CASE /\ \A q \in Paths : BloquesDeArchivo(q) = De(q)
           /\ \A q \in Paths : BloquesEnTramite \cap De(q) = {}
  <2>1. EnUso = EnUso' \cup BloquesEnTramite /\ EnUso' \cap BloquesEnTramite = {}
    BY <1>5, <1>6, VistaEnUsoOK DEF VistaEnUso
  <2>2. (Marcados \ EnUso)' = (Marcados \ EnUso) \cup BloquesEnTramite \cup B
    BY <1>1, <1>3, <1>4, <2>1
  <2>3. [q \in Paths |-> BloquesDeArchivo(q)]' =
          [q \in Paths |-> IF q \in {} THEN {} ELSE [r \in Paths |-> BloquesDeArchivo(r)][q]]
    BY <1>2, <1>6
  <2>4. (Marcados \ EnUso)' = UNION ({Marcados \ EnUso, BloquesEnTramite, B}
            \cup {[r \in Paths |-> BloquesDeArchivo(r)][q] : q \in {}})
    BY <2>2
  <2>5. (\A r, q \in {} : r = q) /\ {} \in SUBSET Paths
    OBVIOUS
  <2> QED
    BY <1>1, <1>2, <1>4, <2>3, <2>4, <2>5, ParadaCon
<1>7. ASSUME NEW p \in Paths, De(p) = {},
             \A q \in Paths \ {p} : /\ BloquesDeArchivo(q) = De(q)
                                    /\ BloquesDeArchivo(p) \cap De(q) = {}
                                    /\ BloquesEnTramite \cap De(q) = {}
      PROVE  Reserva!Parada
  <2> DEFINE A == BloquesDeArchivo(p)
  <2>1. /\ EnUso = EnUso' \cup BloquesEnTramite \cup A
        /\ EnUso' \cap (BloquesEnTramite \cup A) = {}
    BY <1>5, <1>7, VistaEnUsoOK DEF VistaEnUso
  <2>2. (Marcados \ EnUso)' = (Marcados \ EnUso) \cup BloquesEnTramite \cup B \cup A
    BY <1>1, <1>3, <1>4, <2>1
  <2>3. [q \in Paths |-> BloquesDeArchivo(q)]' =
          [q \in Paths |-> IF q \in {p} THEN {} ELSE [r \in Paths |-> BloquesDeArchivo(r)][q]]
    BY <1>2, <1>7
  <2>4. {[r \in Paths |-> BloquesDeArchivo(r)][q] : q \in {p}} = {A}
    OBVIOUS
  <2>5. (Marcados \ EnUso)' = UNION ({Marcados \ EnUso, BloquesEnTramite, B}
            \cup {[r \in Paths |-> BloquesDeArchivo(r)][q] : q \in {p}})
    BY <2>2, <2>4
  <2>6. (\A r, q \in {p} : r = q) /\ {p} \in SUBSET Paths
    OBVIOUS
  <2> QED
    BY <1>1, <1>2, <1>4, <2>3, <2>5, <2>6, ParadaCon
<1>8. ASSUME NEW h \in Hilos, Crece(h) PROVE Reserva!Parada
  <2>1. PICK p \in Paths : p = hilo[h].path
    BY <1>1, <1>8, DeNadieMas
  <2>2. /\ BloquesEnTramite = Nuevos(hilo[h])
        /\ Viejos(hilo[h]) \cap Nuevos(hilo[h]) = {}
        /\ BloquesDeArchivo(p) = De(p) \cup Viejos(hilo[h])
        /\ hilo[h].en \in {"guarda", "reserva"} => Viejos(hilo[h]) = De(p)
        /\ hilo[h].en = "metadata" => De(p) = {}
    BY <1>1, <1>8, <2>1, DeNadieMas
  <2>3. \A q \in Paths \ {p} : /\ BloquesDeArchivo(q) = De(q)
                               /\ Viejos(hilo[h]) \cap De(q) = {}
                               /\ Nuevos(hilo[h]) \cap De(q) = {}
    BY <1>1, <1>8, <2>1, DeNadieMas
  <2>4. CASE hilo[h].en = "metadata"
    BY <1>7, <2>2, <2>3, <2>4
  <2>5. CASE hilo[h].en \in {"guarda", "reserva"}
    BY <1>6, <2>2, <2>3, <2>5
  <2> QED
    BY <1>8, <2>4, <2>5 DEF Crece
<1>9. CASE \A h \in Hilos : ~ Crece(h)
  <2>1. BloquesEnTramite = {} /\ \A q \in Paths : BloquesDeArchivo(q) = De(q)
    BY <1>1, <1>9, VistaQuietaOK DEF VistaQuieta, Borrando
  <2> QED
    BY <1>6, <2>1
<1> QED
  BY <1>8, <1>9

-----------------------------------------------------------------------------
LEMMA InitReserva == Init => Reserva!Init
<1> SUFFICES ASSUME Init PROVE Reserva!Init
  OBVIOUS
<1>1. /\ vivo /\ bitmap = {} /\ paradas = 0 /\ Sano
      /\ \A h \in Hilos : hilo[h].en = "libre"
      /\ \A p \in Paths : metadata[p].bloques = <<>>
  BY DEF Init, Ocioso, NoExiste, Sano
<1>2. /\ BloquesEnTramite = {} /\ \A p \in Paths : BloquesDeArchivo(p) = De(p)
  BY <1>1, VistaQuietaOK DEF VistaQuieta, Crece, Borrando
<1>3. \A p \in Paths : De(p) = {}
  BY <1>1, SinLista DEF De
<1>4. Marcados \ EnUso = {}
  BY <1>1 DEF Marcados
<1> QED
  BY <1>1, <1>2, <1>3, <1>4 DEF Reserva!Init

LEMMA OperacionReserva ==
    ASSUME InvMdj, InvMdj', Sano, Sano', NEW h \in Hilos, Operacion(h)
    PROVE  \/ UNCHANGED Reserva!vars
           \/ (Reserva!Reservar \/ Reserva!Confirmar \/ Reserva!Abandonar \/ Reserva!Soltar)
<1>1. ASSUME Igual, paradas' = paradas PROVE UNCHANGED Reserva!vars
  BY <1>1, Tartamudeo DEF Igual, Sano
<1>2. ASSUME NEW p \in Paths, ObtenerDatos(h, p) PROVE Igual /\ paradas' = paradas
  <2>1. vivo /\ ~ mutex /\ hilo[h].en = "libre" /\ Caer
    BY <1>2 DEF ObtenerDatos, Puede
  <2>2. \A g \in Hilos : ~ Trabaja(g)
    BY <2>1, SoloUno DEF Trabaja
  <2> QED
    BY <1>2, <2>1, <2>2, CaerVista DEF ObtenerDatos, Caer
<1>3. ASSUME NEW p \in Paths, CrearArchivo(h, p) \/ BorrarArchivo(h, p)
      PROVE  Igual /\ paradas' = paradas
  BY <1>3, CrearArchivoVista, BorrarArchivoVista DEF CrearArchivo, BorrarArchivo, Caer
<1>4. ASSUME NEW p \in Paths, NEW r \in Rangos, GuardarDatos(h, p, r[1], r[2])
      PROVE  Igual /\ paradas' = paradas
  BY <1>4, GuardarDatosVista DEF GuardarDatos, Caer
<1>5. ASSUME NEW n \in Tamanios, EscribirVacia(h, n) PROVE Igual /\ paradas' = paradas
  BY <1>5, EscribirVaciaVista DEF EscribirVacia
<1>6. ASSUME \/ SoltarDeNuevo(h) \/ EscribirBloque(h) \/ BuscarBloque(h)
             \/ TerminarGuardar(h) \/ QuitarMetadata(h)
      PROVE  Igual /\ paradas' = paradas
  BY <1>6, SoltarDeNuevoVista, BloqueVista, TerminarGuardarVista, QuitarMetadataVista
  DEF SoltarDeNuevo, EscribirBloque, BuscarBloque, TerminarGuardar, QuitarMetadata
<1> QED
  BY <1>1, <1>2, <1>3, <1>4, <1>5, <1>6, ReservarEsReservar,
     EscribirMetadataEsConfirmar, SinEspacioEsAbandonar, BorrarBloqueEsSoltar
  DEF Operacion

LEMMA PasoReserva == InvMdj /\ InvMdj' /\ [Next]_vars => [Reserva!Next]_(Reserva!vars)
<1> SUFFICES ASSUME InvMdj, InvMdj', [Next]_vars PROVE [Reserva!Next]_(Reserva!vars)
  OBVIOUS
<1>1. CASE ~ Sano'
  BY <1>1 DEF Reserva!Next, Reserva!Romper
<1>2. CASE Sano' /\ UNCHANGED vars
  <2>1. \A p \in Paths : BloquesDeArchivo(p)' = BloquesDeArchivo(p)
    BY <1>2 DEF vars, BloquesDeArchivo, Borrando, De, Crece
  <2>2. BloquesEnTramite' = BloquesEnTramite
    BY <1>2 DEF vars, BloquesEnTramite, Crece
  <2> QED
    BY <1>2, <2>1, <2>2, Tartamudeo DEF vars, Marcados, Sano
<1>3. CASE Sano' /\ Next
  <2>1. Sano
    BY <1>3, SanoAntes DEF InvMdj
  <2>2. Sano' = Sano
    BY <1>3, <2>1
  <2>3. CASE Parar
    BY <1>3, <2>1, <2>2, <2>3, PararEsParada DEF Reserva!Next
  <2>4. CASE Levantar
    BY <2>2, <2>4, LevantarVista, Tartamudeo DEF Igual, Levantar
  <2>5. ASSUME NEW h \in Hilos, Operacion(h) PROVE [Reserva!Next]_(Reserva!vars)
    BY <1>3, <2>1, <2>2, <2>5, OperacionReserva DEF Reserva!Next
  <2> QED
    BY <1>3, <2>3, <2>4, <2>5 DEF Next
<1> QED
  BY <1>1, <1>2, <1>3

(* The file system keeps the promise of ReservaDeBloques: a write gives its *)
(* file all its blocks at once or none, an operation abandons what it       *)
(* reserved only when no block is free, and one stop costs at most the      *)
(* blocks reserved and one file.                                            *)
THEOREM MdjReservaBloques == Spec => ReservaDeBloquesCumplida
  BY InitReserva, PasoReserva, InvarianteDeMdj, PTL
  DEF Spec, ReservaDeBloquesCumplida, Reserva!Spec

=============================================================================
