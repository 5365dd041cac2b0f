------------------------------- MODULE MdjProofs -------------------------------
(***************************************************************************)
(* Proofs about Mdj for every number and size of blocks, every set of      *)
(* paths, sizes and ranges, and any number of stops: the types, that no    *)
(* block has two owners and that every block of a file is marked on disk.  *)
(***************************************************************************)
EXTENDS Mdj, Lemas

-----------------------------------------------------------------------------
(* Records *)

(* The idle thread is one of the records of Trabajo. *)
LEMMA OciosoOK == Ocioso \in Trabajo /\ NoExiste \in Metadata /\ 0 \in Bloques
<1>1. NoExiste \in Metadata
  BY DEF NoExiste, Metadata
<1>2. 0 \in Bloques
  BY MdjAssumption DEF Bloques
<1>3. (CHOOSE p \in Paths : TRUE) \in Paths
  BY MdjAssumption
<1> QED
  BY <1>1, <1>2, <1>3 DEF Ocioso, Trabajo, Fases

(* The metadata files that are not of use have no blocks. *)
LEMMA MetadataVacia ==
    /\ Ilegible \in Metadata /\ Ilegible.bloques = <<>> /\ Ilegible.estado = "ilegible"
    /\ Vacia \in Metadata /\ Vacia.bloques = <<>> /\ Vacia.estado = "legible"
<1>1. /\ Ilegible = [estado |-> "ilegible", tamanio |-> 0, bloques |-> <<>>]
      /\ Vacia = [estado |-> "legible", tamanio |-> 0, bloques |-> <<>>]
  BY DEF Ilegible, Vacia, NoExiste
<1>2. <<>> \in Seq(Bloques)
  OBVIOUS
<1> QED
  BY <1>1, <1>2 DEF Metadata

-----------------------------------------------------------------------------
(* The part that holds whatever happens.  A step of h gives it new local    *)
(* variables and touches the rest as little as each lemma says.             *)

LEMMA SigueOK ==
    ASSUME TypeOK, NEW h \in Hilos, NEW t \in Trabajo, Sigue(h, t)
    PROVE  /\ hilo' \in [Hilos -> Trabajo]
           /\ hilo'[h] = t
           /\ \A g \in Hilos \ {h} : hilo'[g] = hilo[g]
  BY DEF TypeOK, Sigue

LEMMA SigueForma ==
    ASSUME FormaOK, NEW h \in Hilos, NEW t \in Trabajo, Sigue(h, t), LazoOK(t),
           metadata' \in [Paths -> Metadata], mutex' \in BOOLEAN,
           bitmap' \subseteq Bloques, disco' \subseteq Bloques,
           \A p \in Paths : metadata'[p].estado # "legible" => metadata'[p].bloques = <<>>,
           vivo => bitmap' \subseteq disco',
           danio' \subseteq {"borradoInterrumpido", "mutexAjeno"},
           UNCHANGED <<vivo, paradas>>
    PROVE  FormaOK'
<1>1. TypeOK'
  BY SigueOK DEF FormaOK, TypeOK
<1>2. ArchivosOK'
  BY DEF ArchivosOK, Legible
<1>3. (\A g \in Hilos : LazoOK(hilo[g]))'
  <2> SUFFICES ASSUME NEW g \in Hilos PROVE LazoOK(hilo[g])'
    OBVIOUS
  <2>1. CASE g = h
    BY <2>1, SigueOK DEF FormaOK, LazoOK
  <2>2. CASE g # h
    BY <2>2, SigueOK DEF FormaOK, LazoOK
  <2> QED  BY <2>1, <2>2
<1> QED
  BY <1>1, <1>2, <1>3 DEF FormaOK

(* A step that changes nothing but the local variables. *)
LEMMA SoloSigueForma ==
    ASSUME FormaOK, NEW h \in Hilos, NEW t \in Trabajo, Sigue(h, t), LazoOK(t),
           UNCHANGED <<metadata, bitmap, disco, vivo, paradas, danio>>,
           mutex' \in BOOLEAN
    PROVE  FormaOK'
  BY SigueForma DEF FormaOK, TypeOK, ArchivosOK, Legible

LEMMA OciosoLazo == LazoOK(Ocioso)
  BY DEF LazoOK, Ocioso

(* the local variables with which guardarDatos starts *)
LEMMA GuardaOK ==
    ASSUME NEW p \in Paths, NEW md \in Metadata, md.estado = "legible",
           NEW o \in Nat, NEW s \in Nat
    PROVE  /\ Guarda(p, md, o, s) \in Trabajo
           /\ LazoOK(Guarda(p, md, o, s))
<1>1. /\ o \div TamanioBloques \in Nat
      /\ (o + s) \div TamanioBloques \in Nat
  BY MdjAssumption, DivisionOK
<1>2. Len(md.bloques) \in Nat
  BY DEF Metadata
<1> HIDE MdjAssumption
<1>3. Guarda(p, md, o, s) \in Trabajo
  BY <1>1, <1>2, OciosoOK DEF Guarda, FinDeEscritura, Trabajo, Fases
<1>4. LazoOK(Guarda(p, md, o, s))
  BY <1>1, <1>2 DEF Guarda, FinDeEscritura, LazoOK
<1> QED
  BY <1>3, <1>4

LEMMA CrearArchivoForma ==
    ASSUME FormaOK, NEW h \in Hilos, NEW p \in Paths, CrearArchivo(h, p)
    PROVE  FormaOK'
<1> DEFINE t == [Ocioso EXCEPT !.en = "crea", !.path = p]
<1>1. t \in Trabajo
  BY OciosoOK DEF Trabajo, Fases
<1>2. LazoOK(t)
  BY DEF Ocioso, LazoOK
<1>3. Ilegible \in Metadata /\ Ilegible.bloques = <<>>
  BY MetadataVacia
<1>4. metadata' \in [Paths -> Metadata]
  BY <1>3 DEF CrearArchivo, FormaOK, TypeOK
<1>5. \A q \in Paths : metadata'[q].estado # "legible" => metadata'[q].bloques = <<>>
  BY <1>3 DEF CrearArchivo, FormaOK, TypeOK, ArchivosOK, Legible
<1> QED
  BY <1>1, <1>2, <1>4, <1>5, SigueForma DEF CrearArchivo, FormaOK, TypeOK, ArchivosOK

LEMMA EscribirVaciaForma ==
    ASSUME FormaOK, NEW h \in Hilos, NEW n \in Tamanios, EscribirVacia(h, n)
    PROVE  FormaOK'
<1>1. Vacia \in Metadata /\ Vacia.estado = "legible"
  BY MetadataVacia
<1>2. PICK t \in Trabajo : Sigue(h, t) /\ LazoOK(t) /\ mutex' \in BOOLEAN
  <2>1. CASE Sigue(h, Guarda(hilo[h].path, Vacia, 0, n)) /\ UNCHANGED mutex
    <3>1. hilo[h].path \in Paths /\ n \in Nat
      BY MdjAssumption DEF FormaOK, TypeOK, Trabajo
    <3> QED
      BY <1>1, <2>1, <3>1, GuardaOK DEF FormaOK, TypeOK
  <2>2. ASSUME NEW en \in {"libre", "sueltaDeNuevo"},
               Sigue(h, [Ocioso EXCEPT !.en = en]), mutex' = FALSE
        PROVE  \E t \in Trabajo : Sigue(h, t) /\ LazoOK(t) /\ mutex' \in BOOLEAN
    <3> DEFINE t == [Ocioso EXCEPT !.en = en]
    <3>1. t \in Trabajo /\ LazoOK(t)
      BY OciosoOK DEF Ocioso, Trabajo, Fases, LazoOK
    <3> QED
      BY <2>2, <3>1
  <2> QED
    BY <2>1, <2>2 DEF EscribirVacia
<1>3. metadata' \in [Paths -> Metadata]
  BY <1>1 DEF EscribirVacia, FormaOK, TypeOK
<1>4. \A q \in Paths : metadata'[q].estado # "legible" => metadata'[q].bloques = <<>>
  BY <1>1 DEF EscribirVacia, FormaOK, TypeOK, ArchivosOK, Legible
<1> QED
  BY <1>2, <1>3, <1>4, SigueForma DEF EscribirVacia, FormaOK, TypeOK, ArchivosOK

LEMMA SoltarDeNuevoForma ==
    ASSUME FormaOK, NEW h \in Hilos, SoltarDeNuevo(h)
    PROVE  FormaOK'
<1>1. danio' \subseteq {"borradoInterrumpido", "mutexAjeno"}
  BY DEF SoltarDeNuevo, FormaOK, TypeOK
<1> QED
  BY <1>1, SigueForma, OciosoOK, OciosoLazo
  DEF SoltarDeNuevo, Termina, FormaOK, TypeOK, ArchivosOK, Legible

LEMMA CaerForma ==
    ASSUME FormaOK, Caer
    PROVE  FormaOK'
  BY DEF Caer, FormaOK, TypeOK, ArchivosOK, Legible

LEMMA GuardarDatosForma ==
    ASSUME FormaOK, NEW h \in Hilos, NEW p \in Paths, NEW r \in Rangos,
           GuardarDatos(h, p, r[1], r[2])
    PROVE  FormaOK'
<1>1. r[1] \in Nat /\ r[2] \in Nat
  BY MdjAssumption
<1>2. metadata[p] \in Metadata
  BY DEF FormaOK, TypeOK
<1>3. CASE metadata[p].estado = "legible"
  <2> DEFINE t == Guarda(p, metadata[p], r[1], r[2])
  <2>1. t \in Trabajo /\ LazoOK(t)
    BY <1>1, <1>2, <1>3, GuardaOK
  <2> HIDE DEF t
  <2>2. Sigue(h, t) /\ mutex' \in BOOLEAN
        /\ UNCHANGED <<metadata, bitmap, disco, vivo, paradas, danio>>
    BY <1>3 DEF GuardarDatos, t
  <2> QED
    BY <2>1, <2>2, SoloSigueForma
<1>4. CASE metadata[p].estado # "legible"
  BY <1>4, CaerForma DEF GuardarDatos
<1> QED
  BY <1>3, <1>4

LEMMA EscribirBloqueForma ==
    ASSUME FormaOK, NEW h \in Hilos, EscribirBloque(h)
    PROVE  FormaOK'
<1>1. hilo[h] \in Trabajo /\ LazoOK(hilo[h])
  BY DEF FormaOK, TypeOK
<1>2. PICK a \in {hilo[h].actual, hilo[h].actual + 1} :
         Sigue(h, [hilo[h] EXCEPT !.i = @ + 1, !.actual = a])
  BY DEF EscribirBloque
<1> DEFINE t == [hilo[h] EXCEPT !.i = @ + 1, !.actual = a]
<1>3. t \in Trabajo
  <2>1. a \in Nat /\ hilo[h].i + 1 \in Nat
    BY <1>1, <1>2 DEF Trabajo
  <2> QED
    BY <1>1, <2>1 DEF Trabajo
<1>4. Len(hilo[h].md.bloques) \in Nat
  BY <1>1 DEF Trabajo, Metadata
<1>5. LazoOK(t)
  BY <1>1, <1>4 DEF EscribirBloque, Recorre, Trabajo, LazoOK
<1> QED
  BY <1>2, <1>3, <1>5, SoloSigueForma DEF EscribirBloque, FormaOK, TypeOK

LEMMA BuscarBloqueForma ==
    ASSUME FormaOK, NEW h \in Hilos, BuscarBloque(h)
    PROVE  FormaOK'
<1>1. hilo[h] \in Trabajo /\ LazoOK(hilo[h])
  BY DEF FormaOK, TypeOK
<1>2. Min(Libres) \in Bloques
  BY MinimoOK, MdjAssumption DEF BuscarBloque, Libres, Bloques
<1> DEFINE t == [hilo[h] EXCEPT !.en = "reserva", !.bloque = Min(Libres)]
<1>3. t \in Trabajo /\ LazoOK(t)
  BY <1>1, <1>2 DEF BuscarBloque, Recorre, Trabajo, Fases, LazoOK
<1> QED
  BY <1>3, SoloSigueForma DEF BuscarBloque, FormaOK, TypeOK

LEMMA ReservarBloqueForma ==
    ASSUME FormaOK, NEW h \in Hilos, ReservarBloque(h)
    PROVE  FormaOK'
<1>1. hilo[h] \in Trabajo /\ LazoOK(hilo[h])
  BY DEF FormaOK, TypeOK
<1> DEFINE md == [hilo[h].md EXCEPT !.bloques = Append(@, hilo[h].bloque)]
           t  == [hilo[h] EXCEPT !.en = "guarda", !.i = @ + 1, !.actual = @ + 1,
                                 !.md = md]
<1>2. /\ md \in Metadata /\ md.estado = hilo[h].md.estado
      /\ Len(md.bloques) = Len(hilo[h].md.bloques) + 1
      /\ Len(hilo[h].md.bloques) \in Nat
  <2>1. hilo[h].md \in Metadata /\ hilo[h].bloque \in Bloques
    BY <1>1 DEF Trabajo
  <2>2. /\ hilo[h].md.bloques \in Seq(Bloques)
        /\ Append(hilo[h].md.bloques, hilo[h].bloque) \in Seq(Bloques)
    BY <2>1 DEF Metadata
  <2> QED
    BY <2>1, <2>2 DEF Metadata
<1>3. Sigue(h, t)
  BY <1>1 DEF ReservarBloque, Trabajo
<1> HIDE DEF md
<1>4. t \in Trabajo /\ LazoOK(t)
  <2>1. t \in Trabajo
    <3>1. hilo[h].i + 1 \in Nat /\ hilo[h].actual + 1 \in Nat
      BY <1>1 DEF Trabajo
    <3>2. [hilo[h] EXCEPT !.i = @ + 1, !.actual = @ + 1] \in Trabajo
      BY <1>1, <3>1 DEF Trabajo
    <3>3. t = [[hilo[h] EXCEPT !.i = @ + 1, !.actual = @ + 1]
                  EXCEPT !.en = "guarda", !.md = md]
      BY <1>1 DEF Trabajo
    <3> QED
      BY <1>2, <3>2, <3>3 DEF Trabajo, Fases
  <2>2. LazoOK(t)
    BY <1>1, <1>2 DEF ReservarBloque, Trabajo, LazoOK
  <2> QED  BY <2>1, <2>2
<1>5. bitmap' \subseteq Bloques /\ disco' = bitmap'
  BY <1>1 DEF ReservarBloque, FormaOK, TypeOK, Trabajo
<1> QED
  BY <1>3, <1>4, <1>5, SigueForma
  DEF ReservarBloque, FormaOK, TypeOK, ArchivosOK, Legible

LEMMA SinEspacioForma ==
    ASSUME FormaOK, NEW h \in Hilos, SinEspacio(h)
    PROVE  FormaOK'
  BY SoloSigueForma, OciosoOK, OciosoLazo DEF SinEspacio, Termina

LEMMA TerminarGuardarForma ==
    ASSUME FormaOK, NEW h \in Hilos, TerminarGuardar(h)
    PROVE  FormaOK'
<1>1. hilo[h] \in Trabajo /\ LazoOK(hilo[h])
  BY DEF FormaOK, TypeOK
<1>2. CASE Termina(h) /\ UNCHANGED metadata
  BY <1>2, SoloSigueForma, OciosoOK, OciosoLazo DEF TerminarGuardar, Termina
<1>3. CASE /\ Sigue(h, [hilo[h] EXCEPT !.en = "metadata",
                                      !.md.tamanio = Max({@, hilo[h].hasta})])
           /\ metadata' = [metadata EXCEPT ![hilo[h].path] = Ilegible]
           /\ UNCHANGED mutex
  <2> DEFINE md == [hilo[h].md EXCEPT !.tamanio = Max({@, hilo[h].hasta})]
             t  == [hilo[h] EXCEPT !.en = "metadata", !.md = md]
  <2>1. /\ md \in Metadata /\ md.estado = hilo[h].md.estado
        /\ md.bloques = hilo[h].md.bloques
    BY <1>1, MaximoOK DEF Trabajo, Metadata
  <2>2. Sigue(h, t)
    BY <1>1, <1>3 DEF Trabajo
  <2> HIDE DEF md
  <2>3. t \in Trabajo /\ LazoOK(t)
    BY <1>1, <2>1 DEF TerminarGuardar, Trabajo, Fases, LazoOK
  <2>4. Ilegible \in Metadata /\ Ilegible.bloques = <<>>
    BY MetadataVacia
  <2>5. metadata' \in [Paths -> Metadata]
    BY <1>3, <2>4 DEF FormaOK, TypeOK
  <2>6. \A q \in Paths : metadata'[q].estado # "legible" => metadata'[q].bloques = <<>>
    BY <1>3, <2>4 DEF FormaOK, TypeOK, ArchivosOK, Legible
  <2> QED
    BY <1>3, <2>2, <2>3, <2>5, <2>6, SigueForma
    DEF TerminarGuardar, FormaOK, TypeOK, ArchivosOK
<1> QED
  BY <1>2, <1>3 DEF TerminarGuardar

LEMMA EscribirMetadataForma ==
    ASSUME FormaOK, NEW h \in Hilos, EscribirMetadata(h)
    PROVE  FormaOK'
<1>1. hilo[h].md \in Metadata /\ hilo[h].md.estado = "legible"
  BY DEF EscribirMetadata, FormaOK, TypeOK, Trabajo, LazoOK
<1>2. metadata' \in [Paths -> Metadata]
  BY <1>1 DEF EscribirMetadata, FormaOK, TypeOK
<1>3. \A q \in Paths : metadata'[q].estado # "legible" => metadata'[q].bloques = <<>>
  BY <1>1 DEF EscribirMetadata, FormaOK, TypeOK, ArchivosOK, Legible
<1> QED
  BY <1>2, <1>3, SigueForma, OciosoOK, OciosoLazo
  DEF EscribirMetadata, Termina, FormaOK, TypeOK, ArchivosOK

LEMMA BorrarArchivoForma ==
    ASSUME FormaOK, NEW h \in Hilos, NEW p \in Paths, BorrarArchivo(h, p)
    PROVE  FormaOK'
<1>1. metadata[p] \in Metadata
  BY DEF FormaOK, TypeOK
<1>2. CASE metadata[p].estado = "legible"
  <2> DEFINE t == [Ocioso EXCEPT !.en = "borra", !.path = p, !.md = metadata[p]]
  <2>1. t \in Trabajo /\ LazoOK(t)
    BY <1>1, <1>2, OciosoOK DEF Ocioso, Trabajo, Fases, LazoOK
  <2> QED
    BY <1>2, <2>1, SoloSigueForma DEF BorrarArchivo, FormaOK, TypeOK
<1>3. CASE metadata[p].estado # "legible"
  BY <1>3, CaerForma DEF BorrarArchivo
<1> QED
  BY <1>2, <1>3

LEMMA BorrarBloqueForma ==
    ASSUME FormaOK, NEW h \in Hilos, BorrarBloque(h)
    PROVE  FormaOK'
<1>1. hilo[h] \in Trabajo /\ LazoOK(hilo[h])
  BY DEF FormaOK, TypeOK
<1> DEFINE t == [hilo[h] EXCEPT !.i = @ + 1]
<1>2. t \in Trabajo /\ LazoOK(t)
  BY <1>1 DEF BorrarBloque, Trabajo, LazoOK
<1>3. bitmap' \subseteq Bloques /\ disco' = bitmap'
  BY DEF BorrarBloque, FormaOK, TypeOK
<1> QED
  BY <1>2, <1>3, SigueForma DEF BorrarBloque, FormaOK, TypeOK, ArchivosOK, Legible

LEMMA QuitarMetadataForma ==
    ASSUME FormaOK, NEW h \in Hilos, QuitarMetadata(h)
    PROVE  FormaOK'
<1>1. NoExiste \in Metadata /\ NoExiste.bloques = <<>>
  BY OciosoOK DEF NoExiste
<1>2. metadata' \in [Paths -> Metadata]
  BY <1>1 DEF QuitarMetadata, FormaOK, TypeOK
<1>3. \A q \in Paths : metadata'[q].estado # "legible" => metadata'[q].bloques = <<>>
  BY <1>1 DEF QuitarMetadata, FormaOK, TypeOK, ArchivosOK, Legible
<1> QED
  BY <1>2, <1>3, SigueForma, OciosoOK, OciosoLazo
  DEF QuitarMetadata, Termina, FormaOK, TypeOK, ArchivosOK

LEMMA PararForma ==
    ASSUME FormaOK, Parar
    PROVE  FormaOK'
<1>1. paradas' \in 0 .. MaxParadas
  BY MdjAssumption DEF Parar, FormaOK, TypeOK
<1>2. danio' \subseteq {"borradoInterrumpido", "mutexAjeno"} /\ disco' \subseteq Bloques
  BY DEF Parar, FormaOK, TypeOK
<1> QED
  BY <1>1, <1>2 DEF Parar, FormaOK, TypeOK, ArchivosOK, Legible

LEMMA LevantarForma ==
    ASSUME FormaOK, Levantar
    PROVE  FormaOK'
<1>1. hilo' \in [Hilos -> Trabajo] /\ \A h \in Hilos : hilo'[h] = Ocioso
  BY OciosoOK DEF Levantar
<1>2. (\A h \in Hilos : LazoOK(hilo[h]))'
  BY <1>1, OciosoLazo DEF LazoOK
<1> QED
  BY <1>1, <1>2 DEF Levantar, FormaOK, TypeOK, ArchivosOK, Legible

LEMMA OperacionForma ==
    ASSUME FormaOK, NEW h \in Hilos, Operacion(h)
    PROVE  FormaOK'
<1>1. ASSUME NEW p \in Paths, ObtenerDatos(h, p) PROVE FormaOK'
  BY <1>1, CaerForma DEF ObtenerDatos
<1> QED
  BY <1>1, CrearArchivoForma, BorrarArchivoForma, GuardarDatosForma,
     EscribirVaciaForma, SoltarDeNuevoForma, EscribirBloqueForma,
     BuscarBloqueForma, ReservarBloqueForma, SinEspacioForma,
     TerminarGuardarForma, EscribirMetadataForma, BorrarBloqueForma,
     QuitarMetadataForma DEF Operacion

LEMMA InitForma == Init => FormaOK
<1> SUFFICES ASSUME Init PROVE FormaOK
  OBVIOUS
<1>1. hilo \in [Hilos -> Trabajo] /\ \A h \in Hilos : LazoOK(hilo[h])
  BY OciosoOK, OciosoLazo DEF Init
<1>2. metadata \in [Paths -> Metadata]
  BY OciosoOK DEF Init
<1>3. ArchivosOK
  BY DEF Init, ArchivosOK, NoExiste
<1>4. disco \subseteq Bloques /\ bitmap \subseteq Bloques
  BY DEF Init, CerosAscii
<1>5. paradas \in 0 .. MaxParadas
  BY MdjAssumption DEF Init
<1>6. TypeOK
  BY <1>1, <1>2, <1>4, <1>5 DEF Init, TypeOK
<1> QED
  BY <1>1, <1>3, <1>6 DEF FormaOK

LEMMA PasoForma == FormaOK /\ [Next]_vars => FormaOK'
<1> SUFFICES ASSUME FormaOK, [Next]_vars PROVE FormaOK'
  OBVIOUS
<1>1. CASE UNCHANGED vars
  BY <1>1 DEF vars, FormaOK, TypeOK, ArchivosOK, Legible
<1>2. CASE Next
  BY <1>2, PararForma, LevantarForma, OperacionForma DEF Next
<1> QED
  BY <1>1, <1>2

(* Every variable of MDJ keeps its type, for every number and size of       *)
(* blocks: the lists of blocks, the loop counters of guardarDatos and       *)
(* borrarArchivo, the block about to be taken.                              *)
THEOREM TiposDeMdj == Spec => []TypeOK
<1>1. FormaOK => TypeOK
  BY DEF FormaOK
<1> QED
  BY <1>1, InitForma, PasoForma, PTL DEF Spec

-----------------------------------------------------------------------------
(* The part that holds while nothing has broken the file system.            *)

(* Damage is never undone. *)
LEMMA SanoAntes ==
    ASSUME FormaOK, [Next]_vars, Sano'
    PROVE  Sano
<1>1. danio \subseteq danio'
  BY DEF Next, vars, Operacion, CrearArchivo, BorrarArchivo, ObtenerDatos, Caer,
         GuardarDatos, EscribirVacia, SoltarDeNuevo, EscribirBloque,
         BuscarBloque, ReservarBloque, SinEspacio, TerminarGuardar,
         EscribirMetadata, BorrarBloque, QuitarMetadata, Parar, Levantar
<1> QED
  BY <1>1 DEF Sano

(* A broken file system has no more to keep than its types. *)
LEMMA RotoOK ==
    ASSUME FormaOK', ~ Sano'
    PROVE  InvMdj'
  BY DEF InvMdj, BloquesSinCompartir, OcupadosEnDisco

(* Who starts, or goes on with, an operation works alone. *)
LEMMA SoloUno ==
    ASSUME InvMdj, Sano, NEW h \in Hilos, vivo, ~ mutex \/ Trabaja(h)
    PROVE  \A g \in Hilos \ {h} : ~ Trabaja(g)
  BY DEF InvMdj, UnoTrabaja

(* A step of a thread that works alone, in a process that goes on. *)
LEMMA PasoDeUno ==
    ASSUME FormaOK', NEW h \in Hilos, vivo', Sano',
           \A g \in Hilos \ {h} : hilo'[g] = hilo[g] /\ ~ Trabaja(g),
           Trabaja(h)' => mutex',
           CopiaFiel(hilo[h])',
           BloquesSinCompartir', OcupadosEnDisco', IlegibleConDuenio'
    PROVE  InvMdj'
<1>1. \A g \in Hilos \ {h} : ~ Trabaja(g)'
  BY DEF Trabaja
<1>2. UnoTrabaja'
  BY <1>1 DEF UnoTrabaja
<1>3. ASSUME NEW g \in Hilos \ {h} PROVE CopiaFiel(hilo[g])'
  <2>1. hilo'[g].en \in {"libre", "sueltaDeNuevo"}
    BY <1>1, <1>3 DEF Trabaja
  <2> QED
    BY <2>1 DEF CopiaFiel
<1>4. CopiasFieles'
  BY <1>3 DEF CopiasFieles
<1> QED
  BY <1>2, <1>4 DEF InvMdj

(* The metadata of one file changes, to a list that shares nothing. *)
LEMMA CambiaUno ==
    ASSUME BloquesSinCompartir, Sano, NEW p \in Paths,
           \A q \in Paths \ {p} : metadata'[q] = metadata[q],
           IsInjective(metadata'[p].bloques),
           \A q \in Paths \ {p} : ToSet(metadata'[p].bloques) \cap De(q) = {}
    PROVE  BloquesSinCompartir'
<1>1. \A q \in Paths \ {p} : De(q)' = De(q)
  BY DEF De
<1>2. De(p)' = ToSet(metadata'[p].bloques)
  BY DEF De
<1> QED
  BY <1>1, <1>2 DEF BloquesSinCompartir

LEMMA SinLista ==
    ASSUME NEW s, s = <<>>
    PROVE  IsInjective(s) /\ ToSet(s) = {}
  BY DEF IsInjective, ToSet

(* The metadata of one file changes, and the marks of the others stay. *)
LEMMA CambiaUnoOcupado ==
    ASSUME OcupadosEnDisco, Sano, vivo, NEW p \in Paths,
           \A q \in Paths \ {p} : /\ metadata'[q] = metadata[q]
                                  /\ ~ Borrando(q)
                                  /\ De(q) \cap bitmap \subseteq bitmap' \cap disco',
           Borrando(p)' \/ ToSet(metadata'[p].bloques) \subseteq bitmap' \cap disco'
    PROVE  OcupadosEnDisco'
<1>1. \A q \in Paths \ {p} : De(q)' = De(q) /\ De(q) \subseteq bitmap
  BY DEF De, OcupadosEnDisco
<1>2. De(p)' = ToSet(metadata'[p].bloques)
  BY DEF De
<1> QED
  BY <1>1, <1>2 DEF OcupadosEnDisco

(* Nobody else deletes. *)
LEMMA NadieMasBorra ==
    ASSUME NEW h \in Hilos, \A g \in Hilos \ {h} : ~ Trabaja(g),
           NEW q, hilo[h].en # "borra" \/ hilo[h].path # q
    PROVE  ~ Borrando(q)
  BY DEF Borrando, Trabaja

(* What the invariant gives to a thread that takes a step. *)
LEMMA Alcanza ==
    ASSUME InvMdj, Sano, vivo, NEW h \in Hilos
    PROVE  /\ hilo[h] \in Trabajo /\ LazoOK(hilo[h]) /\ CopiaFiel(hilo[h])
           /\ metadata \in [Paths -> Metadata] /\ hilo \in [Hilos -> Trabajo]
           /\ bitmap \subseteq disco /\ bitmap \subseteq Bloques
           /\ BloquesSinCompartir /\ OcupadosEnDisco /\ IlegibleConDuenio
           /\ \A p \in Paths : ~ Legible(p) => metadata[p].bloques = <<>>
  BY DEF InvMdj, FormaOK, TypeOK, ArchivosOK, CopiasFieles

LEMMA CrearArchivoInv ==
    ASSUME InvMdj, FormaOK', Sano, Sano',
           NEW h \in Hilos, NEW p \in Paths, CrearArchivo(h, p)
    PROVE  InvMdj'
<1>1. vivo /\ vivo' /\ mutex' /\ hilo[h].en = "libre"
      /\ \A g \in Hilos \ {h} : hilo'[g] = hilo[g] /\ ~ Trabaja(g)
  BY SoloUno DEF CrearArchivo, Puede, Sigue
<1>2. /\ hilo'[h].en = "crea" /\ hilo'[h].path = p
      /\ metadata'[p] = Ilegible
      /\ \A q \in Paths \ {p} : metadata'[q] = metadata[q]
  BY <1>1, Alcanza DEF CrearArchivo, Sigue, Ocioso
<1>3. CopiaFiel(hilo[h])'
  BY <1>2 DEF CopiaFiel
<1>4. IsInjective(metadata'[p].bloques) /\ ToSet(metadata'[p].bloques) = {}
  BY <1>2, MetadataVacia, SinLista
<1>5. BloquesSinCompartir'
  BY <1>1, <1>2, <1>4, Alcanza, CambiaUno
<1>6. OcupadosEnDisco'
  BY <1>1, <1>2, <1>4, Alcanza, CambiaUnoOcupado, NadieMasBorra DEF CrearArchivo
<1>7. IlegibleConDuenio'
  BY <1>1, <1>2, Alcanza DEF CrearArchivo, IlegibleConDuenio, Trabaja
<1> QED
  BY <1>1, <1>3, <1>5, <1>6, <1>7, PasoDeUno

LEMMA SoltarDeNuevoInv ==
    ASSUME InvMdj, FormaOK', Sano, Sano', NEW h \in Hilos, SoltarDeNuevo(h)
    PROVE  InvMdj'
<1>1. vivo /\ vivo' /\ ~ mutex /\ hilo[h].en = "sueltaDeNuevo"
      /\ \A g \in Hilos \ {h} : hilo'[g] = hilo[g]
  BY DEF SoltarDeNuevo, Termina, Sigue, Sano
<1>2. \A g \in Hilos \ {h} : ~ Trabaja(g)
  BY <1>1, SoloUno
<1>3. hilo'[h].en = "libre"
  BY <1>1, Alcanza DEF SoltarDeNuevo, Termina, Sigue, Ocioso
<1>4. CopiaFiel(hilo[h])' /\ ~ Trabaja(h)'
  BY <1>3 DEF CopiaFiel, Trabaja
<1>5. BloquesSinCompartir'
  BY Alcanza, <1>1 DEF SoltarDeNuevo, BloquesSinCompartir, De
<1>6. OcupadosEnDisco'
  BY Alcanza, <1>1, <1>2 DEF SoltarDeNuevo, OcupadosEnDisco, De, Borrando, Trabaja
<1>7. IlegibleConDuenio'
  BY Alcanza, <1>1 DEF SoltarDeNuevo, IlegibleConDuenio
<1> QED
  BY <1>1, <1>2, <1>4, <1>5, <1>6, <1>7, PasoDeUno

(* The process dies without writing anything. *)
LEMMA CaerInv ==
    ASSUME InvMdj, FormaOK', Sano, vivo, Caer, \A h \in Hilos : ~ Trabaja(h)
    PROVE  InvMdj'
<1>1. BloquesSinCompartir /\ OcupadosEnDisco
  BY DEF InvMdj
<1>2. BloquesSinCompartir'
  BY <1>1 DEF Caer, BloquesSinCompartir, De, Sano
<1>3. OcupadosEnDisco'
  BY <1>1 DEF Caer, OcupadosEnDisco, De, Borrando, Sano
<1>4. \A h \in Hilos : hilo'[h].en # "borra"
  BY DEF Caer, Trabaja
<1> QED
  BY <1>2, <1>3, <1>4 DEF InvMdj, Caer

(* The metadata, the bitmap and Bitmap.bin stay: the thread alone moves. *)
LEMMA SoloHiloInv ==
    ASSUME InvMdj, FormaOK', Sano, Sano', vivo, NEW h \in Hilos,
           UNCHANGED <<metadata, bitmap, disco, vivo>>,
           \A g \in Hilos \ {h} : hilo'[g] = hilo[g] /\ ~ Trabaja(g),
           Trabaja(h)' => mutex',
           CopiaFiel(hilo[h])',
           hilo[h].en = "borra" => hilo'[h].en = "borra" /\ hilo'[h].path = hilo[h].path,
           hilo[h].en \notin {"crea", "metadata"}
    PROVE  InvMdj'
<1>1. BloquesSinCompartir'
  BY Alcanza DEF BloquesSinCompartir, De
<1>2. OcupadosEnDisco'
  BY Alcanza DEF OcupadosEnDisco, De, Borrando, Trabaja
<1>3. IlegibleConDuenio'
  BY Alcanza DEF IlegibleConDuenio
<1> QED
  BY <1>1, <1>2, <1>3, PasoDeUno

(* A thread that starts guardarDatos, with the metadata as it is written. *)
LEMMA GuardaFiel ==
    ASSUME NEW p \in Paths, NEW t, t.en = "guarda", t.path = p,
           t.total = Len(t.md.bloques), metadata'[p] = t.md, Legible(p)',
           IsInjective(t.md.bloques),
           ToSet(t.md.bloques) \subseteq bitmap' \cap disco',
           \A q \in Paths \ {p} : ToSet(t.md.bloques) \cap De(q)' = {},
           NEW h \in Hilos, hilo'[h] = t
    PROVE  CopiaFiel(hilo[h])'
  BY DEF CopiaFiel

(* A thread that goes on writing, when nothing it relies on has changed. *)
LEMMA SigueFiel ==
    ASSUME NEW h \in Hilos, CopiaFiel(hilo[h]),
           UNCHANGED <<metadata, bitmap, disco>>,
           hilo[h].en = "guarda", hilo'[h].en \in {"guarda", "reserva"},
           hilo'[h].path = hilo[h].path, hilo'[h].md = hilo[h].md,
           hilo'[h].total = hilo[h].total,
           hilo'[h].en = "reserva" => hilo'[h].bloque \notin bitmap
    PROVE  CopiaFiel(hilo[h])'
<1>1. \A q \in Paths : De(q)' = De(q) /\ Legible(q)' = Legible(q)
  BY DEF De, Legible
<1>2. /\ Legible(hilo[h].path)'
      /\ hilo'[h].total = Len(metadata'[hilo'[h].path].bloques)
      /\ \A k \in 1 .. hilo'[h].total :
            hilo'[h].md.bloques[k] = metadata'[hilo'[h].path].bloques[k]
  BY DEF Legible, CopiaFiel
<1>3. /\ IsInjective(hilo'[h].md.bloques)
      /\ ToSet(hilo'[h].md.bloques) \subseteq bitmap' \cap disco'
      /\ \A q \in Paths \ {hilo'[h].path} :
            ToSet(hilo'[h].md.bloques) \cap De(q)' = {}
  BY <1>1 DEF CopiaFiel
<1> QED
  BY <1>2, <1>3 DEF CopiaFiel

LEMMA EscribirVaciaInv ==
    ASSUME InvMdj, FormaOK', Sano, Sano',
           NEW h \in Hilos, NEW n \in Tamanios, EscribirVacia(h, n)
    PROVE  InvMdj'
<1> DEFINE p == hilo[h].path
<1>1. vivo /\ vivo' /\ hilo[h].en = "crea" /\ p \in Paths
      /\ UNCHANGED <<bitmap, disco>>
  BY Alcanza DEF EscribirVacia, Trabajo
<1>2. Trabaja(h) /\ mutex
  BY <1>1 DEF Trabaja, InvMdj, UnoTrabaja
<1>3. \A g \in Hilos \ {h} : hilo'[g] = hilo[g] /\ ~ Trabaja(g)
  <2>1. PICK t : Sigue(h, t)
    BY DEF EscribirVacia
  <2> QED
    BY <1>1, <1>2, <2>1, SoloUno, Alcanza DEF Sigue
<1>4. metadata'[p] = Vacia /\ \A q \in Paths \ {p} : metadata'[q] = metadata[q]
  BY <1>1, Alcanza DEF EscribirVacia
<1>5. Vacia.estado = "legible" /\ IsInjective(Vacia.bloques)
      /\ ToSet(Vacia.bloques) = {} /\ Vacia.bloques = <<>>
  BY MetadataVacia, SinLista
<1>6. CopiaFiel(hilo[h])' /\ (Trabaja(h)' => mutex')
  <2>1. CASE Sigue(h, Guarda(p, Vacia, 0, n)) /\ UNCHANGED mutex
    <3> DEFINE t == Guarda(p, Vacia, 0, n)
    <3>1. hilo'[h] = t
      BY <1>1, <2>1, Alcanza DEF Sigue
    <3>2. t.en = "guarda" /\ t.path = p /\ t.md = Vacia /\ t.total = Len(t.md.bloques)
      BY DEF Guarda
    <3> HIDE DEF t
    <3>3. CopiaFiel(hilo[h])'
      BY <1>1, <1>4, <1>5, <3>1, <3>2, GuardaFiel DEF Legible
    <3> QED
      BY <1>2, <2>1, <3>3
  <2>2. ASSUME NEW en \in {"libre", "sueltaDeNuevo"},
               Sigue(h, [Ocioso EXCEPT !.en = en]), mutex' = FALSE
        PROVE  CopiaFiel(hilo[h])' /\ ~ Trabaja(h)'
    <3>1. hilo'[h].en = en
      BY <2>2, Alcanza, <1>1 DEF Sigue, Ocioso
    <3> QED
      BY <2>2, <3>1 DEF CopiaFiel, Trabaja
  <2> QED
    BY <2>1, <2>2 DEF EscribirVacia
<1>7. BloquesSinCompartir'
  BY <1>1, <1>4, <1>5, Alcanza, CambiaUno
<1>8. OcupadosEnDisco'
  BY <1>1, <1>3, <1>4, <1>5, Alcanza, CambiaUnoOcupado, NadieMasBorra
<1>9. IlegibleConDuenio'
  BY <1>1, <1>3, <1>4, <1>5, Alcanza DEF IlegibleConDuenio, Trabaja
<1> HIDE DEF p
<1> QED
  BY <1>1, <1>3, <1>6, <1>7, <1>8, <1>9, PasoDeUno

LEMMA GuardarDatosInv ==
    ASSUME InvMdj, FormaOK', Sano, Sano', NEW h \in Hilos, NEW p \in Paths,
           NEW r \in Rangos, GuardarDatos(h, p, r[1], r[2])
    PROVE  InvMdj'
<1>1. vivo /\ hilo[h].en = "libre"
      /\ \A g \in Hilos \ {h} : ~ Trabaja(g)
  BY SoloUno DEF GuardarDatos, Puede
<1>2. CASE Caer
  BY <1>1, <1>2, CaerInv DEF Trabaja
<1>3. CASE ~ Caer
  <2> DEFINE t == Guarda(p, metadata[p], r[1], r[2])
  <2>1. Legible(p) /\ Sigue(h, t) /\ mutex'
        /\ UNCHANGED <<metadata, bitmap, disco, vivo, paradas, danio>>
    BY <1>3 DEF GuardarDatos, Legible
  <2>2. t.en = "guarda" /\ t.path = p /\ t.md = metadata[p]
        /\ t.total = Len(t.md.bloques)
    BY DEF Guarda
  <2> HIDE DEF t
  <2>3. hilo'[h] = t /\ \A g \in Hilos \ {h} : hilo'[g] = hilo[g]
    BY <1>1, <2>1, Alcanza DEF Sigue
  <2>4. ~ Borrando(p)
    BY <1>1, NadieMasBorra
  <2>5. /\ IsInjective(t.md.bloques)
        /\ ToSet(t.md.bloques) \subseteq bitmap' \cap disco'
        /\ \A q \in Paths \ {p} : ToSet(t.md.bloques) \cap De(q)' = {}
    BY <1>1, <2>1, <2>2, <2>4, Alcanza DEF BloquesSinCompartir, OcupadosEnDisco, De
  <2>6. CopiaFiel(hilo[h])'
    BY <2>1, <2>2, <2>3, <2>5, GuardaFiel DEF Legible
  <2> QED
    BY <1>1, <2>1, <2>3, <2>6, SoloHiloInv
<1> QED
  BY <1>2, <1>3

LEMMA EscribirBloqueInv ==
    ASSUME InvMdj, FormaOK', Sano, Sano', NEW h \in Hilos, EscribirBloque(h)
    PROVE  InvMdj'
<1>1. vivo /\ hilo[h].en = "guarda"
      /\ UNCHANGED <<metadata, bitmap, disco, mutex, vivo>>
  BY DEF EscribirBloque, Recorre
<1>2. mutex /\ \A g \in Hilos \ {h} : hilo'[g] = hilo[g] /\ ~ Trabaja(g)
  BY <1>1 DEF EscribirBloque, Sigue, Trabaja, InvMdj, UnoTrabaja
<1>3. /\ hilo'[h].en = "guarda" /\ hilo'[h].path = hilo[h].path
      /\ hilo'[h].md = hilo[h].md /\ hilo'[h].total = hilo[h].total
  BY <1>1, Alcanza DEF EscribirBloque, Sigue, Trabajo
<1>4. CopiaFiel(hilo[h])'
  BY <1>1, <1>3, Alcanza, SigueFiel
<1> QED
  BY <1>1, <1>2, <1>3, <1>4, SoloHiloInv

LEMMA BuscarBloqueInv ==
    ASSUME InvMdj, FormaOK', Sano, Sano', NEW h \in Hilos, BuscarBloque(h)
    PROVE  InvMdj'
<1>1. vivo /\ hilo[h].en = "guarda"
      /\ UNCHANGED <<metadata, bitmap, disco, mutex, vivo>>
  BY DEF BuscarBloque, Recorre
<1>2. mutex /\ \A g \in Hilos \ {h} : hilo'[g] = hilo[g] /\ ~ Trabaja(g)
  BY <1>1 DEF BuscarBloque, Sigue, Trabaja, InvMdj, UnoTrabaja
<1>3. /\ hilo'[h].en = "reserva" /\ hilo'[h].path = hilo[h].path
      /\ hilo'[h].md = hilo[h].md /\ hilo'[h].total = hilo[h].total
      /\ hilo'[h].bloque = Min(Libres)
  BY <1>1, Alcanza DEF BuscarBloque, Sigue, Trabajo
<1>4. Min(Libres) \notin bitmap
  BY MinimoOK, MdjAssumption DEF BuscarBloque, Libres, Bloques
<1>5. CopiaFiel(hilo[h])'
  BY <1>1, <1>3, <1>4, Alcanza, SigueFiel
<1> QED
  BY <1>1, <1>2, <1>3, <1>5, SoloHiloInv

(* A new block at the end of a list. *)
LEMMA AgregaUno ==
    ASSUME NEW S, NEW s \in Seq(S), NEW b \in S, IsInjective(s), b \notin ToSet(s)
    PROVE  /\ IsInjective(Append(s, b))
           /\ ToSet(Append(s, b)) = ToSet(s) \cup {b}
           /\ Append(s, b) \in Seq(S) /\ Len(Append(s, b)) = Len(s) + 1
           /\ \A k \in 1 .. Len(s) : Append(s, b)[k] = s[k]
<1>1. /\ DOMAIN Append(s, b) = 1 .. Len(s) + 1 /\ DOMAIN s = 1 .. Len(s)
      /\ Len(s) \in Nat
      /\ Append(s, b)[Len(s) + 1] = b
      /\ \A k \in 1 .. Len(s) : Append(s, b)[k] = s[k]
  OBVIOUS
<1>2. \A k \in 1 .. Len(s) : s[k] # b
  BY <1>1 DEF ToSet
<1>3. \A k \in 1 .. Len(s) + 1 : k = Len(s) + 1 \/ k \in 1 .. Len(s)
  BY <1>1
<1>4. IsInjective(Append(s, b))
  BY <1>1, <1>2, <1>3 DEF IsInjective
<1>5. ToSet(Append(s, b)) = ToSet(s) \cup {b}
  <2>1. \A x : x \in ToSet(Append(s, b)) => x \in ToSet(s) \cup {b}
    BY <1>1, <1>3 DEF ToSet
  <2>2. Len(s) + 1 \in 1 .. Len(s) + 1 /\ \A k \in 1 .. Len(s) : k \in 1 .. Len(s) + 1
    BY <1>1
  <2>3. \A x : x \in ToSet(s) \cup {b} => x \in ToSet(Append(s, b))
    BY <1>1, <2>2 DEF ToSet
  <2> QED
    BY <2>1, <2>3
<1> QED
  BY <1>1, <1>4, <1>5

LEMMA ReservarBloqueInv ==
    ASSUME InvMdj, FormaOK', Sano, Sano', NEW h \in Hilos, ReservarBloque(h)
    PROVE  InvMdj'
<1> DEFINE t == hilo[h]
           p == t.path
<1>1. /\ vivo /\ vivo' /\ t.en = "reserva" /\ mutex' = mutex /\ metadata' = metadata
      /\ bitmap' = bitmap \cup {t.bloque} /\ disco' = bitmap'
  BY DEF ReservarBloque
<1>2. mutex /\ \A g \in Hilos \ {h} : hilo'[g] = hilo[g] /\ ~ Trabaja(g)
  BY <1>1 DEF ReservarBloque, Sigue, Trabaja, InvMdj, UnoTrabaja
<1>3. /\ t \in Trabajo /\ LazoOK(t) /\ CopiaFiel(t)
      /\ p \in Paths /\ t.md.bloques \in Seq(Bloques) /\ t.bloque \in Bloques
      /\ t.total \in Nat
  BY <1>1, Alcanza DEF Trabajo, Metadata
<1>4. /\ hilo'[h].en = "guarda" /\ hilo'[h].path = p /\ hilo'[h].total = t.total
      /\ hilo'[h].md.bloques = Append(t.md.bloques, t.bloque)
  BY <1>1, Alcanza DEF ReservarBloque, Sigue, Trabajo, Metadata
<1>5. \A q \in Paths : De(q)' = De(q) /\ Legible(q)' = Legible(q)
  BY <1>1 DEF De, Legible
<1>6. \A q \in Paths : De(q) \subseteq bitmap
  BY <1>1, <1>2, NadieMasBorra, Alcanza DEF OcupadosEnDisco
<1>7. /\ IsInjective(t.md.bloques) /\ ToSet(t.md.bloques) \subseteq bitmap
      /\ t.bloque \notin bitmap /\ Legible(p) /\ t.total <= Len(t.md.bloques)
      /\ t.total = Len(metadata[p].bloques)
      /\ \A k \in 1 .. t.total : t.md.bloques[k] = metadata[p].bloques[k]
      /\ \A q \in Paths \ {p} : ToSet(t.md.bloques) \cap De(q) = {}
  BY <1>1, <1>3 DEF LazoOK, CopiaFiel
<1>8. CopiaFiel(hilo[h])'
  <2>1. /\ Legible(hilo[h].path)'
        /\ hilo'[h].total = Len(metadata'[p].bloques)
    BY <1>1, <1>4, <1>7 DEF Legible
  <2>2. \A k \in 1 .. t.total : Append(t.md.bloques, t.bloque)[k] = metadata[p].bloques[k]
    BY <1>3, <1>7, AgregaUno
  <2>3. /\ IsInjective(hilo'[h].md.bloques)
        /\ ToSet(hilo'[h].md.bloques) \subseteq ToSet(t.md.bloques) \cup {t.bloque}
    BY <1>3, <1>4, <1>7, AgregaUno
  <2>4. /\ ToSet(hilo'[h].md.bloques) \subseteq bitmap' \cap disco'
        /\ \A q \in Paths \ {p} : ToSet(hilo'[h].md.bloques) \cap De(q)' = {}
    BY <1>1, <1>5, <1>6, <1>7, <2>3
  <2> QED
    BY <1>1, <1>4, <2>1, <2>2, <2>3, <2>4 DEF CopiaFiel
<1>9. BloquesSinCompartir'
  BY <1>1, <1>5, Alcanza DEF BloquesSinCompartir
<1>10. OcupadosEnDisco'
  BY <1>1, <1>5, <1>6 DEF OcupadosEnDisco
<1>11. IlegibleConDuenio'
  BY <1>1 DEF IlegibleConDuenio
<1> HIDE DEF t
<1> QED
  BY <1>1, <1>2, <1>8, <1>9, <1>10, <1>11, PasoDeUno

(* The operation ends with nothing to write. *)
LEMMA TerminaInv ==
    ASSUME InvMdj, FormaOK', Sano, Sano', vivo, NEW h \in Hilos,
           hilo[h].en = "guarda", Termina(h),
           UNCHANGED <<metadata, bitmap, disco, vivo>>
    PROVE  InvMdj'
<1>1. \A g \in Hilos \ {h} : hilo'[g] = hilo[g] /\ ~ Trabaja(g)
  BY Alcanza DEF Termina, Sigue, Trabaja, InvMdj, UnoTrabaja
<1>2. hilo'[h].en = "libre"
  BY Alcanza DEF Termina, Sigue, Ocioso
<1>3. CopiaFiel(hilo[h])' /\ ~ Trabaja(h)'
  BY <1>2 DEF CopiaFiel, Trabaja
<1> QED
  BY <1>1, <1>3, SoloHiloInv

LEMMA SinEspacioInv ==
    ASSUME InvMdj, FormaOK', Sano, Sano', NEW h \in Hilos, SinEspacio(h)
    PROVE  InvMdj'
  BY TerminaInv DEF SinEspacio, Recorre

LEMMA TerminarGuardarInv ==
    ASSUME InvMdj, FormaOK', Sano, Sano', NEW h \in Hilos, TerminarGuardar(h)
    PROVE  InvMdj'
<1> DEFINE t == hilo[h]
           p == t.path
<1>1. vivo /\ vivo' /\ t.en = "guarda" /\ UNCHANGED <<bitmap, disco, vivo>>
  BY DEF TerminarGuardar
<1>2. CASE Termina(h) /\ UNCHANGED metadata
  BY <1>1, <1>2, TerminaInv
<1>3. CASE /\ Sigue(h, [t EXCEPT !.en = "metadata",
                                !.md.tamanio = Max({@, t.hasta})])
           /\ metadata' = [metadata EXCEPT ![p] = Ilegible]
           /\ UNCHANGED mutex
  <2>1. mutex' /\ \A g \in Hilos \ {h} : hilo'[g] = hilo[g] /\ ~ Trabaja(g)
    BY <1>1, <1>3, Alcanza DEF Sigue, Trabaja, InvMdj, UnoTrabaja
  <2>2. p \in Paths /\ t \in Trabajo /\ CopiaFiel(t)
    BY <1>1, Alcanza DEF Trabajo
  <2>3. /\ hilo'[h].en = "metadata" /\ hilo'[h].path = p
        /\ hilo'[h].md.bloques = t.md.bloques
    BY <1>1, <1>3, <2>2, Alcanza DEF Sigue, Trabajo, Metadata
  <2>4. metadata'[p] = Ilegible /\ \A q \in Paths \ {p} : metadata'[q] = metadata[q]
    BY <1>1, <1>3, <2>2, Alcanza
  <2>5. IsInjective(Ilegible.bloques) /\ ToSet(Ilegible.bloques) = {}
    BY MetadataVacia, SinLista
  <2>6. \A q \in Paths \ {p} : De(q)' = De(q)
    BY <2>4 DEF De
  <2>7. CopiaFiel(hilo[h])'
    <3>1. /\ IsInjective(t.md.bloques) /\ ToSet(t.md.bloques) \subseteq bitmap \cap disco
          /\ \A q \in Paths \ {p} : ToSet(t.md.bloques) \cap De(q) = {}
      BY <1>1, <2>2 DEF CopiaFiel
    <3> QED
      BY <1>1, <2>3, <2>4, <2>6, <3>1 DEF CopiaFiel
  <2>8. BloquesSinCompartir'
    BY <1>1, <2>2, <2>4, <2>5, Alcanza, CambiaUno
  <2>9. OcupadosEnDisco'
    BY <1>1, <2>1, <2>2, <2>4, <2>5, Alcanza, CambiaUnoOcupado, NadieMasBorra
  <2>10. IlegibleConDuenio'
    BY <1>1, <2>1, <2>2, <2>3, <2>4, Alcanza DEF IlegibleConDuenio, Trabaja
  <2> HIDE DEF t
  <2> QED
    BY <1>1, <2>1, <2>7, <2>8, <2>9, <2>10, PasoDeUno
<1> QED
  BY <1>2, <1>3 DEF TerminarGuardar

LEMMA EscribirMetadataInv ==
    ASSUME InvMdj, FormaOK', Sano, Sano', NEW h \in Hilos, EscribirMetadata(h)
    PROVE  InvMdj'
<1> DEFINE t == hilo[h]
           p == t.path
<1>1. vivo /\ vivo' /\ t.en = "metadata" /\ UNCHANGED <<bitmap, disco>>
  BY DEF EscribirMetadata
<1>2. \A g \in Hilos \ {h} : hilo'[g] = hilo[g] /\ ~ Trabaja(g)
  BY <1>1, Alcanza DEF EscribirMetadata, Termina, Sigue, Trabaja, InvMdj, UnoTrabaja
<1>3. p \in Paths /\ t \in Trabajo /\ CopiaFiel(t) /\ t.md.estado = "legible"
  BY <1>1, Alcanza DEF Trabajo, LazoOK
<1>4. metadata'[p] = t.md /\ \A q \in Paths \ {p} : metadata'[q] = metadata[q]
  BY <1>1, <1>3, Alcanza DEF EscribirMetadata
<1>5. hilo'[h].en = "libre"
  BY <1>1, Alcanza DEF EscribirMetadata, Termina, Sigue, Ocioso
<1>6. CopiaFiel(hilo[h])' /\ ~ Trabaja(h)'
  BY <1>5 DEF CopiaFiel, Trabaja
<1>7. /\ IsInjective(t.md.bloques) /\ ToSet(t.md.bloques) \subseteq bitmap \cap disco
      /\ \A q \in Paths \ {p} : ToSet(t.md.bloques) \cap De(q) = {}
  BY <1>1, <1>3 DEF CopiaFiel
<1>8. BloquesSinCompartir'
  BY <1>1, <1>3, <1>4, <1>7, Alcanza, CambiaUno
<1>9. OcupadosEnDisco'
  BY <1>1, <1>2, <1>3, <1>4, <1>7, Alcanza, CambiaUnoOcupado, NadieMasBorra
<1>10. IlegibleConDuenio'
  BY <1>1, <1>2, <1>3, <1>4, Alcanza DEF IlegibleConDuenio, Trabaja
<1> HIDE DEF t
<1> QED
  BY <1>1, <1>2, <1>6, <1>8, <1>9, <1>10, PasoDeUno

LEMMA BorrarArchivoInv ==
    ASSUME InvMdj, FormaOK', Sano, Sano', NEW h \in Hilos, NEW p \in Paths,
           BorrarArchivo(h, p)
    PROVE  InvMdj'
<1>1. vivo /\ hilo[h].en = "libre"
      /\ \A g \in Hilos \ {h} : ~ Trabaja(g)
  BY SoloUno DEF BorrarArchivo, Puede
<1>2. CASE Caer
  BY <1>1, <1>2, CaerInv DEF Trabaja
<1>3. CASE ~ Caer
  <2>1. /\ mutex' /\ UNCHANGED <<metadata, bitmap, disco, vivo>>
        /\ Sigue(h, [Ocioso EXCEPT !.en = "borra", !.path = p, !.md = metadata[p]])
    BY <1>3 DEF BorrarArchivo
  <2>2. /\ hilo'[h].en = "borra" /\ hilo'[h].path = p /\ hilo'[h].i = 0
        /\ hilo'[h].md = metadata[p]
        /\ \A g \in Hilos \ {h} : hilo'[g] = hilo[g]
    BY <1>1, <2>1, Alcanza DEF Sigue, Ocioso
  <2>3. De(p) \subseteq bitmap
    BY <1>1, NadieMasBorra, Alcanza DEF OcupadosEnDisco
  <2>4. /\ metadata[p].bloques \in Seq(Bloques)
        /\ DOMAIN metadata[p].bloques = 1 .. Len(metadata[p].bloques)
        /\ Len(metadata[p].bloques) \in Nat
    BY <1>1, Alcanza DEF Metadata
  <2>5. CopiaFiel(hilo[h])'
    BY <2>1, <2>2, <2>3, <2>4 DEF CopiaFiel, De, ToSet
  <2> QED
    BY <1>1, <2>1, <2>2, <2>5, SoloHiloInv
<1> QED
  BY <1>2, <1>3

LEMMA BorrarBloqueInv ==
    ASSUME InvMdj, FormaOK', Sano, Sano', NEW h \in Hilos, BorrarBloque(h)
    PROVE  InvMdj'
<1> DEFINE t == hilo[h]
           p == t.path
           s == t.md.bloques
           b == s[t.i + 1]
<1>1. /\ vivo /\ vivo' /\ t.en = "borra" /\ t.i < Len(s) /\ mutex' = mutex
      /\ metadata' = metadata /\ bitmap' = bitmap \ {b} /\ disco' = bitmap'
  BY DEF BorrarBloque
<1>2. mutex /\ \A g \in Hilos \ {h} : hilo'[g] = hilo[g] /\ ~ Trabaja(g)
  BY <1>1 DEF BorrarBloque, Sigue, Trabaja, InvMdj, UnoTrabaja
<1>3. p \in Paths /\ t \in Trabajo /\ CopiaFiel(t) /\ s \in Seq(Bloques) /\ t.i \in Nat
  BY <1>1, Alcanza DEF Trabajo, Metadata
<1>4. /\ hilo'[h].en = "borra" /\ hilo'[h].path = p /\ hilo'[h].md = t.md
      /\ hilo'[h].i = t.i + 1
  BY <1>1, Alcanza DEF BorrarBloque, Sigue, Trabajo
<1>5. \A q \in Paths : De(q)' = De(q)
  BY <1>1 DEF De
<1>6. /\ t.md = metadata[p] /\ DOMAIN s = 1 .. Len(s) /\ Len(s) \in Nat
      /\ \A k \in 1 .. Len(s) : s[k] \in bitmap <=> k > t.i
      /\ t.i + 1 \in 1 .. Len(s)
  BY <1>1, <1>3 DEF CopiaFiel
<1>7. IsInjective(s) /\ \A q \in Paths \ {p} : b \notin De(q)
  BY <1>3, <1>6, Alcanza, <1>1 DEF BloquesSinCompartir, De, ToSet
<1>8. CopiaFiel(hilo[h])'
  <2>1. \A k \in 1 .. Len(s) : s[k] \in bitmap' <=> k > t.i + 1
    BY <1>1, <1>3, <1>6, <1>7 DEF IsInjective
  <2> QED
    BY <1>1, <1>3, <1>4, <1>6, <2>1 DEF CopiaFiel
<1>9. BloquesSinCompartir'
  BY <1>1, <1>5, Alcanza DEF BloquesSinCompartir
<1>10. OcupadosEnDisco'
  <2>1. \A q \in Paths : ~ Borrando(q)' => q # p
    BY <1>4 DEF Borrando
  <2>2. \A q \in Paths \ {p} : De(q) \subseteq bitmap
    BY <1>1, <1>2, NadieMasBorra, Alcanza DEF OcupadosEnDisco
  <2> QED
    BY <1>1, <1>5, <1>7, <2>1, <2>2 DEF OcupadosEnDisco
<1>11. IlegibleConDuenio'
  BY <1>1 DEF IlegibleConDuenio
<1> HIDE DEF t
<1> QED
  BY <1>1, <1>2, <1>8, <1>9, <1>10, <1>11, PasoDeUno

LEMMA QuitarMetadataInv ==
    ASSUME InvMdj, FormaOK', Sano, Sano', NEW h \in Hilos, QuitarMetadata(h)
    PROVE  InvMdj'
<1> DEFINE p == hilo[h].path
<1>1. vivo /\ vivo' /\ hilo[h].en = "borra" /\ UNCHANGED <<bitmap, disco>>
  BY DEF QuitarMetadata
<1>2. \A g \in Hilos \ {h} : hilo'[g] = hilo[g] /\ ~ Trabaja(g)
  BY <1>1, Alcanza DEF QuitarMetadata, Termina, Sigue, Trabaja, InvMdj, UnoTrabaja
<1>3. p \in Paths
  BY <1>1, Alcanza DEF Trabajo
<1>4. metadata'[p] = NoExiste /\ \A q \in Paths \ {p} : metadata'[q] = metadata[q]
  BY <1>1, <1>3, Alcanza DEF QuitarMetadata
<1>5. hilo'[h].en = "libre"
  BY <1>1, Alcanza DEF QuitarMetadata, Termina, Sigue, Ocioso
<1>6. CopiaFiel(hilo[h])' /\ ~ Trabaja(h)'
  BY <1>5 DEF CopiaFiel, Trabaja
<1>7. NoExiste.estado = "noExiste" /\ IsInjective(NoExiste.bloques)
      /\ ToSet(NoExiste.bloques) = {}
  BY SinLista DEF NoExiste
<1>8. BloquesSinCompartir'
  BY <1>1, <1>3, <1>4, <1>7, Alcanza, CambiaUno
<1>9. OcupadosEnDisco'
  BY <1>1, <1>2, <1>3, <1>4, <1>7, Alcanza, CambiaUnoOcupado, NadieMasBorra
<1>10. IlegibleConDuenio'
  BY <1>1, <1>2, <1>3, <1>4, <1>7, Alcanza DEF IlegibleConDuenio, Trabaja
<1> HIDE DEF p
<1> QED
  BY <1>1, <1>2, <1>6, <1>8, <1>9, <1>10, PasoDeUno

LEMMA PararInv ==
    ASSUME InvMdj, FormaOK', Sano, Sano', Parar
    PROVE  InvMdj'
<1>1. /\ vivo /\ ~ vivo' /\ UNCHANGED <<metadata, bitmap, hilo>>
      /\ disco' = disco \/ disco' = bitmap
      /\ \A h \in Hilos : hilo[h].en # "borra"
  BY DEF Parar, Sano
<1>2. \A q \in Paths : De(q)' = De(q)
  BY <1>1 DEF De
<1>3. \A q \in Paths : De(q) \subseteq disco /\ De(q) \subseteq bitmap
  BY <1>1 DEF InvMdj, OcupadosEnDisco, Borrando
<1>4. BloquesSinCompartir' /\ OcupadosEnDisco'
  BY <1>1, <1>2, <1>3 DEF InvMdj, BloquesSinCompartir, OcupadosEnDisco
<1> QED
  BY <1>1, <1>4 DEF InvMdj

LEMMA LevantarInv ==
    ASSUME InvMdj, FormaOK', Sano, Sano', Levantar
    PROVE  InvMdj'
<1>1. /\ ~ vivo /\ vivo' /\ UNCHANGED <<metadata, disco>> /\ bitmap' = disco
      /\ \A h \in Hilos : hilo'[h].en = "libre"
  BY DEF Levantar, Ocioso
<1>2. \A q \in Paths : De(q)' = De(q)
  BY <1>1 DEF De
<1>3. \A q \in Paths : De(q) \subseteq disco
  BY <1>1 DEF InvMdj, OcupadosEnDisco, Borrando
<1>4. BloquesSinCompartir' /\ OcupadosEnDisco'
  BY <1>1, <1>2, <1>3 DEF InvMdj, BloquesSinCompartir, OcupadosEnDisco
<1>5. UnoTrabaja' /\ CopiasFieles' /\ IlegibleConDuenio'
  BY <1>1 DEF UnoTrabaja, Trabaja, CopiasFieles, CopiaFiel, IlegibleConDuenio
<1> QED
  BY <1>1, <1>4, <1>5 DEF InvMdj

LEMMA OperacionInv ==
    ASSUME InvMdj, FormaOK', Sano, Sano', NEW h \in Hilos, Operacion(h)
    PROVE  InvMdj'
<1>1. ASSUME NEW p \in Paths, ObtenerDatos(h, p) PROVE InvMdj'
  <2>1. vivo /\ ~ mutex /\ hilo[h].en = "libre" /\ Caer
    BY <1>1 DEF ObtenerDatos, Puede
  <2>2. \A g \in Hilos : ~ Trabaja(g)
    BY <2>1, SoloUno DEF Trabaja
  <2> QED
    BY <2>1, <2>2, CaerInv
<1> QED
  BY <1>1, CrearArchivoInv, BorrarArchivoInv, GuardarDatosInv, EscribirVaciaInv,
     SoltarDeNuevoInv, EscribirBloqueInv, BuscarBloqueInv, ReservarBloqueInv,
     SinEspacioInv, TerminarGuardarInv, EscribirMetadataInv, BorrarBloqueInv,
     QuitarMetadataInv DEF Operacion

LEMMA InitInv == Init => InvMdj
<1> SUFFICES ASSUME Init PROVE InvMdj
  OBVIOUS
<1>1. \A p \in Paths : metadata[p].bloques = <<>> /\ metadata[p].estado = "noExiste"
  BY DEF Init, NoExiste
<1>2. \A p \in Paths : IsInjective(metadata[p].bloques) /\ De(p) = {}
  BY <1>1, SinLista DEF De
<1>3. BloquesSinCompartir /\ OcupadosEnDisco
  BY <1>2 DEF BloquesSinCompartir, OcupadosEnDisco
<1>4. \A h \in Hilos : hilo[h].en = "libre"
  BY DEF Init, Ocioso
<1>5. UnoTrabaja /\ CopiasFieles /\ IlegibleConDuenio
  BY <1>1, <1>4 DEF UnoTrabaja, Trabaja, CopiasFieles, CopiaFiel, IlegibleConDuenio
<1> QED
  BY <1>3, <1>4, <1>5, InitForma DEF InvMdj

LEMMA PasoInv == InvMdj /\ [Next]_vars => InvMdj'
<1> SUFFICES ASSUME InvMdj, [Next]_vars PROVE InvMdj'
  OBVIOUS
<1>1. FormaOK'
  BY PasoForma DEF InvMdj
<1>2. CASE ~ Sano'
  BY <1>1, <1>2, RotoOK
<1>3. CASE Sano' /\ UNCHANGED vars
  <2>1. UNCHANGED <<metadata, bitmap, disco, mutex, hilo, vivo, danio>>
    BY <1>3 DEF vars
  <2>2. \A q \in Paths : /\ De(q)' = De(q) /\ Borrando(q)' = Borrando(q)
                        /\ Legible(q)' = Legible(q)
    BY <2>1 DEF De, Borrando, Legible
  <2>3. Sano' = Sano /\ UnoTrabaja' = UnoTrabaja
        /\ IlegibleConDuenio' = IlegibleConDuenio
    BY <2>1 DEF Sano, UnoTrabaja, Trabaja, IlegibleConDuenio
  <2>4. (BloquesSinCompartir /\ OcupadosEnDisco)
           => BloquesSinCompartir' /\ OcupadosEnDisco'
    BY <2>1, <2>2, <2>3 DEF BloquesSinCompartir, OcupadosEnDisco
  <2>5. ASSUME NEW h \in Hilos, CopiaFiel(hilo[h]) PROVE CopiaFiel(hilo[h])'
    BY <2>1, <2>5 DEF CopiaFiel, Legible, De
  <2>6. CopiasFieles => CopiasFieles'
    BY <2>5 DEF CopiasFieles
  <2> QED
    BY <1>1, <2>1, <2>3, <2>4, <2>6 DEF InvMdj
<1>4. CASE Sano' /\ Next
  <2>1. Sano
    BY <1>4, SanoAntes DEF InvMdj
  <2> QED
    BY <1>1, <1>4, <2>1, PararInv, LevantarInv, OperacionInv DEF Next
<1> QED
  BY <1>2, <1>3, <1>4

(* The inductive invariant holds of every behaviour of MDJ, whatever its    *)
(* threads interleave and wherever it is stopped: what a thread knows of    *)
(* the file it works on stays true under mutexSistemaDeArchivos.            *)
THEOREM InvarianteDeMdj == Spec => []InvMdj
  BY InitInv, PasoInv, PTL DEF Spec

(* No block is of two files, nor twice of one, as long as no deletion is    *)
(* cut by a stop and no second unlock of crearArchivo frees somebody else's *)
(* mutex.                                                                   *)
THEOREM SinCompartir == Spec => []BloquesSinCompartir
<1>1. InvMdj => BloquesSinCompartir
  BY DEF InvMdj
<1> QED
  BY <1>1, InvarianteDeMdj, PTL

(* Under the same condition, a file that is not being deleted has all its   *)
(* blocks marked, in Bitmap.bin and in memory: what a restart loads never   *)
(* offers a block that is in use.                                           *)
THEOREM Ocupados == Spec => []OcupadosEnDisco
<1>1. InvMdj => OcupadosEnDisco
  BY DEF InvMdj
<1> QED
  BY <1>1, InvarianteDeMdj, PTL

-----------------------------------------------------------------------------
(* What a step may not do.                                                  *)

(* A write that reached the end of its file, started no further than one    *)
(* block past it and found every block it went through has a block for      *)
(* every offset of the file, the one past the end included, when its        *)
(* metadata is written.                                                     *)
THEOREM EscrituraCompleta == Spec => EscrituraCubierta
<1>1. ASSUME FormaOK, NEW h \in Hilos, EscribirMetadata(h),
             hilo[h].hasta = hilo[h].md.tamanio, hilo[h].ini <= hilo[h].total,
             hilo[h].actual = hilo[h].i
      PROVE  Cubierto(hilo[h].md)
  <2> DEFINE t == hilo[h]
             k == t.hasta \div TamanioBloques
  <2>1. t \in Trabajo /\ LazoOK(t) /\ t.en = "metadata"
    BY <1>1 DEF EscribirMetadata, FormaOK, TypeOK
  <2>2. t.i > t.fin /\ t.fin = k /\ t.actual <= Len(t.md.bloques)
    BY <1>1, <2>1 DEF LazoOK
  <2>3. /\ t.i \in Nat /\ t.fin \in Nat /\ t.actual \in Nat
        /\ Len(t.md.bloques) \in Nat
    BY <2>1 DEF Trabajo, Metadata
  <2> HIDE DEF k
  <2>4. Len(t.md.bloques) > k
    BY <1>1, <2>2, <2>3
  <2> QED
    BY <1>1, <2>4 DEF k, Cubierto
<1>2. FormaOK => [\A h \in Hilos :
                    LET t == hilo[h]
                    IN  (/\ EscribirMetadata(h)
                         /\ t.hasta = t.md.tamanio
                         /\ t.ini <= t.total
                         /\ t.actual = t.i) => Cubierto(t.md)]_vars
  BY <1>1
<1> QED
  BY <1>2, InitForma, PasoForma, PTL DEF Spec, EscrituraCubierta

(* One thread and one file change: what they kept, they or the bitmap let   *)
(* go of.                                                                   *)
LEMMA Retiene ==
    ASSUME NEW h \in Hilos, NEW p \in Paths,
           \A g \in Hilos \ {h} : hilo'[g] = hilo[g],
           \A q \in Paths \ {p} : metadata'[q] = metadata[q],
           \A b \in bitmap' : b \in De(p) \cup ToSet(hilo[h].md.bloques) =>
               b \in ToSet(metadata'[p].bloques) \cup ToSet(hilo'[h].md.bloques),
           bitmap' \subseteq bitmap \cup ToSet(hilo'[h].md.bloques)
    PROVE  Perdidos' \subseteq Perdidos
<1>1. \A q \in Paths : De(q)' = ToSet(metadata'[q].bloques)
  BY DEF De
<1>2. \A q \in Paths \ {p} : De(q)' = De(q)
  BY DEF De
<1>3. SUFFICES ASSUME NEW b \in bitmap', b \notin Retenidos'
               PROVE  b \in bitmap /\ b \notin Retenidos
  BY DEF Perdidos
<1>4. /\ \A q \in Paths : b \notin De(q)'
      /\ \A g \in Hilos : b \notin ToSet(hilo'[g].md.bloques)
  <2>1. ASSUME NEW q \in Paths, b \in De(q)' PROVE FALSE
    <3>1. b \in UNION {De(r)' : r \in Paths}
      BY <2>1
    <3> QED
      BY <1>3, <3>1 DEF Retenidos
  <2>2. ASSUME NEW g \in Hilos, b \in ToSet(hilo'[g].md.bloques) PROVE FALSE
    <3>1. b \in UNION {ToSet(hilo'[r].md.bloques) : r \in Hilos}
      BY <2>2
    <3> QED
      BY <1>3, <3>1 DEF Retenidos
  <2> QED
    BY <2>1, <2>2
<1>5. b \in bitmap
  BY <1>3, <1>4
<1>6. b \notin De(p) /\ b \notin ToSet(hilo[h].md.bloques)
  BY <1>1, <1>3, <1>4
<1>7. \A q \in Paths : b \notin De(q)
  BY <1>2, <1>4, <1>6
<1>8. \A g \in Hilos : b \notin ToSet(hilo[g].md.bloques)
  BY <1>4, <1>6
<1>9. /\ b \notin UNION {De(q) : q \in Paths}
      /\ b \notin UNION {ToSet(hilo[g].md.bloques) : g \in Hilos}
  BY <1>7, <1>8
<1> QED
  BY <1>5, <1>9 DEF Retenidos

(* The list that guardarDatos works on has the blocks of the file, and no   *)
(* more when none was reserved.                                             *)
LEMMA ListaDeGuardar ==
    ASSUME NEW t \in Trabajo, NEW s \in Seq(Bloques), t.total = Len(s),
           t.total <= Len(t.md.bloques),
           \A k \in 1 .. t.total : t.md.bloques[k] = s[k]
    PROVE  /\ ToSet(s) \subseteq ToSet(t.md.bloques)
           /\ Len(t.md.bloques) = t.total => ToSet(t.md.bloques) \subseteq ToSet(s)
<1>1. /\ t.md.bloques \in Seq(Bloques) /\ t.total \in Nat
      /\ DOMAIN s = 1 .. Len(s) /\ DOMAIN t.md.bloques = 1 .. Len(t.md.bloques)
      /\ Len(t.md.bloques) \in Nat
  BY DEF Trabajo, Metadata
<1>2. ASSUME NEW b \in ToSet(s) PROVE b \in ToSet(t.md.bloques)
  <2>1. PICK k \in 1 .. t.total : b = s[k]
    BY <1>1 DEF ToSet
  <2>2. k \in DOMAIN t.md.bloques /\ b = t.md.bloques[k]
    BY <1>1, <2>1
  <2> QED
    BY <2>2 DEF ToSet
<1>3. ASSUME Len(t.md.bloques) = t.total, NEW b \in ToSet(t.md.bloques)
      PROVE  b \in ToSet(s)
  BY <1>1, <1>3 DEF ToSet
<1> QED
  BY <1>2, <1>3

(* A thread that was idle, or creating, kept no block. *)
LEMMA NadaEnLaMano ==
    ASSUME FormaOK, NEW h \in Hilos, hilo[h].en \in {"libre", "crea", "sueltaDeNuevo"}
    PROVE  ToSet(hilo[h].md.bloques) = {}
  BY SinLista DEF FormaOK, LazoOK, NoExiste

LEMMA SinBloques ==
    ASSUME FormaOK, NEW p \in Paths, ~ Legible(p)
    PROVE  De(p) = {}
  BY SinLista DEF FormaOK, ArchivosOK, De

LEMMA GuardarSinFugas ==
    ASSUME InvMdj, Sano, vivo, NEW h \in Hilos, TerminarGuardar(h)
    PROVE  Perdidos' \subseteq Perdidos
<1> DEFINE t == hilo[h]
           p == t.path
<1>1. /\ t \in Trabajo /\ p \in Paths /\ metadata[p].bloques \in Seq(Bloques)
      /\ t.en = "guarda" /\ bitmap' = bitmap
  BY Alcanza DEF TerminarGuardar, Trabajo, Metadata
<1>2. /\ t.total = Len(metadata[p].bloques) /\ t.total <= Len(t.md.bloques)
      /\ \A k \in 1 .. t.total : t.md.bloques[k] = metadata[p].bloques[k]
  BY <1>1, Alcanza DEF CopiaFiel, LazoOK
<1>3. /\ De(p) \subseteq ToSet(t.md.bloques)
      /\ Len(t.md.bloques) = t.total => ToSet(t.md.bloques) \subseteq De(p)
  BY <1>1, <1>2, ListaDeGuardar DEF De
<1>4. \A g \in Hilos \ {h} : hilo'[g] = hilo[g]
  BY Alcanza DEF TerminarGuardar, Termina, Sigue
<1>5. CASE Len(t.md.bloques) = t.total /\ UNCHANGED metadata
  <2>1. /\ \A q \in Paths \ {p} : metadata'[q] = metadata[q]
        /\ ToSet(metadata'[p].bloques) = De(p)
    BY <1>5 DEF De
  <2> HIDE DEF t
  <2> QED
    BY <1>1, <1>3, <1>4, <1>5, <2>1, Retiene DEF t
<1>6. CASE /\ Sigue(h, [t EXCEPT !.en = "metadata",
                                !.md.tamanio = Max({@, t.hasta})])
           /\ metadata' = [metadata EXCEPT ![p] = Ilegible]
  <2>1. hilo'[h].md.bloques = t.md.bloques
    BY <1>1, <1>6, Alcanza DEF Sigue, Trabajo, Metadata
  <2>2. \A q \in Paths \ {p} : metadata'[q] = metadata[q]
    BY <1>6, Alcanza
  <2> QED
    BY <1>1, <1>3, <1>4, <2>1, <2>2, Retiene
<1> QED
  BY <1>5, <1>6 DEF TerminarGuardar

LEMMA OperacionSinFugas ==
    ASSUME InvMdj, Sano, vivo, NEW h \in Hilos, Operacion(h), ~ SinEspacio(h)
    PROVE  Perdidos' \subseteq Perdidos
<1>1. FormaOK
  BY DEF InvMdj
<1>2. CASE UNCHANGED <<metadata, bitmap, hilo>>
  BY <1>2 DEF Perdidos, Retenidos, De
<1>3. ASSUME NEW p \in Paths, CrearArchivo(h, p) PROVE Perdidos' \subseteq Perdidos
  <2>1. De(p) = {} /\ ToSet(hilo[h].md.bloques) = {}
    BY <1>1, <1>3, NadaEnLaMano, SinBloques DEF CrearArchivo, Puede, Legible
  <2>2. /\ bitmap' = bitmap /\ \A g \in Hilos \ {h} : hilo'[g] = hilo[g]
        /\ \A q \in Paths \ {p} : metadata'[q] = metadata[q]
    BY <1>3, Alcanza DEF CrearArchivo, Sigue
  <2> QED
    BY <2>1, <2>2, Retiene
<1>4. ASSUME NEW n \in Tamanios, EscribirVacia(h, n) PROVE Perdidos' \subseteq Perdidos
  <2> DEFINE p == hilo[h].path
  <2>1. p \in Paths /\ metadata[p] = Ilegible /\ hilo[h].en = "crea"
    BY <1>4, Alcanza DEF EscribirVacia, CopiaFiel, Trabajo
  <2>2. De(p) = {} /\ ToSet(hilo[h].md.bloques) = {}
    BY <1>1, <2>1, NadaEnLaMano, MetadataVacia, SinLista DEF De
  <2>3. PICK t : Sigue(h, t)
    BY <1>4 DEF EscribirVacia
  <2>4. /\ bitmap' = bitmap /\ \A g \in Hilos \ {h} : hilo'[g] = hilo[g]
        /\ \A q \in Paths \ {p} : metadata'[q] = metadata[q]
    BY <1>4, <2>1, <2>3, Alcanza DEF EscribirVacia, Sigue
  <2> HIDE DEF p
  <2> QED
    BY <2>1, <2>2, <2>4, Retiene
<1>5. ASSUME hilo[h].en \in {"libre", "sueltaDeNuevo"}, NEW t, Sigue(h, t),
             UNCHANGED <<metadata, bitmap>>
      PROVE  Perdidos' \subseteq Perdidos
  <2>1. ToSet(hilo[h].md.bloques) = {} /\ \A g \in Hilos \ {h} : hilo'[g] = hilo[g]
    BY <1>1, <1>5, Alcanza, NadaEnLaMano DEF Sigue
  <2>2. hilo[h].path \in Paths
    BY Alcanza DEF Trabajo
  <2> QED
    BY <1>5, <2>1, <2>2, Retiene DEF De
<1>6. ASSUME hilo[h].en = "guarda" \/ hilo[h].en = "borra", NEW t, Sigue(h, t),
             t.md = hilo[h].md, metadata' = metadata, bitmap' \subseteq bitmap
      PROVE  Perdidos' \subseteq Perdidos
  <2>1. hilo'[h] = t /\ \A g \in Hilos \ {h} : hilo'[g] = hilo[g]
    BY <1>6, Alcanza DEF Sigue
  <2>2. hilo[h].path \in Paths
    BY Alcanza DEF Trabajo
  <2> QED
    BY <1>6, <2>1, <2>2, Retiene DEF De
<1>7. ASSUME ReservarBloque(h) PROVE Perdidos' \subseteq Perdidos
  <2> DEFINE s == hilo[h].md.bloques
             b == hilo[h].bloque
  <2>1. hilo[h].path \in Paths /\ s \in Seq(Bloques) /\ b \in Bloques
        /\ IsInjective(s) /\ b \notin ToSet(s) /\ UNCHANGED metadata
        /\ bitmap' = bitmap \cup {b}
    BY <1>7, Alcanza DEF ReservarBloque, CopiaFiel, Trabajo, Metadata
  <2>2. hilo'[h].md.bloques = Append(s, b) /\ \A g \in Hilos \ {h} : hilo'[g] = hilo[g]
    BY <1>7, Alcanza DEF ReservarBloque, Sigue, Trabajo, Metadata
  <2>3. ToSet(hilo'[h].md.bloques) = ToSet(s) \cup {b}
    BY <2>1, <2>2, AgregaUno
  <2> QED
    BY <2>1, <2>2, <2>3, Retiene DEF De
<1>8. ASSUME EscribirMetadata(h) PROVE Perdidos' \subseteq Perdidos
  <2> DEFINE p == hilo[h].path
  <2>1. p \in Paths /\ metadata[p] = Ilegible /\ bitmap' = bitmap
    BY <1>8, Alcanza DEF EscribirMetadata, CopiaFiel, Trabajo
  <2>2. De(p) = {}
    BY <2>1, MetadataVacia, SinLista DEF De
  <2>3. /\ \A g \in Hilos \ {h} : hilo'[g] = hilo[g]
        /\ \A q \in Paths \ {p} : metadata'[q] = metadata[q]
        /\ metadata'[p] = hilo[h].md
    BY <1>8, <2>1, Alcanza DEF EscribirMetadata, Termina, Sigue
  <2> HIDE DEF p
  <2> QED
    BY <2>1, <2>2, <2>3, Retiene
<1>9. ASSUME QuitarMetadata(h) PROVE Perdidos' \subseteq Perdidos
  <2> DEFINE p == hilo[h].path
             s == hilo[h].md.bloques
  <2>1. /\ p \in Paths /\ hilo[h].md = metadata[p] /\ s \in Seq(Bloques)
        /\ hilo[h].i \in Nat /\ hilo[h].i >= Len(s) /\ bitmap' = bitmap
        /\ \A k \in DOMAIN s : s[k] \in bitmap <=> k > hilo[h].i
    BY <1>9, Alcanza DEF QuitarMetadata, CopiaFiel, Trabajo, Metadata
  <2>2. \A k \in DOMAIN s : s[k] \notin bitmap
    BY <2>1
  <2>3. \A b \in bitmap' : b \notin De(p) /\ b \notin ToSet(s)
    BY <2>1, <2>2 DEF De, ToSet
  <2>4. /\ \A g \in Hilos \ {h} : hilo'[g] = hilo[g]
        /\ \A q \in Paths \ {p} : metadata'[q] = metadata[q]
    BY <1>9, <2>1, Alcanza DEF QuitarMetadata, Termina, Sigue
  <2> HIDE DEF p
  <2> QED
    BY <2>1, <2>3, <2>4, Retiene
<1>10. ASSUME NEW p \in Paths, BorrarArchivo(h, p) \/ ObtenerDatos(h, p)
       PROVE  Perdidos' \subseteq Perdidos
  BY <1>2, <1>5, <1>10 DEF BorrarArchivo, ObtenerDatos, Puede, Caer
<1>11. ASSUME NEW p \in Paths, NEW r \in Rangos, GuardarDatos(h, p, r[1], r[2])
       PROVE  Perdidos' \subseteq Perdidos
  BY <1>2, <1>5, <1>11 DEF GuardarDatos, Puede, Caer
<1>12. ASSUME EscribirBloque(h) \/ BuscarBloque(h) \/ BorrarBloque(h)
       PROVE  Perdidos' \subseteq Perdidos
  <2>1. PICK t : /\ Sigue(h, t) /\ t.md = hilo[h].md
                 /\ metadata' = metadata /\ bitmap' \subseteq bitmap
                 /\ hilo[h].en = "guarda" \/ hilo[h].en = "borra"
    BY <1>12, Alcanza DEF EscribirBloque, BuscarBloque, BorrarBloque, Recorre, Trabajo
  <2> QED
    BY <1>6, <2>1
<1>13. ASSUME SoltarDeNuevo(h) PROVE Perdidos' \subseteq Perdidos
  BY <1>5, <1>13 DEF SoltarDeNuevo, Termina
<1> QED
  BY <1>3, <1>4, <1>7, <1>8, <1>9, <1>10, <1>11, <1>12, <1>13, GuardarSinFugas
  DEF Operacion

(* As long as the file system is sound, a block is lost only by a stop or   *)
(* by an operation that ran out of blocks: whatever else a thread does with *)
(* a block, a file, an operation or the bitmap of free ones has it next.    *)
THEOREM NoPierdeBloques == Spec => SinFugas
<1>1. InvMdj /\ [Next]_vars =>
        [\/ Perdidos' \subseteq Perdidos \/ ~ vivo \/ ~ Sano'
         \/ \E h \in Hilos : SinEspacio(h)]_vars
  <2> SUFFICES ASSUME InvMdj, Next, vivo, Sano', \A h \in Hilos : ~ SinEspacio(h)
               PROVE  Perdidos' \subseteq Perdidos
    OBVIOUS
  <2>1. Sano
    BY SanoAntes DEF InvMdj
  <2>2. CASE Parar
    BY <2>2 DEF Parar, Perdidos, Retenidos, De
  <2> QED
    BY <2>1, <2>2, OperacionSinFugas DEF Next, Levantar
<1> QED
  BY <1>1, InvarianteDeMdj, PTL DEF Spec, SinFugas

=============================================================================
