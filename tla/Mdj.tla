---------------------------------- MODULE Mdj ----------------------------------
(***************************************************************************)
(* MDJ, the file system process (src/FS/FuncionesDelFileSystem.c): the     *)
(* metadata file of every path, the bitmap of blocks, in memory and in     *)
(* Bitmap.bin, and the two threads that work on them, the console and the  *)
(* one that serves a request of the DAM, under mutexSistemaDeArchivos.     *)
(* The process may be killed, or told to exit, between two of its writes;  *)
(* what was written stays.                                                 *)
(***************************************************************************)
EXTENDS Naturals, Sequences, FiniteSets, FiniteSetsExt, SequencesExt

CONSTANTS
    Paths,            \* the paths of files
    CantidadBloques, TamanioBloques,
    Tamanios,         \* the sizes CrearArchivo is asked for
    Rangos,           \* the <<offset, size>> of GuardarDatos and ObtenerDatos
    ConArchivoBin,    \* blocks whose "<n>.bin" came with the mount point
    MaxParadas        \* bound: how many times it is stopped

Bloques == 0 .. CantidadBloques - 1
Fases   == {"libre", "crea", "guarda", "reserva", "metadata", "borra",
            "sueltaDeNuevo"}

ASSUME MdjAssumption ==
    /\ Paths # {}
    /\ CantidadBloques \in Nat \ {0} /\ TamanioBloques \in Nat \ {0}
    /\ Tamanios \subseteq Nat
    /\ Rangos \subseteq Nat \X (Nat \ {0})
    /\ ConArchivoBin \subseteq Bloques
    /\ MaxParadas \in Nat

VARIABLES
    metadata,     \* [Paths -> Metadata], the files under Archivos/
    bitmap,       \* the occupied blocks, in memory
    disco,        \* the occupied blocks, in Bitmap.bin
    mutex,        \* mutexSistemaDeArchivos is locked
    hilo,         \* what each thread is doing
    vivo, paradas,
    danio         \* history: the two events that break the file system

vars == <<metadata, bitmap, disco, mutex, hilo, vivo, paradas, danio>>

Hilos == {"consola", "dma"}

Metadata == [estado  : {"noExiste", "ilegible", "legible"},
             tamanio : Nat,
             bloques : Seq(Bloques)]

NoExiste == [estado |-> "noExiste", tamanio |-> 0, bloques |-> <<>>]
Ilegible == [NoExiste EXCEPT !.estado = "ilegible"]   \* truncated by fopen "w"
Vacia    == [NoExiste EXCEPT !.estado = "legible"]    \* TAMANIO=0 BLOQUES=[]

(* the local variables of the operation in progress *)
Trabajo == [en      : Fases,
            path    : Paths,
            md      : Metadata,        \* metadata
            ini     : Nat, i : Nat, fin : Nat,
            actual  : Nat, total : Nat,
            hasta   : Nat,             \* offset + size
            bloque  : Bloques]         \* numeroDeBloqueLibre

TypeOK ==
    /\ metadata \in [Paths -> Metadata]
    /\ bitmap \subseteq Bloques /\ disco \subseteq Bloques
    /\ mutex \in BOOLEAN /\ vivo \in BOOLEAN
    /\ hilo \in [Hilos -> Trabajo]
    /\ paradas \in 0 .. MaxParadas
    /\ danio \subseteq {"borradoInterrumpido", "mutexAjeno"}

Ocioso == [en |-> "libre", path |-> CHOOSE p \in Paths : TRUE, md |-> NoExiste,
           ini |-> 0, i |-> 0, fin |-> 0, actual |-> 0, total |-> 0,
           hasta |-> 0, bloque |-> 0]

(* levantarBitMap on a new mount point: Bitmap.bin is filled with the       *)
(* character '0', whose bits 2 and 3 are set, and the memory with zeros.    *)
CerosAscii == {b \in Bloques : b % 8 \in {2, 3}}

Init ==
    /\ metadata = [p \in Paths |-> NoExiste]
    /\ bitmap = {} /\ disco = CerosAscii
    /\ mutex = FALSE
    /\ hilo = [h \in Hilos |-> Ocioso]
    /\ vivo = TRUE /\ paradas = 0 /\ danio = {}

-----------------------------------------------------------------------------
(* The thread is idle and gets mutexSistemaDeArchivos. *)
Puede(h) == /\ vivo
            /\ hilo[h].en = "libre"
            /\ ~ mutex

Sigue(h, t) == hilo' = [hilo EXCEPT ![h] = t]

(* the operation returns and unlocks *)
Termina(h) == /\ Sigue(h, Ocioso)
              /\ mutex' = FALSE

(* list_size(metadata->bloques) of an unreadable metadata: NULL *)
Caer == /\ vivo' = FALSE
        /\ UNCHANGED <<metadata, bitmap, disco, mutex, hilo, paradas, danio>>

(* Mutant of FinDeEscritura: the block of the last byte *)
FinDeEscrituraExacto(o, s) == (o + s - 1) \div TamanioBloques

(* the last of the block files guardarDatos goes through *)
FinDeEscritura(o, s) == (o + s) \div TamanioBloques

(* guardarDatos starts: the metadata is read once, here *)
Guarda(p, md, o, s) ==
    LET ini == o \div TamanioBloques
    IN  [en |-> "guarda", path |-> p, md |-> md,
         ini |-> ini, i |-> ini, actual |-> ini, fin |-> FinDeEscritura(o, s),
         total |-> Len(md.bloques), hasta |-> o + s, bloque |-> 0]

-----------------------------------------------------------------------------
(* crearArchivo.  fopen "w" leaves an empty file until fclose writes it.    *)
(* An existing path is answered ArchivoYaExiste, with no change.            *)
CrearArchivo(h, p) ==
    /\ Puede(h)
    /\ metadata[p].estado = "noExiste"
    /\ mutex' = TRUE
    /\ metadata' = [metadata EXCEPT ![p] = Ilegible]
    /\ Sigue(h, [Ocioso EXCEPT !.en = "crea", !.path = p])
    /\ UNCHANGED <<bitmap, disco, vivo, paradas, danio>>

(* The empty metadata is written.  With no bytes to write,                  *)
(* resultadoDeGuardarDatos is never assigned: the function may fall to the  *)
(* end and unlock a second time.                                            *)
EscribirVacia(h, n) ==
    /\ vivo
    /\ hilo[h].en = "crea"
    /\ LET p == hilo[h].path
       IN  /\ metadata' = [metadata EXCEPT ![p] = Vacia]
           /\ \/ /\ n > 0
                 /\ Sigue(h, Guarda(p, Vacia, 0, n))
                 /\ UNCHANGED mutex
              \/ /\ n = 0
                 /\ \E en \in {"libre", "sueltaDeNuevo"} :
                       Sigue(h, [Ocioso EXCEPT !.en = en])
                 /\ mutex' = FALSE
    /\ UNCHANGED <<bitmap, disco, vivo, paradas, danio>>

SoltarDeNuevo(h) ==
    /\ vivo
    /\ hilo[h].en = "sueltaDeNuevo"
    /\ Termina(h)
    /\ danio' = IF mutex THEN danio \cup {"mutexAjeno"} ELSE danio
    /\ UNCHANGED <<metadata, bitmap, disco, vivo, paradas>>

-----------------------------------------------------------------------------
(* guardarDatos.  A path that does not exist is ArchivoNoEncontrado.        *)
GuardarDatos(h, p, o, s) ==
    /\ Puede(h)
    /\ \/ /\ metadata[p].estado = "legible"
          /\ Sigue(h, Guarda(p, metadata[p], o, s))
          /\ mutex' = TRUE
          /\ UNCHANGED <<metadata, bitmap, disco, vivo, paradas, danio>>
       \/ /\ metadata[p].estado = "ilegible"
          /\ Caer

Recorre(h) == vivo /\ hilo[h].en = "guarda" /\ hilo[h].i <= hilo[h].fin

(* A block of the file is looked for as "<n>.bin", which guardarDatos never *)
(* creates; when it is not there the data is skipped and bloqueActual stays *)
(* behind.  list_get past the end is NULL, that is, block 0.                *)
EscribirBloque(h) ==
    /\ Recorre(h)
    /\ hilo[h].actual < hilo[h].total
    /\ LET t == hilo[h]
           n == IF t.i < Len(t.md.bloques) THEN t.md.bloques[t.i + 1] ELSE 0
       IN  Sigue(h, [t EXCEPT !.i = @ + 1,
                              !.actual = IF n \in ConArchivoBin THEN @ + 1 ELSE @])
    /\ UNCHANGED <<metadata, bitmap, disco, mutex, vivo, paradas, danio>>

(* Mutant of Libres: i <= cantidadBloques *)
LibresUnoDeMas == (0 .. CantidadBloques) \ bitmap

Libres == Bloques \ bitmap

(* obtenerBloqueLibreDelBitMap: the lowest free block *)
BuscarBloque(h) ==
    /\ Recorre(h)
    /\ hilo[h].actual >= hilo[h].total
    /\ Libres # {}
    /\ Sigue(h, [hilo[h] EXCEPT !.en = "reserva", !.bloque = Min(Libres)])
    /\ UNCHANGED <<metadata, bitmap, disco, mutex, vivo, paradas, danio>>

(* Mutant of ReservarBloque: Bitmap.bin is written before the bit is set *)
ReservarBloqueTarde(h) ==
    /\ vivo
    /\ hilo[h].en = "reserva"
    /\ LET t == hilo[h]
       IN  /\ bitmap' = bitmap \cup {t.bloque}
           /\ Sigue(h, [t EXCEPT !.en = "guarda", !.i = @ + 1,
                                 !.actual = @ + 1,
                                 !.md.bloques = Append(@, t.bloque)])
    /\ disco' = bitmap
    /\ UNCHANGED <<metadata, mutex, vivo, paradas, danio>>

(* Mutant of ReservarBloque: the bit is not set *)
ReservarBloqueSinMarcar(h) ==
    /\ vivo
    /\ hilo[h].en = "reserva"
    /\ Sigue(h, [hilo[h] EXCEPT !.en = "guarda", !.i = @ + 1, !.actual = @ + 1,
                                !.md.bloques = Append(@, hilo[h].bloque)])
    /\ UNCHANGED <<metadata, bitmap, disco, mutex, vivo, paradas, danio>>

(* The bit is set, the bitmap written and the file of the block created and *)
(* written under the name "<n>".                                            *)
ReservarBloque(h) ==
    /\ vivo
    /\ hilo[h].en = "reserva"
    /\ LET t == hilo[h]
       IN  /\ bitmap' = bitmap \cup {t.bloque}
           /\ Sigue(h, [t EXCEPT !.en = "guarda", !.i = @ + 1,
                                 !.actual = @ + 1,
                                 !.md.bloques = Append(@, t.bloque)])
    /\ disco' = bitmap'
    /\ UNCHANGED <<metadata, mutex, vivo, paradas, danio>>

(* NoHayMasBloquesLibres: the blocks already reserved stay reserved, and a  *)
(* file being created stays, empty.                                         *)
SinEspacio(h) ==
    /\ Recorre(h)
    /\ hilo[h].actual >= hilo[h].total
    /\ Libres = {}
    /\ Termina(h)
    /\ UNCHANGED <<metadata, bitmap, disco, vivo, paradas, danio>>

(* actualizarMetaData, when the file grew: fopen "w" and then the contents *)
TerminarGuardar(h) ==
    /\ vivo
    /\ hilo[h].en = "guarda" /\ hilo[h].i > hilo[h].fin
    /\ LET t == hilo[h]
       IN  \/ /\ t.hasta <= t.md.tamanio /\ Len(t.md.bloques) = t.total
              /\ Termina(h)
              /\ UNCHANGED metadata
           \/ /\ t.hasta > t.md.tamanio \/ Len(t.md.bloques) > t.total
              /\ Sigue(h, [t EXCEPT !.en = "metadata",
                                    !.md.tamanio = Max({@, t.hasta})])
              /\ metadata' = [metadata EXCEPT ![t.path] = Ilegible]
              /\ UNCHANGED mutex
    /\ UNCHANGED <<bitmap, disco, vivo, paradas, danio>>

EscribirMetadata(h) ==
    /\ vivo
    /\ hilo[h].en = "metadata"
    /\ metadata' = [metadata EXCEPT ![hilo[h].path] = hilo[h].md]
    /\ Termina(h)
    /\ UNCHANGED <<bitmap, disco, vivo, paradas, danio>>

-----------------------------------------------------------------------------
(* borrarArchivo: the blocks are freed one by one, then the metadata is     *)
(* removed.  A path that does not exist is ArchivoNoBorrado.                *)
BorrarArchivo(h, p) ==
    /\ Puede(h)
    /\ \/ /\ metadata[p].estado = "legible"
          /\ Sigue(h, [Ocioso EXCEPT !.en = "borra", !.path = p,
                                     !.md = metadata[p]])
          /\ mutex' = TRUE
          /\ UNCHANGED <<metadata, bitmap, disco, vivo, paradas, danio>>
       \/ /\ metadata[p].estado = "ilegible"
          /\ Caer

BorrarBloque(h) ==
    /\ vivo
    /\ hilo[h].en = "borra" /\ hilo[h].i < Len(hilo[h].md.bloques)
    /\ bitmap' = bitmap \ {hilo[h].md.bloques[hilo[h].i + 1]}
    /\ disco' = bitmap'
    /\ Sigue(h, [hilo[h] EXCEPT !.i = @ + 1])
    /\ UNCHANGED <<metadata, mutex, vivo, paradas, danio>>

(* Mutant of QuitarMetadata: the loop stops one block short *)
QuitarMetadataAntes(h) ==
    /\ vivo
    /\ hilo[h].en = "borra" /\ hilo[h].i + 1 >= Len(hilo[h].md.bloques)
    /\ metadata' = [metadata EXCEPT ![hilo[h].path] = NoExiste]
    /\ Termina(h)
    /\ UNCHANGED <<bitmap, disco, vivo, paradas, danio>>

QuitarMetadata(h) ==
    /\ vivo
    /\ hilo[h].en = "borra" /\ hilo[h].i >= Len(hilo[h].md.bloques)
    /\ metadata' = [metadata EXCEPT ![hilo[h].path] = NoExiste]
    /\ Termina(h)
    /\ UNCHANGED <<bitmap, disco, vivo, paradas, danio>>

-----------------------------------------------------------------------------
(* obtenerDatos changes nothing, or dies; validarArchivo only looks for the *)
(* metadata file.                                                           *)
ObtenerDatos(h, p) ==
    /\ Puede(h)
    /\ metadata[p].estado = "ilegible"
    /\ Caer

ResultadoDeObtener(p, o, s) ==
    LET bloques == metadata[p].bloques
        leidos  == o \div TamanioBloques .. (o + s) \div TamanioBloques
    IN  IF /\ metadata[p].estado = "legible"
           /\ \A k \in leidos : /\ k < Len(bloques)
                                /\ bloques[k + 1] \in ConArchivoBin
        THEN "DatosObtenidos" ELSE "ArchivoNoEncontrado"

-----------------------------------------------------------------------------
(* The process is killed; or the operator types exit, and liberarRecursos   *)
(* writes the bitmap whatever the DAM's thread is doing.                    *)
Parar ==
    /\ vivo /\ paradas < MaxParadas
    /\ \/ UNCHANGED disco
       \/ hilo["consola"].en = "libre" /\ disco' = bitmap
    /\ danio' = IF \E h \in Hilos : hilo[h].en = "borra"
                THEN danio \cup {"borradoInterrumpido"} ELSE danio
    /\ vivo' = FALSE
    /\ paradas' = paradas + 1
    /\ UNCHANGED <<metadata, bitmap, mutex, hilo>>

(* levantarBitMap on a mount point already used *)
Levantar ==
    /\ ~ vivo
    /\ vivo' = TRUE
    /\ bitmap' = disco
    /\ mutex' = FALSE
    /\ hilo' = [h \in Hilos |-> Ocioso]
    /\ UNCHANGED <<metadata, disco, paradas, danio>>

Operacion(h) ==
    \/ \E p \in Paths : CrearArchivo(h, p) \/ BorrarArchivo(h, p) \/ ObtenerDatos(h, p)
    \/ \E p \in Paths, r \in Rangos : GuardarDatos(h, p, r[1], r[2])
    \/ \E n \in Tamanios : EscribirVacia(h, n)
    \/ SoltarDeNuevo(h) \/ EscribirBloque(h) \/ BuscarBloque(h)
    \/ ReservarBloque(h) \/ SinEspacio(h) \/ TerminarGuardar(h)
    \/ EscribirMetadata(h) \/ BorrarBloque(h) \/ QuitarMetadata(h)

Next == Parar \/ Levantar \/ \E h \in Hilos : Operacion(h)

Spec == Init /\ [][Next]_vars
-----------------------------------------------------------------------------
Legible(p)  == metadata[p].estado = "legible"
De(p)       == ToSet(metadata[p].bloques)
Borrando(p) == \E h \in Hilos : hilo[h].en = "borra" /\ hilo[h].path = p

(* The two ways to break what follows: a stop in the middle of a deletion,  *)
(* and the second unlock of crearArchivo when another thread has the lock.  *)
Sano == danio = {}

(* No block belongs to two files, nor twice to one, whichever way writing,  *)
(* deleting and being stopped while writing interleave: the free block is   *)
(* searched in memory, taken later, and reaches its file's metadata much    *)
(* later.                                                                   *)
BloquesSinCompartir ==
    Sano => \A p \in Paths :
               /\ IsInjective(metadata[p].bloques)
               /\ \A q \in Paths : p # q => De(p) \cap De(q) = {}

(* Every block of a file is marked in the bitmap that a restart would load  *)
(* and in the one in memory, except while the file is being deleted: a stop *)
(* between the write of the bitmap and that of the metadata loses blocks    *)
(* but never frees one that is in use.                                      *)
OcupadosEnDisco ==
    Sano => \A p \in Paths : ~ Borrando(p) =>
               De(p) \subseteq disco /\ (vivo => De(p) \subseteq bitmap)

(* A block is lost (marked, and of no file nor operation) only by a stop or *)
(* by an operation that ran out of blocks: no other return path forgets one *)
Retenidos == (UNION {De(p) : p \in Paths})
               \cup (UNION {ToSet(hilo[h].md.bloques) : h \in Hilos})
Perdidos  == bitmap \ Retenidos

SinFugas == [][\/ Perdidos' \subseteq Perdidos
               \/ ~ vivo
               \/ ~ Sano'
               \/ \E h \in Hilos : SinEspacio(h)]_vars

(* A write that reaches the end of its file, starts no further than one     *)
(* block past it and finds every block it goes through leaves a block for   *)
(* every offset up to the size, the one past the end included, which        *)
(* obtenerDatos reads too.                                                  *)
Cubierto(md) == Len(md.bloques) > md.tamanio \div TamanioBloques

EscrituraCubierta ==
    [][\A h \in Hilos :
         LET t == hilo[h]
         IN  (/\ EscribirMetadata(h)
              /\ t.hasta = t.md.tamanio
              /\ t.ini <= t.total
              /\ t.actual = t.i) => Cubierto(t.md)]_vars

(* FuncionesDelFileSystem.c:1374-1376, "Ante un pedido de datos File System *)
(* devolvera del path enviado por parametro, la cantidad de bytes definidos *)
(* por el Size a partir del offset solicitado": the whole of a file that    *)
(* nobody is working on can be read.                                        *)
LoGuardadoSeObtiene ==
    \A p \in Paths :
        (/\ Legible(p) /\ metadata[p].tamanio > 0
         /\ \A h \in Hilos : hilo[h].en # "libre" => hilo[h].path # p)
        => ResultadoDeObtener(p, 0, metadata[p].tamanio) = "DatosObtenidos"
-----------------------------------------------------------------------------
(* The inductive invariant, in parts: BloquesSinCompartir says nothing of   *)
(* the blocks that only a local variable names, nor OcupadosEnDisco of the  *)
(* ones a deletion has not come to.                                         *)

Trabaja(h) == hilo[h].en \notin {"libre", "sueltaDeNuevo"}
Crece(h)   == hilo[h].en \in {"guarda", "reserva", "metadata"}

(* Only a readable metadata has blocks, and bits reach Bitmap.bin first.    *)
ArchivosOK ==
    /\ \A p \in Paths : ~ Legible(p) => metadata[p].bloques = <<>>
    /\ vivo => bitmap \subseteq disco

(* the loop of guardarDatos: block i of the file at block i of the list,    *)
(* when it started inside the file and found every block                    *)
LazoOK(t) ==
    /\ t.en \in {"libre", "crea", "sueltaDeNuevo"} => t.md = NoExiste
    /\ t.en \in {"guarda", "reserva", "metadata"} =>
         /\ t.md.estado = "legible"
         /\ t.total <= Len(t.md.bloques)
         /\ t.fin = t.hasta \div TamanioBloques
         /\ t.ini <= t.total => t.actual <= Len(t.md.bloques)
    /\ t.en = "metadata" => t.i > t.fin
    /\ t.en = "borra" => t.md.estado = "legible"

(* One thread works at a time, and has the mutex. *)
UnoTrabaja ==
    \A h \in Hilos : Trabaja(h) => mutex /\ \A g \in Hilos : Trabaja(g) => g = h

(* What the thread that works knows of its file is still true: the list it  *)
(* took from the metadata, which has not changed since, grows by blocks     *)
(* that are marked and of nobody; or loses its marks one by one, in order.  *)
CopiaFiel(t) ==
    /\ t.en = "crea" => metadata[t.path] = Ilegible
    /\ t.en \in {"guarda", "reserva"} =>
         /\ Legible(t.path)
         /\ t.total = Len(metadata[t.path].bloques)
         /\ \A k \in 1 .. t.total : t.md.bloques[k] = metadata[t.path].bloques[k]
    /\ t.en = "reserva" => t.bloque \notin bitmap
    /\ t.en = "metadata" => metadata[t.path] = Ilegible
    /\ t.en \in {"guarda", "reserva", "metadata"} =>
         /\ IsInjective(t.md.bloques)
         /\ ToSet(t.md.bloques) \subseteq bitmap \cap disco
         /\ \A q \in Paths \ {t.path} : ToSet(t.md.bloques) \cap De(q) = {}
    /\ t.en = "borra" =>
         /\ t.md = metadata[t.path]
         /\ t.i <= Len(t.md.bloques)
         /\ \A k \in DOMAIN t.md.bloques : t.md.bloques[k] \in bitmap <=> k > t.i

CopiasFieles == \A h \in Hilos : CopiaFiel(hilo[h])

(* Until the bitmap in memory is written for the first time, a file is      *)
(* unreadable only while somebody works on it.                              *)
IlegibleConDuenio ==
    bitmap # disco =>
        \A p \in Paths : metadata[p].estado = "ilegible" =>
            \E h \in Hilos : hilo[h].path = p /\ hilo[h].en \in {"crea", "metadata"}

(* The first parts hold whatever happens; the rest, as long as nothing has  *)
(* broken the file system.                                                  *)
FormaOK == TypeOK /\ ArchivosOK /\ \A h \in Hilos : LazoOK(hilo[h])

InvMdj ==
    /\ FormaOK
    /\ BloquesSinCompartir /\ OcupadosEnDisco
    /\ Sano /\ ~ vivo => \A h \in Hilos : hilo[h].en # "borra"
    /\ Sano /\ vivo => UnoTrabaja /\ CopiasFieles /\ IlegibleConDuenio
-----------------------------------------------------------------------------
(* The blocks of the file system, as ReservaDeBloques sees them.  A file    *)
(* that is being written has the blocks it had when the write started, and  *)
(* one that is being deleted those not freed yet; a stop ends the operation *)
(* at once.                                                                 *)
Viejos(t) == {t.md.bloques[k] : k \in 1 .. t.total}
Nuevos(t) == {t.md.bloques[k] : k \in t.total + 1 .. Len(t.md.bloques)}

BloquesDeArchivo(p) ==
    IF vivo /\ Borrando(p)
    THEN De(p) \cap bitmap
    ELSE De(p) \cup {b \in Bloques : \E h \in Hilos :
                        vivo /\ Crece(h) /\ hilo[h].path = p /\ b \in Viejos(hilo[h])}

BloquesEnTramite ==
    {b \in Bloques : \E h \in Hilos : vivo /\ Crece(h) /\ b \in Nuevos(hilo[h])}

EnUso    == BloquesEnTramite \cup (UNION {BloquesDeArchivo(p) : p \in Paths})
Marcados == IF vivo THEN bitmap ELSE disco

Reserva == INSTANCE ReservaDeBloques WITH
    archivo  <- [p \in Paths |-> BloquesDeArchivo(p)],
    tramite  <- BloquesEnTramite,
    perdidos <- Marcados \ EnUso,
    paradas  <- paradas,
    roto     <- ~ Sano

(* MDJ keeps that promise, in every interleaving of its threads and with a  *)
(* stop between any two writes, as long as it is Sano.                      *)
ReservaDeBloquesCumplida == Reserva!Spec
=============================================================================
