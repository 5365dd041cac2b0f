----------------------------- MODULE Transferencia -----------------------------
(***************************************************************************)
(* How a file travels from MDJ to FM9: the loop of the DAM                 *)
(* (src/DAM/src/ConexionesEntrantes.c, operacion_abrir_path) that asks MDJ *)
(* for one fragment after another and hands each to FM9, while the         *)
(* operator of MDJ deletes files or writes on them.  MDJ locks its files   *)
(* for each request, not for the transfer.                                 *)
(***************************************************************************)
EXTENDS FunesMemory9

CONSTANTS
    Contenido,        \* [Paths -> Seq(Bytes)], the files of the mount point
    Ilegibles,        \* the paths whose blocks have no ".bin" file
    Agregado,         \* what the operator writes at the end of a file
    TransferSize,     \* TRANSFER_SIZE of the DAM
    TamanioBloques,
    NoExiste,         \* in place of the contents of a path
    MaxConsola        \* bound: operations of the operator of MDJ

ASSUME TransferenciaAssumption ==
    /\ Pids # {} /\ Paths # {}
    /\ Contenido \in [Paths -> Seq(Bytes)]
    /\ Ilegibles \subseteq Paths /\ Agregado \in Seq(Bytes)
    /\ TransferSize \in Nat \ {0} /\ TamanioBloques \in Nat \ {0}
    /\ MaxConsola \in Nat

SinAsignar == -2              \* direccion_de_memoria when nobody wrote it

VARIABLES
    archivos,     \* the contents MDJ would give of every path
    consola,      \* operations of the operator so far
    dam,          \* the local variables of operacion_abrir_path
    dtb,          \* what SAFA lets each process do
    abiertos,     \* history: the openings the DAM reported as successful
    manchados     \* history: the processes whose file changed on the way

vars == <<memoriaFM9, caidos, archivos, consola, dam, dtb, abiertos, manchados>>

Resultado == [size : Nat, datos : Seq(Bytes), total : Nat]

(* datosObtenidos when resultado is not DatosObtenidos *)
Fallo == [size |-> 0, datos |-> <<>>, total |-> 0]

DamLibre == [en |-> "libre", pid |-> CHOOSE d \in Pids : TRUE,
             path |-> CHOOSE p \in Paths : TRUE, parte |-> Fallo,
             offset |-> 0, total |-> 0, bytes |-> TransferSize,
             primera |-> TRUE, direccion |-> SinAsignar, original |-> <<>>]

TypeOK ==
    /\ FM9TypeOK
    /\ archivos \in [Paths -> Seq(Bytes) \cup {NoExiste}]
    /\ consola \in 0 .. MaxConsola
    /\ dam \in [en : {"libre", "pide", "mide", "carga", "ultima", "informa", "falla"},
                pid : Pids, path : Paths, parte : Resultado,
                offset : Nat, total : Nat, bytes : Int, primera : BOOLEAN,
                direccion : Int, original : Seq(Bytes)]
    /\ dtb \in [Pids -> {"listo", "bloqueado", "terminado"}]
    /\ abiertos \subseteq [pid : Pids, path : Paths, direccion : Int,
                           lineas : Seq(Seq(Bytes)), entero : BOOLEAN]
    /\ manchados \subseteq Pids

Init ==
    /\ FM9Init
    /\ caidos = {}
    /\ archivos = Contenido
    /\ consola = 0
    /\ dam = DamLibre
    /\ dtb = [d \in Pids |-> "listo"]
    /\ abiertos = {} /\ manchados = {}

-----------------------------------------------------------------------------
(* obtenerDatos of MDJ                                                      *)

Menor(a, b) == IF a < b THEN a ELSE b

(* the offsets of the file it reads, block by block: bytesALeer is the rest *)
(* of a block, except in the last one                                       *)
Posiciones(o, s) ==
    LET ini   == o \div TamanioBloques
        fin   == (o + s) \div TamanioBloques
        desde == o % TamanioBloques
        cuantos(leidos, i) ==
            IF i = fin /\ i # 0 THEN s - leidos
            ELSE Menor(TamanioBloques - desde, s)
        tras[i \in ini - 1 .. fin] ==
            IF i < ini THEN <<>>
            ELSE LET r   == tras[i - 1]
                     pos == (Len(r) + o) % TamanioBloques
                 IN  r \o [k \in 1 .. cuantos(Len(r), i) |->
                              i * TamanioBloques + pos + k - 1]
    IN  tras[fin]

(* A file of n bytes has n / tamanioBloques + 1 blocks.  What lies past its *)
(* end is not of the file, and may start with a '\0'.                       *)
Obtenidos(p, o, s) ==
    LET c   == archivos[p]
        pos == Posiciones(o, s)
    IN  IF \/ c = NoExiste \/ p \in Ilegibles \/ s <= 0
        THEN {Fallo}
        ELSE IF (o + s) \div TamanioBloques > Len(c) \div TamanioBloques
        THEN {Fallo}
        ELSE LET leido == [k \in DOMAIN pos |->
                              IF pos[k] < Len(c) THEN c[pos[k] + 1] ELSE Basura]
             IN  {[size |-> s, datos |-> l, total |-> 0] :
                     l \in {leido,
                            SubSeq(leido, 1,
                                   Cardinality({k \in DOMAIN pos : pos[k] < Len(c)}))}}

-----------------------------------------------------------------------------
(* The operator of MDJ deletes a file, or writes after its end *)
Tocado(p) ==
    manchados' = IF dam.en # "libre" /\ dam.path = p
                 THEN manchados \cup {dam.pid} ELSE manchados

Consola(p) ==
    /\ consola < MaxConsola
    /\ archivos[p] # NoExiste
    /\ \E c \in {NoExiste, archivos[p] \o Agregado} :
          archivos' = [archivos EXCEPT ![p] = c]
    /\ consola' = consola + 1
    /\ Tocado(p)
    /\ UNCHANGED <<memoriaFM9, caidos, dam, dtb, abiertos>>

-----------------------------------------------------------------------------
(* captura_sigpipe, or any other end of the DAM *)
CaeDAM ==
    /\ caidos' = caidos \cup {"DAM"}
    /\ dam' = DamLibre

(* The answer to SAFA lets the process run or ends it.  Without SAFA it is  *)
(* lost, and writing it may end the DAM.                                    *)
Informar(ok) ==
    \/ /\ "SAFA" \notin caidos
       /\ dtb' = [dtb EXCEPT ![dam.pid] = IF ok THEN "listo" ELSE "terminado"]
       /\ dam' = DamLibre /\ UNCHANGED caidos
    \/ /\ "SAFA" \in caidos
       /\ \/ CaeDAM
          \/ dam' = DamLibre /\ UNCHANGED caidos
       /\ UNCHANGED dtb

(* operacion_abrir_path and validar_archivo, for a process that has not got *)
(* the file open                                                            *)
AbrirPath(d, p) ==
    /\ "DAM" \notin caidos
    /\ dam.en = "libre" /\ dtb[d] = "listo"
    /\ \A a \in abiertos : ~ (a.pid = d /\ a.path = p)
    /\ dtb' = [dtb EXCEPT ![d] = "bloqueado"]
    /\ dam' = IF archivos[p] = NoExiste
              THEN [DamLibre EXCEPT !.en = "falla", !.pid = d, !.path = p]
              ELSE [DamLibre EXCEPT !.en = "pide", !.pid = d, !.path = p,
                                    !.original = archivos[p]]
    /\ UNCHANGED <<memoriaFM9, caidos, archivos, consola, abiertos, manchados>>

(* pedir_datos_a_Mdj, up to the end of obtenerDatos *)
PedirDatos ==
    /\ dam.en = "pide"
    /\ \E r \in Obtenidos(dam.path, dam.offset, dam.bytes) :
          dam' = [dam EXCEPT !.en = "mide", !.parte = r]
    /\ UNCHANGED <<memoriaFM9, caidos, archivos, consola, dtb, abiertos, manchados>>

(* Mutant of Longitud: the total is sent also when the data is not *)
LongitudSiempre ==
    IF archivos[dam.path] = NoExiste THEN 0 ELSE Len(archivos[dam.path])

(* obtenerLongigutDelArchivo, under another lock; a failure sends no total  *)
Longitud ==
    IF dam.parte.size = 0 THEN 0
    ELSE IF archivos[dam.path] = NoExiste THEN 0 ELSE Len(archivos[dam.path])

(* the rest of pedir_datos_a_Mdj, and the test of the loop *)
Medir ==
    /\ dam.en = "mide"
    /\ LET total  == Longitud
           offset == dam.offset + dam.parte.size
       IN  dam' = [dam EXCEPT
                     !.parte.total = total, !.offset = offset,
                     !.total = IF dam.primera THEN total ELSE @,
                     !.primera = FALSE,
                     !.en = IF offset < total THEN "carga" ELSE "ultima"]
    /\ UNCHANGED <<memoriaFM9, caidos, archivos, consola, dtb, abiertos, manchados>>

(* Mutant of BytesAPedir: always the transfer size *)
BytesAPedirTodos == TransferSize

(* calcular_bytes_a_pedir *)
BytesAPedir == Menor(dam.total - dam.offset, TransferSize)

(* cargar_datos_en_Fm9, and the answer as the DAM reads it: once FM9 is     *)
(* down, recv() gives nothing and leaves the variable as it was             *)
Cargar(dir) ==
    \/ CargarParteEnMemoria(dam.pid, dam.path, dam.parte.datos, dam.parte.total, dir)
    \/ /\ "FM9" \in caidos
       /\ dir \in {-1, SinAsignar}
       /\ UNCHANGED <<memoriaFM9, caidos>>

Direcciones == {-1, 0, SinAsignar, Len(tablas[dam.pid])}

(* one turn of the loop: FM9 takes the fragment, or has no room for it *)
CargarFragmento ==
    /\ dam.en = "carga"
    /\ \E dir \in Direcciones :
          /\ Cargar(dir)
          /\ dam' = IF dir = -1 THEN [dam EXCEPT !.en = "falla"]
                    ELSE [dam EXCEPT !.en = "pide", !.direccion = dir,
                                     !.bytes = BytesAPedir]
    /\ UNCHANGED <<dtb, archivos, consola, abiertos, manchados>>

(* after the loop: the last fragment, if there is one *)
CargarUltimo ==
    /\ dam.en = "ultima"
    /\ \/ /\ dam.parte.size = 0
          /\ dam' = [dam EXCEPT !.en = "informa"]
          /\ UNCHANGED <<memoriaFM9, caidos>>
       \/ /\ dam.parte.size > 0
          /\ \E dir \in Direcciones :
                /\ Cargar(dir)
                /\ dam' = IF dir = -1 THEN [dam EXCEPT !.en = "falla"]
                          ELSE [dam EXCEPT !.en = "informa", !.direccion = dir]
    /\ UNCHANGED <<dtb, archivos, consola, abiertos, manchados>>

(* captura_sigpipe: FM9 was down before the fragment was sent *)
CargarSinFM9 ==
    /\ "FM9" \in caidos
    /\ dam.en = "carga" \/ (dam.en = "ultima" /\ dam.parte.size > 0)
    /\ CaeDAM
    /\ UNCHANGED <<memoriaFM9, dtb, archivos, consola, abiertos, manchados>>

(* informar_operacion_abrir_exitosa, whatever direccion_de_memoria holds *)
InformarExito ==
    /\ dam.en = "informa"
    /\ Informar(TRUE)
    /\ abiertos' = abiertos \cup
          {[pid |-> dam.pid, path |-> dam.path, direccion |-> dam.direccion,
            lineas |-> Lineas(dam.original),
            entero |-> /\ dam.pid \notin manchados
                       /\ dam.path \notin Ilegibles
                       /\ Len(dam.original) >= TransferSize] :
              x \in {"SAFA"} \ caidos}
    /\ UNCHANGED <<memoriaFM9, archivos, consola, manchados>>

(* informar_operacion_abrir_erronea *)
InformarFallo ==
    /\ dam.en = "falla"
    /\ Informar(FALSE)
    /\ UNCHANGED <<memoriaFM9, archivos, consola, abiertos, manchados>>

PasoDAM == \/ PedirDatos \/ Medir \/ CargarFragmento \/ CargarUltimo
           \/ CargarSinFM9 \/ InformarExito \/ InformarFallo

Next == \/ PasoDAM
        \/ \E p \in Paths : Consola(p)
        \/ \E d \in Pids, p \in Paths : AbrirPath(d, p)

Spec == Init /\ [][Next]_vars

FairSpec == Spec /\ WF_vars(PasoDAM)
-----------------------------------------------------------------------------
Ocupa(s) == s.base .. s.base + s.limite - 1

(* The places of the tables of all the processes *)
Lugares(t) == UNION {{d} \X DOMAIN t[d] : d \in Pids}

Segmentos == Lugares(tablas)

Tabla(x) == tablas[x[1]][x[2]]

(* While some hole is left, the holes and the segments of all the processes *)
(* share the memory out: no line is in two of them and none is lost, in     *)
(* whatever order fragments, failures and processes come.  (The segment     *)
(* that takes the last line exactly is BaseDondeSeCopio's.)                 *)
MemoriaRepartida ==
    huecos # <<>> =>
        /\ \A x, y \in Segmentos :
              x # y => Ocupa(Tabla(x)) \cap Ocupa(Tabla(y)) = {}
        /\ UNION {Ocupa(Tabla(x)) : x \in Segmentos}
             = (0 .. CantidadLineas - 1) \ Ocupa(HuecoElegido)

(* What is free is always the end of the memory, in one hole, or nothing:   *)
(* the loads take from the front of the only hole there is.                 *)
UnHueco ==
    huecos # <<>> =>
        /\ Len(huecos) = 1
        /\ HuecoElegido.base \in Nat /\ HuecoElegido.limite \in Nat \ {0}
        /\ HuecoElegido.base + HuecoElegido.limite = CantidadLineas

(* The same under paged segmentation: every frame is free or in one page of *)
(* one segment, as long as FM9 runs; and the first of them is never handed  *)
(* out, because taking the last free frame ends FM9.                        *)
Paginados == Lugares(paginadas)

SusMarcos(x) == ToSet(paginadas[x[1]][x[2]].marcos)

MarcosRepartidos ==
    "FM9" \notin caidos =>
        /\ marcosLibres = Marcos \ UNION {SusMarcos(x) : x \in Paginados}
        /\ \A x, y \in Paginados : x # y => SusMarcos(x) \cap SusMarcos(y) = {}
        /\ \A x \in Paginados : IsInjective(paginadas[x[1]][x[2]].marcos)
        /\ Marcos # {} => 0 \in marcosLibres

(* What can be read of a file reported as open: its lines, in order, and    *)
(* nothing after the last one, when the CPU asks for them; in the pages of  *)
(* its segment, which are as many as it needs, when nobody can ask          *)
SeLee(a) ==
    \/ /\ modo = "SEG"
       /\ \A pc \in DOMAIN a.lineas :
             LineaParaElCPU(a.pid, a.path, pc) = a.lineas[pc]
       /\ LineaParaElCPU(a.pid, a.path, Len(a.lineas) + 1) = Nulo
    \/ /\ modo = "SPA"
       /\ \E s \in ToSet(paginadas[a.pid]) :
             /\ s.archivo = a.path
             /\ Len(s.marcos) = Paginas(Len(a.lineas))
             /\ IsPrefix(a.lineas, LineasDelSegmento(s))

(* A file that nobody touched on its way, of at least one transfer size, is *)
(* in FM9 what it was in MDJ when the DAM validated it, and stays so        *)
(* whatever is loaded later, as long as FM9 runs.                           *)
LoAbiertoSeLee ==
    huecos # <<>> /\ "FM9" \notin caidos =>
        \A a \in abiertos : a.entero => SeLee(a)

(* The address SAFA receives for such a file is its entry in the segment    *)
(* table of the process, unless FM9 fell on the way.                        *)
Entrada(d, k) == IF modo = "SEG" THEN tablas[d][k] ELSE paginadas[d][k]

DireccionDelSegmento ==
    "FM9" \notin caidos =>
        \A a \in abiertos :
            a.entero =>
                /\ a.direccion + 1 \in DOMAIN tablas[a.pid] \cup DOMAIN paginadas[a.pid]
                /\ Entrada(a.pid, a.direccion + 1).archivo = a.path

(* FM9 holds of the file in transfer exactly what the DAM counts as         *)
(* delivered, a prefix of the file; and nothing of a process that is free   *)
(* to open another one, whose fragments it would be mixed with.             *)
Entregado == IF dam.en \in {"carga", "ultima"}
             THEN dam.offset - dam.parte.size ELSE dam.offset

FragmentosEnOrden ==
    "FM9" \notin caidos =>
        /\ modo = "SEG" =>
             \A d \in Pids \ manchados : dtb[d] = "listo" => cargandose[d] = <<>>
        /\ (/\ dam.en \in {"pide", "mide", "carga", "ultima"}
            /\ paginadas[dam.pid] = <<>>
            /\ dam.pid \notin manchados /\ dam.path \notin Ilegibles
            /\ Len(dam.original) >= TransferSize)
           => cargandose[dam.pid] = SubSeq(dam.original, 1, Entregado)

(* Whoever waits for a file gets an answer, and a moment comes when nobody  *)
(* waits, although the file may grow, disappear or be unreadable half way   *)
(* and FM9 may fall; unless the DAM or SAFA end, or the functions of FM9    *)
(* are the empty ones.                                                      *)
AperturaRespondida ==
    (modo # "TPI" /\ \E d \in Pids : dtb[d] = "bloqueado")
        ~> (\/ \A d \in Pids : dtb[d] # "bloqueado"
            \/ caidos \cap {"DAM", "SAFA"} # {})

(* segmentacion_pura.c:351, "actualiza con la base y segmento que resulta   *)
(* de agregar en la memoria fisica": the entry of a segment says where its  *)
(* lines were copied.                                                       *)
BaseDondeSeCopio == \A a \in abiertos : a.entero => SeLee(a)
=============================================================================
