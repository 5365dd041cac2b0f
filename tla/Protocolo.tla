------------------------------- MODULE Protocolo -------------------------------
(***************************************************************************)
(* The messages of src/COM/lqvg/protocolo.c, byte by byte: what each       *)
(* prot_enviar_... writes on the connection and what its prot_recibir_...  *)
(* makes of it.  Strings are sequences of bytes without their '\0'.        *)
(***************************************************************************)
EXTENDS Integers, Sequences, SequencesExt

SinFin == 256        \* what lies after a string nobody terminated

Entero(v) == [k \in 1 .. 4 |-> (v \div 256 ^ (k - 1)) % 256]
Largo(v)  == Entero(v) \o [k \in 1 .. 4 |-> IF v < 0 THEN 255 ELSE 0]

(* paquete[k] = v on a char *: one byte, and three that malloc left there   *)
UnByte(v, g) == <<v % 256, g, g, g>>

(* the value of four bytes, with its sign *)
ValorEntero(b) ==
    b[1] + 256 * b[2] + 65536 * b[3]
      + 16777216 * (IF b[4] > 127 THEN b[4] - 256 ELSE b[4])

-----------------------------------------------------------------------------
(* One row per message: the fields as they are written, the fields as they  *)
(* are read, and how many bytes the size given to enviar() adds to those    *)
(* written.  "tam..." announces the length of the string that follows it,   *)
(* which goes with its '\0' ("nul") or without ("txt"); a received string   *)
(* is left as it came ("cad") or gets a '\0' ("cadFin").                    *)

Fila(envia, recibe, ajuste) ==
    [envia |-> envia, recibe |-> recibe, ajuste |-> ajuste]

(* A send, or a memcpy, per field: with MDJ, with FM9, and between SAFA,    *)
(* the CPUs and the DAM                                                     *)
ConMDJ ==
    [obtenerDatos    |-> Fila(<<"tamNul", "nul", "long", "long">>,
                              <<"tam", "cad", "long", "long">>, 0),
     datosObtenidos  |-> Fila(<<"int", "tamLargo", "txt", "long">>,
                              <<"int", "tamLargo", "datos", "long">>, 0),
     path            |-> Fila(<<"tamNul", "nul">>, <<"tam", "cad">>, 0),
     guardarDatos    |-> Fila(<<"tamNul", "nul", "long", "long", "tam", "txt">>,
                              <<"tam", "cad", "int", "int", "tam", "cad">>, 0)]

ConFM9 ==
    [abrirPath    |-> Fila(<<"tamNul", "nul", "int">>, <<"tam", "cad", "int">>, 0),
     cargarEnMemoria |-> Fila(<<"int", "tamNul", "nul", "tam", "txt", "int", "int", "int">>,
                              <<"int", "tam", "cad", "tam", "cadFin", "int", "int", "int">>, 0),
     lineaPedida  |-> Fila(<<"tamNul", "nul">>, <<"tam", "cad">>, 0),
     pedirLinea   |-> Fila(<<"tam", "txt", "int", "int">>,
                           <<"tam", "cadFin", "int", "int">>, 0),
     datosEnMemoria  |-> Fila(<<"tamNul", "nul", "int", "int">>,
                              <<"tam", "cad", "int", "int">>, 0),
     crearArchivo |-> Fila(<<"tamNul", "nul", "int">>, <<"tam", "cad", "int">>, 0)]

ConSafa ==
    [cabecera     |-> Fila(<<"int", "int">>, <<"int", "int">>, 0),
     crearLineas  |-> Fila(<<"tamNul", "nul", "int", "int">>,
                           <<"tam", "cad", "int", "int">>, 0),
     dtb          |-> Fila(<<"int", "int", "int", "tamNul", "nul", "lista", "int">>,
                           <<"int", "int", "int", "tam", "cad", "lista", "int">>, 0),
     idGDT        |-> Fila(<<"int">>, <<"int">>, 0)]

CadaCampo == ConMDJ @@ ConFM9 @@ ConSafa

PorBytes ==      \* a packet where every int is assigned to one char
    [flush           |-> Fila(<<"tamByte", "txt", "byte", "byte">>,
                              <<"tam", "cadFin", "int", "int">>, 0),
     devolverDatos   |-> Fila(<<"tamByte", "txt", "byte", "byte">>,
                              <<"tam", "cadFin", "int", "int">>, 0),
     finFlush        |-> Fila(<<"tamByte", "txt", "byte">>, <<"tam", "cadFin", "int">>, 0),
     obtenerArchivo  |-> Fila(<<"tamByte", "txt", "byte", "byte", "byte">>,
                              <<"tam", "cadFin", "int", "int", "int">>, 4),
     asignarDatos    |-> Fila(<<"byte", "byte", "tamByte", "txt", "tamByte", "txt", "tamByte", "txt">>,
                              <<"int", "int", "tam", "cadFin", "tam", "cadFin", "tam", "cadFin">>, -12),
     retenerRecurso  |-> Fila(<<"tamByte", "txt", "byte">>, <<"tam", "cadFin", "int">>, -4),
     liberarRecurso  |-> Fila(<<"tamByte", "txt", "byte">>, <<"tam", "cadFin", "int">>, -4),
     liberarArchivo  |-> Fila(<<"tamByte", "txt", "byte">>, <<"tam", "cadFin", "int">>, -4),
     eliminarArchivo |-> Fila(<<"tamByte", "txt", "byte">>, <<"tam", "cadFin", "int">>, -4)]

Mensaje == CadaCampo @@ PorBytes

-----------------------------------------------------------------------------
(* prot_enviar_SAFA_CPU_DTB announces every file and, removing from the     *)
(* list it goes through, sends the first half, rounded up.                  *)
Lista(l) ==
    Entero(Len(l)) \o
      FlattenSeq([k \in 1 .. (Len(l) + 1) \div 2 |->
                     Entero(Len(l[k]) + 1) \o Append(l[k], 0)])

(* The bytes of message m with the values v; g is what malloc left. *)
Enviado(m, v, g) ==
    LET campo(st, k) ==
            LET x == Head(st.faltan)
                b == CASE k = "int"      -> Entero(x)
                       [] k = "long"     -> Largo(x)
                       [] k = "byte"     -> UnByte(x, g)
                       [] k = "tam"      -> Entero(Len(x))
                       [] k = "tamNul"   -> Entero(Len(x) + 1)
                       [] k = "tamLargo" -> Largo(Len(x))
                       [] k = "tamByte"  -> UnByte(Len(x), g)
                       [] k = "nul"      -> Append(x, 0)
                       [] k = "txt"      -> x
                       [] k = "lista"    -> Lista(x)
            IN  [bytes  |-> st.bytes \o b,
                 faltan |-> IF k \in {"tam", "tamNul", "tamLargo", "tamByte"}
                            THEN st.faltan ELSE Tail(st.faltan)]
        w == FoldLeft(campo, [bytes |-> <<>>, faltan |-> v], Mensaje[m].envia).bytes
        n == Mensaje[m].ajuste
    IN  IF n <= 0 THEN SubSeq(w, 1, Len(w) + n) ELSE w \o [k \in 1 .. n |-> g]

-----------------------------------------------------------------------------
(* The string in the bytes b, up to its '\0' *)
Texto(b, terminada) ==
    LET ceros == {k \in DOMAIN b : b[k] = 0}
    IN  IF ceros # {} THEN SubSeq(b, 1, (CHOOSE k \in ceros : \A j \in ceros : k <= j) - 1)
        ELSE IF terminada THEN b ELSE Append(b, SinFin)

(* Mutant of Pedido: offset and size are read as ints *)
PedidoCorto(st, k) ==
    CASE k \in {"int", "tam", "lista", "long"} -> 4
      [] k = "tamLargo"               -> 8
      [] k \in {"cad", "cadFin", "datos"} -> st.tam

(* how many bytes recibir() is asked for *)
Pedido(st, k) ==
    CASE k \in {"int", "tam", "lista"}    -> 4
      [] k \in {"long", "tamLargo"}       -> 8
      [] k \in {"cad", "cadFin", "datos"} -> st.tam

(* One field.  recv() waits when the connection is empty, and otherwise     *)
(* takes what there is: with less than a field the rest of its bytes keep   *)
(* what they had.                                                           *)
LeerCampo(st, k) ==
    LET n == Pedido(st, k)
        b == SubSeq(st.resto, 1, n)
    IN  IF st.estado # "entero" THEN st
        ELSE IF n < 0 THEN [st EXCEPT !.estado = "indefinido"]
        ELSE IF n > 0 /\ st.resto = <<>> THEN [st EXCEPT !.estado = "espera"]
        ELSE IF n > Len(st.resto)
        THEN [st EXCEPT !.resto = <<>>, !.estado = "indefinido"]
        ELSE [st EXCEPT
                !.resto  = SubSeq(@, n + 1, Len(@)),
                !.tam    = IF k \in {"tam", "tamLargo"} THEN ValorEntero(b) ELSE @,
                !.cuenta = IF k = "lista" THEN ValorEntero(b) ELSE @,
                !.campos =
                    CASE k \in {"tam", "tamLargo", "lista"} -> @
                      [] k \in {"int", "long"} -> Append(@, ValorEntero(b))
                      [] k = "datos"  -> Append(@, b)
                      [] k = "cad"    -> Append(@, Texto(b, FALSE))
                      [] k = "cadFin" -> Append(@, Texto(b, TRUE))]

(* a field, or the list of files of a DTB *)
Leer(st, k) ==
    LET uno == LeerCampo(st, k)
        elemento(s, i) == LeerCampo(LeerCampo(s, "tam"), "cad")
    IN  IF k = "lista"
        THEN FoldLeft(elemento, uno, [i \in 1 .. uno.cuenta |-> i])
        ELSE uno

(* What the receiver of m gets when w is on the connection. *)
Recibido(m, w) ==
    LET st == FoldLeft(Leer, [resto |-> w, tam |-> 0, cuenta |-> 0, campos |-> <<>>,
                              estado |-> "entero"], Mensaje[m].recibe)
    IN  [campos |-> st.campos, resto |-> st.resto, estado |-> st.estado]

-----------------------------------------------------------------------------
(* Values to try: one of each length, and numbers that do not fit a byte *)
Numeros == <<1, 300, -1>>
Textos  == << <<>>, <<47>>, <<47, 115>> >>
Listas  == << <<>>, << <<47>> >>, << <<47>>, <<115>> >> >>
Sueltos == {<<>>, Entero(0) \o Entero(12)}       \* and the next header

ConValor(m) == SelectSeq(Mensaje[m].envia,
                         LAMBDA k : k \notin {"tam", "tamNul", "tamLargo", "tamByte"})

Muestras(m) ==
    {[i \in DOMAIN ConValor(m) |->
         CASE ConValor(m)[i] \in {"int", "long", "byte"} -> Numeros[e[i]]
           [] ConValor(m)[i] \in {"nul", "txt"}          -> Textos[e[i]]
           [] ConValor(m)[i] = "lista"                   -> Listas[e[i]]] :
        e \in [DOMAIN ConValor(m) -> 1 .. 3]}

(* the fields a receiver should see *)
Esperado(m, v) ==
    IF m = "dtb" THEN SubSeq(v, 1, 4) \o v[5] \o <<v[6]>> ELSE v

Entera(m, v, g, s) ==
    Recibido(m, Enviado(m, v, g) \o s)
      = [campos |-> Esperado(m, v), resto |-> s, estado |-> "entero"]

(* Every message sent field by field arrives as it was sent, whatever its   *)
(* values, and leaves the connection at the start of the next one: all but  *)
(* guardarDatos, and a DTB with two files.                                  *)
MensajesEnteros ==
    \A m \in DOMAIN CadaCampo \ {"guardarDatos"} : \A v \in Muestras(m), s \in Sueltos :
        (m = "dtb" => Len(v[5]) <= 1) => Entera(m, v, 0, s)

(* What the models of the scheduler and of the DAM assume of the others.  A *)
(* packet of bytes arrives whole at most when malloc gave zeros and every   *)
(* value fits a byte; a short one never does, its receiver is left waiting  *)
(* or with bytes of the next message in place of its own; and guardarDatos  *)
(* and a DTB of two files leave the connection out of step, or wait.        *)
Cabe(x) == x \in 0 .. 255

MensajesRotos ==
    /\ \A m \in DOMAIN PorBytes : \A v \in Muestras(m), s \in Sueltos, g \in {0, 9} :
          LET r == Recibido(m, Enviado(m, v, g) \o s)
          IN  /\ Mensaje[m].ajuste = 0 /\ r.campos = v /\ r.estado = "entero"
                    => g = 0 /\ \A i \in DOMAIN v :
                                   ConValor(m)[i] = "byte" => Cabe(v[i])
              /\ Mensaje[m].ajuste < 0 /\ r.estado = "entero" => r.resto # s
              /\ Mensaje[m].ajuste < 0 /\ s = <<>> => r.estado # "entero"
              /\ Mensaje[m].ajuste > 0 /\ r.estado = "entero" => r.resto # s
    /\ \A v \in Muestras("guardarDatos"), s \in Sueltos :
          v[4] # <<>> => ~ Entera("guardarDatos", v, 0, s)
    /\ \A v \in Muestras("dtb"), s \in Sueltos :
          Len(v[5]) = 2 => ~ Entera("dtb", v, 0, s)
=============================================================================
