----------------------------- MODULE SistemaProofs -----------------------------
(***************************************************************************)
(* Proofs about Sistema for every set of CPUs, of processes and of files,  *)
(* every mode of FM9 and any number of deaths: whom FM9 takes for the DAM, *)
(* who has greeted whom, and that what TransferenciaProofs says of the     *)
(* memory of FM9 is true of the five programs together.                    *)
(***************************************************************************)
EXTENDS Sistema, TransferenciaProofs

-----------------------------------------------------------------------------
(* Queues *)

(* A client joins the end of a queue. *)
LEMMA Encolado ==
    ASSUME NEW S, NEW s \in Seq(S), NEW x \in S
    PROVE  /\ Append(s, x) \in Seq(S)
           /\ ToSet(Append(s, x)) = ToSet(s) \cup {x}
           /\ IsInjective(s) /\ x \notin ToSet(s) => IsInjective(Append(s, x))
<1>1. /\ Append(s, x) \in Seq(S) /\ Len(Append(s, x)) = Len(s) + 1
      /\ \A i \in 1 .. Len(s) : Append(s, x)[i] = s[i]
      /\ Append(s, x)[Len(s) + 1] = x
  OBVIOUS
<1>2. /\ Len(s) \in Nat /\ DOMAIN s = 1 .. Len(s)
      /\ DOMAIN Append(s, x) = 1 .. Len(s) + 1
  BY <1>1
<1>3. ToSet(Append(s, x)) = ToSet(s) \cup {x}
  BY <1>1, <1>2 DEF ToSet
<1>4. IsInjective(s) /\ x \notin ToSet(s) => IsInjective(Append(s, x))
  BY <1>1, <1>2 DEF ToSet, IsInjective
<1> QED
  BY <1>1, <1>3, <1>4

(* The first client leaves it. *)
LEMMA Desencolado ==
    ASSUME NEW S, NEW s \in Seq(S), s # <<>>
    PROVE  /\ Tail(s) \in Seq(S) /\ Head(s) \in S /\ Head(s) \in ToSet(s)
           /\ ToSet(Tail(s)) \subseteq ToSet(s)
           /\ IsInjective(s) => IsInjective(Tail(s)) /\ Head(s) \notin ToSet(Tail(s))
<1>1. /\ Tail(s) \in Seq(S) /\ Head(s) = s[1] /\ Len(s) \in Nat \ {0}
      /\ Len(Tail(s)) = Len(s) - 1
      /\ \A i \in 1 .. Len(s) - 1 : Tail(s)[i] = s[i + 1]
  OBVIOUS
<1>2. DOMAIN s = 1 .. Len(s) /\ DOMAIN Tail(s) = 1 .. Len(s) - 1
  BY <1>1
<1>3. /\ Head(s) \in S /\ Head(s) \in ToSet(s)
      /\ ToSet(Tail(s)) \subseteq ToSet(s)
  BY <1>1, <1>2 DEF ToSet
<1>4. IsInjective(s) => IsInjective(Tail(s)) /\ Head(s) \notin ToSet(Tail(s))
  BY <1>1, <1>2 DEF ToSet, IsInjective
<1> QED
  BY <1>1, <1>3, <1>4

(* The queues of nobody and of the DAM alone *)
LEMMA ColasCortas ==
    /\ ToSet(<<>>) = {} /\ IsInjective(<<>>)
    /\ \A x : ToSet(<<x>>) = {x} /\ Head(<<x>>) = x /\ Tail(<<x>>) = <<>>
    /\ \A x : Append(<<>>, x) = <<x>> /\ <<x>> # <<>>
  BY DEF ToSet, IsInjective

-----------------------------------------------------------------------------
(* The steps of the clients *)

(* What the number of its step says of the DAM *)
LEMMA PasoDelDAM ==
    ASSUME paso["DAM"] \in 1 .. 7
    PROVE  /\ Listo("DAM") <=> paso["DAM"] = 7
           /\ En("DAM")[1] = "conecta" =>
                 \/ paso["DAM"] = 1 /\ En("DAM")[2] = "MDJ"
                 \/ paso["DAM"] = 3 /\ En("DAM")[2] = "FM9"
                 \/ paso["DAM"] = 5 /\ En("DAM")[2] = "SAFA"
           /\ En("DAM")[1] = "saluda" =>
                 \/ paso["DAM"] = 2 /\ En("DAM")[2] = "MDJ"
                 \/ paso["DAM"] = 4 /\ En("DAM")[2] = "FM9"
                 \/ paso["DAM"] = 6 /\ En("DAM")[2] = "SAFA"
           /\ En("DAM") = <<"saluda", "SAFA">> <=> paso["DAM"] = 6
<1>1. CASE paso["DAM"] = 1  BY <1>1 DEF En, Listo, PasosDelDAM
<1>2. CASE paso["DAM"] = 2  BY <1>2 DEF En, Listo, PasosDelDAM
<1>3. CASE paso["DAM"] = 3  BY <1>3 DEF En, Listo, PasosDelDAM
<1>4. CASE paso["DAM"] = 4  BY <1>4 DEF En, Listo, PasosDelDAM
<1>5. CASE paso["DAM"] = 5  BY <1>5 DEF En, Listo, PasosDelDAM
<1>6. CASE paso["DAM"] = 6  BY <1>6 DEF En, Listo, PasosDelDAM
<1>7. CASE paso["DAM"] = 7  BY <1>7 DEF En, Listo, PasosDelDAM
<1> QED
  BY <1>1, <1>2, <1>3, <1>4, <1>5, <1>6, <1>7

(* And of a CPU *)
LEMMA PasoDeLaCPU ==
    ASSUME NEW c \in Cpus, paso[c] \in 1 .. 6
    PROVE  /\ Listo(c) <=> paso[c] = 6
           /\ En(c)[1] = "conecta" =>
                 \/ paso[c] = 1 /\ En(c)[2] = "SAFA"
                 \/ paso[c] = 2 /\ En(c)[2] = "DAM"
                 \/ paso[c] = 3 /\ En(c)[2] = "FM9"
           /\ En(c)[1] = "saluda" =>
                 \/ paso[c] = 4 /\ En(c)[2] = "SAFA"
                 \/ paso[c] = 5 /\ En(c)[2] = "DAM"
           /\ En(c) = <<"saluda", "SAFA">> <=> paso[c] = 4
           /\ En(c) = <<"saluda", "DAM">> <=> paso[c] = 5
<1>0. c # "DAM"
  BY SistemaAssumption
<1>1. CASE paso[c] = 1  BY <1>0, <1>1 DEF En, Listo, PasosDeLaCPU
<1>2. CASE paso[c] = 2  BY <1>0, <1>2 DEF En, Listo, PasosDeLaCPU
<1>3. CASE paso[c] = 3  BY <1>0, <1>3 DEF En, Listo, PasosDeLaCPU
<1>4. CASE paso[c] = 4  BY <1>0, <1>4 DEF En, Listo, PasosDeLaCPU
<1>5. CASE paso[c] = 5  BY <1>0, <1>5 DEF En, Listo, PasosDeLaCPU
<1>6. CASE paso[c] = 6  BY <1>0, <1>6 DEF En, Listo, PasosDeLaCPU
<1> QED
  BY <1>1, <1>2, <1>3, <1>4, <1>5, <1>6
-----------------------------------------------------------------------------
(* The invariant of the connections, action by action *)

otros == <<lanzados, paso, servidor, cuenta, conocidas>>

LEMMA Nombres ==
    /\ Servidores = {"MDJ", "FM9", "SAFA", "DAM"} /\ Clientes = Cpus \cup {"DAM"}
    /\ \A c \in Cpus : c \notin {"MDJ", "FM9", "SAFA", "DAM"}
    /\ Nadie \notin Cpus /\ MaxMuertes \in Nat
  BY SistemaAssumption DEF Servidores, Clientes

LEMMA InicioConexiones == SistemaInit => InvConexiones
<1> SUFFICES ASSUME SistemaInit PROVE InvConexiones
  OBVIOUS
<1> USE Nombres DEF SistemaInit, Init
<1>1. ConexionesOK
  BY DEF ConexionesOK
<1>2. dam.en = "libre"
  BY DEF DamLibre
<1>3. TransferenciaConDAM
  BY <1>2 DEF TransferenciaConDAM
<1>4. paso["DAM"] = 1 /\ \A c \in Cpus : paso[c] = 1
  OBVIOUS
<1>5. servidor["FM9"] = "escucha" /\ servidor["MDJ"] = "escucha"
  OBVIOUS
<1>6. DAMSaludado
  BY <1>4, <1>5 DEF DAMSaludado
<1>7. ColasOK
  BY <1>5, ColasCortas DEF ColasOK
<1>8. CpusSaludadas
  BY <1>4 DEF CpusSaludadas
<1> QED
  BY <1>1, <1>3, <1>6, <1>7, <1>8 DEF InvConexiones

(* The end of a process takes its queue and its transfer with it. *)
LEMMA CaeConexiones ==
    ASSUME InvConexiones, NEW p \in lanzados, p # "MDJ", Cae(p), UNCHANGED otros,
           muertes' \in 0 .. MaxMuertes, saludando' \in {saludando, Nadie}
    PROVE  InvConexiones'
<1> USE Nombres
<1>1. /\ caidos' = caidos \cup {p} /\ UNCHANGED otros
      /\ \A s \in Servidores : s # p => cola'[s] = cola[s]
      /\ p \in Servidores => cola'[p] = <<>>
      /\ cola' \in [Servidores -> Seq(Clientes)]
      /\ dam'.en = dam.en \/ (dam'.en = "libre" /\ p = "DAM")
      /\ p = "DAM" => dam'.en = "libre"
  BY DEF Cae, InvConexiones, ConexionesOK, DamLibre, otros
<1>2. ConexionesOK'
  BY <1>1 DEF InvConexiones, ConexionesOK, otros
<1>3. TransferenciaConDAM'
  BY <1>1 DEF InvConexiones, TransferenciaConDAM, Vivo, Listo, En, otros
<1>4. DAMSaludado'
  BY <1>1 DEF InvConexiones, DAMSaludado, otros
<1>5. ColasOK'
  BY <1>1, ColasCortas DEF InvConexiones, ColasOK, otros
<1>6. CpusSaludadas'
  BY <1>1 DEF InvConexiones, CpusSaludadas, Listo, En, otros
<1> QED
  BY <1>2, <1>3, <1>4, <1>5, <1>6 DEF InvConexiones

LEMMA LanzarConexiones ==
    ASSUME InvConexiones, NEW p \in Servidores \cup Cpus, Lanzar(p)
    PROVE  InvConexiones'
<1> USE Nombres
<1>1. /\ lanzados' = lanzados \cup {p}
      /\ UNCHANGED <<caidos, dam, paso, cola, servidor, cuenta, conocidas,
                     saludando, muertes>>
  BY DEF Lanzar, vars
<1> QED
  BY <1>1 DEF InvConexiones, ConexionesOK, TransferenciaConDAM, DAMSaludado,
              ColasOK, CpusSaludadas, Vivo, Listo, En

LEMMA MatarConexiones ==
    ASSUME InvConexiones, NEW p \in Servidores \cup Cpus, Matar(p)
    PROVE  InvConexiones'
<1>1. muertes' \in 0 .. MaxMuertes
  BY Nombres DEF Matar, MuertesPosibles, InvConexiones, ConexionesOK
<1>2. /\ p \in lanzados /\ p # "MDJ" /\ Cae(p)
      /\ UNCHANGED otros /\ saludando' \in {saludando, Nadie}
  BY DEF Matar, Vivo, otros
<1> QED
  BY <1>1, <1>2, CaeConexiones

LEMMA RelanzarConexiones ==
    ASSUME InvConexiones, Relanzar
    PROVE  InvConexiones'
<1> USE Nombres
<1>1. /\ servidor' = [servidor EXCEPT !["FM9"] = "relanzado"]
      /\ "FM9" \in caidos /\ paso["DAM"] > 4
      /\ UNCHANGED <<caidos, dam, paso, cola, lanzados, cuenta, conocidas,
                     saludando, muertes>>
  BY DEF Relanzar, vars
<1>2. servidor'["FM9"] = "relanzado" /\ servidor'["MDJ"] = servidor["MDJ"]
  BY <1>1 DEF InvConexiones, ConexionesOK
<1>3. ConexionesOK' /\ TransferenciaConDAM' /\ CpusSaludadas'
  BY <1>1, <1>2 DEF InvConexiones, ConexionesOK, TransferenciaConDAM, CpusSaludadas,
                    Vivo, Listo, En
<1>4. DAMSaludado'
  <2>1. paso["DAM"] \in 1 .. 7 /\ "FM9" \in lanzados
    BY <1>1 DEF InvConexiones, ConexionesOK
  <2> QED
    BY <1>1, <1>2, <2>1 DEF InvConexiones, DAMSaludado
<1>5. ColasOK'
  BY <1>1, <1>2 DEF InvConexiones, ColasOK
<1> QED
  BY <1>3, <1>4, <1>5 DEF InvConexiones

(* Listo("DAM") is about its step. *)
VistaDAM == paso["DAM"] \in 1 .. 7 => (Listo("DAM") <=> paso["DAM"] = 7)

LEMMA VistaDelDAM == VistaDAM
  BY PasoDelDAM DEF VistaDAM

LEMMA VistaSiguiente == VistaDAM'
  BY VistaDelDAM, PTL

(* Nothing that the invariant speaks of changes. *)
LEMMA NadaConexiones ==
    ASSUME InvConexiones, UNCHANGED <<caidos, sistema>>,
           dam'.en # "libre" => Vivo("DAM") /\ Listo("DAM")
    PROVE  InvConexiones'
<1> QED
  BY DEF InvConexiones, ConexionesOK, TransferenciaConDAM, DAMSaludado, ColasOK,
         CpusSaludadas, Vivo, Listo, En, sistema

(* A client p is taken into the queue of server t. *)
Entra(p, t) ==
    /\ cola' = [cola EXCEPT ![t] = Append(@, p)]
    /\ paso' = [paso EXCEPT ![p] = @ + 1]
    /\ UNCHANGED <<caidos, dam, lanzados, servidor, cuenta, conocidas, saludando, muertes>>

LEMMA EntraDAM ==
    ASSUME InvConexiones, NEW t \in {"MDJ", "FM9", "SAFA"}, Entra("DAM", t), Escucha(t),
           \/ t = "MDJ" /\ paso["DAM"] = 1
           \/ t = "FM9" /\ paso["DAM"] = 3
           \/ t = "SAFA" /\ paso["DAM"] = 5
    PROVE  InvConexiones'
<1> USE Nombres
<1>1. /\ paso["DAM"] \in 1 .. 7 /\ paso'["DAM"] = paso["DAM"] + 1
      /\ paso' \in [Clientes -> 1 .. 7]
      /\ \A c \in Cpus : paso'[c] = paso[c]
      /\ cola'[t] = Append(cola[t], "DAM")
      /\ \A s \in Servidores : s # t => cola'[s] = cola[s]
      /\ cola[t] \in Seq(Clientes)
      /\ UNCHANGED <<caidos, dam, lanzados, servidor, cuenta, conocidas,
                     saludando, muertes>>
  BY DEF Entra, InvConexiones, ConexionesOK
<1>2. /\ cola'[t] \in Seq(Clientes)
      /\ ToSet(cola'[t]) = ToSet(cola[t]) \cup {"DAM"}
      /\ IsInjective(cola[t]) /\ "DAM" \notin ToSet(cola[t]) => IsInjective(cola'[t])
  BY <1>1, Encolado
<1>3. cola' \in [Servidores -> Seq(Clientes)]
  BY <1>2 DEF Entra, InvConexiones, ConexionesOK
<1>4. ConexionesOK'
  BY <1>1, <1>3 DEF InvConexiones, ConexionesOK
<1>5. /\ dam.en = "libre" /\ \A c \in Cpus : paso[c] <= 2
      /\ t \in lanzados
      /\ t = "FM9" => servidor["FM9"] = "escucha"
      /\ t # "FM9" => t \notin caidos
  <2>1. ~ Listo("DAM")
    BY <1>1, PasoDelDAM
  <2>2. t = "FM9" => servidor["FM9"] = "escucha"
    BY <1>1 DEF InvConexiones, DAMSaludado
  <2>3. paso \in [Clientes -> 1 .. 7]
    BY DEF InvConexiones, ConexionesOK
  <2> QED
    BY <2>1, <2>2, <2>3 DEF InvConexiones, TransferenciaConDAM, CpusSaludadas, Escucha, Vivo
<1>6. TransferenciaConDAM' /\ CpusSaludadas'
  <2>1. \A c \in Cpus : paso[c] \in 1 .. 7
    BY DEF InvConexiones, ConexionesOK
  <2> QED
    BY <1>1, <1>5, <2>1 DEF InvConexiones, TransferenciaConDAM, CpusSaludadas
<1>7. CASE t = "MDJ"
  <2>1. cola["MDJ"] = <<>> /\ cola'["MDJ"] = <<"DAM">>
    BY <1>1, <1>7, ColasCortas DEF InvConexiones, ColasOK
  <2>2. DAMSaludado'
    BY <1>1, <1>7 DEF InvConexiones, DAMSaludado
  <2>3. ColasOK'
    BY <1>1, <1>5, <1>7, <2>1 DEF InvConexiones, ColasOK
  <2> QED
    BY <1>4, <1>6, <2>2, <2>3 DEF InvConexiones
<1>8. CASE t = "FM9"
  <2>1. cola["FM9"] = <<>> /\ cola'["FM9"] = <<"DAM">>
    BY <1>1, <1>5, <1>8, ColasCortas DEF InvConexiones, ColasOK
  <2>2. DAMSaludado'
    BY <1>1, <1>5, <1>8 DEF InvConexiones, DAMSaludado
  <2>3. "FM9" \notin caidos
    BY <1>5, <1>8 DEF Escucha, Vivo
  <2>4. ColasOK'
    BY <1>1, <1>5, <1>8, <2>1, <2>3, ColasCortas DEF InvConexiones, ColasOK
  <2> QED
    BY <1>4, <1>6, <2>2, <2>4 DEF InvConexiones
<1>9. CASE t = "SAFA"
  <2>1. "DAM" \notin ToSet(cola["SAFA"])
    BY <1>9 DEF InvConexiones, ColasOK
  <2>2. DAMSaludado'
    BY <1>1, <1>5, <1>9 DEF InvConexiones, DAMSaludado
  <2>3. ColasOK'
    <3>1. cola'["MDJ"] = cola["MDJ"] /\ cola'["FM9"] = cola["FM9"]
      BY <1>1, <1>9
    <3>2. /\ ToSet(cola'["SAFA"]) = ToSet(cola["SAFA"]) \cup {"DAM"}
          /\ IsInjective(cola'["SAFA"])
      BY <1>2, <1>9, <2>1 DEF InvConexiones, ColasOK
    <3>3. paso'["DAM"] = 6 /\ paso["DAM"] = 5 /\ "DAM" \notin Cpus
      BY <1>1, <1>9
    <3> QED
      BY <1>1, <1>5, <1>9, <3>1, <3>2, <3>3 DEF InvConexiones, ColasOK
  <2> QED
    BY <1>4, <1>6, <2>2, <2>3 DEF InvConexiones
<1> QED
  BY <1>7, <1>8, <1>9

LEMMA EntraCPU ==
    ASSUME InvConexiones, NEW c \in Cpus, NEW t \in {"SAFA", "DAM", "FM9"},
           Entra(c, t), Escucha(t),
           \/ t = "SAFA" /\ paso[c] = 1
           \/ t = "DAM" /\ paso[c] = 2
           \/ t = "FM9" /\ paso[c] = 3
    PROVE  InvConexiones'
<1> USE Nombres
<1>1. /\ paso[c] \in 1 .. 6 /\ paso'[c] = paso[c] + 1 /\ paso'["DAM"] = paso["DAM"]
      /\ paso["DAM"] \in 1 .. 7 /\ paso' \in [Clientes -> 1 .. 7]
      /\ \A d \in Cpus : d # c => paso'[d] = paso[d]
      /\ cola'[t] = Append(cola[t], c)
      /\ \A s \in Servidores : s # t => cola'[s] = cola[s]
      /\ cola[t] \in Seq(Clientes) /\ cola["DAM"] \in Seq(Cpus)
      /\ UNCHANGED <<caidos, dam, lanzados, servidor, cuenta, conocidas,
                     saludando, muertes>>
  BY DEF Entra, InvConexiones, ConexionesOK
<1>2. /\ cola'[t] \in Seq(Clientes)
      /\ ToSet(cola'[t]) = ToSet(cola[t]) \cup {c}
      /\ IsInjective(cola[t]) /\ c \notin ToSet(cola[t]) => IsInjective(cola'[t])
  BY <1>1, Encolado
<1>3. cola'["DAM"] \in Seq(Cpus)
  <2>1. Append(cola["DAM"], c) \in Seq(Cpus)
    BY <1>1, Encolado
  <2> QED
    BY <1>1, <2>1
<1>4. cola' \in [Servidores -> Seq(Clientes)]
  BY <1>2 DEF Entra, InvConexiones, ConexionesOK
<1>5. ConexionesOK'
  <2>1. \A d \in Cpus : paso'[d] <= 6
    BY <1>1 DEF InvConexiones, ConexionesOK
  <2> QED
    BY <1>1, <1>3, <1>4, <2>1 DEF InvConexiones, ConexionesOK
<1>6. /\ Listo("DAM")' <=> Listo("DAM")
      /\ Listo("DAM") <=> paso["DAM"] = 7
  BY <1>1, VistaDelDAM, VistaSiguiente DEF VistaDAM
<1>7. TransferenciaConDAM'
  BY <1>1, <1>6 DEF InvConexiones, TransferenciaConDAM, Vivo
<1>8. DAMSaludado'
  BY <1>1 DEF InvConexiones, DAMSaludado
<1>9. CpusSaludadas'
  BY <1>1, <1>6 DEF InvConexiones, CpusSaludadas, Escucha
<1>10. t = "FM9" => servidor["FM9"] # "escucha"
  BY <1>6 DEF InvConexiones, CpusSaludadas, DAMSaludado, Escucha, Vivo
<1>11. t \in lanzados /\ (t \notin caidos \/ (t = "FM9" /\ servidor["FM9"] = "relanzado"))
  BY DEF Escucha, Vivo, InvConexiones, ConexionesOK, DAMSaludado
<1>12. t = "SAFA" => c \notin ToSet(cola["SAFA"])
  BY DEF InvConexiones, ColasOK
<1>13. ColasOK'
  <2>1. cola'["MDJ"] = cola["MDJ"] /\ "DAM" # c /\ (t # "FM9" => cola'["FM9"] = cola["FM9"])
    BY <1>1
  <2>2. CASE t = "SAFA"
    <3>1. /\ ToSet(cola'["SAFA"]) = ToSet(cola["SAFA"]) \cup {c}
          /\ IsInjective(cola'["SAFA"])
      BY <1>2, <1>12, <2>2 DEF InvConexiones, ColasOK
    <3>2. paso'[c] = 2
      BY <1>1, <2>2
    <3> QED
      BY <1>1, <1>11, <2>1, <2>2, <3>1, <3>2 DEF InvConexiones, ColasOK
  <2>3. CASE t # "SAFA"
    <3>1. cola'["SAFA"] = cola["SAFA"] /\ (t = "FM9" => paso'[c] = 4)
      BY <1>1, <2>3
    <3>2. \A d \in Cpus : d \in ToSet(cola["SAFA"]) => paso'[d] \in 2 .. 4
      BY <1>1, <2>3 DEF InvConexiones, ColasOK
    <3>3. /\ "DAM" \in ToSet(cola'["FM9"]) => paso'["DAM"] = 4
          /\ servidor'["FM9"] = "escucha" => cola'["FM9"] \in {<<>>, <<"DAM">>}
          /\ "FM9" \in caidos' /\ servidor'["FM9"] # "relanzado" => cola'["FM9"] = <<>>
      <4>1. CASE t = "FM9"
        BY <1>1, <1>2, <1>10, <1>11, <2>1, <4>1 DEF InvConexiones, ColasOK
      <4>2. CASE t # "FM9"
        BY <1>1, <2>1, <4>2 DEF InvConexiones, ColasOK
      <4> QED
        BY <4>1, <4>2
    <3>4. \A s \in Servidores : s \notin lanzados' => cola'[s] = <<>>
      BY <1>1, <1>11 DEF InvConexiones, ColasOK
    <3>5. /\ cola'["MDJ"] \in {<<>>, <<"DAM">>}
          /\ cola'["MDJ"] # <<>> => paso'["DAM"] = 2
          /\ "DAM" \in ToSet(cola'["SAFA"]) => paso'["DAM"] = 6
          /\ IsInjective(cola'["SAFA"])
          /\ "SAFA" \in caidos' => cola'["SAFA"] = <<>>
      BY <1>1, <2>1, <3>1 DEF InvConexiones, ColasOK
    <3> QED
      BY <3>1, <3>2, <3>3, <3>4, <3>5 DEF ColasOK
  <2> QED
    BY <2>2, <2>3
<1> QED
  BY <1>5, <1>7, <1>8, <1>9, <1>13 DEF InvConexiones

LEMMA ConectarConexiones ==
    ASSUME InvConexiones, NEW p \in Clientes, Conectar(p)
    PROVE  InvConexiones'
<1> USE Nombres
<1>1. /\ p \in lanzados /\ p # "MDJ" /\ En(p)[1] = "conecta"
      /\ UNCHANGED <<lanzados, servidor, cuenta, conocidas, saludando, muertes>>
  BY DEF Conectar, Vivo
<1>2. CASE Cae(p) /\ UNCHANGED paso
  <2>1. muertes' \in 0 .. MaxMuertes /\ UNCHANGED otros
    BY <1>1, <1>2 DEF InvConexiones, ConexionesOK, otros
  <2> QED
    BY <1>1, <1>2, <2>1, CaeConexiones
<1>3. CASE Escucha(En(p)[2]) /\ Entra(p, En(p)[2])
  <2>1. CASE p = "DAM"
    <3>1. paso["DAM"] \in 1 .. 7
      BY DEF InvConexiones, ConexionesOK
    <3>2. \/ paso["DAM"] = 1 /\ En("DAM")[2] = "MDJ"
          \/ paso["DAM"] = 3 /\ En("DAM")[2] = "FM9"
          \/ paso["DAM"] = 5 /\ En("DAM")[2] = "SAFA"
      BY <1>1, <2>1, <3>1, PasoDelDAM
    <3> QED
      BY <1>3, <2>1, <3>2, EntraDAM
  <2>2. CASE p \in Cpus
    <3>1. paso[p] \in 1 .. 6
      BY <2>2 DEF InvConexiones, ConexionesOK
    <3>2. \/ paso[p] = 1 /\ En(p)[2] = "SAFA"
          \/ paso[p] = 2 /\ En(p)[2] = "DAM"
          \/ paso[p] = 3 /\ En(p)[2] = "FM9"
      BY <1>1, <2>2, <3>1, PasoDeLaCPU
    <3> QED
      BY <1>3, <2>2, <3>2, EntraCPU
  <2> QED
    BY <2>1, <2>2
<1> QED
  BY <1>1, <1>2, <1>3 DEF Conectar, Entra

(* A client goes on to its next step, and the queues stay. *)
Avanza(p) ==
    /\ paso' = [paso EXCEPT ![p] = @ + 1]
    /\ UNCHANGED <<caidos, cola, dam, lanzados, servidor, cuenta, conocidas,
                   saludando, muertes>>

LEMMA SaludoPerdidoConexiones ==
    ASSUME InvConexiones, NEW p \in Clientes, SaludoPerdido(p)
    PROVE  InvConexiones'
<1> USE Nombres
<1>1. /\ p \in lanzados /\ p # "MDJ" /\ En(p)[1] = "saluda" /\ En(p)[2] \in caidos
      /\ UNCHANGED <<lanzados, servidor, cuenta, conocidas, saludando, muertes>>
  BY DEF SaludoPerdido, Vivo
<1>2. CASE Cae(p) /\ UNCHANGED paso
  <2>1. muertes' \in 0 .. MaxMuertes /\ UNCHANGED otros
    BY <1>1, <1>2 DEF InvConexiones, ConexionesOK, otros
  <2> QED
    BY <1>1, <1>2, <2>1, CaeConexiones
<1>3. CASE Avanza(p)
  <2>1. /\ paso \in [Clientes -> 1 .. 7] /\ \A c \in Cpus : paso[c] \in 1 .. 6
        /\ \A q \in Clientes : paso'[q] = IF q = p THEN paso[p] + 1 ELSE paso[q]
        /\ paso["DAM"] \in 1 .. 7
        /\ paso' = [paso EXCEPT ![p] = paso[p] + 1]
        /\ UNCHANGED <<caidos, cola, dam, lanzados, servidor, cuenta, conocidas,
                       saludando, muertes>>
    BY <1>3 DEF Avanza, InvConexiones, ConexionesOK
  <2>2. CASE p = "DAM"
    <3>1. \/ paso["DAM"] = 4 /\ "FM9" \in caidos
          \/ paso["DAM"] = 6 /\ "SAFA" \in caidos
      BY <1>1, <2>1, <2>2, PasoDelDAM DEF InvConexiones, ConexionesOK
    <3>2. paso'["DAM"] = paso["DAM"] + 1 /\ \A c \in Cpus : paso'[c] = paso[c]
      BY <2>1, <2>2
    <3>3. ConexionesOK'
      BY <2>1, <3>1, <3>2 DEF InvConexiones, ConexionesOK
    <3>4. ~ Listo("DAM")
      BY <2>1, <3>1, PasoDelDAM
    <3>5. TransferenciaConDAM' /\ CpusSaludadas'
      BY <2>1, <3>2, <3>4 DEF InvConexiones, TransferenciaConDAM, CpusSaludadas
    <3>6. "FM9" \in lanzados
      BY <2>1, <3>1 DEF InvConexiones, ConexionesOK, DAMSaludado
    <3>7. DAMSaludado'
      BY <2>1, <3>1, <3>2, <3>6 DEF InvConexiones, DAMSaludado
    <3>8. /\ paso["DAM"] = 4 => cola["FM9"] = <<>>
          /\ paso["DAM"] = 6 => cola["SAFA"] = <<>>
          /\ cola["MDJ"] = <<>>
      BY <2>1, <3>1 DEF InvConexiones, DAMSaludado, ColasOK
    <3>9. ColasOK'
      BY <2>1, <3>1, <3>2, <3>8, ColasCortas DEF InvConexiones, ColasOK
    <3> QED
      BY <3>3, <3>5, <3>7, <3>9 DEF InvConexiones
  <2>3. CASE p \in Cpus
    <3>1. \/ paso[p] = 4 /\ "SAFA" \in caidos
          \/ paso[p] = 5 /\ "DAM" \in caidos
      BY <1>1, <2>1, <2>3, PasoDeLaCPU
    <3>2. /\ paso'["DAM"] = paso["DAM"] /\ paso'[p] = paso[p] + 1
          /\ \A c \in Cpus : c # p => paso'[c] = paso[c]
      BY <2>1, <2>3
    <3>3. ConexionesOK'
      <4>1. \A c \in Cpus : paso'[c] <= 6
        BY <2>1, <3>1, <3>2
      <4> QED
        BY <2>1, <3>1, <4>1 DEF InvConexiones, ConexionesOK
    <3>4. Listo("DAM")' <=> Listo("DAM")
      BY <2>1, <3>2, VistaDelDAM, VistaSiguiente DEF VistaDAM
    <3>5. TransferenciaConDAM'
      BY <2>1, <3>4 DEF InvConexiones, TransferenciaConDAM, Vivo
    <3>6. CpusSaludadas'
      BY <2>1, <3>1, <3>2, <3>4 DEF InvConexiones, CpusSaludadas
    <3>7. DAMSaludado'
      BY <2>1, <3>2 DEF InvConexiones, DAMSaludado
    <3>8. p \notin ToSet(cola["SAFA"])
      BY <2>3, <3>1, ColasCortas DEF InvConexiones, ColasOK
    <3>9. ColasOK'
      BY <2>1, <3>2, <3>8 DEF InvConexiones, ColasOK
    <3> QED
      BY <3>3, <3>5, <3>6, <3>7, <3>9 DEF InvConexiones
  <2> QED
    BY <2>2, <2>3
<1> QED
  BY <1>1, <1>2, <1>3 DEF SaludoPerdido, Avanza
-----------------------------------------------------------------------------
(* MDJ and FM9 *)

LEMMA AceptarMDJConexiones ==
    ASSUME InvConexiones, AceptarMDJ
    PROVE  InvConexiones'
<1> USE Nombres
<1>1. /\ servidor["MDJ"] = "escucha" /\ cola["MDJ"] # <<>> /\ "MDJ" \in lanzados
      /\ servidor' = [servidor EXCEPT !["MDJ"] = "sirve"]
      /\ cola' = [cola EXCEPT !["MDJ"] = Tail(@)]
      /\ Respondido(Head(cola["MDJ"]))
      /\ UNCHANGED <<caidos, dam, lanzados, cuenta, conocidas, saludando, muertes>>
  BY DEF AceptarMDJ, vars, Vivo
<1>2. cola["MDJ"] = <<"DAM">> /\ paso["DAM"] = 2
  BY <1>1 DEF InvConexiones, ColasOK
<1>3. /\ cola' \in [Servidores -> Seq(Clientes)] /\ cola'["MDJ"] = <<>>
      /\ \A s \in Servidores : s # "MDJ" => cola'[s] = cola[s]
  BY <1>1, <1>2, ColasCortas DEF InvConexiones, ConexionesOK
<1>4. /\ paso' \in [Clientes -> 1 .. 7] /\ paso'["DAM"] \in {2, 3}
      /\ \A c \in Cpus : paso'[c] = paso[c]
  BY <1>1, <1>2, ColasCortas DEF InvConexiones, ConexionesOK, Respondido
<1>5. servidor'["MDJ"] = "sirve" /\ servidor'["FM9"] = servidor["FM9"]
  BY <1>1 DEF InvConexiones, ConexionesOK
<1>6. ConexionesOK'
  BY <1>1, <1>3, <1>4, <1>5 DEF InvConexiones, ConexionesOK
<1>7. ~ Listo("DAM")
  BY <1>2, PasoDelDAM
<1>8. TransferenciaConDAM' /\ CpusSaludadas'
  BY <1>1, <1>4, <1>7 DEF InvConexiones, TransferenciaConDAM, CpusSaludadas
<1>9. DAMSaludado'
  BY <1>1, <1>2, <1>4, <1>5 DEF InvConexiones, DAMSaludado
<1>10. ColasOK'
  BY <1>1, <1>2, <1>3, <1>4, <1>5 DEF InvConexiones, ColasOK
<1> QED
  BY <1>6, <1>8, <1>9, <1>10 DEF InvConexiones

LEMMA NotarMDJConexiones ==
    ASSUME InvConexiones, NotarMDJ
    PROVE  InvConexiones'
<1> USE Nombres
<1>1. /\ servidor["MDJ"] = "sirve" /\ "DAM" \in caidos
      /\ servidor' = [servidor EXCEPT !["MDJ"] = "trabado"]
      /\ UNCHANGED <<caidos, dam, lanzados, paso, cola, cuenta, conocidas,
                     saludando, muertes>>
  BY DEF NotarMDJ, vars
<1>2. servidor'["MDJ"] = "trabado" /\ servidor'["FM9"] = servidor["FM9"]
  BY <1>1 DEF InvConexiones, ConexionesOK
<1> QED
  BY <1>1, <1>2 DEF InvConexiones, ConexionesOK, TransferenciaConDAM, DAMSaludado,
                    ColasOK, CpusSaludadas, Vivo, Listo, En

LEMMA AceptarFM9Conexiones ==
    ASSUME InvConexiones, AceptarFM9
    PROVE  InvConexiones'
<1> USE Nombres
<1>1. /\ servidor["FM9"] = "escucha" /\ cola["FM9"] # <<>>
      /\ "FM9" \in lanzados /\ "FM9" \notin caidos
      /\ servidor' = [servidor EXCEPT !["FM9"] = "sirve"]
      /\ cola' = [cola EXCEPT !["FM9"] = Tail(@)]
      /\ Respondido("DAM")
      /\ UNCHANGED <<caidos, dam, lanzados, cuenta, conocidas, saludando, muertes>>
  BY DEF AceptarFM9, vars, Vivo
<1>2. cola["FM9"] = <<"DAM">> /\ paso["DAM"] = 4
  BY <1>1, ColasCortas DEF InvConexiones, ColasOK
<1>3. /\ cola' \in [Servidores -> Seq(Clientes)] /\ cola'["FM9"] = <<>>
      /\ \A s \in Servidores : s # "FM9" => cola'[s] = cola[s]
  BY <1>1, <1>2, ColasCortas DEF InvConexiones, ConexionesOK
<1>4. /\ paso' \in [Clientes -> 1 .. 7] /\ paso'["DAM"] \in {4, 5}
      /\ \A c \in Cpus : paso'[c] = paso[c]
  BY <1>1, <1>2 DEF InvConexiones, ConexionesOK, Respondido
<1>5. servidor'["FM9"] = "sirve" /\ servidor'["MDJ"] = servidor["MDJ"]
  BY <1>1 DEF InvConexiones, ConexionesOK
<1>6. ConexionesOK'
  BY <1>1, <1>3, <1>4, <1>5 DEF InvConexiones, ConexionesOK
<1>7. ~ Listo("DAM")
  BY <1>2, PasoDelDAM
<1>8. TransferenciaConDAM' /\ CpusSaludadas'
  BY <1>1, <1>4, <1>7 DEF InvConexiones, TransferenciaConDAM, CpusSaludadas
<1>9. DAMSaludado'
  BY <1>1, <1>2, <1>4, <1>5 DEF InvConexiones, DAMSaludado
<1>10. ColasOK'
  <2>1. cola'["MDJ"] = cola["MDJ"] /\ cola'["SAFA"] = cola["SAFA"]
    BY <1>3
  <2>2. "DAM" \notin ToSet(cola["SAFA"]) /\ cola["MDJ"] = <<>>
    BY <1>2 DEF InvConexiones, ColasOK
  <2>3. \A s \in Servidores : s \notin lanzados' => cola'[s] = <<>>
    BY <1>1, <1>3 DEF InvConexiones, ColasOK
  <2> QED
    BY <1>1, <1>3, <1>4, <1>5, <2>1, <2>2, <2>3, ColasCortas DEF InvConexiones, ColasOK
<1> QED
  BY <1>6, <1>8, <1>9, <1>10 DEF InvConexiones

(* A queue loses its first client. *)
LEMMA SaleDeLaCola ==
    ASSUME InvConexiones, NEW s \in Servidores, cola[s] # <<>>,
           cola' = [cola EXCEPT ![s] = Tail(@)]
    PROVE  /\ cola' \in [Servidores -> Seq(Clientes)]
           /\ \A t \in Servidores : t # s => cola'[t] = cola[t]
           /\ cola'[s] = Tail(cola[s]) /\ ToSet(cola'[s]) \subseteq ToSet(cola[s])
           /\ Head(cola[s]) \in Clientes /\ Head(cola[s]) \in ToSet(cola[s])
           /\ IsInjective(cola[s]) =>
                IsInjective(cola'[s]) /\ Head(cola[s]) \notin ToSet(cola'[s])
<1>1. cola \in [Servidores -> Seq(Clientes)] /\ cola[s] \in Seq(Clientes)
  BY DEF InvConexiones, ConexionesOK
<1>2. /\ Tail(cola[s]) \in Seq(Clientes) /\ ToSet(Tail(cola[s])) \subseteq ToSet(cola[s])
      /\ Head(cola[s]) \in Clientes /\ Head(cola[s]) \in ToSet(cola[s])
      /\ IsInjective(cola[s]) =>
           IsInjective(Tail(cola[s])) /\ Head(cola[s]) \notin ToSet(Tail(cola[s]))
  BY <1>1, Desencolado
<1>3. cola'[s] = Tail(cola[s])
  BY <1>1
<1> QED
  BY <1>1, <1>2, <1>3

LEMMA AtenderCpuFM9Conexiones ==
    ASSUME InvConexiones, AtenderCpuFM9
    PROVE  InvConexiones'
<1> USE Nombres
<1>1. /\ servidor["FM9"] = "sirve" /\ cola["FM9"] # <<>> /\ "FM9" \notin caidos
      /\ cola' = [cola EXCEPT !["FM9"] = Tail(@)]
      /\ UNCHANGED <<caidos, dam, lanzados, paso, servidor, cuenta, conocidas,
                     saludando, muertes>>
  BY DEF AtenderCpuFM9, vars, Vivo
<1>2. /\ cola' \in [Servidores -> Seq(Clientes)]
      /\ \A t \in Servidores : t # "FM9" => cola'[t] = cola[t]
      /\ ToSet(cola'["FM9"]) \subseteq ToSet(cola["FM9"])
      /\ "FM9" \in lanzados
  BY <1>1, SaleDeLaCola DEF InvConexiones, ColasOK
<1>3. ConexionesOK' /\ TransferenciaConDAM' /\ CpusSaludadas' /\ DAMSaludado'
  BY <1>1, <1>2 DEF InvConexiones, ConexionesOK, TransferenciaConDAM, CpusSaludadas,
                    DAMSaludado, Vivo, Listo, En
<1>4. ColasOK'
  BY <1>1, <1>2 DEF InvConexiones, ColasOK
<1> QED
  BY <1>3, <1>4 DEF InvConexiones

LEMMA TomarCpuPorDAMConexiones ==
    ASSUME InvConexiones, TomarCpuPorDAM
    PROVE  InvConexiones'
<1> USE Nombres
<1>1. /\ servidor["FM9"] \in {"escucha", "relanzado"} /\ cola["FM9"] # <<>>
      /\ Head(cola["FM9"]) \in Cpus
      /\ caidos' = caidos \cup {"FM9"}
      /\ cola' = [cola EXCEPT !["FM9"] = <<>>]
      /\ servidor' = [servidor EXCEPT !["FM9"] = "caido"]
      /\ UNCHANGED <<dam, lanzados, paso, cuenta, conocidas, saludando, muertes>>
  BY DEF TomarCpuPorDAM
<1>2. servidor["FM9"] = "relanzado"
  BY <1>1, ColasCortas DEF InvConexiones, ColasOK
<1>3. caidos' = caidos /\ "FM9" \in caidos
  BY <1>1, <1>2 DEF InvConexiones, DAMSaludado
<1>4. /\ cola' \in [Servidores -> Seq(Clientes)] /\ cola'["FM9"] = <<>>
      /\ \A s \in Servidores : s # "FM9" => cola'[s] = cola[s]
      /\ servidor'["FM9"] = "caido" /\ servidor'["MDJ"] = servidor["MDJ"]
  BY <1>1 DEF InvConexiones, ConexionesOK
<1>5. ConexionesOK' /\ TransferenciaConDAM' /\ CpusSaludadas'
  BY <1>1, <1>3, <1>4 DEF InvConexiones, ConexionesOK, TransferenciaConDAM,
                          CpusSaludadas, Vivo, Listo, En
<1>6. DAMSaludado'
  BY <1>1, <1>2, <1>3, <1>4 DEF InvConexiones, DAMSaludado
<1>7. ColasOK'
  BY <1>1, <1>2, <1>3, <1>4, ColasCortas DEF InvConexiones, ColasOK
<1> QED
  BY <1>5, <1>6, <1>7 DEF InvConexiones

LEMMA NotarFM9Conexiones ==
    ASSUME InvConexiones, NotarFM9
    PROVE  InvConexiones'
<1>1. /\ "FM9" \in lanzados /\ Cae("FM9") /\ UNCHANGED otros
      /\ saludando' \in {saludando, Nadie} /\ muertes' \in 0 .. MaxMuertes
  BY DEF NotarFM9, Vivo, otros, InvConexiones, ConexionesOK
<1> QED
  BY <1>1, CaeConexiones
-----------------------------------------------------------------------------
(* SAFA and the greetings of the DAM *)

LEMMA AceptarSAFAConexiones ==
    ASSUME InvConexiones, AceptarSAFA
    PROVE  InvConexiones'
<1> USE Nombres
<1> DEFINE p == Head(cola["SAFA"])
<1>1. /\ "SAFA" \in lanzados /\ "SAFA" \notin caidos /\ cola["SAFA"] # <<>>
      /\ Saludo(p, "SAFA") /\ Respondido(p)
      /\ cuenta' \in {cuenta, cuenta \cup ({p} \cap Cpus)}
      /\ p \in Cpus /\ En(p) = <<"saluda", "SAFA">> => p \in cuenta'
      /\ cola' = [cola EXCEPT !["SAFA"] = Tail(@)]
      /\ UNCHANGED <<caidos, dam, lanzados, servidor, conocidas, saludando, muertes>>
  BY DEF AceptarSAFA, vars, Vivo
<1>2. /\ cola' \in [Servidores -> Seq(Clientes)]
      /\ \A t \in Servidores : t # "SAFA" => cola'[t] = cola[t]
      /\ ToSet(cola'["SAFA"]) \subseteq ToSet(cola["SAFA"])
      /\ IsInjective(cola'["SAFA"]) /\ p \notin ToSet(cola'["SAFA"])
      /\ p \in Clientes /\ p \in ToSet(cola["SAFA"])
  BY <1>1, SaleDeLaCola DEF InvConexiones, ColasOK
<1>3. cuenta' \subseteq Cpus /\ cuenta \subseteq cuenta'
  BY <1>1 DEF InvConexiones, ConexionesOK
<1>4. /\ paso \in [Clientes -> 1 .. 7] /\ \A c \in Cpus : paso[c] \in 1 .. 6
      /\ paso' = IF p \in caidos THEN paso ELSE [paso EXCEPT ![p] = paso[p] + 1]
      /\ \A q \in Clientes : q # p => paso'[q] = paso[q]
  BY <1>1, <1>2 DEF InvConexiones, ConexionesOK, Respondido
<1> HIDE DEF p
<1>5. CASE p = "DAM"
  <2>1. paso["DAM"] = 6 /\ paso'["DAM"] \in {6, 7} /\ paso' \in [Clientes -> 1 .. 7]
    BY <1>2, <1>4, <1>5 DEF InvConexiones, ColasOK
  <2>2. \A c \in Cpus : paso'[c] = paso[c]
    BY <1>4, <1>5
  <2>3. ConexionesOK'
    BY <1>1, <1>2, <1>3, <2>1, <2>2 DEF InvConexiones, ConexionesOK
  <2>4. ~ Listo("DAM")
    BY <2>1, PasoDelDAM
  <2>5. TransferenciaConDAM' /\ CpusSaludadas'
    BY <1>1, <1>3, <2>2, <2>4 DEF InvConexiones, TransferenciaConDAM, CpusSaludadas
  <2>6. DAMSaludado'
    BY <1>1, <2>1 DEF InvConexiones, DAMSaludado
  <2>7. ColasOK'
    <3>1. "DAM" \notin ToSet(cola'["SAFA"]) /\ "DAM" \notin ToSet(cola["FM9"])
      BY <1>2, <1>5, <2>1 DEF InvConexiones, ColasOK
    <3>2. cola'["MDJ"] = <<>> /\ cola'["FM9"] = cola["FM9"]
      BY <1>2, <2>1 DEF InvConexiones, ColasOK
    <3>3. /\ \A s \in Servidores : s \notin lanzados' => cola'[s] = <<>>
          /\ \A c \in Cpus : c \in ToSet(cola'["SAFA"]) => paso'[c] \in 2 .. 4
      BY <1>1, <1>2, <2>2 DEF InvConexiones, ColasOK
    <3> QED
      BY <1>1, <1>2, <3>1, <3>2, <3>3 DEF InvConexiones, ColasOK
  <2> QED
    BY <2>3, <2>5, <2>6, <2>7 DEF InvConexiones
<1>6. CASE p \in Cpus
  <2>1. paso[p] \in 2 .. 4 /\ (p \notin caidos => paso[p] = 4 /\ p \in cuenta')
    <3>1. paso[p] \in 2 .. 4
      BY <1>2, <1>6 DEF InvConexiones, ColasOK
    <3> QED
      BY <1>1, <1>4, <1>6, <3>1, PasoDeLaCPU DEF Saludo
  <2>2. /\ paso' \in [Clientes -> 1 .. 7] /\ paso'["DAM"] = paso["DAM"]
        /\ paso'[p] = paso[p] \/ (paso[p] = 4 /\ paso'[p] = 5 /\ p \in cuenta')
    BY <1>2, <1>4, <1>6, <2>1
  <2>3. ConexionesOK'
    <3>1. \A c \in Cpus : paso'[c] <= 6
      BY <1>4, <1>6, <2>1, <2>2
    <3> QED
      BY <1>1, <1>2, <1>3, <2>2, <3>1 DEF InvConexiones, ConexionesOK
  <2>4. Listo("DAM")' <=> Listo("DAM")
    BY <1>4, <2>2, VistaDelDAM, VistaSiguiente DEF VistaDAM
  <2>5. TransferenciaConDAM'
    BY <1>1, <2>4 DEF InvConexiones, TransferenciaConDAM, Vivo
  <2>6. CpusSaludadas'
    <3>1. \A c \in Cpus : c # p => paso'[c] = paso[c]
      BY <1>4
    <3>2. paso'[p] > 2 => Listo("DAM")
      BY <1>6, <2>1, <2>2 DEF InvConexiones, CpusSaludadas
    <3> QED
      BY <1>1, <1>3, <1>6, <2>1, <2>2, <2>4, <3>1, <3>2 DEF InvConexiones, CpusSaludadas
  <2>7. DAMSaludado'
    BY <1>1, <2>2 DEF InvConexiones, DAMSaludado
  <2>8. ColasOK'
    <3>1. \A c \in Cpus : c \in ToSet(cola'["SAFA"]) => paso'[c] \in 2 .. 4
      BY <1>2, <1>4 DEF InvConexiones, ColasOK
    <3>2. \A s \in Servidores : s \notin lanzados' => cola'[s] = <<>>
      BY <1>1, <1>2 DEF InvConexiones, ColasOK
    <3>3. cola'["MDJ"] = cola["MDJ"] /\ cola'["FM9"] = cola["FM9"]
      BY <1>2
    <3> QED
      BY <1>1, <1>2, <2>2, <3>1, <3>2, <3>3 DEF InvConexiones, ColasOK
  <2> QED
    BY <2>3, <2>5, <2>6, <2>7, <2>8 DEF InvConexiones
<1> QED
  BY <1>2, <1>5, <1>6

LEMMA AceptarCpuConexiones ==
    ASSUME InvConexiones, AceptarCpu
    PROVE  InvConexiones'
<1> USE Nombres
<1> DEFINE c == Head(cola["DAM"])
<1>1. /\ saludando = Nadie /\ cola["DAM"] # <<>>
      /\ saludando' = c /\ conocidas' = conocidas \cup {c}
      /\ cola' = [cola EXCEPT !["DAM"] = Tail(@)]
      /\ UNCHANGED <<caidos, dam, lanzados, paso, servidor, cuenta, muertes>>
  BY DEF AceptarCpu, Ocioso, vars
<1>2. /\ cola' \in [Servidores -> Seq(Clientes)]
      /\ \A t \in Servidores : t # "DAM" => cola'[t] = cola[t]
      /\ cola'["DAM"] = Tail(cola["DAM"])
  BY <1>1, SaleDeLaCola
<1>3. c \in Cpus /\ cola'["DAM"] \in Seq(Cpus)
  BY <1>1, <1>2, Desencolado DEF InvConexiones, ConexionesOK
<1> HIDE DEF c
<1>4. ConexionesOK'
  BY <1>1, <1>2, <1>3 DEF InvConexiones, ConexionesOK
<1>5. TransferenciaConDAM' /\ DAMSaludado' /\ CpusSaludadas'
  BY <1>1 DEF InvConexiones, TransferenciaConDAM, DAMSaludado, CpusSaludadas,
              Vivo, Listo, En
<1>6. ColasOK'
  <2>1. \A s \in Servidores : s \notin lanzados' => cola'[s] = <<>>
    BY <1>1, <1>2 DEF InvConexiones, ColasOK
  <2>2. /\ cola'["MDJ"] = cola["MDJ"] /\ cola'["FM9"] = cola["FM9"]
        /\ cola'["SAFA"] = cola["SAFA"]
    BY <1>2
  <2> QED
    BY <1>1, <2>1, <2>2 DEF InvConexiones, ColasOK
<1> QED
  BY <1>4, <1>5, <1>6 DEF InvConexiones

LEMMA SaludarCpuConexiones ==
    ASSUME InvConexiones, SaludarCpu
    PROVE  InvConexiones'
<1> USE Nombres
<1> DEFINE c == saludando
<1>1. /\ "DAM" \in lanzados /\ c \in Cpus /\ c \in conocidas
      /\ Saludo(c, "DAM") /\ Respondido(c) /\ saludando' = Nadie
      /\ UNCHANGED <<lanzados, servidor, cuenta, conocidas, muertes>>
      /\ \/ UNCHANGED <<caidos, cola, dam>>
         \/ c \in caidos /\ Cae("DAM")
  BY DEF SaludarCpu, Vivo, InvConexiones, ConexionesOK, CpusSaludadas
<1>2. /\ paso \in [Clientes -> 1 .. 7] /\ \A d \in Cpus : paso[d] \in 1 .. 6
      /\ paso' = IF c \in caidos THEN paso ELSE [paso EXCEPT ![c] = paso[c] + 1]
      /\ \A q \in Clientes : q # c => paso'[q] = paso[q]
      /\ c \notin caidos => paso[c] = 5
  BY <1>1, PasoDeLaCPU DEF InvConexiones, ConexionesOK, Respondido, Saludo
<1> HIDE DEF c
<1>3. CASE c \in caidos /\ Cae("DAM")
  <2>1. UNCHANGED otros /\ saludando' \in {saludando, Nadie} /\ muertes' \in 0 .. MaxMuertes
    BY <1>1, <1>2, <1>3 DEF otros, InvConexiones, ConexionesOK
  <2> QED
    BY <1>1, <1>3, <2>1, CaeConexiones
<1>4. CASE UNCHANGED <<caidos, cola, dam>>
  <2>1. /\ paso' \in [Clientes -> 1 .. 7] /\ paso'["DAM"] = paso["DAM"]
        /\ paso'[c] = paso[c] \/ (paso[c] = 5 /\ paso'[c] = 6)
    BY <1>1, <1>2
  <2>2. ConexionesOK'
    <3>1. \A d \in Cpus : paso'[d] <= 6
      BY <1>1, <1>2, <2>1
    <3> QED
      BY <1>1, <1>4, <2>1, <3>1 DEF InvConexiones, ConexionesOK
  <2>3. Listo("DAM")' <=> Listo("DAM")
    BY <1>2, <2>1, VistaDelDAM, VistaSiguiente DEF VistaDAM
  <2>4. TransferenciaConDAM'
    BY <1>1, <1>4, <2>3 DEF InvConexiones, TransferenciaConDAM, Vivo
  <2>5. CpusSaludadas'
    <3>1. \A d \in Cpus : d # c => paso'[d] = paso[d]
      BY <1>2
    <3> QED
      BY <1>1, <1>4, <2>1, <2>3, <3>1 DEF InvConexiones, CpusSaludadas
  <2>6. DAMSaludado'
    BY <1>1, <1>4, <2>1 DEF InvConexiones, DAMSaludado
  <2>7. ColasOK'
    <3>1. \A d \in Cpus : d \in ToSet(cola["SAFA"]) => paso'[d] \in 2 .. 4
      BY <1>2, <2>1 DEF InvConexiones, ColasOK
    <3> QED
      BY <1>1, <1>4, <2>1, <3>1 DEF InvConexiones, ColasOK
  <2> QED
    BY <2>2, <2>4, <2>5, <2>6, <2>7 DEF InvConexiones
<1> QED
  BY <1>1, <1>3, <1>4

LEMMA NotarCpuConexiones ==
    ASSUME InvConexiones, NotarCpu
    PROVE  InvConexiones'
<1>1. /\ "DAM" \in lanzados /\ Cae("DAM") /\ UNCHANGED otros
      /\ saludando' \in {saludando, Nadie} /\ muertes' \in 0 .. MaxMuertes
  BY DEF NotarCpu, Ocioso, Vivo, otros, InvConexiones, ConexionesOK
<1> QED
  BY <1>1, CaeConexiones

LEMMA CpuSinSafaConexiones ==
    ASSUME InvConexiones, NEW c \in Cpus, CpuSinSafa(c)
    PROVE  InvConexiones'
<1>1. /\ c \in lanzados /\ c # "MDJ" /\ Cae(c) /\ UNCHANGED otros
      /\ saludando' \in {saludando, Nadie} /\ muertes' \in 0 .. MaxMuertes
  BY Nombres DEF CpuSinSafa, Vivo, otros, InvConexiones, ConexionesOK
<1> QED
  BY <1>1, CaeConexiones

LEMMA DespacharACaidaConexiones ==
    ASSUME InvConexiones, DespacharACaida
    PROVE  InvConexiones'
<1>1. /\ "SAFA" \in lanzados /\ Cae("SAFA") /\ UNCHANGED otros
      /\ saludando' \in {saludando, Nadie} /\ muertes' \in 0 .. MaxMuertes
  BY DEF DespacharACaida, Vivo, otros, InvConexiones, ConexionesOK
<1> QED
  BY <1>1, CaeConexiones
-----------------------------------------------------------------------------
(* The transfers *)

LEMMA DespacharConexiones ==
    ASSUME InvConexiones, NEW c, NEW d, NEW p, Despachar(c, d, p)
    PROVE  InvConexiones'
<1>1. UNCHANGED <<caidos, sistema>> /\ Vivo("DAM") /\ Listo("DAM")
  BY DEF Despachar, AbrirPath, Ocioso
<1> QED
  BY <1>1, NadaConexiones

LEMMA EscribirConexiones ==
    ASSUME InvConexiones, NEW p, EscribirEnMDJ(p)
    PROVE  InvConexiones'
<1>1. UNCHANGED <<caidos, sistema>> /\ dam' = dam
  BY DEF EscribirEnMDJ, Consola
<1> QED
  BY <1>1, NadaConexiones DEF InvConexiones, TransferenciaConDAM

(* A step of a transfer may end FM9, or the DAM, whose transfer ends too. *)
LEMMA PasoDeTransferencia ==
    ASSUME PasoDAM
    PROVE  /\ dam.en # "libre" /\ caidos \subseteq caidos'
           /\ caidos' \subseteq caidos \cup {"DAM", "FM9"}
           /\ dam'.en = "libre" \/ ("DAM" \in caidos' => "DAM" \in caidos)
<1>0. DamLibre.en = "libre"
  BY DEF DamLibre
<1>1. ASSUME NEW dir, Cargar(dir)
      PROVE  caidos' \in {caidos, caidos \cup {"FM9"}}
  BY <1>1 DEF Cargar, CargarParteEnMemoria, CargarPartePaginada, CaeFM9
<1>2. ASSUME NEW ok, Informar(ok)
      PROVE  caidos' \in {caidos, caidos \cup {"DAM"}} /\ dam' = DamLibre
  BY <1>2 DEF Informar, CaeDAM
<1>3. CASE PedirDatos \/ Medir
  BY <1>3 DEF PedirDatos, Medir
<1>4. CASE CargarFragmento
  <2>1. dam.en = "carga"
    BY <1>4 DEF CargarFragmento
  <2>2. caidos' \in {caidos, caidos \cup {"FM9"}}
    BY <1>1, <1>4 DEF CargarFragmento
  <2> QED
    BY <2>1, <2>2
<1>5. CASE CargarUltimo
  <2>1. dam.en = "ultima"
    BY <1>5 DEF CargarUltimo
  <2>2. caidos' \in {caidos, caidos \cup {"FM9"}}
    BY <1>1, <1>5 DEF CargarUltimo
  <2> QED
    BY <2>1, <2>2
<1>6. CASE CargarSinFM9
  BY <1>0, <1>6 DEF CargarSinFM9, CaeDAM
<1>7. CASE InformarExito \/ InformarFallo
  BY <1>0, <1>2, <1>7 DEF InformarExito, InformarFallo
<1> QED
  BY <1>3, <1>4, <1>5, <1>6, <1>7 DEF PasoDAM

LEMMA TransferirConexiones ==
    ASSUME InvConexiones, Transferir
    PROVE  InvConexiones'
<1> USE Nombres
<1>1. /\ dam.en # "libre" /\ caidos \subseteq caidos'
      /\ caidos' \subseteq caidos \cup {"DAM", "FM9"}
      /\ dam'.en = "libre" \/ ("DAM" \in caidos' => "DAM" \in caidos)
      /\ cola' = [s \in Servidores |-> IF s \in caidos' \ caidos THEN <<>> ELSE cola[s]]
      /\ UNCHANGED <<lanzados, paso, servidor, cuenta, conocidas, saludando, muertes>>
  BY PasoDeTransferencia DEF Transferir
<1>2. Vivo("DAM") /\ Listo("DAM") /\ "FM9" \in lanzados /\ "DAM" \in lanzados
  <2>1. Vivo("DAM") /\ Listo("DAM") /\ paso["DAM"] \in 1 .. 7
    BY <1>1 DEF InvConexiones, TransferenciaConDAM, ConexionesOK
  <2>2. paso["DAM"] = 7
    BY <2>1, PasoDelDAM
  <2> QED
    BY <2>1, <2>2 DEF InvConexiones, DAMSaludado, Vivo
<1>3. /\ \A s \in Servidores : cola'[s] \in {cola[s], <<>>}
      /\ cola'["MDJ"] = cola["MDJ"] /\ cola'["SAFA"] = cola["SAFA"]
      /\ "FM9" \in caidos' \ caidos => cola'["FM9"] = <<>>
      /\ "FM9" \notin caidos' \ caidos => cola'["FM9"] = cola["FM9"]
  BY <1>1 DEF InvConexiones, ConexionesOK
<1>4. ConexionesOK'
  <2>1. cola' \in [Servidores -> Seq(Clientes)] /\ cola'["DAM"] \in Seq(Cpus)
    BY <1>1 DEF InvConexiones, ConexionesOK
  <2> QED
    BY <1>1, <1>2, <2>1 DEF InvConexiones, ConexionesOK
<1>5. TransferenciaConDAM'
  BY <1>1, <1>2 DEF TransferenciaConDAM, Vivo, Listo, En
<1>6. DAMSaludado' /\ CpusSaludadas'
  BY <1>1 DEF InvConexiones, DAMSaludado, CpusSaludadas, Listo, En
<1>7. ColasOK'
  BY <1>1, <1>3, ColasCortas DEF InvConexiones, ColasOK
<1> QED
  BY <1>4, <1>5, <1>6, <1>7 DEF InvConexiones
-----------------------------------------------------------------------------
(* The invariant, and what follows from it *)

LEMMA PasoConexiones == InvConexiones /\ [SistemaNext]_todo => InvConexiones'
<1> SUFFICES ASSUME InvConexiones, [SistemaNext]_todo PROVE InvConexiones'
  OBVIOUS
<1>1. ASSUME NEW p \in Servidores \cup Cpus, Lanzar(p) \/ Matar(p)
      PROVE  InvConexiones'
  BY <1>1, LanzarConexiones, MatarConexiones
<1>2. CASE Relanzar
  BY <1>2, RelanzarConexiones
<1>3. ASSUME NEW c \in Cpus, Conectar(c) \/ SaludoPerdido(c) \/ CpuSinSafa(c)
      PROVE  InvConexiones'
  BY <1>3, Nombres, ConectarConexiones, SaludoPerdidoConexiones, CpuSinSafaConexiones
<1>4. CASE AceptarMDJ \/ NotarMDJ
  BY <1>4, AceptarMDJConexiones, NotarMDJConexiones
<1>5. CASE PasoFM9
  BY <1>5, AceptarFM9Conexiones, AtenderCpuFM9Conexiones, TomarCpuPorDAMConexiones,
     NotarFM9Conexiones DEF PasoFM9
<1>6. CASE AceptarSAFA
  BY <1>6, AceptarSAFAConexiones
<1>7. CASE HiloDelDAM
  BY <1>7, Nombres, ConectarConexiones, SaludoPerdidoConexiones, AceptarCpuConexiones,
     SaludarCpuConexiones, NotarCpuConexiones, TransferirConexiones DEF HiloDelDAM
<1>8. ASSUME NEW c \in Cpus, NEW d \in Pids, NEW p \in Paths, Despachar(c, d, p)
      PROVE  InvConexiones'
  BY <1>8, DespacharConexiones
<1>9. CASE DespacharACaida
  BY <1>9, DespacharACaidaConexiones
<1>10. ASSUME NEW p \in Paths, EscribirEnMDJ(p)
       PROVE  InvConexiones'
  BY <1>10, EscribirConexiones
<1>11. CASE UNCHANGED todo
  <2>1. UNCHANGED <<caidos, sistema>> /\ dam' = dam
    BY <1>11 DEF todo, vars
  <2> QED
    BY <2>1, NadaConexiones DEF InvConexiones, TransferenciaConDAM
<1> QED
  BY <1>1, <1>2, <1>3, <1>4, <1>5, <1>6, <1>7, <1>8, <1>9, <1>10, <1>11 DEF SistemaNext

(* The invariant of the connections, in whatever order the five programs    *)
(* start, are greeted, fall and are killed.                                 *)
THEOREM InvarianteDeConexiones == SistemaSpec => []InvConexiones
<1>1. SistemaInit => InvConexiones
  BY InicioConexiones
<1>2. InvConexiones /\ [SistemaNext]_todo => InvConexiones'
  BY PasoConexiones
<1> QED
  BY <1>1, <1>2, PTL DEF SistemaSpec

(* FM9 takes the first client that connects for the DAM (comunicarse_con_dam *)
(* of FM9), and no CPU is ever that client.                                  *)
THEOREM FM9EsperaAlDAM == SistemaSpec => []NingunaCpuPorDAM
<1>1. InvConexiones => NingunaCpuPorDAM
  BY ColasCortas DEF InvConexiones, ColasOK, NingunaCpuPorDAM
<1> QED
  BY <1>1, InvarianteDeConexiones, PTL

(* When the DAM takes CPUs, MDJ and SAFA have greeted it, and FM9 too if it  *)
(* runs; when a CPU takes processes, SAFA and the DAM know it if they run.   *)
THEOREM TodosPresentados == SistemaSpec => []Presentados
<1>1. InvConexiones => Presentados
  <2> SUFFICES ASSUME InvConexiones PROVE Presentados
    OBVIOUS
  <2>1. Escucha("DAM") =>
          /\ servidor["MDJ"] = "sirve"
          /\ Vivo("FM9") => servidor["FM9"] = "sirve"
          /\ "DAM" \notin ToSet(cola["SAFA"])
    <3> SUFFICES ASSUME Escucha("DAM")
                 PROVE  /\ servidor["MDJ"] = "sirve"
                        /\ Vivo("FM9") => servidor["FM9"] = "sirve"
                        /\ "DAM" \notin ToSet(cola["SAFA"])
      OBVIOUS
    <3>1. "DAM" \notin caidos /\ Listo("DAM") /\ paso["DAM"] \in 1 .. 7
      BY Nombres DEF Escucha, Vivo, InvConexiones, ConexionesOK
    <3>2. paso["DAM"] = 7
      BY <3>1, PasoDelDAM
    <3> QED
      BY <3>1, <3>2 DEF InvConexiones, ConexionesOK, DAMSaludado, ColasOK, Vivo
  <2>2. ASSUME NEW c \in Cpus, Vivo(c), Listo(c)
        PROVE  /\ Vivo("SAFA") => c \in cuenta
               /\ Vivo("DAM") => c \in conocidas
    <3>1. paso[c] \in 1 .. 6
      BY Nombres DEF InvConexiones, ConexionesOK
    <3>2. paso[c] = 6
      BY <2>2, <3>1, PasoDeLaCPU
    <3> QED
      BY <3>2 DEF InvConexiones, CpusSaludadas, Vivo
  <2> QED
    BY <2>1, <2>2 DEF Presentados
<1> QED
  BY <1>1, InvarianteDeConexiones, PTL
-----------------------------------------------------------------------------
(* The memory of FM9, in the whole system *)

(* A step of the system is one of a transfer, or touches nothing a transfer *)
(* uses but the processes that run, and the transfer of a DAM that ends.    *)
LEMMA PasoDeSistema ==
    ASSUME [SistemaNext]_todo
    PROVE  \/ [Next]_vars
           \/ UNCHANGED datos /\ caidos \subseteq caidos' /\ dam' \in {dam, DamLibre}
<1> DEFINE Ajeno == UNCHANGED datos /\ caidos \subseteq caidos' /\ dam' \in {dam, DamLibre}
<1>1. ASSUME NEW p, Cae(p)
      PROVE  caidos \subseteq caidos' /\ dam' \in {dam, DamLibre}
  BY <1>1 DEF Cae
<1>2. ASSUME UNCHANGED vars PROVE Ajeno
  BY <1>2 DEF vars, datos
<1>3. ASSUME NEW p, Lanzar(p) \/ Matar(p) PROVE Ajeno
  BY <1>1, <1>2, <1>3 DEF Lanzar, Matar
<1>4. ASSUME NEW p, Conectar(p) \/ SaludoPerdido(p) \/ CpuSinSafa(p) PROVE Ajeno
  BY <1>1, <1>4 DEF Conectar, SaludoPerdido, CpuSinSafa
<1>5. ASSUME Relanzar \/ AceptarMDJ \/ NotarMDJ \/ AceptarSAFA \/ AceptarCpu PROVE Ajeno
  BY <1>2, <1>5 DEF Relanzar, AceptarMDJ, NotarMDJ, AceptarSAFA, AceptarCpu
<1>6. ASSUME PasoFM9 PROVE Ajeno
  <2>1. CASE AceptarFM9 \/ AtenderCpuFM9
    BY <1>2, <2>1 DEF AceptarFM9, AtenderCpuFM9
  <2>2. CASE TomarCpuPorDAM \/ NotarFM9
    BY <1>1, <2>2 DEF TomarCpuPorDAM, NotarFM9
  <2> QED
    BY <1>6, <2>1, <2>2 DEF PasoFM9
<1>7. ASSUME SaludarCpu \/ NotarCpu \/ DespacharACaida PROVE Ajeno
  BY <1>1, <1>7 DEF SaludarCpu, NotarCpu, DespacharACaida
<1>8. ASSUME Transferir PROVE [Next]_vars
  BY <1>8 DEF Transferir, Next
<1>9. ASSUME NEW c \in Cpus, NEW d \in Pids, NEW p \in Paths, Despachar(c, d, p)
      PROVE  [Next]_vars
  BY <1>9 DEF Despachar, Next
<1>10. ASSUME NEW p \in Paths, EscribirEnMDJ(p) PROVE [Next]_vars
  BY <1>10 DEF EscribirEnMDJ, Next
<1>11. ASSUME UNCHANGED todo PROVE [Next]_vars
  BY <1>11 DEF todo
<1>12. ASSUME HiloDelDAM PROVE Ajeno \/ [Next]_vars
  BY <1>4, <1>5, <1>7, <1>8, <1>12 DEF HiloDelDAM
<1> HIDE DEF Ajeno
<1>13. Ajeno \/ [Next]_vars
  BY <1>3, <1>4, <1>5, <1>6, <1>7, <1>9, <1>10, <1>11, <1>12 DEF SistemaNext
<1> QED
  BY <1>13 DEF Ajeno

LEMMA PasoMemoriaDeSistema == InvMemoria /\ [SistemaNext]_todo => InvMemoria'
<1> SUFFICES ASSUME InvMemoria, [SistemaNext]_todo PROVE InvMemoria'
  OBVIOUS
<1>1. CASE [Next]_vars
  BY <1>1, PasoMemoria
<1>2. CASE UNCHANGED datos /\ caidos \subseteq caidos' /\ dam' \in {dam, DamLibre}
  <2>1. dam' \in Dam
    BY <1>2, DamLibreOK DEF InvMemoria, TypeOK, Dam
  <2>2. FM9TypeOK'
    BY <1>2, NadaDeFM9 DEF InvMemoria, TypeOK, datos
  <2>3. TypeOK'
    BY <1>2, <2>1, <2>2 DEF InvMemoria, TypeOK, Dam, datos
  <2>4. UnHueco' /\ MemoriaRepartida' /\ MarcosRepartidos'
    BY <1>2, NadaDeLaMemoria DEF InvMemoria, datos, memoriaFM9, fm9, paginacion
  <2> QED
    BY <2>3, <2>4 DEF InvMemoria
<1> QED
  BY <1>1, <1>2, PasoDeSistema

(* The types of a transfer, and how the lines and the frames of FM9 are     *)
(* shared, whatever starts, falls or is killed during a transfer.           *)
THEOREM MemoriaEnElSistema == SistemaSpec => []InvMemoria
<1>1. SistemaInit => InvMemoria
  BY InicioMemoria DEF SistemaInit
<1> QED
  BY <1>1, PasoMemoriaDeSistema, PTL DEF SistemaSpec

(* Every variable of the five programs keeps its type. *)
THEOREM TiposDelSistema == SistemaSpec => []SistemaTypeOK
<1>1. InvMemoria /\ InvConexiones => SistemaTypeOK
  BY DEF InvMemoria, InvConexiones, ConexionesOK, SistemaTypeOK
<1> QED
  BY <1>1, MemoriaEnElSistema, InvarianteDeConexiones, PTL

(* The free memory is the end of the memory, in one hole. *)
THEOREM HuecoDelSistema == SistemaSpec => []UnHueco
<1>1. InvMemoria => UnHueco
  BY DEF InvMemoria
<1> QED
  BY <1>1, MemoriaEnElSistema, PTL

(* The lines of the memory, under pure segmentation: in one segment of one  *)
(* process, or in the hole.                                                 *)
THEOREM LineasDelSistema == SistemaSpec => []MemoriaRepartida
<1>1. InvMemoria => MemoriaRepartida
  BY DEF InvMemoria
<1> QED
  BY <1>1, MemoriaEnElSistema, PTL

(* The frames, under paged segmentation: free or in one page of one segment *)
THEOREM PaginasDelSistema == SistemaSpec => []MarcosRepartidos
<1>1. InvMemoria => MarcosRepartidos
  BY DEF InvMemoria
<1> QED
  BY <1>1, MemoriaEnElSistema, PTL

-----------------------------------------------------------------------------
(* What a transfer has done so far, in the whole system *)

LEMMA PasoFragmentosDeSistema ==
    ASSUME TransferSize <= TamanioBloques
    PROVE  InvFragmentos /\ [SistemaNext]_todo => InvFragmentos'
<1> SUFFICES ASSUME InvFragmentos, [SistemaNext]_todo PROVE InvFragmentos'
  OBVIOUS
<1>1. CASE [Next]_vars
  BY <1>1, PasoFragmentos
<1>2. CASE UNCHANGED datos /\ caidos \subseteq caidos' /\ dam' \in {dam, DamLibre}
  <2>1. UNCHANGED <<memoriaFM9, archivos, dtb, abiertos, manchados>>
    BY <1>2 DEF datos
  <2>2. TypeOK'
    <3>1. dam' \in Dam
      BY <1>2, DamLibreOK DEF InvFragmentos, TypeOK, Dam
    <3>2. FM9TypeOK'
      BY <2>1, NadaDeFM9 DEF InvFragmentos, TypeOK
    <3> QED  BY <1>2, <3>1, <3>2 DEF InvFragmentos, TypeOK, Dam, datos
  <2> SUFFICES ASSUME "FM9" \notin caidos' PROVE Fragmentos'
    BY <2>2 DEF InvFragmentos
  <2>3. Fragmentos
    BY <1>2 DEF InvFragmentos
  <2>4. UnSegmento' /\ Limpios' /\ Entradas'
    BY <2>1, <2>3, SinCargar DEF Fragmentos, Limpios, Entradas
  <2>5. CASE dam' = dam
    <3>1. Bloqueado' /\ (EnCurso' <=> EnCurso)
      BY <2>1, <2>3, <2>5 DEF Fragmentos, Bloqueado, EnCurso, PideBien, MideBien, CargaBien,
          UltimaBien, InformaBien, Acumula, ParteBien, Exacto, Limpio, EntradaBien, Integro,
          Tamanio, Desde, memoriaFM9, fm9, paginacion
    <3> QED  BY <2>1, <2>3, <2>4, <2>5, <3>1 DEF Fragmentos
  <2>6. CASE dam' = DamLibre
    <3>1. dam'.en = "libre"
      BY <2>6 DEF DamLibre
    <3> QED  BY <2>4, <3>1 DEF Fragmentos, Bloqueado, EnCurso
  <2> QED  BY <1>2, <2>5, <2>6
<1> QED  BY <1>1, <1>2, PasoDeSistema

LEMMA FragmentosEnElSistema ==
    ASSUME TransferSize <= TamanioBloques
    PROVE  SistemaSpec => []InvFragmentos
<1>1. SistemaInit => InvFragmentos
  BY InicioFragmentos DEF SistemaInit
<1>2. InvFragmentos /\ [SistemaNext]_todo => InvFragmentos'
  BY PasoFragmentosDeSistema
<1> QED  BY <1>1, <1>2, PTL DEF SistemaSpec

(* Whatever starts, falls or is killed, what FM9 holds of the file in       *)
(* transfer is what the DAM counts as delivered.                            *)
THEOREM OrdenEnElSistema ==
    ASSUME TransferSize <= TamanioBloques
    PROVE  SistemaSpec => []FragmentosEnOrden
<1>1. SistemaSpec => []InvFragmentos
  BY FragmentosEnElSistema
<1> QED  BY <1>1, LosFragmentosEnOrden, PTL

(* Whatever starts, falls or is killed, the address SAFA receives is that   *)
(* of the entry FM9 made for the file.                                      *)
THEOREM DireccionEnElSistema ==
    ASSUME TransferSize <= TamanioBloques
    PROVE  SistemaSpec => []DireccionDelSegmento
<1>1. SistemaSpec => []InvFragmentos
  BY FragmentosEnElSistema
<1> QED  BY <1>1, LaDireccionDelSegmento, PTL

LEMMA PasoLecturaDeSistema ==
    ASSUME TransferSize <= TamanioBloques
    PROVE  InvLectura /\ [SistemaNext]_todo => InvLectura'
<1> SUFFICES ASSUME InvLectura, [SistemaNext]_todo PROVE InvLectura'
  OBVIOUS
<1>1. CASE [Next]_vars
  BY <1>1, PasoLectura
<1>2. CASE UNCHANGED datos /\ caidos \subseteq caidos' /\ dam' \in {dam, DamLibre}
  <2>1. UNCHANGED <<memoriaFM9, dtb, abiertos, manchados>>
    BY <1>2 DEF datos
  <2>2. InvMemoria' /\ InvFragmentos'
    BY PasoMemoriaDeSistema, PasoFragmentosDeSistema DEF InvLectura
  <2> SUFFICES ASSUME "FM9" \notin caidos' PROVE Lectura'
    BY <2>2 DEF InvLectura
  <2>3. Lectura
    BY <1>2 DEF InvLectura
  <2>4. CASE dam' = dam
    BY <2>1, <2>3, <2>4, NadaLectura
  <2>5. CASE dam' = DamLibre
    <3>1. dam'.en = "libre"
      BY <2>5 DEF DamLibre
    <3>2. NuncaAbierto' /\ NombresEnCurso'
      BY <3>1 DEF NuncaAbierto, NombresEnCurso
    <3>3. NombresAbiertos'
      BY <2>1, <2>3, NadaDeLosNombres DEF Lectura, NombresAbiertos, Abierto
    <3>4. Copias'
      BY <2>1, <2>3, <3>1, NadaDeLosNombres DEF Lectura, Copias
    <3> QED  BY <3>2, <3>3, <3>4 DEF Lectura
  <2> QED  BY <1>2, <2>4, <2>5
<1> QED  BY <1>1, <1>2, PasoDeSistema

(* Whatever starts, falls or is killed, a file that nobody touched on its   *)
(* way is read from FM9 as it was in MDJ, as long as FM9 runs.              *)
THEOREM LecturaEnElSistema ==
    ASSUME TransferSize <= TamanioBloques
    PROVE  SistemaSpec => []LoAbiertoSeLee
<1>1. SistemaInit => InvLectura
  BY InicioLectura DEF SistemaInit
<1>2. InvLectura /\ [SistemaNext]_todo => InvLectura'
  BY PasoLecturaDeSistema
<1>3. SistemaSpec => []InvLectura
  BY <1>1, <1>2, PTL DEF SistemaSpec
<1> QED  BY <1>3, LoAbierto, PTL
=============================================================================
