SPECIFICATION SistemaSpec
CONSTANTS
    script = script
    corto = corto
    roto = roto
    d1 = d1
    d2 = d2
    nada = nada
    nulo = nulo
    fuera = fuera
    noExiste = noExiste
    Pids = {d1, d2}
    Paths = {script, corto, roto}
    Bytes <- Caracteres
    FinDeLinea <- Barra
    CantidadLineas = 6
    TamanioMaxLinea = 3
    Vacio = nada
    Nulo = nulo
    Fuera = fuera
    NoExiste = noExiste
    Contenido <- EnMDJ
    Ilegibles = {roto}
    Agregado <- Linea
    TransferSize = 2
    TamanioBloques = 3
    Basura = "?"
    LineasPorPagina = 2
    Modos = {"SEG", "SPA", "TPI"}
    Cpus = {c1, c2}
    c1 = c1
    c2 = c2
    nadie = nadie
    Nadie = nadie
    Primera <- ElScript
    MaxMuertes = 1
    MaxConsola = 1
    Codigo <- Ascii
    Numero <- Ids
    Nombre <- Rutas
INVARIANTS SistemaTypeOK InvConexiones NingunaCpuPorDAM Presentados MensajesDelDAM UnHueco MemoriaRepartida MarcosRepartidos LoAbiertoSeLee DireccionDelSegmento FragmentosEnOrden
PROPERTIES AperturaRespondida ArranqueTermina CaidaEnCadena
CHECK_DEADLOCK FALSE
