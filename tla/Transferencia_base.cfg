SPECIFICATION Spec
CONSTANTS
    script = script
    corto = corto
    roto = roto
    d1 = d1
    d2 = d2
    nada = nada
    nulo = nulo
    fuera = fuera
    noExiste = noExiste
    Pids = {d1, d2}
    Paths = {script, corto, roto}
    Bytes <- Caracteres
    FinDeLinea <- Barra
    CantidadLineas = 3
    TamanioMaxLinea = 3
    Vacio = nada
    Nulo = nulo
    Fuera = fuera
    NoExiste = noExiste
    Contenido <- EnMDJ
    Ilegibles = {roto}
    Agregado <- Linea
    TransferSize = 2
    TamanioBloques = 3
    Basura = "?"
    LineasPorPagina = 1
    Modos = {"SEG"}
    MaxConsola = 0
INVARIANTS BaseDondeSeCopio
CHECK_DEADLOCK FALSE
