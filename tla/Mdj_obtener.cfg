SPECIFICATION Spec
CONSTANTS
    p1 = p1
    p2 = p2
    Paths = {p1, p2}
    CantidadBloques = 4
    TamanioBloques = 2
    Tamanios = {0, 1, 3}
    Rangos <- Lecturas
    ConArchivoBin = {}
    MaxParadas = 1
INVARIANTS LoGuardadoSeObtiene
CHECK_DEADLOCK FALSE
