SPECIFICATION ServidorSpec
CONSTANTS
    p1 = p1
    p2 = p2
    Paths = {p1, p2}
    CantidadBloques = 4
    TamanioBloques = 2
    Tamanios = {0, 3}
    Rangos <- Lecturas
    ConArchivoBin = {0, 1, 2}
    MaxParadas = 1
INVARIANTS ServidorTypeOK BloquesSinCompartir OcupadosEnDisco LecturaDeUnaVersion UnLectorDelSocket DAMConSalida ConsolaConSalida InvServidor
PROPERTIES SinFugas EscrituraCubierta ReservaDeBloquesCumplida
CONSTRAINT HastaElDanio
CHECK_DEADLOCK FALSE
