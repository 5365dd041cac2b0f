--------------------------------- MODULE MCMdj ---------------------------------
(* Instances of Mdj for TLC *)
EXTENDS Mdj, TLC

CONSTANTS p1, p2

(* <<offset, size>>: from the start, from the second block, past the end *)
Lecturas == {<<0, 3>>, <<2, 2>>}

(* what happens after the file system is broken is of no interest *)
HastaElDanio == Sano
=============================================================================
