----------------------------- MODULE MCServidorMdj -----------------------------
(* Instance of ServidorMdj for TLC, with the messages its threads read *)
EXTENDS ServidorMdj, MCMdj, Protocolo

(* What Protocolo says of every message, for the values of its Muestras *)
ASSUME TablaDeMensajes == MensajesEnteros /\ MensajesRotos
=============================================================================
