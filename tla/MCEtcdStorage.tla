--------------------------- MODULE MCEtcdStorage ---------------------------
(***************************************************************************)
(* Small instances of EtcdStorage.                                         *)
(***************************************************************************)
EXTENDS EtcdStorage
=============================================================================
