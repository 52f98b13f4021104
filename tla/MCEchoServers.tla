--------------------------- MODULE MCEchoServers ---------------------------
(* Small instances of EchoServers.  Three clients, who connect again       *)
(* without end, for two slots: slots are filled, freed and reused, the     *)
(* count of the select server passes SIZE, a client finds the servers full *)
(* and a client turned away keeps a descriptor.  The clients are           *)
(* interchangeable.                                                        *)
EXTENDS EchoServers, TLC

Symmetry == Permutations(Clients)
=============================================================================
