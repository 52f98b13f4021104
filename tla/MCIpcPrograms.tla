--------------------------- MODULE MCIpcPrograms ---------------------------
(* Small instances of IpcPrograms, one program at a time: a ring of two     *)
(* places that five items go through twice, with two kills; two producers  *)
(* and two consumers of three items; two senders and two servers of a      *)
(* queue for two messages; pipes whose names are made twice; a printer and *)
(* two storers of two segments; three writers and two readers of a text;   *)
(* two setters of a segment of three bytes, and five messages of two       *)
(* lengths.                                                                *)
EXTENDS IpcPrograms
=============================================================================
