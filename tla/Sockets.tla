------------------------------ MODULE Sockets ------------------------------
(***************************************************************************)
(* What the echo servers of Application/io_multi have in common: clients   *)
(* that connect to a listening socket, and one server process that waits   *)
(* (in select, poll or epoll_wait), accepts and serves.                    *)
(***************************************************************************)
EXTENDS Naturals, FiniteSets

CONSTANT Clients

None   == "none"      \* no client: an empty slot
NUL    == "nul"       \* a byte that is no client's text
Listen == "listen"    \* the listening socket

ASSUME FiniteAssumption  == IsFiniteSet(Clients)
ASSUME ClientsAssumption == {None, NUL, Listen} \cap Clients = {}

VARIABLES
  cl,      \* each connection: "off", "queued" for accept, "open", or "leaked"
  eof,     \* the client has closed its end
  pc,      \* where the server stands
  i        \* the index of its loop

(* Nobody has connected and the server waits. *)
SocketsInit ==
  /\ cl = [c \in Clients |-> "off"]
  /\ eof = [c \in Clients |-> FALSE]
  /\ pc = "wait"
  /\ i = 0

Queued == {c \in Clients : cl[c] = "queued"}

(* connect() succeeds as soon as the connection is in the listen queue. *)
connect(c) ==
  /\ cl[c] = "off"
  /\ cl' = [cl EXCEPT ![c] = "queued"]
  /\ eof' = [eof EXCEPT ![c] = FALSE]

(* Mutant: the highest free slot is taken. *)
LastFree(table, s) ==
  table[s] = None /\ \A t \in DOMAIN table : t > s => table[t] # None

(* The slot that the search for a free one ends at. *)
FirstFree(table, s) ==
  table[s] = None /\ \A t \in DOMAIN table : t < s => table[t] # None
=============================================================================
