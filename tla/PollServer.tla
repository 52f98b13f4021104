----------------------------- MODULE PollServer -----------------------------
(***************************************************************************)
(* Application/io_multi/poll: an echo server around poll().  Slot 0 of     *)
(* clientfds is the listening socket; the others hold clients.  revents of *)
(* a slot is only written by poll() for the first maxi + 1 slots, and the  *)
(* array starts uninitialised.                                             *)
(***************************************************************************)
EXTENDS Sockets

CONSTANT OPEN_MAX

ASSUME OpenMaxAssumption == OPEN_MAX \in Nat \ {0}

PollSlots == 1 .. OPEN_MAX - 1

VARIABLES
  data,       \* the client has sent something the server has not read
  hang,       \* "no", or how the client left: "eof" or "rst"
  clientfds,  \* slot -> client, or None
  revents,    \* slot -> POLLIN is set
  maxi,
  nready,
  fresh,      \* the slot filled in this round of the loop, 0 if none
  polled      \* maxi at the last poll()

pollClients == <<cl, eof, data, hang>>
pollServer  == <<pc, i, clientfds, revents, maxi, nready, fresh, polled>>
pollVars    == <<cl, eof, data, hang, pc, i, clientfds, revents, maxi, nready,
                 fresh, polled>>

PollInit ==
  /\ SocketsInit
  /\ data = [c \in Clients |-> FALSE]
  /\ hang = [c \in Clients |-> "no"]
  /\ clientfds = [s \in PollSlots |-> None]
  /\ revents \in [PollSlots -> BOOLEAN]
  /\ maxi = 0
  /\ nready = 0
  /\ fresh = 0
  /\ polled = 0

-----------------------------------------------------------------------------
(* The clients (poll/client.c): what they send comes from their input, so  *)
(* they may stay silent; they leave by shutdown, exit or a reset.          *)

PollConnect(c) ==
  /\ connect(c)
  /\ data' = [data EXCEPT ![c] = FALSE]
  /\ hang' = [hang EXCEPT ![c] = "no"]
  /\ UNCHANGED pollServer

PollSend(c) ==
  /\ cl[c] # "off" /\ hang[c] = "no" /\ ~data[c]
  /\ data' = [data EXCEPT ![c] = TRUE]
  /\ UNCHANGED <<cl, eof, hang>>
  /\ UNCHANGED pollServer

PollHangup(c, how) ==
  /\ cl[c] # "off" /\ hang[c] = "no"
  /\ hang' = [hang EXCEPT ![c] = how]
  /\ UNCHANGED <<cl, eof, data>>
  /\ UNCHANGED pollServer

PollReadable(c) == data[c] \/ hang[c] # "no"

-----------------------------------------------------------------------------
(* The server. *)

ReadySlots == {s \in PollSlots : s <= maxi /\ clientfds[s] # None /\ PollReadable(clientfds[s])}

(* Mutant: revents of an unused slot keeps its value. *)
PollReventsSticky(s) ==
  IF s <= maxi /\ clientfds[s] # None THEN s \in ReadySlots ELSE revents[s]

(* poll() clears revents of the slots it is given that hold no descriptor. *)
PollRevents(s) == IF s <= maxi THEN s \in ReadySlots ELSE revents[s]

poll_returns ==
  /\ pc = "wait"
  /\ Queued # {} \/ ReadySlots # {}
  /\ revents' = [s \in PollSlots |-> PollRevents(s)]
  /\ nready' = Cardinality(ReadySlots) + (IF Queued # {} THEN 1 ELSE 0)
  /\ fresh' = 0
  /\ polled' = maxi
  /\ i' = 1
  /\ pc' = IF Queued # {} THEN "accept" ELSE "loop"
  /\ UNCHANGED <<clientfds, maxi>>
  /\ UNCHANGED pollClients

(* perror and exit(1): poll or accept failed. *)
PollExits ==
  /\ pc \in {"wait", "accept"}
  /\ pc' = "exited"
  /\ UNCHANGED <<clientfds, revents, maxi, nready, fresh, polled, i>>
  /\ UNCHANGED pollClients

(* Mutant: maxi follows the last slot that was filled. *)
MaxiLast(s) == s

NewMaxi(s) == IF s > maxi THEN s ELSE maxi

poll_accept(c) ==
  /\ pc = "accept"
  /\ cl[c] = "queued"
  /\ \E s \in PollSlots :
       /\ FirstFree(clientfds, s)
       /\ clientfds' = [clientfds EXCEPT ![s] = c]
       /\ maxi' = NewMaxi(s)
       /\ fresh' = s
  /\ cl' = [cl EXCEPT ![c] = "open"]
  /\ nready' = nready - 1
  /\ pc' = IF nready' = 0 THEN "wait" ELSE "loop"
  /\ UNCHANGED <<eof, data, hang, revents, polled, i>>

poll_interrupted ==
  /\ pc = "accept"
  /\ pc' = "wait"
  /\ UNCHANGED <<clientfds, revents, maxi, nready, fresh, polled, i>>
  /\ UNCHANGED pollClients

(* "too many clients.": the server gives up. *)
poll_too_many ==
  /\ pc = "accept"
  /\ \A s \in PollSlots : clientfds[s] # None
  /\ pc' = "exited"
  /\ UNCHANGED <<clientfds, revents, maxi, nready, fresh, polled, i>>
  /\ UNCHANGED pollClients

(* accept() returns a connection, for which there is a slot or not. *)
poll_accepted == poll_too_many \/ \E c \in Clients : poll_accept(c)

PollTurn == IF i < maxi THEN i' = i + 1 /\ UNCHANGED pc
                        ELSE i' = 1 /\ pc' = "wait"

connection_skips ==
  /\ pc = "loop"
  /\ clientfds[i] = None \/ ~revents[i]
  /\ PollTurn
  /\ UNCHANGED <<clientfds, revents, maxi, nready, fresh, polled>>
  /\ UNCHANGED pollClients

(* read() blocks until there is something to read.  A reset is reported    *)
(* once, as -1, which is written back in vain; the next read sees the end. *)
connection_echoes(c) ==
  /\ pc = "loop"
  /\ clientfds[i] = c /\ revents[i]
  /\ data[c] \/ hang[c] = "rst"
  /\ data' = [data EXCEPT ![c] = FALSE]
  /\ hang' = [hang EXCEPT ![c] = IF ~data[c] THEN "eof" ELSE @]
  /\ PollTurn
  /\ UNCHANGED <<cl, eof, clientfds, revents, maxi, nready, fresh, polled>>

connection_closes(c) ==
  /\ pc = "loop"
  /\ clientfds[i] = c /\ revents[i]
  /\ ~data[c] /\ hang[c] = "eof"
  /\ clientfds' = [clientfds EXCEPT ![i] = None]
  /\ cl' = [cl EXCEPT ![c] = "off"]
  /\ PollTurn
  /\ UNCHANGED <<eof, data, hang, revents, maxi, nready, fresh, polled>>

PollStep ==
  \/ poll_returns \/ connection_skips \/ poll_too_many
  \/ \E c \in Clients : poll_accept(c) \/ connection_echoes(c) \/ connection_closes(c)

PollNext ==
  \/ PollStep \/ PollExits \/ poll_interrupted
  \/ \E c \in Clients : \/ PollConnect(c) \/ PollSend(c)
                        \/ \E how \in {"eof", "rst"} : PollHangup(c, how)

(* The server is a running process; an accept that is interrupted for ever *)
(* is not considered.                                                      *)
PollSpec == /\ PollInit /\ [][PollNext]_pollVars
        /\ WF_pollVars(PollStep)
        /\ SF_pollVars(poll_accepted)

-----------------------------------------------------------------------------
(* Properties. *)

(* Every variable has its type. *)
PollTypeOK ==
  /\ cl \in [Clients -> {"off", "queued", "open"}]
  /\ data \in [Clients -> BOOLEAN]
  /\ hang \in [Clients -> {"no", "eof", "rst"}]
  /\ clientfds \in [PollSlots -> Clients \cup {None}]
  /\ revents \in [PollSlots -> BOOLEAN]
  /\ maxi \in 0 .. OPEN_MAX - 1
  /\ nready \in 0 .. OPEN_MAX
  /\ fresh \in 0 .. OPEN_MAX - 1
  /\ polled \in 0 .. OPEN_MAX - 1
  /\ pc \in {"wait", "accept", "loop", "exited"}
  /\ i \in 0 .. OPEN_MAX

(* The server waits in read() at most for a client whose slot it filled in *)
(* this very round and had never polled before: only there is revents what *)
(* the stack happened to hold.  A reused slot is safe, because poll()      *)
(* cleared its revents while it was empty.                                 *)
WaitsOnlyOnFresh ==
  pc = "loop" /\ clientfds[i] # None /\ revents[i] /\ ~PollReadable(clientfds[i])
    => i = fresh /\ fresh > polled
=============================================================================
