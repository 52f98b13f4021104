---------------------------- MODULE EchoServers ----------------------------
(***************************************************************************)
(* The three echo servers of Application/io_multi.  They listen on the     *)
(* same kind of socket and only one of them is started: which says which   *)
(* one, and the tables of the others stay as they are.                     *)
(***************************************************************************)
EXTENDS SelectServer, PollServer, EpollServer

VARIABLE which

sockets    == <<cl, eof, pc, i>>
selectOnly == <<conns, sent, last, clifds, cli_cnt, readfds, line, leaks>>
pollOnly   == <<data, hang, clientfds, revents, maxi, nready, fresh, polled>>
epollOnly  == <<unread, rdlist, events, before, buf, reply>>
vars       == <<which, sockets, selectOnly, pollOnly, epollOnly>>

Init ==
  /\ SelectInit /\ PollInit /\ EpollInit
  /\ which \in {"select", "poll", "epoll"}
  /\ which # "poll" => revents = [s \in PollSlots |-> FALSE]

RunSelect ==
  which = "select" /\ SelectNext /\ UNCHANGED <<which, pollOnly, epollOnly>>

RunPoll ==
  which = "poll" /\ PollNext /\ UNCHANGED <<which, selectOnly, epollOnly>>

RunEpoll ==
  which = "epoll" /\ EpollNext /\ UNCHANGED <<which, selectOnly, pollOnly>>

Next == RunSelect \/ RunPoll \/ RunEpoll

Safety == Init /\ [][Next]_vars

(* A server is a running process; the clients may stop at any point.  The  *)
(* listen queue of the epoll server is first in, first out, so accept()    *)
(* passes no connection over for ever.  A poll server whose accept is      *)
(* interrupted for ever is not considered.                                 *)
Spec ==
  /\ Safety
  /\ WF_vars(which = "select" /\ SelectStep /\ UNCHANGED <<which, pollOnly, epollOnly>>)
  /\ WF_vars(which = "epoll" /\ EpollStep /\ UNCHANGED <<which, selectOnly, pollOnly>>)
  /\ \A c \in Clients :
       SF_vars(which = "epoll" /\ handle_accept(c) /\ UNCHANGED <<which, selectOnly, pollOnly>>)
  /\ WF_vars(which = "poll" /\ PollStep /\ UNCHANGED <<which, selectOnly, epollOnly>>)
  /\ SF_vars(which = "poll" /\ poll_accepted /\ UNCHANGED <<which, selectOnly, epollOnly>>)

-----------------------------------------------------------------------------
(* Properties. *)

(* Every variable of the server that runs has its type. *)
TypeOK ==
  /\ which = "select" => SelectTypeOK
  /\ which = "poll" => PollTypeOK
  /\ which = "epoll" => EpollTypeOK

Holds(table, c) == {s \in DOMAIN table : table[s] = c}

(* The tables of the select and the poll server agree with the             *)
(* connections: a client has a slot exactly while its connection is open,  *)
(* and only one, so that no connection is served twice or forgotten.       *)
SlotsMatch ==
  \A c \in Clients :
    /\ which = "select" =>
         Cardinality(Holds(clifds, c)) = (IF cl[c] = "open" THEN 1 ELSE 0)
    /\ which = "poll" =>
         Cardinality(Holds(clientfds, c)) = (IF cl[c] = "open" THEN 1 ELSE 0)

(* The connections of the select server as a client sees them: one that    *)
(* the full server has left alone still waits.                             *)
AllClosed == [c \in Clients |-> "closed"]

SelectLink ==
  IF which # "select" THEN AllClosed
  ELSE [c \in Clients |-> IF cl[c] = "off" THEN "closed"
                          ELSE IF cl[c] = "open" THEN "served" ELSE "waiting"]

SelectAnswer == [c \in Clients |-> [got |-> last[c].got, from |-> last[c].from]]

Service == INSTANCE EchoService WITH Lengths <- LineBytes, Nul <- NUL,
                                     link <- SelectLink, asked <- sent, answer <- SelectAnswer

(* The select server is an echo service, although one buffer serves the    *)
(* clients of a pass, slots are freed and taken again during it and its    *)
(* count is never taken back: it answers only clients it has accepted,     *)
(* each message once and by its own bytes, and closes no connection whose  *)
(* message it has not answered.                                            *)
IsEchoService == Service!Spec

(* accept() fails although the process has descriptors left. *)
AcceptGivesNothing ==
  which = "select" /\ ~Exhausted /\ (accept_fails \/ \E c \in Clients : accept_aborted(c))

(* A client of the select server with a slot is answered, or found closed, *)
(* although connections are accepted first and never stop coming, unless   *)
(* the server ended, its loops left the table, or a connection waits for   *)
(* which the process has no descriptor: select() then returns at once, for *)
(* ever, and no client is read.  A stream without end of connections that  *)
(* accept() fails to take would starve the clients as well.                *)
SelectServed ==
  \/ []<><<AcceptGivesNothing>>_vars
  \/ \A c \in Clients :
       (which = "select" /\ cl[c] = "open" /\ sent[c] > 0) ~>
         \/ sent[c] = 0
         \/ pc \in {"ended", "set_beyond", "recv_beyond"}
         \/ Exhausted /\ Queued # {}

(* A client of the poll server that has sent something is answered unless  *)
(* the server exited or is stuck in read() on a fresh, silent client whose *)
(* revents it never polled.                                                *)
PollServed ==
  \A c \in Clients :
    (which = "poll" /\ cl[c] = "open" /\ data[c]) ~>
      \/ ~data[c]
      \/ pc = "exited"
      \/ pc = "loop" /\ i = fresh /\ ~PollReadable(clientfds[i])

(* A connection to the epoll server is accepted and what a client sends is *)
(* read, however many descriptors are ready at a time, unless the server   *)
(* ended or a read filled the buffer.                                      *)
EpollServed ==
  \A c \in Clients :
    (which = "epoll" /\ (cl[c] = "queued" \/ (cl[c] = "open" /\ unread[c] > 0)))
      ~> (cl[c] # "queued" /\ unread[c] = 0) \/ pc \in {"exited", "undefined"}

(* Whichever server runs, no client waits for ever for what the tables,    *)
(* bounds and lists of that server should make it see.                     *)
ClientsServed == SelectServed /\ PollServed /\ EpollServed
=============================================================================
