---------------------------- MODULE EpollServer ----------------------------
(***************************************************************************)
(* Application/io_multi/epoll: an echo server around a level-triggered     *)
(* epoll.  One buffer serves every client: do_read fills it, echoes        *)
(* strlen(buf) bytes of it, and do_epoll clears strlen(buf) bytes of it    *)
(* after all the events of one epoll_wait.                                 *)
(*                                                                         *)
(* A byte is the client it came from, or NUL.  The clients send text       *)
(* without a NUL, so a message is the number of its bytes.                 *)
(***************************************************************************)
EXTENDS Sockets, Sequences

CONSTANTS MAXSIZE,      \* size of buf
          EPOLLEVENTS   \* events one epoll_wait returns at most

ASSUME MaxSizeAssumption == MAXSIZE \in Nat \ {0}
ASSUME EventsAssumption  == EPOLLEVENTS \in Nat \ {0}

VARIABLES
  unread,   \* bytes a client has sent that the server has not read
  rdlist,   \* the kernel's ready list of the epoll instance
  events,   \* the events still to be handled: descriptor, EPOLLIN or not
  before,   \* clients echoed since the last epoll_wait
  buf,
  reply     \* the last echo since then: whose, what it sent, what it got

epollVars == <<cl, eof, pc, i, unread, rdlist, events, before, buf, reply>>

Bytes == 1 .. MAXSIZE
Empty == [k \in Bytes |-> NUL]
NoEcho == [to |-> None, sent |-> 0, got |-> {}, from |-> {}, before |-> {}]

EpollInit ==
  /\ SocketsInit
  /\ unread = [c \in Clients |-> 0]
  /\ rdlist = <<>>
  /\ events = <<>>
  /\ before = {}
  /\ buf = Empty
  /\ reply = NoEcho

-----------------------------------------------------------------------------
(* The clients and the kernel. *)

In(f) == IF f = Listen THEN Queued # {} ELSE unread[f] > 0 \/ eof[f]

(* The ready list has a descriptor once at most. *)
Without(q, f) ==
  IF \E j \in DOMAIN q : q[j] = f
  THEN LET j == CHOOSE k \in DOMAIN q : q[k] = f
       IN  SubSeq(q, 1, j - 1) \o SubSeq(q, j + 1, Len(q))
  ELSE q

Appended(q, f) == IF \E j \in DOMAIN q : q[j] = f THEN q ELSE Append(q, f)

EpollConnect(c) ==
  /\ connect(c)
  /\ unread' = [unread EXCEPT ![c] = 0]
  /\ rdlist' = Appended(rdlist, Listen)
  /\ UNCHANGED <<i, events, before, buf, reply, pc>>

(* A line of the client's input.  What is sent before the server reads     *)
(* arrives as one piece.                                                   *)
EpollSend(c, n) ==
  /\ cl[c] # "off" /\ ~eof[c]
  /\ unread[c] + n <= MAXSIZE
  /\ unread' = [unread EXCEPT ![c] = @ + n]
  /\ UNCHANGED <<i, cl, eof, rdlist, events, before, buf, reply, pc>>

(* The client closes its socket; a reset also discards what it sent. *)
EpollHangup(c, keeps) ==
  /\ cl[c] # "off" /\ ~eof[c]
  /\ eof' = [eof EXCEPT ![c] = TRUE]
  /\ unread' = [unread EXCEPT ![c] = IF keeps THEN @ ELSE 0]
  /\ UNCHANGED <<i, cl, rdlist, events, before, buf, reply, pc>>

-----------------------------------------------------------------------------
(* The server. *)

(* epoll_wait: the first EPOLLEVENTS entries of the ready list.  A client  *)
(* is registered for EPOLLOUT too and is therefore always ready; entries   *)
(* that are ready go to the end of the list.                               *)
epoll_wait ==
  /\ pc = "wait"
  /\ rdlist # <<>>
  /\ LET k     == IF Len(rdlist) < EPOLLEVENTS THEN Len(rdlist) ELSE EPOLLEVENTS
         first == SubSeq(rdlist, 1, k)
         taken == IF In(Listen) THEN first ELSE Without(first, Listen)
     IN /\ events' = [j \in 1 .. Len(taken) |-> [fd |-> taken[j], in |-> In(taken[j])]]
        /\ rdlist' = SubSeq(rdlist, k + 1, Len(rdlist)) \o taken
  /\ before' = {}
  /\ reply' = NoEcho
  /\ pc' = "handle"
  /\ UNCHANGED <<i, cl, unread, eof, buf>>

(* An event without EPOLLIN is passed over. *)
handle_events_skips ==
  /\ pc = "handle" /\ events # <<>>
  /\ ~Head(events).in
  /\ events' = Tail(events)
  /\ UNCHANGED <<i, cl, unread, eof, rdlist, before, buf, reply, pc>>

handle_accept(c) ==
  /\ pc = "handle" /\ events # <<>>
  /\ Head(events).fd = Listen /\ Head(events).in
  /\ cl[c] = "queued"
  /\ cl' = [cl EXCEPT ![c] = "open"]
  /\ rdlist' = Append(rdlist, c)
  /\ events' = Tail(events)
  /\ UNCHANGED <<i, unread, eof, before, buf, reply, pc>>

(* "accept error": the server ends. *)
handle_accept_fails ==
  /\ pc = "handle" /\ events # <<>>
  /\ Head(events).fd = Listen /\ Head(events).in
  /\ pc' = "exited"
  /\ UNCHANGED <<i, cl, unread, eof, rdlist, events, before, buf, reply>>

(* read() returns 0 or -1. *)
do_read_closes(c) ==
  /\ pc = "handle" /\ events # <<>>
  /\ Head(events).fd = c /\ Head(events).in
  /\ unread[c] = 0
  /\ cl' = [cl EXCEPT ![c] = "off"]
  /\ rdlist' = Without(rdlist, c)
  /\ events' = Tail(events)
  /\ UNCHANGED <<i, unread, eof, before, buf, reply, pc>>

(* What lies in buf after a read of n bytes from client c. *)
Filled(b, c, n) == [k \in Bytes |-> IF k <= n THEN c ELSE b[k]]

(* The bytes that strlen counts. *)
Text(b) == {k \in Bytes : \A j \in 1 .. k : b[j] # NUL}

do_read(c) ==
  /\ pc = "handle" /\ events # <<>>
  /\ Head(events).fd = c /\ Head(events).in
  /\ unread[c] \in 1 .. MAXSIZE - 1
  /\ buf' = Filled(buf, c, unread[c])
  /\ reply' = [to |-> c, sent |-> unread[c], got |-> Text(buf'),
               from |-> {buf'[k] : k \in Text(buf')}, before |-> before]
  /\ unread' = [unread EXCEPT ![c] = 0]
  /\ before' = before \cup {c}
  /\ events' = Tail(events)
  /\ UNCHANGED <<i, cl, eof, rdlist, pc>>

(* A read that fills buf leaves no NUL: strlen runs beyond it. *)
do_read_overruns(c) ==
  /\ pc = "handle" /\ events # <<>>
  /\ Head(events).fd = c /\ Head(events).in
  /\ unread[c] = MAXSIZE
  /\ pc' = "undefined"
  /\ UNCHANGED <<i, cl, unread, eof, rdlist, events, before, buf, reply>>

(* Mutant: nothing is cleared. *)
NotCleared(b) == b

(* memset(buf, 0, strlen(buf)) *)
Cleared(b) == [k \in Bytes |-> IF k \in Text(b) THEN NUL ELSE b[k]]

(* All the events are handled. *)
Handled ==
  /\ pc = "handle" /\ events = <<>>
  /\ buf' = Cleared(buf)
  /\ pc' = "wait"
  /\ UNCHANGED <<i, cl, unread, eof, rdlist, events, before, reply>>

EpollStep ==
  \/ epoll_wait \/ handle_events_skips \/ Handled
  \/ \E c \in Clients : \/ handle_accept(c) \/ do_read(c)
                        \/ do_read_closes(c) \/ do_read_overruns(c)

EpollNext ==
  \/ EpollStep \/ handle_accept_fails
  \/ \E c \in Clients : \/ EpollConnect(c)
                        \/ \E n \in Bytes : EpollSend(c, n)
                        \/ \E keeps \in BOOLEAN : EpollHangup(c, keeps)

(* The server is a running process; the clients may stop at any point. *)
EpollSpec == EpollInit /\ [][EpollNext]_epollVars /\ WF_epollVars(EpollStep)

-----------------------------------------------------------------------------
(* Properties. *)

(* Every variable has its type. *)
EpollTypeOK ==
  /\ cl \in [Clients -> {"off", "queued", "open"}]
  /\ unread \in [Clients -> 0 .. MAXSIZE]
  /\ eof \in [Clients -> BOOLEAN]
  /\ rdlist \in Seq(Clients \cup {Listen})
  /\ events \in Seq([fd : Clients \cup {Listen}, in : BOOLEAN])
  /\ before \in SUBSET Clients
  /\ buf \in [Bytes -> Clients \cup {NUL}]
  /\ reply \in [to : Clients \cup {None}, sent : 0 .. MAXSIZE, got : SUBSET Bytes,
                from : SUBSET (Clients \cup {NUL}), before : SUBSET Clients]
  /\ pc \in {"wait", "handle", "exited", "undefined"}

(* The text in buf is never followed by more bytes after its NUL, so that  *)
(* clearing strlen(buf) bytes is enough to leave buf empty whenever the    *)
(* server waits.                                                           *)
CleanAtWait == pc = "wait" => buf = Empty

(* The bytes in an echo are the client's own or those of a client that was *)
(* echoed before it after the same epoll_wait; the first client of a batch *)
(* gets exactly what it sent, and every client at least that.              *)
EchoFromBatch ==
  reply.sent > 0 =>
    /\ 1 .. reply.sent \subseteq reply.got
    /\ reply.from \subseteq {reply.to} \cup reply.before
    /\ reply.before = {} => reply.got = 1 .. reply.sent

(* do_read announces "read message is : %s" and writes the same text back: *)
(* the message that was read is what the client gets.                      *)
EpollEchoExact ==
  reply.sent > 0 => reply.got = 1 .. reply.sent /\ reply.from \subseteq {reply.to}
=============================================================================
