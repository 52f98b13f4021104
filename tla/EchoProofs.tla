----------------------------- MODULE EchoProofs -----------------------------
(***************************************************************************)
(* Theorems about EpollServer, and about EchoServers whichever server      *)
(* runs: every variable of it keeps its type, the slots of the select and  *)
(* the poll server are those of the open connections, and what was proved  *)
(* of each server holds of the composition.                                *)
(***************************************************************************)
EXTENDS EchoServers, TableServersProofs

(* The variables of the server that runs take its steps. *)
LEMMA OneServer ==
  ASSUME [Next]_vars
  PROVE  /\ which' = which
         /\ which = "select" => [SelectNext]_selectVars
         /\ which = "poll" => [PollNext]_pollVars
         /\ which = "epoll" => [EpollNext]_epollVars
BY DEF Next, vars, sockets, selectOnly, pollOnly, epollOnly, RunSelect, RunPoll, RunEpoll,
       selectVars, pollVars, epollVars

-----------------------------------------------------------------------------
(* select *)

(* A slot holds an open connection, which is in no other slot; every open  *)
(* connection has one.                                                     *)
ClifdsOpen ==
  /\ \A s \in Slots : clifds[s] # None => cl[clifds[s]] = "open"
  /\ \A s, t \in Slots : clifds[s] # None /\ clifds[s] = clifds[t] => s = t
  /\ \A c \in Clients : cl[c] = "open" => \E s \in Slots : clifds[s] = c

LEMMA ClifdsStep ==
  ASSUME SelectTypeOK, ClifdsOpen, [SelectNext]_selectVars
  PROVE  ClifdsOpen'
<1> USE ClientsAssumption, SizeAssumption
<1>0. /\ cl \in [Clients -> {"off", "queued", "open", "leaked"}]
      /\ clifds \in [Slots -> Clients \cup {None}] /\ None \notin Clients
  BY DEF SelectTypeOK
<1>1. ASSUME NEW c \in Clients, accept_client_proc(c) PROVE ClifdsOpen'
  <2>1. PICK s \in Slots : clifds[s] = None /\ clifds' = [clifds EXCEPT ![s] = c]
    BY <1>1 DEF accept_client_proc, FirstFree
  <2>2. cl[c] = "queued" /\ cl' = [cl EXCEPT ![c] = "open"]
    BY <1>1 DEF accept_client_proc
  <2>3. /\ clifds'[s] = c /\ \A t \in Slots : t # s => clifds'[t] = clifds[t]
        /\ cl'[c] = "open" /\ \A d \in Clients : d # c => cl'[d] = cl[d]
    BY <1>0, <2>1, <2>2
  <2>4. \A t \in Slots : clifds[t] # c
    BY <1>0, <2>2 DEF ClifdsOpen
  <2>5. ASSUME NEW d \in Clients, cl'[d] = "open" PROVE \E t \in Slots : clifds'[t] = d
    <3>1. CASE d = c
      BY <2>3, <3>1
    <3>2. CASE d # c
      <4>1. PICK t \in Slots : clifds[t] = d
        BY <2>3, <2>5, <3>2 DEF ClifdsOpen
      <4>2. t # s
        BY <1>0, <2>1, <4>1
      <4> QED BY <2>3, <4>1, <4>2
    <3> QED BY <3>1, <3>2
  <2> QED BY <1>0, <2>1, <2>3, <2>4, <2>5 DEF ClifdsOpen
<1>2. ASSUME NEW c \in Clients, recv_closes(c) PROVE ClifdsOpen'
  <2>1. /\ i \in Slots /\ clifds[i] = c
        /\ clifds' = [clifds EXCEPT ![i] = None] /\ cl' = [cl EXCEPT ![c] = "off"]
    BY <1>2 DEF recv_closes
  <2>2. /\ clifds'[i] = None /\ \A t \in Slots : t # i => clifds'[t] = clifds[t]
        /\ cl'[c] = "off" /\ \A d \in Clients : d # c => cl'[d] = cl[d]
    BY <1>0, <2>1
  <2>3. \A t \in Slots : t # i => clifds[t] # c
    BY <1>0, <2>1 DEF ClifdsOpen
  <2> QED BY <1>0, <2>1, <2>2, <2>3 DEF ClifdsOpen
<1>3. ASSUME NEW c \in Clients, NEW new, UNCHANGED clifds, cl[c] # "open", new # "open",
             cl' = [cl EXCEPT ![c] = new]
      PROVE  ClifdsOpen'
  BY <1>0, <1>3 DEF ClifdsOpen
<1>4. ASSUME NEW c \in Clients,
             \/ accept_aborted(c) \/ \E n \in LineBytes : SelectConnect(c, n)
      PROVE  ClifdsOpen'
  BY <1>3, <1>4 DEF accept_aborted, SelectConnect, connect, selectServer
<1>5. CASE UNCHANGED <<cl, clifds>>
  BY <1>5 DEF ClifdsOpen
<1>6. ASSUME NEW c \in Clients, accept_too_many(c) PROVE ClifdsOpen'
  <2> DEFINE new == IF eof[c] THEN "off" ELSE "leaked"
  <2>1. UNCHANGED clifds /\ cl[c] # "open" /\ cl' = [cl EXCEPT ![c] = new]
    BY <1>6 DEF accept_too_many
  <2>2. new # "open"
    OBVIOUS
  <2> HIDE DEF new
  <2> QED BY <1>3, <2>1, <2>2
<1>7. ASSUME NEW c \in Clients, SelectHangup(c) PROVE ClifdsOpen'
  <2>1. UNCHANGED clifds
    BY <1>7 DEF SelectHangup, selectServer
  <2>2. CASE cl[c] = "leaked"
    <3>1. cl' = [cl EXCEPT ![c] = "off"] /\ cl[c] # "open"
      BY <1>0, <1>7, <2>2 DEF SelectHangup
    <3> QED BY <1>3, <2>1, <3>1
  <2>3. CASE cl[c] # "leaked"
    <3>1. UNCHANGED cl
      BY <1>0, <1>7, <2>3 DEF SelectHangup
    <3> QED BY <1>5, <2>1, <3>1
  <2> QED BY <2>2, <2>3
<1> QED BY <1>1, <1>2, <1>4, <1>5, <1>6, <1>7
        DEF SelectNext, SelectStep, selectVars, selectServer, select_returns, Overrun, select_fails,
            accept_fails, recv_skips, recv_reads_padding, recv_overruns, recv_echoes, SendAgain

-----------------------------------------------------------------------------
(* poll *)

(* The rest of the type, and that accept is only tried when poll() said so.*)
PollCounts ==
  /\ nready \in 0 .. OPEN_MAX /\ (pc = "accept" => nready > 0)
  /\ fresh <= OPEN_MAX - 1 /\ polled <= OPEN_MAX - 1 /\ i <= OPEN_MAX
  /\ pc \in {"wait", "accept", "loop", "exited"}

OpenHeld == \A c \in Clients : cl[c] = "open" => \E s \in PollSlots : clientfds[s] = c

LEMMA PollCountsStep ==
  ASSUME PollInv, PollCounts, [PollNext]_pollVars
  PROVE  PollCounts'
<1> USE OpenMaxAssumption
<1>0. maxi \in Nat /\ maxi <= OPEN_MAX - 1 /\ i \in Nat /\ InTable
  BY DEF PollInv, PollType
<1>1. CASE poll_returns
  <2>1. IsFiniteSet(ReadySlots) /\ Cardinality(ReadySlots) \in 0 .. OPEN_MAX - 1
    <3>1. ReadySlots \subseteq 1 .. OPEN_MAX - 1
      BY DEF ReadySlots, PollSlots
    <3>2. IsFiniteSet(1 .. OPEN_MAX - 1) /\ Cardinality(1 .. OPEN_MAX - 1) = OPEN_MAX - 1
      BY FS_Interval
    <3>3. IsFiniteSet(ReadySlots) /\ Cardinality(ReadySlots) <= OPEN_MAX - 1
      BY <3>1, <3>2, FS_Subset
    <3> QED BY <3>3, FS_CardinalityType
  <2>2. nready' \in 0 .. OPEN_MAX /\ (pc' = "accept" => nready' > 0)
    BY <1>1, <2>1 DEF poll_returns
  <2> QED BY <1>0, <1>1, <2>2 DEF poll_returns, pollClients, PollCounts
<1>2. ASSUME NEW c \in Clients, poll_accept(c) PROVE PollCounts'
  BY <1>0, <1>2 DEF poll_accept, PollCounts, PollSlots
<1>3. CASE PollTurn /\ pc = "loop" /\ UNCHANGED <<maxi, nready, fresh, polled>>
  BY <1>0, <1>3 DEF PollTurn, PollCounts, InTable
<1>4. CASE PollExits \/ poll_interrupted \/ poll_too_many
  BY <1>4 DEF PollExits, poll_interrupted, poll_too_many, PollCounts, pollClients
<1>5. ASSUME NEW c \in Clients, PollConnect(c) PROVE PollCounts'
  BY <1>5 DEF PollConnect, connect, pollServer, PollCounts
<1>6. CASE UNCHANGED <<pc, i, maxi, nready, fresh, polled>>
  BY <1>6 DEF PollCounts
<1> QED BY <1>1, <1>2, <1>3, <1>4, <1>5, <1>6
        DEF PollNext, PollStep, pollVars, pollServer, pollClients, connection_skips, connection_echoes,
            connection_closes, PollSend, PollHangup

LEMMA OpenHeldStep ==
  ASSUME PollInv, OpenHeld, [PollNext]_pollVars
  PROVE  OpenHeld'
<1> USE ClientsAssumption, OpenMaxAssumption
<1>0. /\ cl \in [Clients -> {"off", "queued", "open"}]
      /\ clientfds \in [PollSlots -> Clients \cup {None}] /\ None \notin Clients
  BY DEF PollInv, PollType
<1>1. ASSUME NEW c \in Clients, poll_accept(c) PROVE OpenHeld'
  <2>1. PICK s \in PollSlots : clientfds[s] = None /\ clientfds' = [clientfds EXCEPT ![s] = c]
    BY <1>1 DEF poll_accept, FirstFree
  <2>2. cl' = [cl EXCEPT ![c] = "open"]
    BY <1>1 DEF poll_accept
  <2> QED BY <1>0, <2>1, <2>2 DEF OpenHeld
<1>2. ASSUME NEW c \in Clients, connection_closes(c) PROVE OpenHeld'
  <2>1. /\ i \in PollSlots /\ clientfds[i] = c
        /\ clientfds' = [clientfds EXCEPT ![i] = None] /\ cl' = [cl EXCEPT ![c] = "off"]
    BY <1>2 DEF connection_closes, PollInv, PollType, InTable, PollSlots
  <2> QED BY <1>0, <2>1 DEF OpenHeld
<1>3. ASSUME NEW c \in Clients, PollConnect(c) PROVE OpenHeld'
  BY <1>0, <1>3 DEF PollConnect, connect, pollServer, OpenHeld
<1>4. CASE UNCHANGED <<cl, clientfds>>
  BY <1>4 DEF OpenHeld
<1> QED BY <1>1, <1>2, <1>3, <1>4
        DEF PollNext, PollStep, pollVars, pollServer, pollClients, poll_returns, PollExits, poll_interrupted,
            poll_too_many, connection_skips, connection_echoes, PollSend, PollHangup
-----------------------------------------------------------------------------
(* epoll: the shared buffer, for every number of clients, buffer size and  *)
(* number of events. *)

Msg == [to : Clients \cup {None}, sent : 0 .. MAXSIZE, got : SUBSET Bytes,
        from : SUBSET (Clients \cup {NUL}), before : SUBSET Clients]

(* The part of TypeOK that the argument needs. *)
BufType ==
  /\ unread \in [Clients -> Nat]
  /\ before \in SUBSET Clients
  /\ buf \in [Bytes -> Clients \cup {NUL}]
  /\ reply \in Msg

(* The bytes of the buffer that are not NUL are its first ones. *)
Prefix(b) == \A k \in Bytes, j \in Bytes : j < k /\ b[j] = NUL => b[k] = NUL

(* They come from the clients echoed since the last epoll_wait. *)
OfBatch == \A k \in Bytes : buf[k] \in before \cup {NUL}

(* The strengthening of CleanAtWait and EchoFromBatch. *)
BufInv == BufType /\ Prefix(buf) /\ CleanAtWait /\ OfBatch /\ EchoFromBatch

(* memset of strlen(buf) bytes empties a buffer whose text is a prefix. *)
LEMMA ClearedEmpty ==
  ASSUME NEW b \in [Bytes -> Clients \cup {NUL}], Prefix(b)
  PROVE  Cleared(b) = Empty
<1>1. ASSUME NEW k \in Bytes PROVE (IF k \in Text(b) THEN NUL ELSE b[k]) = NUL
  <2>1. CASE k \in Text(b)
    BY <2>1
  <2>2. CASE k \notin Text(b)
    <3>1. PICK j \in 1 .. k : b[j] = NUL
      BY <2>2 DEF Text
    <3>2. j \in Bytes /\ (j = k \/ j < k)
      BY <3>1, MaxSizeAssumption DEF Bytes
    <3> QED BY <2>2, <3>1, <3>2 DEF Prefix
  <2> QED BY <2>1, <2>2
<1> QED BY <1>1 DEF Cleared, Empty

(* A read into a buffer whose text is a prefix leaves one. *)
LEMMA FilledPrefix ==
  ASSUME NEW b \in [Bytes -> Clients \cup {NUL}], Prefix(b),
         NEW c \in Clients, NEW n \in Nat
  PROVE  /\ Filled(b, c, n) \in [Bytes -> Clients \cup {NUL}]
         /\ Prefix(Filled(b, c, n))
<1>1. Filled(b, c, n) \in [Bytes -> Clients \cup {NUL}]
  BY DEF Filled
<1>2. ASSUME NEW k \in Bytes, NEW j \in Bytes, j < k, Filled(b, c, n)[j] = NUL
      PROVE  Filled(b, c, n)[k] = NUL
  <2>1. ~(j <= n) /\ b[j] = NUL
    BY <1>2, ClientsAssumption DEF Filled, NUL
  <2>2. ~(k <= n)
    BY <1>2, <2>1, MaxSizeAssumption DEF Bytes
  <2> QED BY <1>2, <2>1, <2>2 DEF Prefix, Filled
<1> QED BY <1>1, <1>2 DEF Prefix

(* The text of the buffer after a read: it has all that was read, and      *)
(* nothing else if the buffer was empty.                                   *)
LEMMA FilledText ==
  ASSUME NEW b \in [Bytes -> Clients \cup {NUL}],
         NEW c \in Clients, NEW n \in 1 .. MAXSIZE - 1
  PROVE  /\ 1 .. n \subseteq Text(Filled(b, c, n))
         /\ b = Empty => Text(Filled(b, c, n)) = 1 .. n
<1> n \in Nat /\ MAXSIZE \in Nat /\ n < MAXSIZE
  BY MaxSizeAssumption
<1>1. ASSUME NEW k \in 1 .. n PROVE k \in Text(Filled(b, c, n))
  <2>1. k \in Bytes /\ \A j \in 1 .. k : j \in Bytes /\ j <= n
    BY DEF Bytes
  <2>2. \A j \in 1 .. k : Filled(b, c, n)[j] = c
    BY <2>1 DEF Filled
  <2>3. c # NUL
    BY ClientsAssumption
  <2> QED BY <2>1, <2>2, <2>3 DEF Text
<1>2. ASSUME b = Empty, NEW k \in Text(Filled(b, c, n)) PROVE k \in 1 .. n
  <2>1. k \in Bytes /\ k \in 1 .. k /\ Filled(b, c, n)[k] # NUL
    BY <1>2, MaxSizeAssumption DEF Text, Bytes
  <2>2. k <= n
    BY <1>2, <2>1 DEF Filled, Empty
  <2> QED BY <2>1, <2>2 DEF Bytes
<1> QED BY <1>1, <1>2

(* A step that leaves the server's buffer and echoes alone. *)
LEMMA Quiet ==
  ASSUME BufInv, UNCHANGED <<before, buf, reply>>, unread' \in [Clients -> Nat],
         pc' = "wait" => pc = "wait"
  PROVE  BufInv'
BY DEF BufInv, BufType, Prefix, CleanAtWait, OfBatch, EchoFromBatch, Empty, Bytes

(* Every step keeps the invariant. *)
LEMMA BufStep ==
  ASSUME BufInv, [EpollNext]_epollVars
  PROVE  BufInv'
<1> USE DEF BufInv
<1>1. CASE epoll_wait
  <2>1. /\ buf = Empty /\ before' = {} /\ reply' = NoEcho /\ UNCHANGED <<unread, buf>>
        /\ pc' = "handle"
    BY <1>1 DEF epoll_wait, CleanAtWait
  <2>2. OfBatch'
    BY <2>1 DEF OfBatch, Empty
  <2>3. NoEcho \in Msg
    BY MaxSizeAssumption DEF NoEcho, Msg
  <2>4. EchoFromBatch'
    BY <2>1 DEF EchoFromBatch, NoEcho
  <2> QED BY <2>1, <2>2, <2>3, <2>4 DEF BufType, Prefix, CleanAtWait, Bytes
<1>2. CASE handle_events_skips
  BY <1>2, Quiet DEF handle_events_skips, BufType
<1>3. CASE Handled
  <2>1. buf' = Empty
    BY <1>3, ClearedEmpty DEF Handled, BufType
  <2>2. UNCHANGED <<unread, before, reply>>
    BY <1>3 DEF Handled
  <2>3. BufType' /\ Prefix(buf)' /\ OfBatch' /\ CleanAtWait'
    BY <2>1, <2>2 DEF BufType, Prefix, OfBatch, CleanAtWait, Empty
  <2> QED BY <2>2, <2>3 DEF EchoFromBatch
<1>4. ASSUME NEW c \in Clients, handle_accept(c) PROVE BufInv'
  BY <1>4, Quiet DEF handle_accept, BufType
<1>5. ASSUME NEW c \in Clients, do_read(c) PROVE BufInv'
  <2> DEFINE n == unread[c]
             b == Filled(buf, c, n)
             m == [to |-> c, sent |-> n, got |-> Text(b), from |-> {b[k] : k \in Text(b)},
                   before |-> before]
  <2>1. /\ n \in 1 .. MAXSIZE - 1 /\ n \in Nat
        /\ buf' = b /\ before' = before \cup {c} /\ pc' = pc /\ pc = "handle"
        /\ unread' = [unread EXCEPT ![c] = 0]
        /\ reply' = m
    BY <1>5 DEF do_read, BufType
  <2>2. b \in [Bytes -> Clients \cup {NUL}] /\ Prefix(b)
    BY <2>1, FilledPrefix DEF BufType
  <2>3. 1 .. n \subseteq Text(b) /\ (buf = Empty => Text(b) = 1 .. n)
    BY <2>1, FilledText DEF BufType
  <2>4. \A k \in Bytes : b[k] \in before \cup {c, NUL}
    BY DEF OfBatch, Filled
  <2>5. m.from \subseteq {c} \cup before
    <3>1. \A k \in Text(b) : k \in Bytes /\ b[k] # NUL
      BY MaxSizeAssumption DEF Text, Bytes
    <3> QED BY <2>4, <3>1
  <2>6. before = {} => buf = Empty
    BY DEF OfBatch, BufType, Empty
  <2>7. m \in Msg
    <3>1. n \in 0 .. MAXSIZE
      BY <2>1, MaxSizeAssumption
    <3>2. Text(b) \in SUBSET Bytes
      BY DEF Text
    <3>3. m.from \in SUBSET (Clients \cup {NUL}) /\ before \in SUBSET Clients
      BY <2>5 DEF BufType
    <3> QED BY <3>1, <3>2, <3>3 DEF Msg
  <2>8. BufType'
    BY <2>1, <2>2, <2>7 DEF BufType
  <2>9. Prefix(buf)' /\ CleanAtWait'
    BY <2>1, <2>2 DEF CleanAtWait, Prefix
  <2>10. OfBatch'
    BY <2>1, <2>4 DEF OfBatch
  <2>11. EchoFromBatch'
    <3>1. m.to = c /\ m.sent = n /\ m.got = Text(b) /\ m.before = before
      OBVIOUS
    <3> HIDE DEF b, n, m
    <3> QED BY <2>1, <2>3, <2>5, <2>6, <3>1 DEF EchoFromBatch
  <2> QED BY <2>8, <2>9, <2>10, <2>11
<1>6. ASSUME NEW c \in Clients, do_read_closes(c) PROVE BufInv'
  BY <1>6, Quiet DEF do_read_closes, BufType
<1>7. ASSUME NEW c \in Clients, do_read_overruns(c) PROVE BufInv'
  BY <1>7, Quiet DEF do_read_overruns, BufType
<1>8. CASE handle_accept_fails
  BY <1>8, Quiet DEF handle_accept_fails, BufType
<1>9. ASSUME NEW c \in Clients, EpollConnect(c) PROVE BufInv'
  <2>1. unread' \in [Clients -> Nat] /\ UNCHANGED <<before, buf, reply, pc>>
    BY <1>9 DEF EpollConnect, BufType
  <2> QED BY <2>1, Quiet
<1>10. ASSUME NEW c \in Clients, NEW n \in Bytes, EpollSend(c, n) PROVE BufInv'
  <2>1. unread' \in [Clients -> Nat]
    BY <1>10, MaxSizeAssumption DEF EpollSend, BufType, Bytes
  <2> QED BY <1>10, <2>1, Quiet DEF EpollSend
<1>11. ASSUME NEW c \in Clients, NEW keeps \in BOOLEAN, EpollHangup(c, keeps) PROVE BufInv'
  <2>1. unread' \in [Clients -> Nat]
    BY <1>11 DEF EpollHangup, BufType
  <2> QED BY <1>11, <2>1, Quiet DEF EpollHangup
<1>12. CASE UNCHANGED epollVars
  BY <1>12, Quiet DEF epollVars, BufType
<1> QED BY <1>1, <1>2, <1>3, <1>4, <1>5, <1>6, <1>7, <1>8, <1>9, <1>10, <1>11, <1>12
        DEF EpollNext, EpollStep

(* The invariant holds throughout. *)
LEMMA EpollInitInv == EpollInit => BufInv
<1> SUFFICES ASSUME EpollInit PROVE BufInv
  OBVIOUS
<1>1. NoEcho \in Msg
  BY MaxSizeAssumption DEF NoEcho, Msg
<1>2. BufType
  BY <1>1 DEF EpollInit, SocketsInit, BufType, Empty
<1> QED BY <1>2 DEF EpollInit, SocketsInit, BufInv, Prefix, CleanAtWait, OfBatch, EchoFromBatch, Empty, NoEcho

LEMMA BufAlways == EpollSpec => []BufInv
<1>1. BufInv /\ [EpollNext]_epollVars => BufInv'
  BY BufStep
<1> QED BY EpollInitInv, <1>1, PTL DEF EpollSpec

(* memset(buf, 0, strlen(buf)) after a batch always empties the buffer:    *)
(* no byte of one batch is ever seen in the next.                          *)
THEOREM CleanAtWaitAlways == EpollSpec => []CleanAtWait
<1>1. BufInv => CleanAtWait
  BY DEF BufInv
<1> QED BY <1>1, BufAlways, PTL

(* An echo holds only bytes of its client and of those echoed before it in *)
(* the same batch.                                                         *)
THEOREM EchoFromBatchAlways == EpollSpec => []EchoFromBatch
<1>1. BufInv => EchoFromBatch
  BY DEF BufInv
<1> QED BY <1>1, BufAlways, PTL

-----------------------------------------------------------------------------
(* epoll: types *)

Fds    == Clients \cup {Listen}
Events == [fd : Fds, in : BOOLEAN]

LEMMA WithoutTyped ==
  ASSUME NEW S, NEW q \in Seq(S), NEW f
  PROVE  Without(q, f) \in Seq(S)
<1>1. CASE \E j \in DOMAIN q : q[j] = f
  <2> DEFINE j == CHOOSE k \in DOMAIN q : q[k] = f
  <2>1. j \in DOMAIN q
    BY <1>1
  <2>2. j \in 1 .. Len(q) /\ Len(q) \in Nat
    BY <2>1
  <2>3. Without(q, f) = SubSeq(q, 1, j - 1) \o SubSeq(q, j + 1, Len(q))
    BY <1>1 DEF Without
  <2> HIDE DEF j
  <2>4. SubSeq(q, 1, j - 1) \in Seq(S) /\ SubSeq(q, j + 1, Len(q)) \in Seq(S)
    BY <2>2
  <2> QED BY <2>3, <2>4
<1>2. CASE ~\E j \in DOMAIN q : q[j] = f
  BY <1>2 DEF Without
<1> QED BY <1>1, <1>2

LEMMA EpollTypeStep ==
  ASSUME EpollTypeOK, [EpollNext]_epollVars
  PROVE  EpollTypeOK'
<1> USE MaxSizeAssumption, EventsAssumption
<1>0. /\ rdlist \in Seq(Fds) /\ events \in Seq(Events) /\ Len(rdlist) \in Nat
      /\ unread \in [Clients -> 0 .. MAXSIZE] /\ eof \in [Clients -> BOOLEAN]
  BY DEF EpollTypeOK, Fds, Events
<1>1. \A f \in Fds : In(f) \in BOOLEAN
  BY <1>0, Zenon DEF In, Fds
<1>2. events # <<>> => Tail(events) \in Seq(Events) /\ Head(events) \in Events
  BY <1>0
<1>3. CASE epoll_wait
  <2> DEFINE k     == IF Len(rdlist) < EPOLLEVENTS THEN Len(rdlist) ELSE EPOLLEVENTS
             first == SubSeq(rdlist, 1, k)
             taken == IF In(Listen) THEN first ELSE Without(first, Listen)
  <2>1. /\ events' = [j \in 1 .. Len(taken) |-> [fd |-> taken[j], in |-> In(taken[j])]]
        /\ rdlist' = SubSeq(rdlist, k + 1, Len(rdlist)) \o taken
        /\ before' = {} /\ pc' = "handle" /\ UNCHANGED <<cl, unread, eof, buf>>
        /\ reply' = NoEcho
    BY <1>3 DEF epoll_wait
  <2>2. k \in Nat /\ k <= Len(rdlist)
    BY <1>0
  <2> HIDE DEF k
  <2>3. first \in Seq(Fds) /\ SubSeq(rdlist, k + 1, Len(rdlist)) \in Seq(Fds)
    BY <1>0, <2>2
  <2> HIDE DEF first
  <2>4. taken \in Seq(Fds)
    BY <2>3, WithoutTyped
  <2> HIDE DEF taken
  <2>5. rdlist' \in Seq(Fds)
    BY <2>1, <2>3, <2>4
  <2>6. Len(taken) \in Nat /\ \A j \in 1 .. Len(taken) : taken[j] \in Fds
    BY <2>4
  <2>7. \A j \in 1 .. Len(taken) : [fd |-> taken[j], in |-> In(taken[j])] \in Events
    BY <1>1, <2>6 DEF Events
  <2>8. events' \in Seq(Events)
    BY <2>1, <2>6, <2>7
  <2>9. NoEcho \in Msg
    BY DEF NoEcho, Msg
  <2> QED BY <2>1, <2>5, <2>8, <2>9 DEF EpollTypeOK, Fds, Events, Msg
<1>4. CASE handle_events_skips
  BY <1>2, <1>4 DEF handle_events_skips, EpollTypeOK, Events, Fds
<1>5. ASSUME NEW c \in Clients, handle_accept(c) PROVE EpollTypeOK'
  <2>1. rdlist' \in Seq(Fds)
    BY <1>0, <1>5 DEF handle_accept, Fds
  <2> QED BY <1>2, <1>5, <2>1 DEF handle_accept, EpollTypeOK, Events, Fds
<1>6. ASSUME NEW c \in Clients, do_read_closes(c) PROVE EpollTypeOK'
  <2>1. rdlist' \in Seq(Fds)
    BY <1>0, <1>6, WithoutTyped DEF do_read_closes
  <2> QED BY <1>2, <1>6, <2>1 DEF do_read_closes, EpollTypeOK, Events, Fds
<1>7. ASSUME NEW c \in Clients, do_read(c) PROVE EpollTypeOK'
  <2>1. buf' \in [Bytes -> Clients \cup {NUL}]
    BY <1>7 DEF do_read, Filled, EpollTypeOK
  <2>2. Text(buf') \subseteq Bytes /\ {buf'[k] : k \in Text(buf')} \subseteq Clients \cup {NUL}
    BY <2>1 DEF Text
  <2>3. reply' \in Msg
    <3>1. unread[c] \in 0 .. MAXSIZE /\ before \in SUBSET Clients
      BY DEF EpollTypeOK
    <3> QED BY <1>7, <2>2, <3>1 DEF do_read, Msg
  <2>4. unread' \in [Clients -> 0 .. MAXSIZE] /\ before' \in SUBSET Clients
    BY <1>7 DEF do_read, EpollTypeOK
  <2>5. events' \in Seq(Events)
    BY <1>2, <1>7 DEF do_read
  <2> QED BY <1>7, <2>1, <2>3, <2>4, <2>5 DEF do_read, EpollTypeOK, Events, Fds, Msg
<1>8. CASE Handled
  <2>1. buf' \in [Bytes -> Clients \cup {NUL}]
    BY <1>8 DEF Handled, Cleared, EpollTypeOK
  <2> QED BY <1>8, <2>1 DEF Handled, EpollTypeOK
<1>9. CASE handle_accept_fails \/ \E c \in Clients : do_read_overruns(c)
  BY <1>9 DEF handle_accept_fails, do_read_overruns, EpollTypeOK
<1>10. ASSUME NEW c \in Clients, EpollConnect(c) PROVE EpollTypeOK'
  <2>1. rdlist' \in Seq(Fds)
    BY <1>0, <1>10 DEF EpollConnect, Appended, Fds
  <2>2. /\ cl' \in [Clients -> {"off", "queued", "open"}] /\ eof' \in [Clients -> BOOLEAN]
        /\ unread' \in [Clients -> 0 .. MAXSIZE]
    BY <1>10 DEF EpollConnect, connect, EpollTypeOK
  <2> QED BY <1>10, <2>1, <2>2 DEF EpollConnect, EpollTypeOK, Fds
<1>11. ASSUME NEW c \in Clients, NEW n \in Bytes, EpollSend(c, n) PROVE EpollTypeOK'
  BY <1>11 DEF EpollSend, EpollTypeOK, Bytes
<1>12. ASSUME NEW c \in Clients, NEW keeps \in BOOLEAN, EpollHangup(c, keeps) PROVE EpollTypeOK'
  BY <1>12 DEF EpollHangup, EpollTypeOK
<1>13. CASE UNCHANGED epollVars
  BY <1>13 DEF epollVars, EpollTypeOK
<1> QED BY <1>3, <1>4, <1>5, <1>6, <1>7, <1>8, <1>9, <1>10, <1>11, <1>12, <1>13
        DEF EpollNext, EpollStep

-----------------------------------------------------------------------------
(* The tables of the servers that do not run are empty. *)
OthersIdle ==
  /\ which # "select" => /\ cli_cnt = 0 /\ \A s \in Slots : clifds[s] = None
                         /\ \A c \in Clients : last[c].sent = 0
  /\ which # "poll" => \A s \in PollSlots : clientfds[s] = None
  /\ which # "epoll" => reply.sent = 0

EchoInv ==
  /\ which \in {"select", "poll", "epoll"}
  /\ which = "select" => /\ SelectTypeOK /\ ClifdsOpen
                         /\ AllWatched /\ CountInv /\ LoopInv /\ EchoExact
  /\ which = "poll" => PollInv /\ PollCounts /\ OpenHeld
  /\ which = "epoll" => EpollTypeOK /\ BufInv
  /\ OthersIdle

LEMMA EchoInitInv == Init => EchoInv
<1> SUFFICES ASSUME Init PROVE EchoInv
  OBVIOUS
<1> USE OpenMaxAssumption, MaxSizeAssumption
<1>1. SelectTypeOK /\ ClifdsOpen /\ AllWatched /\ CountInv /\ LoopInv /\ EchoExact
  BY InitTyped, SelectInitInv DEF Init, SelectInit, SocketsInit, ClifdsOpen
<1>2. PollInv /\ PollCounts /\ OpenHeld
  BY DEF Init, PollInit, SocketsInit, PollInv, PollType, AllPolled, SlotsOpen, ReventsRight, AcceptReady,
         FreshUnset, InTable, Held, PollSlots, PollCounts, OpenHeld
<1>3. EpollTypeOK /\ BufInv
  <2>1. Empty \in [Bytes -> Clients \cup {NUL}] /\ \A S : <<>> \in Seq(S)
    BY DEF Empty
  <2>2. NoEcho \in [to : Clients \cup {None}, sent : 0 .. MAXSIZE, got : SUBSET Bytes,
                    from : SUBSET (Clients \cup {NUL}), before : SUBSET Clients]
    BY DEF NoEcho
  <2> QED BY <2>1, <2>2, EpollInitInv DEF Init, EpollInit, SocketsInit, EpollTypeOK
<1>4. OthersIdle
  BY DEF OthersIdle, Init, SelectInit, PollInit, EpollInit, NoEcho
<1> QED BY <1>1, <1>2, <1>3, <1>4 DEF Init, EchoInv

LEMMA EchoAlways == Safety => []EchoInv
<1>1. EchoInv /\ [Next]_vars => EchoInv'
  <2> SUFFICES ASSUME EchoInv, [Next]_vars PROVE EchoInv'
    OBVIOUS
  <2>0. OthersIdle'
    BY DEF EchoInv, OthersIdle, Next, vars, RunSelect, RunPoll, RunEpoll,
           selectOnly, pollOnly, epollOnly
  <2>1. CASE which = "select"
    BY <2>0, <2>1, OneServer, NextTyped, ClifdsStep, WatchedInductive, CountInductive, LoopInductive,
       EchoInductive
       DEF EchoInv
  <2>2. CASE which = "poll"
    BY <2>0, <2>2, OneServer, PollStepInv, PollCountsStep, OpenHeldStep DEF EchoInv
  <2>3. CASE which = "epoll"
    BY <2>0, <2>3, OneServer, EpollTypeStep, BufStep DEF EchoInv
  <2> QED BY <2>1, <2>2, <2>3 DEF EchoInv
<1> QED BY EchoInitInv, <1>1, PTL DEF Safety

(* Every variable of the server that runs keeps its type: nready of poll   *)
(* never falls below zero, and its loop stays in clientfds.                *)
THEOREM TypeOKAlways == Safety => []TypeOK
<1>1. PollInv /\ PollCounts => PollTypeOK
  BY OpenMaxAssumption DEF PollInv, PollType, PollCounts, PollTypeOK
<1>2. EchoInv => TypeOK
  BY <1>1 DEF EchoInv, TypeOK
<1> QED BY <1>2, EchoAlways, PTL

(* One slot, or none. *)
LEMMA HoldsOne ==
  ASSUME NEW I, NEW table \in [I -> Clients \cup {None}], NEW c \in Clients,
         \A s, t \in I : table[s] = c /\ table[t] = c => s = t
  PROVE  Cardinality(Holds(table, c)) = IF \E s \in I : table[s] = c THEN 1 ELSE 0
<1>1. ASSUME NEW s \in I, table[s] = c PROVE Holds(table, c) = {s}
  BY <1>1 DEF Holds
<1>2. ASSUME ~\E s \in I : table[s] = c PROVE Holds(table, c) = {}
  BY <1>2 DEF Holds
<1> QED BY <1>1, <1>2, FS_Singleton, FS_EmptySet

(* accept, recv and close of the select and the poll server: however slots *)
(* are freed and taken again, each open connection has exactly one, and    *)
(* nothing else has any.                                                   *)
THEOREM SlotsMatchAlways == Safety => []SlotsMatch
<1>1. ASSUME EchoInv, NEW c \in Clients, which = "select"
      PROVE  Cardinality(Holds(clifds, c)) = (IF cl[c] = "open" THEN 1 ELSE 0)
  <2>1. /\ clifds \in [Slots -> Clients \cup {None}] /\ ClifdsOpen /\ c # None
    BY <1>1, ClientsAssumption DEF EchoInv, SelectTypeOK
  <2>2. (\E s \in Slots : clifds[s] = c) <=> cl[c] = "open"
    BY <2>1 DEF ClifdsOpen
  <2>3. \A s, t \in Slots : clifds[s] = c /\ clifds[t] = c => s = t
    BY <2>1 DEF ClifdsOpen
  <2>4. Cardinality(Holds(clifds, c)) = IF \E s \in Slots : clifds[s] = c THEN 1 ELSE 0
    BY <2>1, <2>3, HoldsOne
  <2> QED BY <2>2, <2>4
<1>2. ASSUME EchoInv, NEW c \in Clients, which = "poll"
      PROVE  Cardinality(Holds(clientfds, c)) = (IF cl[c] = "open" THEN 1 ELSE 0)
  <2>1. /\ clientfds \in [PollSlots -> Clients \cup {None}] /\ SlotsOpen /\ OpenHeld /\ c # None
    BY <1>2, ClientsAssumption DEF EchoInv, PollInv, PollType
  <2>2. (\E s \in PollSlots : clientfds[s] = c) <=> cl[c] = "open"
    BY <2>1 DEF SlotsOpen, OpenHeld, Held
  <2>3. \A s, t \in PollSlots : clientfds[s] = c /\ clientfds[t] = c => s = t
    BY <2>1 DEF SlotsOpen, Held
  <2>4. Cardinality(Holds(clientfds, c)) = IF \E s \in PollSlots : clientfds[s] = c THEN 1 ELSE 0
    BY <2>1, <2>3, HoldsOne
  <2> QED BY <2>2, <2>4
<1>3. EchoInv => SlotsMatch
  BY <1>1, <1>2 DEF SlotsMatch
<1> QED BY <1>3, EchoAlways, PTL

(* The servers of io_multi: what was proved of each alone holds of the     *)
(* composition that the runs check, whichever of them is started.          *)
THEOREM ServersAlways ==
  Safety => [](AllWatched /\ BeyondNeedsAccepts /\ EchoExact /\ WaitsOnlyOnFresh /\ EchoFromBatch)
<1>1. ASSUME EchoInv PROVE AllWatched /\ BeyondNeedsAccepts /\ EchoExact
  <2>1. CASE which = "select"
    BY <1>1, <2>1, CountedBeyond DEF EchoInv
  <2>2. CASE which # "select"
    <3>1. pc \notin {"set_beyond", "recv", "recv_beyond"}
      BY <1>1, <2>2 DEF EchoInv, EpollTypeOK, PollInv, InTable, PollType, PollCounts
    <3> QED BY <1>1, <2>2, <3>1, SizeAssumption
            DEF EchoInv, OthersIdle, AllWatched, BeyondNeedsAccepts, EchoExact
  <2> QED BY <2>1, <2>2
<1>2. ASSUME EchoInv PROVE WaitsOnlyOnFresh
  <2>1. CASE which = "poll"
    BY <1>2, <2>1, PollInvFresh DEF EchoInv
  <2>2. CASE which # "poll"
    BY <1>2, <2>2 DEF EchoInv, SelectTypeOK, EpollTypeOK, WaitsOnlyOnFresh
  <2> QED BY <2>1, <2>2
<1>3. ASSUME EchoInv PROVE EchoFromBatch
  BY <1>3 DEF EchoInv, OthersIdle, BufInv, EchoFromBatch
<1>4. EchoInv => AllWatched /\ BeyondNeedsAccepts /\ EchoExact /\ WaitsOnlyOnFresh /\ EchoFromBatch
  BY <1>1, <1>2, <1>3
<1> QED BY <1>4, EchoAlways, PTL

-----------------------------------------------------------------------------
(* The select server as an echo service. *)

View(state) ==
  IF state = "off" THEN "closed" ELSE IF state = "open" THEN "served" ELSE "waiting"

(* What a client got last is one whole message of its own, or nothing yet. *)
AnswersWhole ==
  \A c \in Clients : \/ SelectAnswer[c] = Service!Nothing
                     \/ \E n \in LineBytes : SelectAnswer[c] = Service!Message(c, n)

LEMMA LinkStep ==
  ASSUME SelectTypeOK, which = "select", which' = "select", NEW c \in Clients, NEW state,
         cl' = [cl EXCEPT ![c] = state]
  PROVE  /\ SelectLink[c] = View(cl[c]) /\ SelectLink[c]' = View(state)
         /\ SelectLink' = [SelectLink EXCEPT ![c] = View(state)]
<1>1. \A d \in Clients : cl'[d] = IF d = c THEN state ELSE cl[d]
  BY DEF SelectTypeOK
<1>2. /\ SelectLink = [d \in Clients |-> View(cl[d])]
      /\ SelectLink' = [d \in Clients |-> View(cl'[d])]
  BY DEF SelectLink, View
<1> QED BY <1>1, <1>2

LEMMA AnswerStep ==
  ASSUME SelectTypeOK, NEW c \in Clients, NEW r, last' = [last EXCEPT ![c] = r]
  PROVE  SelectAnswer' = [SelectAnswer EXCEPT ![c] = [got |-> r.got, from |-> r.from]]
<1>1. \A d \in Clients : last'[d] = IF d = c THEN r ELSE last[d]
  BY DEF SelectTypeOK
<1>2. /\ SelectAnswer = [d \in Clients |-> [got |-> last[d].got, from |-> last[d].from]]
      /\ SelectAnswer' = [d \in Clients |-> [got |-> last'[d].got, from |-> last'[d].from]]
  BY DEF SelectAnswer
<1> QED BY <1>1, <1>2

(* The echo that recv_client_msg sends is the message that it read. *)
LEMMA EchoIsMessage ==
  ASSUME SelectTypeOK, NEW c \in Clients, recv_echoes(c)
  PROVE  /\ sent[c] \in LineBytes
         /\ SelectAnswer' = [SelectAnswer EXCEPT ![c] = Service!Message(c, sent[c])]
<1> DEFINE b == line
           n == sent[c]
           g == FilledLine(b, c, n)
<1>1. n \in LineBytes /\ b \in [LineBytes -> Clients \cup {NUL}] /\ line' = g
  BY LineAssumption DEF recv_echoes, LineBytes, SelectTypeOK
<1>2. last' = [last EXCEPT ![c] = [sent |-> n, got |-> Echo(line'),
                                   from |-> {line'[k] : k \in Echo(line')}]]
  BY DEF recv_echoes
<1> HIDE DEF b, n
<1>3. Echo(g) = 1 .. n
  BY <1>1, EchoOfFilled
<1>4. \A k \in 1 .. n : g[k] = IF k < n THEN c ELSE NUL
  BY <1>1, LineAssumption DEF FilledLine, LineBytes
<1>5. {g[k] : k \in 1 .. n} = {IF k < n THEN c ELSE NUL : k \in 1 .. n}
  BY <1>4
<1> HIDE DEF g
<1>6. SelectAnswer' = [SelectAnswer EXCEPT ![c] = [got |-> 1 .. n, from |-> {g[k] : k \in 1 .. n}]]
  <2> DEFINE r == [sent |-> n, got |-> 1 .. n, from |-> {g[k] : k \in 1 .. n}]
  <2>1. last' = [last EXCEPT ![c] = r]
    BY <1>1, <1>2, <1>3
  <2>2. r.got = 1 .. n /\ r.from = {g[k] : k \in 1 .. n}
    OBVIOUS
  <2> HIDE DEF r
  <2> QED BY <2>1, <2>2, AnswerStep
<1> QED BY <1>1, <1>5, <1>6 DEF n, Service!Message

LEMMA ServiceStep ==
  ASSUME SelectTypeOK, ClifdsOpen, AnswersWhole, which = "select", which' = "select",
         [SelectNext]_selectVars
  PROVE  [Service!Next]_<<SelectLink, sent, SelectAnswer>> /\ AnswersWhole'
<1> DEFINE Goal == [Service!Next]_<<SelectLink, sent, SelectAnswer>> /\ AnswersWhole'
<1>0. /\ cl \in [Clients -> {"off", "queued", "open", "leaked"}] /\ None \notin Clients
      /\ sent \in [Clients -> 0 .. MAXLINE] /\ DOMAIN SelectAnswer = Clients
  BY ClientsAssumption DEF SelectTypeOK, SelectAnswer
<1>1. ASSUME UNCHANGED last PROVE SelectAnswer' = SelectAnswer /\ AnswersWhole'
  BY <1>1 DEF SelectAnswer, AnswersWhole
<1>2. ASSUME UNCHANGED cl PROVE SelectLink' = SelectLink
  BY <1>2 DEF SelectLink
<1>3. CASE UNCHANGED <<cl, sent, last>>
  BY <1>1, <1>2, <1>3
<1>4. ASSUME NEW c \in Clients, cl[c] \in {"queued", "leaked"},
              cl' = [cl EXCEPT ![c] = "off"], UNCHANGED <<sent, last>>
       PROVE  Goal
  <2>1. SelectLink[c] = "waiting" /\ SelectLink' = [SelectLink EXCEPT ![c] = "closed"]
    BY <1>4, LinkStep DEF View
  <2> QED BY <1>1, <1>4, <2>1 DEF Service!Refuse, Service!Next
<1>5. ASSUME NEW c \in Clients, accept_client_proc(c) PROVE Goal
  <2>1. /\ cl[c] = "queued" /\ cl' = [cl EXCEPT ![c] = "open"] /\ UNCHANGED <<sent, last>>
    BY <1>5 DEF accept_client_proc
  <2>2. SelectLink[c] = "waiting" /\ SelectLink' = [SelectLink EXCEPT ![c] = "served"]
    BY <2>1, LinkStep DEF View
  <2> QED BY <1>1, <2>1, <2>2 DEF Service!Admit, Service!Next
<1>6. ASSUME NEW c \in Clients, accept_too_many(c) PROVE Goal
  <2>1. /\ cl[c] = "queued" /\ UNCHANGED <<sent, last>>
        /\ cl' = [cl EXCEPT ![c] = IF eof[c] THEN "off" ELSE "leaked"]
    BY <1>6 DEF accept_too_many
  <2>2. CASE eof[c]
    <3>1. cl' = [cl EXCEPT ![c] = "off"]
      BY <2>1, <2>2
    <3> QED BY <1>4, <2>1, <3>1
  <2>3. CASE ~eof[c]
    <3>1. SelectLink' = SelectLink
      BY <1>0, <2>1, <2>3 DEF SelectLink
    <3> QED BY <1>1, <2>1, <3>1
  <2> QED BY <2>2, <2>3
<1>7. ASSUME NEW c \in Clients, accept_aborted(c) PROVE Goal
  BY <1>7, <1>4 DEF accept_aborted
<1>8. ASSUME NEW c \in Clients, SelectHangup(c) PROVE Goal
  <2>1. UNCHANGED <<sent, last>> /\ cl' = [cl EXCEPT ![c] = IF @ = "leaked" THEN "off" ELSE @]
    BY <1>8 DEF SelectHangup
  <2>2. CASE cl[c] = "leaked"
    BY <1>4, <2>1, <2>2
  <2>3. CASE cl[c] # "leaked"
    <3>1. UNCHANGED cl
      BY <1>0, <2>1, <2>3
    <3> QED BY <1>3, <2>1, <3>1
  <2> QED BY <2>2, <2>3
<1>9. ASSUME NEW c \in Clients, recv_echoes(c) PROVE Goal
  <2>1. /\ i \in Slots /\ clifds[i] = c /\ sent[c] > 0
        /\ sent' = [sent EXCEPT ![c] = 0] /\ UNCHANGED cl
    BY <1>9 DEF recv_echoes
  <2>2. SelectLink[c] = "served" /\ SelectLink' = SelectLink
    BY <1>0, <1>2, <2>1 DEF ClifdsOpen, SelectLink
  <2>3. /\ sent[c] \in LineBytes
        /\ SelectAnswer' = [SelectAnswer EXCEPT ![c] = Service!Message(c, sent[c])]
    BY <1>9, EchoIsMessage
  <2>4. Service!Answer(c)
    BY <1>0, <2>1, <2>2, <2>3 DEF Service!Answer
  <2>5. AnswersWhole'
    BY <1>0, <2>3 DEF AnswersWhole
  <2> QED BY <2>4, <2>5 DEF Service!Next
<1>10. ASSUME NEW c \in Clients, recv_closes(c) PROVE Goal
  <2>1. /\ i \in Slots /\ clifds[i] = c /\ sent[c] = 0
        /\ cl' = [cl EXCEPT ![c] = "off"] /\ UNCHANGED <<sent, last>>
    BY <1>10 DEF recv_closes
  <2>2. cl[c] = "open"
    BY <1>0, <2>1 DEF ClifdsOpen
  <2>3. SelectLink[c] = "served" /\ SelectLink' = [SelectLink EXCEPT ![c] = "closed"]
    BY <2>1, <2>2, LinkStep DEF View
  <2> QED BY <1>1, <2>1, <2>3 DEF Service!Close, Service!Next
<1>11. ASSUME NEW c \in Clients, NEW n \in LineBytes, SelectConnect(c, n) PROVE Goal
  <2> DEFINE r == [sent |-> 0, got |-> {}, from |-> {}]
  <2>1. /\ cl[c] = "off" /\ cl' = [cl EXCEPT ![c] = "queued"]
        /\ sent' = [sent EXCEPT ![c] = n] /\ last' = [last EXCEPT ![c] = r]
    BY <1>11 DEF SelectConnect, connect
  <2>2. [got |-> r.got, from |-> r.from] = Service!Nothing
    BY DEF Service!Nothing
  <2> HIDE DEF r
  <2>3. SelectLink[c] = "closed" /\ SelectLink' = [SelectLink EXCEPT ![c] = "waiting"]
    <3>1. cl[c] = "off" /\ cl' = [cl EXCEPT ![c] = "queued"]
      BY <2>1
    <3>2. SelectLink[c] = View("off") /\ SelectLink' = [SelectLink EXCEPT ![c] = View("queued")]
      BY <3>1, LinkStep
    <3> QED BY <3>2 DEF View
  <2>4. SelectAnswer' = [SelectAnswer EXCEPT ![c] = Service!Nothing]
    BY <2>1, <2>2, AnswerStep
  <2>5. AnswersWhole'
    BY <1>0, <2>4 DEF AnswersWhole
  <2> QED BY <2>1, <2>3, <2>4, <2>5 DEF Service!Connect, Service!Next
<1>12. ASSUME NEW c \in Clients, NEW n \in LineBytes, SendAgain(c, n) PROVE Goal
  <2>1. /\ cl[c] = "open" /\ sent[c] = 0 /\ n \in last[c].got /\ \A k \in last[c].got : k <= n
        /\ sent' = [sent EXCEPT ![c] = n] /\ UNCHANGED <<cl, last>>
    BY <1>12 DEF SendAgain
  <2>2. SelectAnswer[c].got = last[c].got
    BY DEF SelectAnswer
  <2>3. PICK m \in LineBytes : SelectAnswer[c] = Service!Message(c, m)
    BY <2>1, <2>2 DEF AnswersWhole, Service!Nothing
  <2>4. last[c].got = 1 .. m
    BY <2>2, <2>3 DEF Service!Message
  <2>5. m = n
    <3>1. m \in Nat /\ n \in Nat /\ n \in 1 .. m /\ m \in 1 .. m
      BY <2>1, <2>4, LineAssumption DEF LineBytes
    <3>2. m <= n
      BY <2>1, <2>4, <3>1
    <3> QED BY <3>1, <3>2
  <2>6. SelectLink[c] = "served" /\ SelectLink' = SelectLink
    BY <1>2, <2>1 DEF SelectLink
  <2>7. Service!AskAgain(c)
    BY <1>1, <2>1, <2>3, <2>5, <2>6 DEF Service!AskAgain
  <2> QED BY <1>1, <2>1, <2>7 DEF Service!Next
<1> QED
  BY <1>3, <1>5, <1>6, <1>7, <1>8, <1>9, <1>10, <1>11, <1>12
  DEF SelectNext, SelectStep, selectVars, selectServer, select_returns, Overrun, select_fails, accept_fails,
      recv_skips, recv_reads_padding, recv_overruns

(* The select server gives its clients an echo service: whichever slots,   *)
(* counts and leftovers of the buffer it comes across, it answers only     *)
(* clients that it has accepted, each message once and by its own bytes,   *)
(* and closes no connection whose message is unanswered.                   *)
THEOREM SelectIsEchoService == Safety => IsEchoService
<1>1. Init => Service!Init /\ AnswersWhole
  <2> SUFFICES ASSUME Init PROVE Service!Init /\ AnswersWhole
    OBVIOUS
  <2>1. /\ cl = [c \in Clients |-> "off"] /\ sent = [c \in Clients |-> 0]
        /\ last = [c \in Clients |-> [sent |-> 0, got |-> {}, from |-> {}]]
    BY DEF Init, SelectInit, SocketsInit
  <2>2. SelectLink = [c \in Clients |-> "closed"]
    BY <2>1 DEF SelectLink, AllClosed
  <2>3. SelectAnswer = [c \in Clients |-> Service!Nothing]
    BY <2>1 DEF SelectAnswer, Service!Nothing
  <2> QED BY <2>1, <2>2, <2>3 DEF Service!Init, AnswersWhole
<1>2. EchoInv /\ AnswersWhole /\ [Next]_vars
        => [Service!Next]_<<SelectLink, sent, SelectAnswer>> /\ AnswersWhole'
  <2> SUFFICES ASSUME EchoInv, AnswersWhole, [Next]_vars
               PROVE  [Service!Next]_<<SelectLink, sent, SelectAnswer>> /\ AnswersWhole'
    OBVIOUS
  <2>1. CASE which = "select"
    BY <2>1, OneServer, ServiceStep DEF EchoInv
  <2>2. CASE which # "select"
    <3>1. which' # "select" /\ UNCHANGED <<sent, last>>
      BY <2>2 DEF Next, vars, RunSelect, RunPoll, RunEpoll, selectOnly
    <3>2. SelectLink' = SelectLink /\ SelectAnswer' = SelectAnswer
      BY <2>2, <3>1 DEF SelectLink, AllClosed, SelectAnswer
    <3> QED BY <3>1, <3>2 DEF AnswersWhole
  <2> QED BY <2>1, <2>2
<1> QED BY <1>1, <1>2, EchoAlways, PTL DEF Safety, IsEchoService, Service!Spec, Service!vars
=============================================================================
