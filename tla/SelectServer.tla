---------------------------- MODULE SelectServer ----------------------------
(***************************************************************************)
(* Application/io_multi/select: an echo server around select() with SIZE   *)
(* client slots, and its clients, which send a string with its NUL, wait   *)
(* for the echo and send again.                                            *)
(*                                                                         *)
(* A byte is the client it came from, or NUL; a message is its length,     *)
(* the NUL included, so that what a client gets back can be told from what *)
(* it sent.  The bytes stay in buf from one client of a pass to the next.  *)
(***************************************************************************)
EXTENDS Sockets

CONSTANTS SIZE,       \* client slots
          MAXLINE,    \* size of a buffer
          Files,      \* descriptors the process may have for connections
          MaxConns    \* connections are counted up to here; more may follow

ASSUME SizeAssumption == SIZE \in Nat \ {0}
ASSUME LineAssumption == MAXLINE \in Nat \ {0}
ASSUME FilesAssumption == Files \in Nat
ASSUME CountAssumption == MaxConns \in Nat /\ MaxConns > SIZE

Slots == 0 .. SIZE - 1

VARIABLES
  conns,     \* connections made so far, or MaxConns if there were more
  sent,      \* length of the message a client has under way, 0 if none
  last,      \* what a client last sent and got back
  clifds,    \* slot -> client, or None
  cli_cnt,
  readfds,   \* clients whose bit select() left set
  line,      \* buf of recv_client_msg
  leaks      \* accepted descriptors that nobody will close

selectVars == <<cl, eof, conns, pc, i, sent, last, clifds, cli_cnt, readfds, line, leaks>>
selectServer == <<clifds, cli_cnt, pc, i, readfds, line, leaks>>

LineBytes == 1 .. MAXLINE
EmptyLine == [k \in LineBytes |-> NUL]

(* Mutant: the clients do not send the NUL. *)
FilledLineUnterminated(b, c, n) == [k \in LineBytes |-> IF k <= n THEN c ELSE b[k]]

(* What lies in the buffer after a read of n bytes from client c. *)
FilledLine(b, c, n) == [k \in LineBytes |-> IF k < n THEN c ELSE IF k = n THEN NUL ELSE b[k]]

(* handle_client_msg sends strlen(buf) + 1 bytes back. *)
Echo(b) == {k \in LineBytes : \A j \in 1 .. k - 1 : b[j] # NUL}

(* Mutant: the slots keep the 0 of memset, which is standard input. *)
SelectInitZeroed ==
  /\ SocketsInit
  /\ conns = 0
  /\ sent = [c \in Clients |-> 0]
  /\ last = [c \in Clients |-> [sent |-> 0, got |-> {}, from |-> {}]]
  /\ clifds = [s \in Slots |-> "stdin"]
  /\ cli_cnt = 0
  /\ readfds = {}
  /\ line = EmptyLine
  /\ leaks = 0

SelectInit ==
  /\ SocketsInit
  /\ conns = 0
  /\ sent = [c \in Clients |-> 0]
  /\ last = [c \in Clients |-> [sent |-> 0, got |-> {}, from |-> {}]]
  /\ clifds = [s \in Slots |-> None]
  /\ cli_cnt = 0
  /\ readfds = {}
  /\ line = EmptyLine
  /\ leaks = 0

-----------------------------------------------------------------------------
(* The clients. *)

(* connect() and the first write, which sends 32 bytes from a string of 13: *)
(* what lies behind its NUL is in nobody's text and is left out.           *)
SelectConnect(c, n) ==
  /\ connect(c)
  /\ conns' = IF conns < MaxConns THEN conns + 1 ELSE conns
  /\ sent' = [sent EXCEPT ![c] = n]
  /\ last' = [last EXCEPT ![c] = [sent |-> 0, got |-> {}, from |-> {}]]
  /\ UNCHANGED selectServer

(* handle_recv_msg: the client sends the string it got, with its NUL. *)
SendAgain(c, n) ==
  /\ cl[c] = "open"
  /\ sent[c] = 0
  /\ ~eof[c]
  /\ n \in last[c].got /\ \A k \in last[c].got : k <= n
  /\ sent' = [sent EXCEPT ![c] = n]
  /\ UNCHANGED <<cl, eof, last, conns>>
  /\ UNCHANGED selectServer

(* The client process ends.  A connection the server has leaked is then    *)
(* nobody's: the client may come again.                                    *)
SelectHangup(c) ==
  /\ cl[c] # "off"
  /\ ~eof[c]
  /\ eof' = [eof EXCEPT ![c] = TRUE]
  /\ cl' = [cl EXCEPT ![c] = IF @ = "leaked" THEN "off" ELSE @]
  /\ UNCHANGED <<sent, last, conns>>
  /\ UNCHANGED selectServer

-----------------------------------------------------------------------------
(* The server. *)

SelectReadable(c) == sent[c] > 0 \/ eof[c]

(* The slots that handle_client_proc puts in the set. *)
Watched == {clifds[s] : s \in {t \in Slots : t < cli_cnt /\ clifds[t] # None}}

Ready == {c \in Watched : SelectReadable(c)}

(* The process has no descriptor left for another connection. *)
Exhausted == Cardinality({c \in Clients : cl[c] = "open"}) + leaks >= Files

(* select() returns: a connection that waits comes first.  Once cli_cnt    *)
(* exceeds SIZE the loop reads beyond clifds.                              *)
select_returns ==
  /\ pc = "wait"
  /\ cli_cnt <= SIZE
  /\ Queued \cup Ready # {}
  /\ readfds' = Ready
  /\ i' = 0
  /\ line' = EmptyLine
  /\ pc' = IF Queued # {} THEN "accept" ELSE "recv"
  /\ UNCHANGED <<cl, sent, eof, last, conns, clifds, cli_cnt, leaks>>

(* Mutant: the loop of handle_client_proc runs to cli_cnt, included. *)
OverrunIncluded ==
  /\ pc = "wait"
  /\ cli_cnt >= SIZE
  /\ pc' = "set_beyond"
  /\ UNCHANGED <<cl, eof, conns, i, sent, last, clifds, cli_cnt, readfds, line, leaks>>

Overrun ==
  /\ pc = "wait"
  /\ cli_cnt > SIZE
  /\ pc' = "set_beyond"
  /\ UNCHANGED <<cl, sent, eof, last, conns, clifds, cli_cnt, i, readfds, line, leaks>>

(* select() fails: the server ends. *)
select_fails ==
  /\ pc = "wait"
  /\ pc' = "ended"
  /\ UNCHANGED <<cl, sent, eof, last, conns, clifds, cli_cnt, i, readfds, line, leaks>>

accept_client_proc(c) ==
  /\ pc = "accept"
  /\ cl[c] = "queued"
  /\ ~Exhausted
  /\ \E s \in Slots : /\ FirstFree(clifds, s)
                      /\ clifds' = [clifds EXCEPT ![s] = c]
  /\ cli_cnt' = cli_cnt + 1
  /\ cl' = [cl EXCEPT ![c] = "open"]
  /\ pc' = "wait"
  /\ UNCHANGED <<sent, eof, last, conns, i, readfds, line, leaks>>

(* "too many client.": the connection is neither stored nor closed. *)
accept_too_many(c) ==
  /\ pc = "accept"
  /\ cl[c] = "queued"
  /\ ~Exhausted
  /\ \A s \in Slots : clifds[s] # None
  /\ cl' = [cl EXCEPT ![c] = IF eof[c] THEN "off" ELSE "leaked"]
  /\ leaks' = leaks + 1
  /\ pc' = "wait"
  /\ UNCHANGED <<sent, eof, last, conns, clifds, cli_cnt, i, readfds, line>>

(* accept() fails for want of a descriptor of the process (when there is   *)
(* none left, it always does), of a file of the system or of memory: the   *)
(* connection stays in the queue and select() will return at once.         *)
accept_fails ==
  /\ pc = "accept"
  /\ pc' = "wait"
  /\ UNCHANGED <<cl, sent, eof, last, conns, clifds, cli_cnt, i, readfds, line, leaks>>

(* ECONNABORTED: the client has reset the connection, which is dropped. *)
accept_aborted(c) ==
  /\ pc = "accept"
  /\ cl[c] = "queued" /\ eof[c]
  /\ ~Exhausted
  /\ cl' = [cl EXCEPT ![c] = "off"]
  /\ pc' = "wait"
  /\ UNCHANGED <<sent, eof, last, conns, clifds, cli_cnt, i, readfds, line, leaks>>

(* One turn of the loop of recv_client_msg, which runs to cli_cnt,         *)
(* included.                                                               *)
SelectTurn == IF i < cli_cnt THEN i' = i + 1 /\ UNCHANGED pc
                           ELSE i' = 0 /\ pc' = "wait"

recv_skips ==
  /\ pc = "recv"
  /\ i \in Slots /\ clifds[i] \notin readfds
  /\ SelectTurn
  /\ UNCHANGED <<cl, sent, eof, last, conns, clifds, cli_cnt, readfds, line, leaks>>

(* With SIZE accepted the last turn reads clifds[SIZE].  With 8-byte longs *)
(* that is padding, zeroed by server_init, and 0 is never in readfds.      *)
recv_reads_padding ==
  /\ pc = "recv"
  /\ i = SIZE
  /\ SelectTurn
  /\ UNCHANGED <<cl, sent, eof, last, conns, clifds, cli_cnt, readfds, line, leaks>>

(* With 4-byte longs it is the first word of allfds, taken for a           *)
(* descriptor: what FD_ISSET and read() make of it is not followed.        *)
recv_overruns ==
  /\ pc = "recv"
  /\ i = SIZE
  /\ pc' = "recv_beyond"
  /\ UNCHANGED <<cl, sent, eof, last, conns, clifds, cli_cnt, i, readfds, line, leaks>>

recv_echoes(c) ==
  /\ pc = "recv"
  /\ i \in Slots /\ clifds[i] = c /\ c \in readfds
  /\ sent[c] > 0
  /\ line' = FilledLine(line, c, sent[c])
  /\ last' = [last EXCEPT ![c] = [sent |-> sent[c], got |-> Echo(line'),
                                  from |-> {line'[k] : k \in Echo(line')}]]
  /\ sent' = [sent EXCEPT ![c] = 0]
  /\ SelectTurn
  /\ UNCHANGED <<cl, eof, conns, clifds, cli_cnt, readfds, leaks>>

(* Mutant: the slot of a closed connection is kept. *)
RecvClosesKeepsSlot(c) ==
  /\ pc = "recv"
  /\ i \in Slots /\ clifds[i] = c /\ c \in readfds
  /\ sent[c] = 0
  /\ cl' = [cl EXCEPT ![c] = "off"]
  /\ readfds' = readfds \ {c}
  /\ SelectTurn
  /\ UNCHANGED <<sent, eof, last, conns, clifds, cli_cnt, line, leaks>>

recv_closes(c) ==
  /\ pc = "recv"
  /\ i \in Slots /\ clifds[i] = c /\ c \in readfds
  /\ sent[c] = 0
  /\ clifds' = [clifds EXCEPT ![i] = None]
  /\ cl' = [cl EXCEPT ![c] = "off"]
  /\ readfds' = readfds \ {c}
  /\ SelectTurn
  /\ UNCHANGED <<sent, eof, last, conns, cli_cnt, line, leaks>>

SelectStep ==
  \/ select_returns \/ Overrun
  \/ accept_fails
  \/ recv_skips \/ recv_reads_padding \/ recv_overruns
  \/ \E c \in Clients : \/ accept_client_proc(c) \/ accept_too_many(c) \/ accept_aborted(c)
                        \/ recv_echoes(c) \/ recv_closes(c)

SelectNext ==
  \/ SelectStep \/ select_fails
  \/ \E c \in Clients : SelectHangup(c)
  \/ \E c \in Clients, n \in LineBytes : SelectConnect(c, n) \/ SendAgain(c, n)

(* The server is a running process; a client may stop at any point. *)
SelectSpec == SelectInit /\ [][SelectNext]_selectVars /\ WF_selectVars(SelectStep)

-----------------------------------------------------------------------------
(* Properties. *)

(* Every variable has its type. *)
SelectTypeOK ==
  /\ cl \in [Clients -> {"off", "queued", "open", "leaked"}]
  /\ sent \in [Clients -> 0 .. MAXLINE]
  /\ eof \in [Clients -> BOOLEAN]
  /\ last \in [Clients -> [sent : 0 .. MAXLINE, got : SUBSET LineBytes,
                           from : SUBSET (Clients \cup {NUL})]]
  /\ conns \in 0 .. MaxConns
  /\ clifds \in [Slots -> Clients \cup {None}]
  /\ cli_cnt \in Nat
  /\ pc \in {"wait", "accept", "recv", "set_beyond", "recv_beyond", "ended"}
  /\ i \in Nat
  /\ readfds \in SUBSET Clients
  /\ line \in [LineBytes -> Clients \cup {NUL}]
  /\ leaks \in Nat

(* cli_cnt is never decremented and bounds the loops over clifds, so every *)
(* client that holds a slot must be below it, however slots are freed and  *)
(* taken again: no accepted client is forgotten by select().               *)
AllWatched == \A s \in Slots : clifds[s] # None => s < cli_cnt

(* cli_cnt counts what was accepted in the life of the server, however few *)
(* are open at a time.  The loop that fills the set leaves clifds only     *)
(* after more than SIZE connections; the loop of recv_client_msg, which    *)
(* includes cli_cnt, after SIZE, and then by one place.                    *)
BeyondNeedsAccepts ==
  /\ pc = "set_beyond" => conns > SIZE
  /\ pc = "recv" /\ i \notin Slots => i = SIZE /\ conns >= SIZE
  /\ pc = "recv_beyond" => i = SIZE /\ conns >= SIZE

(* What a client gets back is what it sent: the rest of an earlier message *)
(* in the buffer never shows behind the NUL the clients send along.        *)
EchoExact ==
  \A c \in Clients : last[c].sent > 0 =>
    /\ last[c].got = 1 .. last[c].sent
    /\ last[c].from \subseteq {c, NUL}
=============================================================================
