-------------------------- MODULE TableServersProofs --------------------------
(***************************************************************************)
(* The servers that keep a table of their clients.  Theorems about         *)
(* SelectServer for any number of clients, slots and connections, and      *)
(* which clients PollServer polls and which it may wait for.               *)
(***************************************************************************)
EXTENDS SelectServer, PollServer, FiniteSetTheorems, TLAPS


LEMMA FilledTyped ==
  ASSUME NEW b \in [LineBytes -> Clients \cup {NUL}], NEW c \in Clients, NEW n \in LineBytes
  PROVE  FilledLine(b, c, n) \in [LineBytes -> Clients \cup {NUL}]
  BY DEF FilledLine

(* The echo of a message that ends in its NUL is that message: strlen does *)
(* not reach what an earlier client left in the buffer.                    *)
LEMMA EchoOfFilled ==
  ASSUME NEW b \in [LineBytes -> Clients \cup {NUL}], NEW c \in Clients, NEW n \in LineBytes
  PROVE  /\ Echo(FilledLine(b, c, n)) = 1 .. n
         /\ {FilledLine(b, c, n)[k] : k \in Echo(FilledLine(b, c, n))} \subseteq {c, NUL}
<1> DEFINE g == FilledLine(b, c, n)
<1>0. n \in Nat /\ n <= MAXLINE /\ LineBytes = 1 .. MAXLINE /\ MAXLINE \in Nat BY LineAssumption DEF LineBytes
<1>1. \A k \in LineBytes : g[k] = IF k < n THEN c ELSE IF k = n THEN NUL ELSE b[k]
  BY DEF FilledLine
<1>2. c # NUL BY ClientsAssumption
<1> HIDE DEF g
<1>3. \A k \in LineBytes : k <= n => \A j \in 1 .. k - 1 : g[j] # NUL
  BY <1>0, <1>1, <1>2
<1>4. \A k \in LineBytes : k > n => \E j \in 1 .. k - 1 : g[j] = NUL
  <2> SUFFICES ASSUME NEW k \in LineBytes, k > n PROVE \E j \in 1 .. k - 1 : g[j] = NUL
    OBVIOUS
  <2>1. n \in 1 .. k - 1 /\ g[n] = NUL BY <1>0, <1>1
  <2> QED BY <2>1
<1>5. Echo(g) = 1 .. n
  <2>1. \A k \in LineBytes : k \in Echo(g) <=> k <= n
    BY SMTT(30), <1>0, <1>3, <1>4 DEF Echo
  <2>2. Echo(g) \subseteq LineBytes
    BY DEF Echo
  <2>3. \A k \in 1 .. n : k \in LineBytes /\ k <= n
    BY <1>0
  <2>4. \A k \in LineBytes : k <= n => k \in 1 .. n
    BY <1>0
  <2> QED BY <2>1, <2>2, <2>3, <2>4, Zenon
<1>6. \A k \in 1 .. n : g[k] \in {c, NUL} BY <1>0, <1>1
<1> QED BY <1>5, <1>6 DEF g

-----------------------------------------------------------------------------
LEMMA InitTyped == SelectInit => SelectTypeOK
  BY SizeAssumption, LineAssumption, CountAssumption DEF SelectInit, SocketsInit, SelectTypeOK, EmptyLine, LineBytes, Slots

LEMMA NextTyped ==
  ASSUME SelectTypeOK, [SelectNext]_selectVars
  PROVE  SelectTypeOK'
<1> USE SizeAssumption, LineAssumption, CountAssumption DEF SelectTypeOK, selectServer
<1>1. CASE UNCHANGED selectVars BY <1>1 DEF selectVars
<1>2. CASE select_returns
  <2>1. Ready \in SUBSET Clients BY DEF Ready, Watched
  <2>2. EmptyLine \in [LineBytes -> Clients \cup {NUL}] BY DEF EmptyLine
  <2> QED BY <1>2, <2>1, <2>2 DEF select_returns
<1>3. CASE Overrun BY <1>3 DEF Overrun
<1>4. CASE select_fails BY <1>4 DEF select_fails
<1>5. CASE recv_skips \/ recv_reads_padding \/ recv_overruns
  BY <1>5 DEF recv_skips, recv_reads_padding, recv_overruns, SelectTurn
<1>6. ASSUME NEW c \in Clients, accept_client_proc(c) PROVE SelectTypeOK'
  BY <1>6 DEF accept_client_proc
<1>7. ASSUME NEW c \in Clients, accept_too_many(c) PROVE SelectTypeOK'
  BY <1>7 DEF accept_too_many
<1>8. ASSUME NEW c \in Clients, accept_aborted(c) PROVE SelectTypeOK'
  BY <1>8 DEF accept_aborted
<1>9. ASSUME NEW c \in Clients, recv_echoes(c) PROVE SelectTypeOK'
  <2>1. sent[c] \in LineBytes BY <1>9 DEF recv_echoes, LineBytes
  <2>2. line' \in [LineBytes -> Clients \cup {NUL}]
    BY <1>9, <2>1, FilledTyped DEF recv_echoes
  <2>3. Echo(line') \in SUBSET LineBytes BY DEF Echo
  <2>4. {line'[k] : k \in Echo(line')} \in SUBSET (Clients \cup {NUL}) BY <2>2, <2>3
  <2>5. last' \in [Clients -> [sent : 0 .. MAXLINE, got : SUBSET LineBytes, from : SUBSET (Clients \cup {NUL})]]
    BY <1>9, <2>3, <2>4 DEF recv_echoes
  <2>6. sent' \in [Clients -> 0 .. MAXLINE] BY <1>9 DEF recv_echoes
  <2>7. i' \in Nat /\ pc' \in {"wait", "accept", "recv", "set_beyond", "recv_beyond", "ended"}
    BY <1>9 DEF recv_echoes, SelectTurn
  <2> QED BY <1>9, <2>2, <2>5, <2>6, <2>7 DEF recv_echoes
<1>10. ASSUME NEW c \in Clients, recv_closes(c) PROVE SelectTypeOK'
  BY <1>10 DEF recv_closes, SelectTurn
<1>11. ASSUME NEW c \in Clients, SelectHangup(c) PROVE SelectTypeOK'
  BY <1>11 DEF SelectHangup
<1>12. ASSUME NEW c \in Clients, NEW n \in LineBytes, SelectConnect(c, n) PROVE SelectTypeOK'
  BY <1>12 DEF SelectConnect, connect, LineBytes
<1>13. ASSUME NEW c \in Clients, NEW n \in LineBytes, SendAgain(c, n) PROVE SelectTypeOK'
  BY <1>13 DEF SendAgain, LineBytes
<1>14. CASE accept_fails BY <1>14 DEF accept_fails
<1> QED
  BY <1>1, <1>2, <1>3, <1>4, <1>5, <1>6, <1>7, <1>8, <1>9, <1>10, <1>11, <1>12, <1>13, <1>14
  DEF SelectNext, SelectStep

(* Every variable keeps its type, with any number of clients and slots. *)
THEOREM TypeCorrect == SelectSpec => []SelectTypeOK
<1>1. SelectTypeOK /\ [SelectNext]_selectVars => SelectTypeOK' BY NextTyped
<1> QED BY InitTyped, <1>1, PTL DEF SelectSpec

-----------------------------------------------------------------------------
(* Accepting into the lowest free slot keeps all used slots below cli_cnt: *)
(* were that slot above cli_cnt, slot cli_cnt would be free and lower.     *)
LEMMA AcceptKeepsWatched ==
  ASSUME SelectTypeOK, AllWatched, NEW c \in Clients, accept_client_proc(c)
  PROVE  AllWatched'
<1>1. PICK s \in Slots : FirstFree(clifds, s) /\ clifds' = [clifds EXCEPT ![s] = c]
  BY DEF accept_client_proc
<1>2. s <= cli_cnt
  <2> SUFFICES ASSUME s > cli_cnt PROVE FALSE BY SizeAssumption DEF SelectTypeOK, Slots
  <2>1. cli_cnt \in Slots /\ cli_cnt < s BY SizeAssumption DEF SelectTypeOK, Slots
  <2>2. clifds[cli_cnt] # None BY <1>1, <2>1 DEF FirstFree, SelectTypeOK
  <2>3. cli_cnt < cli_cnt BY <2>1, <2>2 DEF AllWatched
  <2> QED BY <2>3 DEF SelectTypeOK
<1>3. cli_cnt' = cli_cnt + 1 BY DEF accept_client_proc
<1> QED BY <1>1, <1>2, <1>3, SizeAssumption DEF AllWatched, SelectTypeOK, Slots

LEMMA WatchedInductive ==
  ASSUME SelectTypeOK, AllWatched, [SelectNext]_selectVars
  PROVE  AllWatched'
<1>1. CASE UNCHANGED <<clifds, cli_cnt>> BY <1>1 DEF AllWatched
<1>2. ASSUME NEW c \in Clients, recv_closes(c) PROVE AllWatched'
  BY <1>2 DEF recv_closes, AllWatched, SelectTypeOK
<1> QED
  BY <1>1, <1>2, AcceptKeepsWatched
  DEF SelectNext, SelectStep, selectVars, selectServer, select_returns, Overrun, select_fails, recv_skips,
      recv_reads_padding, recv_overruns, accept_too_many, accept_fails, accept_aborted,
      recv_echoes, SelectHangup, SelectConnect, connect, SendAgain

(* However clients come and go, every client that holds a slot is below    *)
(* cli_cnt and thus in the set given to select().                          *)
THEOREM AllWatchedAlways == SelectSpec => []AllWatched
<1>1. SelectInit => SelectTypeOK /\ AllWatched
  BY InitTyped DEF SelectInit, SocketsInit, AllWatched
<1>2. SelectTypeOK /\ AllWatched /\ [SelectNext]_selectVars => (SelectTypeOK /\ AllWatched)'
  BY NextTyped, WatchedInductive
<1> QED BY <1>1, <1>2, PTL DEF SelectSpec

-----------------------------------------------------------------------------
(* cli_cnt counts connections that were accepted and is never taken back,  *)
(* so with the connections still in the queue it stays below conns, as     *)
(* long as conns counts.                                                   *)
CountInv == conns < MaxConns => cli_cnt + Cardinality(Queued) <= conns

(* The loop of recv_client_msg stays within cli_cnt, which is at most SIZE *)
(* while it runs.                                                          *)
LoopInv ==
  /\ pc \in {"accept", "recv", "recv_beyond"} => cli_cnt <= SIZE
  /\ pc = "recv" => i <= cli_cnt
  /\ pc = "recv_beyond" => i = SIZE /\ cli_cnt = SIZE
  /\ pc = "set_beyond" => cli_cnt > SIZE

LEMMA QueueFinite ==
  ASSUME SelectTypeOK
  PROVE  IsFiniteSet(Queued) /\ Cardinality(Queued) \in Nat
<1>1. Queued \subseteq Clients BY DEF Queued
<1> QED BY <1>1, FiniteAssumption, FS_Subset, FS_CardinalityType

LEMMA DequeueCount ==
  ASSUME SelectTypeOK, NEW c \in Clients, cl[c] = "queued", Queued' = Queued \ {c}
  PROVE  Cardinality(Queued') = Cardinality(Queued) - 1
<1>1. c \in Queued BY DEF Queued
<1>2. IsFiniteSet(Queued) BY QueueFinite
<1> QED BY <1>1, <1>2, FS_RemoveElement

LEMMA CountInductive ==
  ASSUME SelectTypeOK, CountInv, [SelectNext]_selectVars
  PROVE  CountInv'
<1> USE DEF SelectTypeOK
<1>0. Cardinality(Queued) \in Nat /\ conns \in Nat /\ cli_cnt \in Nat /\ MaxConns \in Nat
  BY QueueFinite, CountAssumption
<1>1. ASSUME NEW c \in Clients, accept_client_proc(c) PROVE CountInv'
  <2>1. cl[c] = "queued" /\ Queued' = Queued \ {c} BY <1>1 DEF accept_client_proc, Queued
  <2>2. Cardinality(Queued') = Cardinality(Queued) - 1 BY <2>1, DequeueCount
  <2>3. cli_cnt' = cli_cnt + 1 /\ conns' = conns BY <1>1 DEF accept_client_proc
  <2> QED BY <1>0, <2>2, <2>3 DEF CountInv
<1>2. ASSUME NEW c \in Clients, accept_too_many(c) \/ accept_aborted(c)
      PROVE CountInv'
  <2>1. cl[c] = "queued" /\ Queued' = Queued \ {c} BY <1>2 DEF accept_too_many, accept_aborted, Queued
  <2>2. Cardinality(Queued') = Cardinality(Queued) - 1 BY <2>1, DequeueCount
  <2>3. cli_cnt' = cli_cnt /\ conns' = conns
    BY <1>2 DEF accept_too_many, accept_aborted
  <2> QED BY <1>0, <2>2, <2>3 DEF CountInv
<1>3. ASSUME NEW c \in Clients, NEW n \in LineBytes, SelectConnect(c, n) PROVE CountInv'
  <2>1. c \notin Queued /\ Queued' = Queued \cup {c} BY <1>3 DEF SelectConnect, connect, Queued
  <2>2. Cardinality(Queued') = Cardinality(Queued) + 1 BY <2>1, QueueFinite, FS_AddElement
  <2>3. /\ cli_cnt' = cli_cnt
        /\ conns' = IF conns < MaxConns THEN conns + 1 ELSE conns
    BY <1>3 DEF SelectConnect, connect, selectServer
  <2> QED BY <1>0, <2>2, <2>3 DEF CountInv
<1>4. ASSUME NEW c \in Clients, recv_closes(c) \/ SelectHangup(c) PROVE CountInv'
  <2>1. /\ \A d \in Clients : cl'[d] = "queued" => cl[d] = "queued"
        /\ cli_cnt' = cli_cnt /\ conns' = conns
    BY <1>4 DEF recv_closes, SelectHangup, selectServer
  <2>2. Queued' \subseteq Queued BY <2>1 DEF Queued
  <2>3. Cardinality(Queued') <= Cardinality(Queued) /\ Cardinality(Queued') \in Nat
    BY <2>2, QueueFinite, FS_Subset, FS_CardinalityType
  <2> QED BY <1>0, <2>1, <2>3 DEF CountInv
<1>5. CASE UNCHANGED <<cl, cli_cnt, conns>>
  BY <1>5 DEF CountInv, Queued
<1> QED
  BY <1>1, <1>2, <1>3, <1>4, <1>5
  DEF SelectNext, SelectStep, selectVars, selectServer, select_returns, Overrun, select_fails, recv_skips,
      recv_reads_padding, recv_overruns, accept_fails, recv_echoes, SendAgain

LEMMA LoopInductive ==
  ASSUME SelectTypeOK, LoopInv, [SelectNext]_selectVars
  PROVE  LoopInv'
<1> USE SizeAssumption DEF SelectTypeOK, LoopInv
<1>1. CASE select_returns
  BY <1>1 DEF select_returns
<1>2. ASSUME NEW c \in Clients,
             accept_client_proc(c) \/ accept_too_many(c) \/ accept_aborted(c)
      PROVE  LoopInv'
  <2>1. pc' = "wait"
    BY <1>2 DEF accept_client_proc, accept_too_many, accept_aborted
  <2> QED BY <2>1
<1>3. CASE recv_overruns
  BY <1>3 DEF recv_overruns
<1>4. CASE pc = "recv" /\ SelectTurn /\ cli_cnt' = cli_cnt
  BY <1>4 DEF SelectTurn
<1>5. CASE Overrun
  BY <1>5 DEF Overrun
<1>6. CASE select_fails
  BY <1>6 DEF select_fails
<1>7. CASE UNCHANGED <<pc, i, cli_cnt>>
  BY <1>7
<1>8. CASE accept_fails
  BY <1>8 DEF accept_fails
<1> QED
  BY <1>1, <1>2, <1>3, <1>4, <1>5, <1>6, <1>7, <1>8
  DEF SelectNext, SelectStep, selectVars, selectServer, recv_skips, recv_reads_padding,
      recv_echoes, recv_closes, SelectHangup, SendAgain, SelectConnect

(* The count and the loop together: conns has reached MaxConns, which is   *)
(* more than SIZE, or is at least cli_cnt.                                 *)
LEMMA CountedBeyond ==
  ASSUME SelectTypeOK, CountInv, LoopInv
  PROVE  BeyondNeedsAccepts
<1>1. cli_cnt <= conns \/ conns = MaxConns
  BY QueueFinite, CountAssumption DEF CountInv, SelectTypeOK
<1> QED BY <1>1, SizeAssumption, CountAssumption
        DEF BeyondNeedsAccepts, LoopInv, SelectTypeOK, Slots

LEMMA SelectInitInv == SelectInit => AllWatched /\ CountInv /\ LoopInv /\ EchoExact
<1> SUFFICES ASSUME SelectInit PROVE AllWatched /\ CountInv /\ LoopInv /\ EchoExact
  OBVIOUS
<1>1. Queued = {} BY DEF SelectInit, SocketsInit, Queued
<1> QED BY <1>1, FS_EmptySet, SizeAssumption
        DEF SelectInit, SocketsInit, AllWatched, CountInv, LoopInv, EchoExact

(* Neither loop leaves the array of slots before the server has accepted   *)
(* SIZE connections in all, and the one that fills the set not before one  *)
(* more; recv_client_msg reads one place beyond it at most.                *)
THEOREM BeyondNeedsAcceptsAlways == SelectSpec => []BeyondNeedsAccepts
<1>1. SelectInit => SelectTypeOK /\ CountInv /\ LoopInv
  BY InitTyped, SelectInitInv
<1>2. SelectTypeOK /\ CountInv /\ LoopInv /\ [SelectNext]_selectVars
        => (SelectTypeOK /\ CountInv /\ LoopInv)'
  BY NextTyped, CountInductive, LoopInductive
<1>3. SelectTypeOK /\ CountInv /\ LoopInv => BeyondNeedsAccepts
  BY CountedBeyond
<1> QED BY <1>1, <1>2, <1>3, PTL DEF SelectSpec

-----------------------------------------------------------------------------
LEMMA EchoInductive ==
  ASSUME SelectTypeOK, EchoExact, [SelectNext]_selectVars
  PROVE  EchoExact'
<1>1. CASE UNCHANGED last BY <1>1 DEF EchoExact
<1>2. ASSUME NEW c \in Clients, NEW n \in LineBytes, SelectConnect(c, n) PROVE EchoExact'
  BY <1>2 DEF SelectConnect, connect, EchoExact, SelectTypeOK
<1>3. ASSUME NEW c \in Clients, recv_echoes(c) PROVE EchoExact'
  <2>1. sent[c] \in LineBytes BY <1>3, LineAssumption DEF recv_echoes, LineBytes, SelectTypeOK
  <2>2. line' = FilledLine(line, c, sent[c]) BY <1>3 DEF recv_echoes
  <2>3. Echo(line') = 1 .. sent[c] /\ {line'[k] : k \in Echo(line')} \subseteq {c, NUL}
    <3>1. line \in [LineBytes -> Clients \cup {NUL}] BY DEF SelectTypeOK
    <3> DEFINE b == line
               n == sent[c]
    <3>2. b \in [LineBytes -> Clients \cup {NUL}] /\ n \in LineBytes BY <2>1, <3>1
    <3> HIDE DEF b, n
    <3>3. /\ Echo(FilledLine(b, c, n)) = 1 .. n
          /\ {FilledLine(b, c, n)[k] : k \in Echo(FilledLine(b, c, n))} \subseteq {c, NUL}
      BY <3>2, EchoOfFilled
    <3> QED BY <2>2, <3>3 DEF b, n
  <2>4. /\ last'[c].sent = sent[c]
        /\ last'[c].got = 1 .. sent[c]
        /\ last'[c].from \subseteq {c, NUL}
    BY <1>3, <2>3 DEF recv_echoes, SelectTypeOK
  <2>5. \A d \in Clients \ {c} : last'[d] = last[d] BY <1>3 DEF recv_echoes, SelectTypeOK
  <2> QED BY <2>4, <2>5 DEF EchoExact
<1> QED
  BY <1>1, <1>2, <1>3
  DEF SelectNext, SelectStep, selectVars, selectServer, select_returns, Overrun, select_fails, recv_skips,
      recv_reads_padding, recv_overruns, accept_too_many, accept_fails, accept_aborted,
      accept_client_proc, recv_closes, SelectHangup, SendAgain

(* Every client always gets back exactly what it sent, in whatever order   *)
(* the clients of a pass share the buffer.                                 *)
THEOREM EchoExactAlways == SelectSpec => []EchoExact
<1>1. SelectInit => SelectTypeOK /\ EchoExact
  BY InitTyped, SelectInitInv
<1>2. SelectTypeOK /\ EchoExact /\ [SelectNext]_selectVars => (SelectTypeOK /\ EchoExact)'
  BY NextTyped, EchoInductive
<1> QED BY <1>1, <1>2, PTL DEF SelectSpec

-------------------------------------------------------------------------------
(* The poll server. *)


(* The part of the type that the argument needs. *)
PollType ==
  /\ cl \in [Clients -> {"off", "queued", "open"}]
  /\ data \in [Clients -> BOOLEAN]
  /\ hang \in [Clients -> {"no", "eof", "rst"}]
  /\ clientfds \in [PollSlots -> Clients \cup {None}]
  /\ revents \in [PollSlots -> BOOLEAN]
  /\ maxi \in Nat /\ polled \in Nat /\ fresh \in Nat /\ i \in Nat
  /\ maxi <= OPEN_MAX - 1

Held(s) == clientfds[s] # None

(* Every occupied slot is among the maxi + 1 slots that poll() is given,   *)
(* although maxi never shrinks and slots are reused.                       *)
AllPolled == \A s \in PollSlots : Held(s) => s <= maxi

(* A slot holds an open connection, which is in no other slot. *)
SlotsOpen ==
  /\ \A s \in PollSlots : Held(s) => cl[clientfds[s]] = "open"
  /\ \A s, t \in PollSlots : Held(s) /\ clientfds[s] = clientfds[t] => s = t

(* In a round, revents of the slots to come is right but for the slot that *)
(* was filled in this round.                                               *)
ReventsRight ==
  \A s \in PollSlots :
    pc \in {"accept", "loop"} /\ s >= i /\ s # fresh /\ Held(s) /\ revents[s]
      => PollReadable(clientfds[s])

(* Before an accept, an empty slot that poll() was given has revents 0; so *)
(* the slot that is then filled has revents 0, or poll() never saw it.     *)
AcceptReady ==
  pc = "accept" =>
    /\ fresh = 0 /\ polled = maxi /\ i = 1
    /\ \A s \in PollSlots : s <= polled /\ ~Held(s) => ~revents[s]
FreshUnset == fresh \in PollSlots /\ fresh <= polled => ~revents[fresh]
InTable    == pc = "loop" => i \in 1 .. maxi

PollInv == PollType /\ AllPolled /\ SlotsOpen /\ ReventsRight /\ AcceptReady /\ FreshUnset /\ InTable

-----------------------------------------------------------------------------
(* A turn of the loop of handle_connection. *)
LEMMA TurnType ==
  ASSUME PollInv, pc = "loop", PollTurn, maxi' = maxi
  PROVE  /\ i' \in Nat /\ InTable' /\ pc' \in {"loop", "wait"}
         /\ pc' = "loop" => i' = i + 1
BY DEF PollInv, PollType, PollTurn, InTable

(* The clients and the tables as they were. *)
LEMMA PollQuiet ==
  ASSUME PollInv, UNCHANGED <<cl, data, hang, clientfds, revents, maxi, polled, fresh, i, pc>>
  PROVE  PollInv'
BY DEF PollInv, PollType, AllPolled, SlotsOpen, ReventsRight, AcceptReady, FreshUnset, InTable,
       Held, PollReadable

LEMMA PollStepInv == PollInv /\ [PollNext]_pollVars => PollInv'
<1> SUFFICES ASSUME PollInv, [PollNext]_pollVars PROVE PollInv'
  OBVIOUS
<1> USE OpenMaxAssumption DEF PollSlots
<1>0. PollType /\ AllPolled /\ SlotsOpen /\ ReventsRight /\ AcceptReady /\ FreshUnset /\ InTable
  BY DEF PollInv
<1>1. CASE poll_returns
  <2>1. PollType'
    <3>1. ASSUME NEW s \in PollSlots PROVE PollRevents(s) \in BOOLEAN
      <4>1. (s \in ReadySlots) \in BOOLEAN
        OBVIOUS
      <4>2. revents[s] \in BOOLEAN
        BY <1>0 DEF PollType
      <4> QED BY <4>1, <4>2, Zenon DEF PollRevents
    <3>2. revents' \in [PollSlots -> BOOLEAN]
      BY <1>1, <3>1, Zenon DEF poll_returns
    <3> QED BY <1>0, <1>1, <3>2 DEF poll_returns, PollType, pollClients
  <2>2. AllPolled' /\ SlotsOpen' /\ FreshUnset'
    BY <1>0, <1>1 DEF poll_returns, AllPolled, SlotsOpen, Held, FreshUnset, pollClients
  <2>3. \A s \in PollSlots : revents'[s] = IF s <= maxi THEN s \in ReadySlots ELSE revents[s]
    BY <1>1 DEF poll_returns, PollRevents
  <2>4. ReventsRight'
    BY <1>0, <1>1, <2>3 DEF poll_returns, ReventsRight, AllPolled, Held, ReadySlots, PollReadable, pollClients
  <2>5. AcceptReady'
    BY <1>0, <1>1, <2>3 DEF poll_returns, AcceptReady, Held, ReadySlots, pollClients
  <2>6. InTable'
    <3>1. pc' = "loop" => ReadySlots # {}
      BY <1>1 DEF poll_returns
    <3>2. ReadySlots # {} => maxi >= 1
      BY <1>0 DEF ReadySlots, PollType
    <3> QED BY <1>0, <1>1, <3>1, <3>2 DEF poll_returns, InTable, PollType
  <2> QED BY <2>1, <2>2, <2>4, <2>5, <2>6 DEF PollInv
<1>2. CASE PollExits \/ poll_interrupted \/ poll_too_many
  BY <1>0, <1>2 DEF PollExits, poll_interrupted, poll_too_many, pollClients, PollInv, PollType, AllPolled, SlotsOpen,
     ReventsRight, AcceptReady, FreshUnset, InTable, Held, PollReadable
<1>3. ASSUME NEW c \in Clients, poll_accept(c) PROVE PollInv'
  <2>1. PICK s \in PollSlots : /\ FirstFree(clientfds, s)
                               /\ clientfds' = [clientfds EXCEPT ![s] = c]
                               /\ maxi' = NewMaxi(s)
                               /\ fresh' = s
    BY <1>3 DEF poll_accept
  <2>2. clientfds[s] = None /\ c # None /\ cl[c] = "queued" /\ pc = "accept"
    BY <1>3, <2>1, ClientsAssumption DEF FirstFree, poll_accept
  <2>3. PollType'
    <3>1. maxi' \in Nat /\ maxi' <= OPEN_MAX - 1 /\ fresh' \in Nat
      BY <1>0, <2>1 DEF PollType, NewMaxi
    <3>2. /\ cl' \in [Clients -> {"off", "queued", "open"}]
          /\ clientfds' \in [PollSlots -> Clients \cup {None}]
          /\ UNCHANGED <<data, hang, revents, polled, i>>
      BY <1>0, <1>3, <2>1 DEF poll_accept, PollType
    <3> QED BY <1>0, <3>1, <3>2 DEF PollType
  <2>4. AllPolled'
    BY <1>0, <2>1 DEF PollType, AllPolled, Held, NewMaxi
  <2>5. SlotsOpen'
    BY <1>0, <1>3, <2>1, <2>2 DEF poll_accept, PollType, SlotsOpen, Held
  <2>6. ReventsRight'
    <3>1. UNCHANGED <<data, hang, revents, i>>
      BY <1>3 DEF poll_accept
    <3> SUFFICES ASSUME NEW t \in PollSlots, t >= i, t # s, Held(t)', revents[t]
                 PROVE  PollReadable(clientfds[t])'
      BY <2>1, <3>1 DEF ReventsRight
    <3>2. clientfds'[t] = clientfds[t] /\ Held(t) /\ t # fresh
      BY <1>0, <2>1, <2>2 DEF PollType, AcceptReady, Held
    <3>3. PollReadable(clientfds[t])
      BY <1>0, <2>2, <3>2 DEF ReventsRight
    <3> QED BY <3>1, <3>2, <3>3 DEF PollReadable
  <2>7. AcceptReady' /\ FreshUnset' /\ InTable'
    BY <1>0, <1>3, <2>1, <2>2 DEF poll_accept, PollType, AcceptReady, FreshUnset, InTable, Held, NewMaxi
  <2> QED BY <2>3, <2>4, <2>5, <2>6, <2>7 DEF PollInv
<1>4. CASE connection_skips
  <2>1. /\ pc = "loop" /\ PollTurn
        /\ UNCHANGED <<cl, data, hang, clientfds, revents, maxi, polled, fresh>>
    BY <1>4 DEF connection_skips, pollClients
  <2>2. i' \in Nat /\ InTable' /\ pc' \in {"loop", "wait"} /\ (pc' = "loop" => i' = i + 1)
    BY <2>1, TurnType
  <2> QED BY <1>0, <2>1, <2>2 DEF PollInv, PollType, AllPolled, SlotsOpen, ReventsRight, AcceptReady, FreshUnset,
             Held, PollReadable
<1>5. ASSUME NEW c \in Clients, connection_echoes(c) PROVE PollInv'
  <2>1. /\ pc = "loop" /\ PollTurn /\ clientfds[i] = c /\ c # None
        /\ \A d \in Clients : d # c => data'[d] = data[d] /\ hang'[d] = hang[d]
        /\ UNCHANGED <<cl, clientfds, revents, maxi, polled, fresh>>
    BY <1>0, <1>5, ClientsAssumption DEF connection_echoes, PollType
  <2>2. i' \in Nat /\ InTable' /\ pc' \in {"loop", "wait"} /\ (pc' = "loop" => i' = i + 1)
    BY <2>1, TurnType
  <2>3. i \in PollSlots
    BY <1>0, <2>1 DEF InTable, PollType
  <2>4. PollType'
    BY <1>0, <1>5, <2>1, <2>2 DEF connection_echoes, PollType
  <2>5. ReventsRight'
    <3> SUFFICES ASSUME NEW s \in PollSlots, pc' = "loop", s >= i', s # fresh, Held(s), revents[s]
                 PROVE  PollReadable(clientfds[s])'
      BY <2>1, <2>2 DEF ReventsRight, Held
    <3>1. s # i /\ clientfds[s] # c /\ clientfds[s] \in Clients
      BY <1>0, <2>1, <2>2, <2>3 DEF SlotsOpen, Held, PollType
    <3>2. PollReadable(clientfds[s])
      BY <1>0, <2>1, <2>2 DEF ReventsRight, PollType
    <3> QED BY <2>1, <3>1, <3>2 DEF PollReadable
  <2>6. AllPolled' /\ SlotsOpen' /\ AcceptReady' /\ FreshUnset'
    BY <1>0, <2>1, <2>2 DEF AllPolled, SlotsOpen, AcceptReady, FreshUnset, Held
  <2> QED BY <2>2, <2>4, <2>5, <2>6 DEF PollInv
<1>6. ASSUME NEW c \in Clients, connection_closes(c) PROVE PollInv'
  <2>1. /\ pc = "loop" /\ PollTurn /\ clientfds[i] = c /\ c # None
        /\ clientfds' = [clientfds EXCEPT ![i] = None]
        /\ cl' = [cl EXCEPT ![c] = "off"]
        /\ UNCHANGED <<data, hang, revents, maxi, polled, fresh>>
    BY <1>6, ClientsAssumption DEF connection_closes
  <2>2. i' \in Nat /\ InTable' /\ pc' \in {"loop", "wait"} /\ (pc' = "loop" => i' = i + 1)
    BY <2>1, TurnType
  <2>3. i \in PollSlots
    BY <1>0, <2>1 DEF InTable, PollType
  <2>4. PollType' /\ AllPolled'
    BY <1>0, <2>1, <2>2, <2>3 DEF PollType, AllPolled, Held
  <2>5. SlotsOpen'
    BY <1>0, <2>1, <2>3 DEF PollType, SlotsOpen, Held
  <2>6. ReventsRight' /\ AcceptReady' /\ FreshUnset'
    BY <1>0, <2>1, <2>2, <2>3 DEF PollType, ReventsRight, AcceptReady, FreshUnset, Held, PollReadable
  <2> QED BY <2>2, <2>4, <2>5, <2>6 DEF PollInv
<1>7. ASSUME NEW c \in Clients, PollConnect(c) PROVE PollInv'
  <2>1. /\ cl[c] = "off" /\ cl' = [cl EXCEPT ![c] = "queued"]
        /\ data' = [data EXCEPT ![c] = FALSE] /\ hang' = [hang EXCEPT ![c] = "no"]
        /\ UNCHANGED <<pc, i, clientfds, revents, maxi, fresh, polled>>
    BY <1>7 DEF PollConnect, connect, pollServer
  <2>2. \A s \in PollSlots : Held(s) => clientfds[s] # c /\ clientfds[s] \in Clients
    BY <1>0, <2>1 DEF SlotsOpen, Held, PollType
  <2>3. PollType' /\ AllPolled' /\ AcceptReady' /\ FreshUnset' /\ InTable'
    BY <1>0, <2>1 DEF PollType, AllPolled, AcceptReady, FreshUnset, InTable, Held
  <2>4. SlotsOpen' /\ ReventsRight'
    BY <1>0, <2>1, <2>2 DEF PollType, SlotsOpen, ReventsRight, Held, PollReadable
  <2> QED BY <2>3, <2>4 DEF PollInv
<1>8. ASSUME NEW c \in Clients,
             PollSend(c) \/ \E how \in {"eof", "rst"} : PollHangup(c, how)
      PROVE  PollInv'
  <2>1. /\ UNCHANGED <<cl, pc, i, clientfds, revents, maxi, fresh, polled>>
        /\ data' \in [Clients -> BOOLEAN] /\ hang' \in [Clients -> {"no", "eof", "rst"}]
        /\ \A d \in Clients : PollReadable(d) => PollReadable(d)'
    BY <1>0, <1>8 DEF PollSend, PollHangup, pollServer, PollType, PollReadable
  <2>2. PollType' /\ AllPolled' /\ SlotsOpen' /\ AcceptReady' /\ FreshUnset' /\ InTable'
    BY <1>0, <2>1 DEF PollType, AllPolled, SlotsOpen, AcceptReady, FreshUnset, InTable, Held
  <2>3. ReventsRight'
    <3> SUFFICES ASSUME NEW s \in PollSlots, pc \in {"accept", "loop"}, s >= i, s # fresh,
                        Held(s), revents[s]
                 PROVE  PollReadable(clientfds[s])'
      BY <2>1 DEF ReventsRight, Held
    <3>1. PollReadable(clientfds[s]) /\ clientfds[s] \in Clients
      BY <1>0 DEF ReventsRight, Held, PollType
    <3> QED BY <2>1, <3>1 DEF PollReadable
  <2> QED BY <2>2, <2>3 DEF PollInv
<1>9. CASE UNCHANGED pollVars
  BY <1>9, PollQuiet DEF pollVars
<1> QED BY <1>1, <1>2, <1>3, <1>4, <1>5, <1>6, <1>7, <1>8, <1>9 DEF PollNext, PollStep

LEMMA PollAlways == PollSpec => []PollInv
<1>1. PollInit => PollInv
  BY OpenMaxAssumption DEF PollInit, SocketsInit, PollInv, PollType, AllPolled, SlotsOpen, ReventsRight,
     AcceptReady, FreshUnset, InTable, Held, PollSlots
<1> QED BY <1>1, PollStepInv, PTL DEF PollSpec

-----------------------------------------------------------------------------
(* do_poll and handle_connection: no client in a slot is ever left out of  *)
(* the poll() call, although maxi never shrinks and slots are reused.      *)
THEOREM AllPolledAlways == PollSpec => []AllPolled
<1>1. PollInv => AllPolled
  BY DEF PollInv
<1> QED BY <1>1, PollAlways, PTL

LEMMA PollInvFresh == PollInv => WaitsOnlyOnFresh
<1> SUFFICES ASSUME PollInv, pc = "loop", Held(i), revents[i], ~PollReadable(clientfds[i])
             PROVE  i = fresh /\ fresh > polled
  BY DEF WaitsOnlyOnFresh, Held
<1>1. i \in PollSlots
  BY OpenMaxAssumption DEF PollInv, InTable, PollType, PollSlots
<1>2. i = fresh
  BY <1>1 DEF PollInv, ReventsRight, PollType
<1> QED BY <1>1, <1>2 DEF PollInv, FreshUnset, PollType, PollSlots

(* handle_connection: the server waits in read() at most for a client      *)
(* whose slot was filled in this round and never polled before.            *)
THEOREM WaitsOnlyOnFreshAlways == PollSpec => []WaitsOnlyOnFresh
BY PollInvFresh, PollAlways, PTL
===============================================================================
