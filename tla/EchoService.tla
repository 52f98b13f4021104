----------------------------- MODULE EchoService -----------------------------
(***************************************************************************)
(* What an echo server promises its clients, whatever tables, counts and   *)
(* buffers it has: a message of a client it serves is answered at most     *)
(* once, by the bytes of that message alone, and no connection is closed   *)
(* while its message is unanswered.                                        *)
(***************************************************************************)
EXTENDS Naturals

CONSTANTS Clients,
          Lengths,    \* of the messages, their NUL included
          Nul         \* the byte every message ends in

VARIABLES link,       \* each client: "closed", "waiting" or "served"
          asked,      \* length of its message that is under way, 0 if none
          answer      \* what came back: the places and the bytes there

vars == <<link, asked, answer>>

Nothing       == [got |-> {}, from |-> {}]
Message(c, n) == [got |-> 1 .. n, from |-> {IF k < n THEN c ELSE Nul : k \in 1 .. n}]

Init ==
  /\ link   = [c \in Clients |-> "closed"]
  /\ asked  = [c \in Clients |-> 0]
  /\ answer = [c \in Clients |-> Nothing]

(* A new connection begins with a message, before anybody serves it. *)
Connect(c) ==
  /\ link[c] = "closed"
  /\ link' = [link EXCEPT ![c] = "waiting"]
  /\ \E n \in Lengths : asked' = [asked EXCEPT ![c] = n]
  /\ answer' = [answer EXCEPT ![c] = Nothing]

Admit(c) ==
  /\ link[c] = "waiting"
  /\ link' = [link EXCEPT ![c] = "served"]
  /\ UNCHANGED <<asked, answer>>

(* The server drops the connection, or the client does not wait longer. *)
Refuse(c) ==
  /\ link[c] = "waiting"
  /\ link' = [link EXCEPT ![c] = "closed"]
  /\ UNCHANGED <<asked, answer>>

Answer(c) ==
  /\ link[c] = "served" /\ asked[c] # 0
  /\ answer' = [answer EXCEPT ![c] = Message(c, asked[c])]
  /\ asked' = [asked EXCEPT ![c] = 0]
  /\ UNCHANGED link

(* The client sends what it got. *)
AskAgain(c) ==
  /\ link[c] = "served" /\ asked[c] = 0
  /\ \E n \in Lengths : /\ answer[c] = Message(c, n)
                        /\ asked' = [asked EXCEPT ![c] = n]
  /\ UNCHANGED <<link, answer>>

Close(c) ==
  /\ link[c] = "served" /\ asked[c] = 0
  /\ link' = [link EXCEPT ![c] = "closed"]
  /\ UNCHANGED <<asked, answer>>

Next == \E c \in Clients : \/ Connect(c) \/ Admit(c) \/ Refuse(c)
                           \/ Answer(c) \/ AskAgain(c) \/ Close(c)

Spec == Init /\ [][Next]_vars
=============================================================================
