---------------------------- MODULE MessageQueue ----------------------------
(***************************************************************************)
(* Application/ipc/mqueue: `mqueue name -s' is a server that is told of a  *)
(* message by SIGUSR1, `mqueue name msg prio -e' sends one message and     *)
(* receives one in a thread.  The kernel's queue outlives both.  It tells  *)
(* the one process that is registered when a message arrives on an empty   *)
(* queue that nobody blocks on, and drops the registration.                *)
(***************************************************************************)
EXTENDS Naturals

CONSTANTS Echoers,    \* processes with -e
          Listeners,  \* processes with -s
          Nobody,     \* nobody is registered
          MaxMsg      \* mq_maxmsg of the queue

ASSUME MaxMsgAssumption == MaxMsg \in Nat \ {0}
ASSUME NobodyAssumption == Nobody \notin Listeners

VARIABLES
  queued,   \* messages in the queue
  armed,    \* who registered with mq_notify, or Nobody
  lpc,      \* where each listener stands
  told,     \* SIGUSR1 is pending or mqflag is set
  emain,    \* main() of each -e process
  ethread,  \* its thread handle_receivemsg
  backlog   \* history: since it was last empty, the queue held a message that
            \* announced nothing or whose listener was stopped

mqVars == <<queued, armed, lpc, told, emain, ethread, backlog>>

MqInit ==
  /\ queued = 0 /\ armed = Nobody /\ backlog = FALSE
  /\ lpc = [s \in Listeners |-> "off"]
  /\ told = [s \in Listeners |-> FALSE]
  /\ emain = [e \in Echoers |-> "off"]
  /\ ethread = [e \in Echoers |-> "none"]

(* One message leaves the queue. *)
Dequeue ==
  /\ queued > 0
  /\ queued' = queued - 1
  /\ backlog' = (backlog /\ queued > 1)

(* The start of a server: mq_notify fails with EBUSY when another process  *)
(* is registered, and the server exits.                                    *)
mq_notify_first(s) ==
  /\ lpc[s] = "off"
  /\ armed = Nobody
  /\ armed' = s
  /\ lpc' = [lpc EXCEPT ![s] = "sleep"]
  /\ told' = [told EXCEPT ![s] = FALSE]
  /\ backlog' = (backlog \/ queued > 0)
  /\ UNCHANGED <<queued, emain, ethread>>

(* sigsuspend returns, mqflag is cleared. *)
wakes(s, to) ==
  /\ lpc[s] = "sleep" /\ told[s]
  /\ told' = [told EXCEPT ![s] = FALSE]
  /\ lpc' = [lpc EXCEPT ![s] = to]
  /\ UNCHANGED <<queued, armed, emain, ethread, backlog>>

(* In the loop the result of mq_notify is not looked at. *)
mq_notify_again(s, from, to) ==
  /\ lpc[s] = from
  /\ armed' = IF armed = Nobody THEN s ELSE armed
  /\ lpc' = [lpc EXCEPT ![s] = to]
  /\ UNCHANGED <<queued, told, emain, ethread, backlog>>

(* mq_receive takes a message or blocks. *)
mq_receive(s, from, to) ==
  \/ /\ lpc[s] = from
     /\ Dequeue
     /\ lpc' = [lpc EXCEPT ![s] = to]
     /\ UNCHANGED <<armed, told, emain, ethread>>
  \/ /\ lpc[s] = from /\ queued = 0
     /\ lpc' = [lpc EXCEPT ![s] = "blocked"]
     /\ UNCHANGED <<queued, armed, told, emain, ethread, backlog>>

(* Mutant: the message is received before the registration is renewed. *)
ListenReceiveFirst(s) ==
  \/ wakes(s, "receive") \/ mq_receive(s, "receive", "notify")
  \/ mq_notify_again(s, "notify", "sleep")

listen(s) ==
  \/ wakes(s, "notify") \/ mq_notify_again(s, "notify", "receive")
  \/ mq_receive(s, "receive", "sleep")

(* The server's loop has no end: it is stopped by a signal, and the kernel *)
(* drops its registration.                                                 *)
StopListener(s) ==
  /\ lpc[s] # "off"
  /\ lpc' = [lpc EXCEPT ![s] = "off"]
  /\ armed' = IF armed = s THEN Nobody ELSE armed
  /\ told' = [told EXCEPT ![s] = FALSE]
  /\ backlog' = (backlog \/ queued > 0)
  /\ UNCHANGED <<queued, emain, ethread>>

echo_starts(e) ==
  /\ emain[e] = "off"
  /\ emain' = [emain EXCEPT ![e] = "send"]
  /\ ethread' = [ethread EXCEPT ![e] = "sleep"]
  /\ UNCHANGED <<queued, armed, lpc, told, backlog>>

(* mq_send: to a blocked receiver if there is one, else into the queue if  *)
(* it has room, announced if it was empty.                                 *)
mq_send(e) ==
  /\ emain[e] = "send"
  /\ emain' = [emain EXCEPT ![e] = "join"]
  /\ \/ \E s \in Listeners :
          /\ lpc[s] = "blocked"
          /\ lpc' = [lpc EXCEPT ![s] = "sleep"]
          /\ UNCHANGED <<queued, armed, told, backlog>>
     \/ /\ \A s \in Listeners : lpc[s] # "blocked"
        /\ queued < MaxMsg
        /\ queued' = queued + 1
        /\ backlog' = (backlog \/ queued > 0)
        /\ told' = [s \in Listeners |-> told[s] \/ (queued = 0 /\ armed = s)]
        /\ armed' = IF queued = 0 THEN Nobody ELSE armed
        /\ UNCHANGED lpc
  /\ UNCHANGED ethread

(* Mutant: the thread is started when the message has been sent. *)
ReceivesAfterSending(e) ==
  /\ ethread[e] = "sleep" /\ emain[e] = "join"
  /\ Dequeue
  /\ ethread' = [ethread EXCEPT ![e] = "done"]
  /\ UNCHANGED <<armed, lpc, told, emain>>

(* The thread opens the queue O_NONBLOCK: on an empty queue mq_receive     *)
(* fails and the thread ends the process.                                  *)
handle_receivemsg(e) ==
  /\ ethread[e] = "sleep"
  /\ \/ /\ Dequeue
        /\ ethread' = [ethread EXCEPT ![e] = "done"]
        /\ UNCHANGED emain
     \/ /\ queued = 0
        /\ ethread' = [ethread EXCEPT ![e] = "none"]
        /\ emain' = [emain EXCEPT ![e] = "off"]
        /\ UNCHANGED <<queued, backlog>>
  /\ UNCHANGED <<armed, lpc, told>>

pthread_join_echo(e) ==
  /\ emain[e] = "join" /\ ethread[e] = "done"
  /\ emain' = [emain EXCEPT ![e] = "off"]
  /\ ethread' = [ethread EXCEPT ![e] = "none"]
  /\ UNCHANGED <<queued, armed, lpc, told, backlog>>

MqNext ==
  \/ \E s \in Listeners : mq_notify_first(s) \/ listen(s) \/ StopListener(s)
  \/ \E e \in Echoers : echo_starts(e) \/ mq_send(e) \/ handle_receivemsg(e) \/ pthread_join_echo(e)

-----------------------------------------------------------------------------
MqTypeOK ==
  /\ queued \in 0 .. MaxMsg
  /\ armed \in Listeners \cup {Nobody}
  /\ lpc \in [Listeners -> {"off", "sleep", "notify", "receive", "blocked"}]
  /\ told \in [Listeners -> BOOLEAN]
  /\ emain \in [Echoers -> {"off", "send", "join"}]
  /\ ethread \in [Echoers -> {"none", "sleep", "done"}]
  /\ backlog \in BOOLEAN

Asleep(s) == lpc[s] = "sleep" /\ ~told[s]

(* Messages lie in the queue with every running server asleep only if one  *)
(* arrived on a queue that was not empty, or a server was stopped or       *)
(* started over it, or if no server is registered: renewing the            *)
(* registration before the receive leaves no gap of its own.  It holds     *)
(* again as soon as somebody empties the queue.                            *)
UnheardNeedsBacklog ==
  (queued > 0 /\ armed # Nobody /\ \A s \in Listeners : lpc[s] = "off" \/ Asleep(s)) => backlog
=============================================================================
